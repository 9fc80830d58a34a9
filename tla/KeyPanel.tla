------------------------------ MODULE KeyPanel ------------------------------
(***************************************************************************)
(* Two pages on which operators work on the keys.  The keys page lists     *)
(* them and opens a panel for one: its forms edit the key's limits and     *)
(* protocols, its dialogs rotate, disable and delete it, and it shows the  *)
(* links of the key.  The dashboard page shows a card per key and edits    *)
(* all the fields of a key in one form.                                    *)
(*                                                                         *)
(* Both show the statistics as they were at some time.  The keys page      *)
(* takes the answers in the order they come in, and finds the key of its   *)
(* panel in each of them again; the forms of the panel start over with     *)
(* every answer, the form of the card keeps what it was opened with.       *)
(*                                                                         *)
(* A key is its client in config.json and its row in user_meta; of a row   *)
(* the expiry and the protocols are told apart, and the quota, the number  *)
(* of connections and the texts, saved with them, are left out.  Enabling  *)
(* and disabling keys, and what rotating does to config.json, are          *)
(* KeyLifecycle's; presets and groups are Review's.  Of the devices of a   *)
(* key there are two addresses, of different providers: its first one,     *)
(* which is approved until it is replaced, and another one.                *)
(***************************************************************************)
EXTENDS Naturals, FiniteSets, Sequences, SequencesExt

CONSTANTS
  Emails,
  Listings,      \* the uuids the keys may have at first
  FirstExpiry,   \* FirstExpiry[e]: when key e expires at first ...
  FirstCap,      \* ... and FirstCap[e]: its limit of devices
  Tiers,         \* the sets of protocols operators choose
  Standard,      \* the tier of a key that has none
  Caps,          \* the limits of devices
  Days,          \* the days operators enter
  NoKey,         \* a panel or form that is not open, a call that is not under way
  MaxAsks,       \* bound on the calls for links under way when an operator adds one
  MaxTurns       \* bound on what operators type and save, and on what changes elsewhere

\* Numbers stand for uuids, in the order they are made.  A client that has neither id
\* nor password has the uuid 0.
Blank == 0

\* Time is in half-days: an even number is the midnight a day begins with, an odd one
\* the last second of a day.
Never == 0
NoDay == 0

ASSUME KeyPanelAssumption ==
  /\ IsFiniteSet(Emails) /\ Emails # {}
  /\ Listings \subseteq [Emails -> Nat]
  /\ FirstExpiry \in [Emails -> Nat] /\ FirstCap \in [Emails -> Nat \ {0}]
  /\ Standard \in Tiers
  /\ Caps \subseteq Nat \ {0} /\ Caps # {}
  /\ Days \subseteq Nat \ {NoDay}
  /\ {MaxAsks, MaxTurns} \subseteq Nat

VARIABLES
  uuid, active,  \* config.json: the uuid of each key, and the keys that are in it
  row,           \* user_meta, by uuid
  cap, device,   \* device_approvals.json: the limit of each key, and what it has of
                 \* an address other than its first one
  now,           \* the time
  late,          \* an answer of /api/stats on its way to the keys page
  stats,         \* the statistics the keys page shows
  atRiskOnly,    \* its filter
  selected,      \* the key of the panel, as the page last saw it
  modal,         \* the dialog that is open
  draft,         \* the fields of the panel's forms
  saving,        \* the second call of a form that is being saved
  links, asks,   \* whose links the panel shows; the calls for links under way
  editing,       \* the form of the dashboard page
  opened, entered, asked, minted, turns
     \* history: the key the panel was opened for, the days operators entered, how the
     \* last call for links fared, and what the bounds count

server == <<uuid, active, row, cap, device, now, minted>>
list   == <<stats, atRiskOnly>>
panel  == <<selected, modal, draft, saving, opened>>
detail == <<links, asks, asked>>
vars   == <<server, late, list, panel, detail, editing, entered, turns>>

----------------------------------------------------------------------------
(***************************************************************************)
(* Types.                                                                  *)
(***************************************************************************)
NoTier == "unset"
Modals == {"limits", "rotate", "delete"}   \* the dialogs of the panel
NewKey == {"new", "created"}               \* the form for a new key, or what it made

Meta   == [expiry : Nat, tier : Tiers \cup {NoTier}]
Device == [first : BOOLEAN, approved : {"no", "auto", "manual"},
           mark : {"none", "pending", "rejected"}]
Stat   == [email : Emails, uuid : Nat, meta : Meta, cap : Nat, device : Device,
           expired : BOOLEAN]
Draft  == [day : Nat, cap : Nat, tier : Tiers \cup {NoTier}]
Saving == [email : Emails, cap : Nat]
Card   == [uuid : Nat, day : Nat, tier : Tiers \cup {NoTier}]

ASSUME NoKeyIsNone == NoKey \notin Emails \cup Stat \cup Saving \cup Card

TypeOK ==
  /\ uuid \in [Emails -> Nat] /\ active \subseteq Emails
  /\ DOMAIN row \subseteq Nat /\ row \in [DOMAIN row -> Meta]
  /\ cap \in [Emails -> Nat] /\ device \in [Emails -> Device]
  /\ now \in Nat /\ minted \in Nat
  /\ late \in (SUBSET Stat) \cup {NoKey}
  /\ stats \subseteq Stat /\ atRiskOnly \in BOOLEAN
  /\ selected \in Stat \cup {NoKey} /\ opened \in Emails \cup {NoKey}
  /\ modal \in {"none"} \cup Modals \cup NewKey
  /\ draft \in Draft /\ saving \in Saving \cup {NoKey}
  /\ links \in Nat /\ asks \in Seq(Nat)
  /\ asked \in {"under way", "answered", "failed"}
  /\ editing \in Card \cup {NoKey}
  /\ entered \subseteq Nat /\ turns \in Nat

----------------------------------------------------------------------------
(***************************************************************************)
(* The server.                                                             *)
(***************************************************************************)
Row(expiry, tier) == [expiry |-> expiry, tier |-> tier]
NoRow == Row(Never, NoTier)

\* A row for uuids that have none reads like an empty one.
RowOf(u) == IF u \in DOMAIN row THEN row[u] ELSE NoRow

\* The other address has never been seen, or is approved on sight or by an operator,
\* and waits or is rejected besides.
Unseen == [first |-> TRUE, approved |-> "no", mark |-> "none"]
Count(d) == (IF d.first THEN 1 ELSE 0) + (IF d.approved = "no" THEN 0 ELSE 1)

\* evaluateDevicePolicy: the key connects from it.
Evaluated(d, limit) ==
  IF d.approved # "no" \/ d.mark = "rejected" THEN d
  ELSE IF Count(d) < limit THEN [d EXCEPT !.approved = "auto"]
  ELSE [d EXCEPT !.mark = "pending"]

\* approveDevice, which replaces the first address if it is told to.
AfterApprove(d, limit, replace) ==
  IF d.approved = "no" /\ Count(d) >= limit /\ ~replace THEN d
  ELSE [first    |-> d.first /\ (d.approved # "no" \/ Count(d) < limit),
        approved |-> "manual",
        mark     |-> "none"]

AfterReject(d) == [d EXCEPT !.mark = "rejected"]
AfterClear(d)  == [d EXCEPT !.approved = "no", !.mark = "none"]

\* What /api/stats answers of a key.
StatOf(e) == [email  |-> e,
              uuid   |-> uuid[e],
              meta   |-> RowOf(uuid[e]),
              cap    |-> cap[e],
              device |-> device[e],
              expired |-> RowOf(uuid[e]).expiry \in 1 .. now - 1]

Snapshot == {StatOf(e) : e \in active}

WithRow(u, r) == [v \in DOMAIN row \cup {u} |-> IF v = u THEN r ELSE row[v]]
WithoutRow(u) == [v \in DOMAIN row \ {u} |-> row[v]]

\* PUT /api/meta/{uuid}: whose key it is does not matter.
PutMeta(u, r) ==
  /\ row' = WithRow(u, r)
  /\ UNCHANGED <<uuid, active, cap, device, now, minted>>

\* POST /api/users/{email}/rotate: the row moves along.  A client without a uuid is
\* not given one, and a key that is not in config.json is not rotated.
RotateKey(e) ==
  IF e \in active /\ uuid[e] # Blank
  THEN LET u == uuid[e]  fresh == minted + 1 IN
       /\ minted' = fresh
       /\ uuid' = [uuid EXCEPT ![e] = fresh]
       /\ row' = IF u \in DOMAIN row
                 THEN [v \in (DOMAIN row \ {u}) \cup {fresh} |->
                         IF v = fresh THEN row[u] ELSE row[v]]
                 ELSE row
       /\ UNCHANGED <<active, cap, device, now>>
  ELSE UNCHANGED server

\* DELETE /api/users/{email}.
DeleteKey(e) ==
  IF e \in active
  THEN /\ active' = active \ {e}
       /\ row' = IF uuid[e] = Blank THEN row ELSE WithoutRow(uuid[e])
       /\ UNCHANGED <<uuid, cap, device, now, minted>>
  ELSE UNCHANGED server

\* POST /api/users/{email}/disable, for a key that is enabled.
DisableKey(e) ==
  /\ active' = active \ {e}
  /\ UNCHANGED <<uuid, row, cap, device, now, minted>>

\* POST /api/users: a name that is not in config.json gets a new uuid and row.
CreateKey(e, tier) ==
  /\ minted' = minted + 1
  /\ uuid' = [uuid EXCEPT ![e] = minted']
  /\ active' = active \cup {e}
  /\ row' = WithRow(minted', Row(Never, tier))
  /\ UNCHANGED <<cap, device, now>>

----------------------------------------------------------------------------
(***************************************************************************)
(* What the keys page makes of the statistics.                             *)
(***************************************************************************)
Status(s) == IF s.expired THEN "Expired" ELSE "Active"
Risk(s)   ==
  IF s.device.approved = "auto" /\ s.device.mark = "none" THEN "High"
  ELSE IF s.device.mark = "pending" THEN "Medium"
  ELSE "Low"

AtRisk(S) == {s \in S : s.expired \/ (Status(s) = "Active" /\ Risk(s) = "High")}

\* The rows a tab, a status and the filters leave, of those the group and the search
\* field do.
Filtered(found, tab, status) ==
  {s \in IF atRiskOnly THEN AtRisk(stats) ELSE stats :
     s.email \in found /\ Status(s) \in tab /\ Status(s) \in status}

StatusSets == {{"Active"}, {"Expired"}, {"Active", "Expired"}}

\* The day an <input type="date"> shows of a time, and the times the pages save for it:
\* the panel the date, which is the midnight it begins with, the card its last second.
DayOf(t)    == t \div 2
Midnight(d) == 2 * d
EndOfDayRounded(d) == IF d = NoDay THEN Never ELSE 2 * (d + 1)
EndOfDay(d)        == IF d = NoDay THEN Never ELSE 2 * d + 1

TierOf(s) == IF s.meta.tier = NoTier THEN Standard ELSE s.meta.tier

\* The fields of the panel's forms for a key.
FormOf(s) == [day |-> DayOf(s.meta.expiry), cap |-> s.cap, tier |-> TierOf(s)]

\* The form of the card, which has no field for the devices.
CardFormOf(s) == [uuid |-> s.uuid, day |-> DayOf(s.meta.expiry), tier |-> TierOf(s)]

\* The form for a new key takes the place of the panel.
InPanel == selected # NoKey /\ modal \notin NewKey

NoForm == [day |-> NoDay, cap |-> 0, tier |-> NoTier]
Dirty  == draft.tier # TierOf(selected)

----------------------------------------------------------------------------
Init ==
  /\ uuid \in Listings
  /\ active = Emails
  /\ row = [u \in {uuid[e] : e \in Emails} \ {Blank} |->
              Row(FirstExpiry[CHOOSE e \in Emails : uuid[e] = u], Standard)]
  /\ cap = FirstCap
  /\ device = [e \in Emails |-> Unseen]
  /\ now = 1
  /\ minted = Cardinality(Emails)
  /\ late = NoKey
  /\ stats = Snapshot /\ atRiskOnly = FALSE
  /\ selected = NoKey /\ modal = "none" /\ draft = NoForm /\ saving = NoKey
  /\ links = Blank /\ asks = <<>>
  /\ editing = NoKey
  /\ opened = NoKey /\ asked = "answered"
  /\ entered = {DayOf(FirstExpiry[e]) : e \in Emails}
  /\ turns = 0

Turn == turns < MaxTurns /\ turns' = turns + 1

PanelKept == UNCHANGED <<late, list, panel, detail>>

----------------------------------------------------------------------------
(***************************************************************************)
(* Elsewhere: keys are used, expire, are disabled and enabled, by the      *)
(* enforcement of limits and by other operators.                           *)
(***************************************************************************)
Elsewhere == Turn /\ PanelKept /\ UNCHANGED <<editing, entered>>

Connect(e) ==
  /\ Elsewhere
  /\ e \in active
  /\ device' = [device EXCEPT ![e] = Evaluated(@, cap[e])]
  /\ UNCHANGED <<uuid, active, row, cap, now, minted>>

Tick ==
  /\ Elsewhere
  /\ now' = now + 2
  /\ UNCHANGED <<uuid, active, row, cap, device, minted>>

DisabledElsewhere(e) == Elsewhere /\ e \in active /\ DisableKey(e)

EnabledElsewhere(e) ==
  /\ Elsewhere
  /\ e \notin active /\ uuid[e] \in DOMAIN row
  /\ active' = active \cup {e}
  /\ UNCHANGED <<uuid, row, cap, device, now, minted>>

RotatedElsewhere(e) == Elsewhere /\ e \in active /\ RotateKey(e)

----------------------------------------------------------------------------
(***************************************************************************)
(* The keys page: its list.                                                *)
(***************************************************************************)

\* A call for the links of u.  A call that is made again is the one that counts.
Ask(u) == asks' = Append(asks, u) /\ asked' = "under way"

\* The effect of VpnUsersPanel on a change of the key's uuid.
NoReload(s) == UNCHANGED <<asks, asked>>

ReloadLinks(s) ==
  IF ~InPanel \/ s.uuid = selected.uuid THEN UNCHANGED <<asks, asked>> ELSE Ask(s.uuid)

\* ... and on every new statistics of it.
KeptDraft(s)  == [FormOf(s) EXCEPT !.day = draft.day]
ResetDraft(s) == FormOf(s)

ResolvedByUuid(S, s) == {t \in S : t.uuid = s.uuid}

\* The selected key in new statistics.
Resolved(S, s) == {t \in S : t.email = s.email}

\* An answer to load.  A key that is in it no more keeps its panel as it is; the filter
\* for keys at risk is dropped when none is.
Show(S) ==
  /\ stats' = S
  /\ atRiskOnly' = (atRiskOnly /\ AtRisk(S) # {})
  /\ IF selected # NoKey /\ Resolved(S, selected) # {}
     THEN LET s == CHOOSE t \in Resolved(S, selected) : TRUE IN
          /\ selected' = s
          /\ draft' = ResetDraft(s)
          /\ ReloadLinks(s)
     ELSE UNCHANGED <<selected, draft, asks, asked>>
  /\ UNCHANGED <<server, modal, saving, opened, links, editing, entered, turns>>

\* load: answers are shown in the order they come.  Calls that end before another is
\* made are one step; one may be under way while others are made, and be overtaken.
LoadStats == Show(Snapshot) /\ UNCHANGED late

DelayStats ==
  /\ late = NoKey
  /\ late' = Snapshot
  /\ UNCHANGED <<server, list, panel, detail, editing, entered, turns>>

ReceiveLate ==
  /\ late # NoKey
  /\ late' = NoKey
  /\ Show(late)

ToggleAtRisk ==
  /\ modal \notin Modals
  /\ AtRisk(stats) # {}
  /\ atRiskOnly' = ~atRiskOnly
  /\ UNCHANGED <<server, late, stats, panel, detail, editing, entered, turns>>

\* A click on a row opens its panel, or shows it in the panel that is open: what that
\* shows of another key stays until it is overwritten.  The form for a new key stays in
\* front of it.
Select(found, tab, status) ==
  \E s \in Filtered(found, tab, status) :
    /\ modal \notin Modals /\ saving = NoKey
    /\ Len(asks) < MaxAsks
    /\ selected # NoKey => selected.email # s.email
    /\ selected' = s /\ opened' = s.email
    /\ draft' = ResetDraft(s)
    /\ IF selected = NoKey /\ modal = "none" THEN Ask(s.uuid) /\ links' = Blank
                                             ELSE ReloadLinks(s) /\ UNCHANGED links
    /\ UNCHANGED <<server, late, list, modal, saving, editing, entered, turns>>

\* The panel is gone, with its dialog, and the answers for it do not matter.
Closed ==
  /\ selected' = NoKey /\ opened' = NoKey /\ draft' = NoForm /\ modal' = "none"
  /\ links' = Blank /\ asks' = <<>> /\ asked' = "answered"

Close ==
  /\ selected # NoKey /\ modal = "none" /\ saving = NoKey
  /\ Closed
  /\ UNCHANGED <<server, late, list, saving, editing, entered, turns>>

\* The button "new key".
OpenNewKey ==
  /\ modal = "none" /\ saving = NoKey
  /\ selected' = NoKey /\ opened' = NoKey /\ draft' = NoForm /\ modal' = "new"
  /\ links' = Blank /\ asks' = <<>> /\ asked' = "answered"
  /\ UNCHANGED <<server, late, list, saving, editing, entered, turns>>

\* A name that exists is refused, and the form stays.
CreateNewKey(e, t) ==
  /\ Turn
  /\ modal = "new"
  /\ e \notin active
  /\ CreateKey(e, t)
  /\ modal' = "created"
  /\ UNCHANGED <<late, list, selected, draft, saving, opened, detail, editing, entered>>

\* The panel of the key that was selected behind the form, if any, appears and asks.
CloseNewKey ==
  /\ modal \in NewKey
  /\ modal' = "none"
  /\ IF selected = NoKey THEN UNCHANGED <<asks, asked>> ELSE Ask(selected.uuid)
  /\ UNCHANGED <<server, late, list, selected, draft, saving, opened, links, editing,
                 entered, turns>>

----------------------------------------------------------------------------
(***************************************************************************)
(* The panel: links.                                                       *)
(***************************************************************************)

\* GET /api/keys/{uuid}/uris answers for a client of config.json.
Served(u) == u # Blank /\ \E e \in active : uuid[e] = u

\* An answer is shown whoever's it is, and a failure is not.
ReceiveLinks(i) ==
  /\ i \in DOMAIN asks
  /\ links' = IF Served(asks[i]) THEN asks[i] ELSE links
  /\ asks' = RemoveAt(asks, i)
  /\ asked' = CASE asked = "under way" /\ i = Len(asks) ->
                     IF Served(asks[i]) THEN "answered" ELSE "failed"
                [] asked = "under way" /\ i < Len(asks) -> asked
                [] asked # "under way" -> IF Served(asks[i]) THEN "failed" ELSE asked
  /\ UNCHANGED <<server, late, list, panel, editing, entered, turns>>

LoseLinks(i) ==
  /\ Turn
  /\ i \in DOMAIN asks
  /\ asks' = RemoveAt(asks, i)
  /\ asked' = IF asked = "under way" /\ i = Len(asks) THEN "failed" ELSE asked
  /\ UNCHANGED <<server, late, list, panel, links, editing, entered>>

----------------------------------------------------------------------------
(***************************************************************************)
(* The panel: forms and dialogs.                                           *)
(***************************************************************************)
\* Buttons of the overview, the banner of a key at risk and the tabs open a dialog.
Open(m) ==
  /\ selected # NoKey /\ modal = "none" /\ saving = NoKey
  /\ modal' = m
  /\ UNCHANGED <<server, late, list, selected, draft, saving, opened, detail, editing,
                 entered, turns>>

CloseModal ==
  /\ modal \in Modals /\ saving = NoKey
  /\ modal' = "none"
  /\ UNCHANGED <<server, late, list, selected, draft, saving, opened, detail, editing,
                 entered, turns>>

TypeLimits(d, c) ==
  /\ Turn
  /\ modal = "limits"
  /\ draft' = [draft EXCEPT !.day = d, !.cap = c]
  /\ entered' = entered \cup {d}
  /\ UNCHANGED <<server, late, list, selected, modal, saving, opened, detail, editing>>

\* handleSaveLimits: a call for the row of the uuid as the page has it, ...
SaveLimits ==
  /\ Turn
  /\ modal = "limits" /\ saving = NoKey
  /\ selected.uuid # Blank
  /\ PutMeta(selected.uuid, [RowOf(selected.uuid) EXCEPT !.expiry = Midnight(draft.day)])
  /\ saving' = [email |-> selected.email, cap |-> draft.cap]
  /\ UNCHANGED <<late, list, selected, modal, draft, opened, detail, editing, entered>>

\* ... and one for the limit of devices as the form had it, which may fail.
SaveDeviceLimit ==
  /\ saving # NoKey
  /\ cap' = [cap EXCEPT ![saving.email] = saving.cap]
  /\ saving' = NoKey
  /\ modal' = "none"
  /\ UNCHANGED <<uuid, active, row, device, now, minted, late, list, selected, draft,
                 opened, detail, editing, entered, turns>>

LoseDeviceLimit ==
  /\ Turn
  /\ saving # NoKey
  /\ saving' = NoKey
  /\ UNCHANGED <<server, late, list, selected, modal, draft, opened, detail, editing, entered>>

\* toggleProto and applyPreset.
ChooseProtocols(t) ==
  /\ Turn
  /\ selected # NoKey /\ modal = "none"
  /\ draft.tier # t
  /\ draft' = [draft EXCEPT !.tier = t]
  /\ UNCHANGED <<server, late, list, selected, modal, saving, opened, detail, editing, entered>>

SaveProtocols ==
  /\ Turn
  /\ selected # NoKey /\ modal = "none"
  /\ Dirty
  /\ Len(asks) < MaxAsks
  /\ IF selected.uuid # Blank
     THEN PutMeta(selected.uuid, [RowOf(selected.uuid) EXCEPT !.tier = draft.tier])
     ELSE UNCHANGED server
  /\ Ask(selected.uuid)
  /\ UNCHANGED <<late, list, panel, links, editing, entered>>

\* doRotate: the links are asked for with the uuid the key had.
Rotate ==
  /\ Turn
  /\ modal = "rotate"
  /\ Len(asks) < MaxAsks
  /\ RotateKey(selected.email)
  /\ modal' = "none"
  /\ Ask(selected.uuid)
  /\ UNCHANGED <<late, list, selected, draft, saving, opened, links, editing, entered>>

Delete ==
  /\ Turn
  /\ modal = "delete"
  /\ DeleteKey(selected.email)
  /\ Closed
  /\ UNCHANGED <<late, list, saving, editing, entered>>

\* handleDisable: the panel stays, of a key that /api/stats names no more.
Disable ==
  /\ Turn
  /\ selected # NoKey /\ modal = "none"
  /\ DisableKey(selected.email)
  /\ UNCHANGED <<late, list, panel, detail, editing, entered>>

\* The buttons of an address, in the banner of a key at risk and in the list of devices.
InBanner(s)  == IF Status(s) = "Active" /\ Risk(s) = "High" THEN {"approve", "reject"} ELSE {}
InDevices(d) == (IF d.mark = "pending" THEN {"approve", "reject"} ELSE {})
                \cup (IF d.mark = "rejected" THEN {"approve"} ELSE {})
                \cup (IF d.approved # "no" THEN {"clear"} ELSE {})

DeviceCall(e, action, replace) ==
  /\ device' = [device EXCEPT ![e] =
                  CASE action = "approve" -> AfterApprove(@, cap[e], replace)
                    [] action = "reject"  -> AfterReject(@)
                    [] action = "clear"   -> AfterClear(@)]
  /\ UNCHANGED <<uuid, active, row, cap, now, minted>>

\* handleDeviceAction: the panel never replaces an address.
DeviceAction ==
  /\ Turn
  /\ selected # NoKey /\ modal = "none"
  /\ \E action \in InBanner(selected) \cup InDevices(selected.device) :
       DeviceCall(selected.email, action, FALSE)
  /\ UNCHANGED <<late, list, panel, detail, editing, entered>>

----------------------------------------------------------------------------
(***************************************************************************)
(* The dashboard page.  That its statistics may be old when a form is      *)
(* opened is the same as the form being open for longer.                   *)
(***************************************************************************)
OpenCard(s) ==
  /\ editing = NoKey
  /\ editing' = CardFormOf(s)
  /\ PanelKept
  /\ UNCHANGED <<server, entered, turns>>

TypeCard(d, t) ==
  /\ Turn
  /\ editing # NoKey
  /\ editing' = [editing EXCEPT !.day = d, !.tier = t]
  /\ entered' = entered \cup {d}
  /\ PanelKept
  /\ UNCHANGED server

\* save: all the fields are written, those that nobody changed too.
SaveCard ==
  /\ Turn
  /\ editing # NoKey
  /\ editing.uuid # Blank
  /\ PutMeta(editing.uuid, Row(EndOfDay(editing.day), editing.tier))
  /\ PanelKept
  /\ UNCHANGED <<editing, entered>>

CloseCard ==
  /\ editing # NoKey
  /\ editing' = NoKey
  /\ PanelKept
  /\ UNCHANGED <<server, entered, turns>>

DeleteCard(s) ==
  /\ Turn
  /\ editing = NoKey
  /\ DeleteKey(s.email)
  /\ PanelKept
  /\ UNCHANGED <<editing, entered>>

\* The list of devices of a card: at the limit, as the card shows it, an address is
\* approved in the place of another one.
InCard(d) == (IF d.mark = "pending" THEN {"approve", "reject"} ELSE {})
             \cup (IF d.mark = "rejected" \/ d.approved # "no" THEN {"clear"} ELSE {})

CardDeviceAction(s) ==
  /\ Turn
  /\ editing = NoKey
  /\ \E action \in InCard(s.device) : DeviceCall(s.email, action, Count(s.device) >= s.cap)
  /\ PanelKept
  /\ UNCHANGED <<editing, entered>>

CreateCard(e, t) ==
  /\ Turn
  /\ editing = NoKey
  /\ e \notin active
  /\ CreateKey(e, t)
  /\ PanelKept
  /\ UNCHANGED <<editing, entered>>

----------------------------------------------------------------------------
Outside ==
  \/ Tick
  \/ \E e \in Emails :
       \/ Connect(e)
       \/ DisabledElsewhere(e) \/ EnabledElsewhere(e) \/ RotatedElsewhere(e)

ListStep ==
  \/ LoadStats \/ DelayStats \/ ReceiveLate
  \/ ToggleAtRisk
  \/ \E found \in SUBSET Emails, tab, status \in StatusSets : Select(found, tab, status)

PanelStep ==
  \/ Close \/ CloseModal
  \/ OpenNewKey \/ CloseNewKey
  \/ \E e \in Emails, t \in Tiers : CreateNewKey(e, t)
  \/ \E m \in Modals : Open(m)
  \/ \E i \in DOMAIN asks : ReceiveLinks(i) \/ LoseLinks(i)
  \/ \E d \in Days \cup {NoDay}, c \in Caps : TypeLimits(d, c)
  \/ SaveLimits \/ SaveDeviceLimit \/ LoseDeviceLimit
  \/ \E t \in Tiers : ChooseProtocols(t)
  \/ SaveProtocols \/ Rotate \/ Delete \/ Disable \/ DeviceAction

CardStep ==
  \/ SaveCard \/ CloseCard
  \/ \E s \in Snapshot : OpenCard(s) \/ DeleteCard(s) \/ CardDeviceAction(s)
  \/ \E d \in Days \cup {NoDay}, t \in Tiers : TypeCard(d, t)
  \/ \E e \in Emails, t \in Tiers : CreateCard(e, t)

Next == Outside \/ ListStep \/ PanelStep \/ CardStep
Spec == Init /\ [][Next]_vars

\* The page polls, and every call that is under way ends.
FairSpec ==
  /\ Spec
  /\ WF_vars(LoadStats) /\ WF_vars(ReceiveLate)
  /\ WF_vars(SaveDeviceLimit)
  /\ WF_vars(ReceiveLinks(1))

----------------------------------------------------------------------------
(***************************************************************************)
(* Properties                                                              *)
(***************************************************************************)

\* The two pages save different times for a day and show a day for either: whatever is
\* saved, untouched or not, from whichever page, keys expire on days that were entered.
DaysWereEntered ==
  LET ok == entered \cup {NoDay} IN
  /\ \A u \in DOMAIN row : DayOf(row[u].expiry) \in ok
  /\ draft.day \in ok
  /\ editing # NoKey => editing.day \in ok

\* The links under a key are its own, or are being asked for, unless the call for them
\* failed or an older one was answered after it.
LinksFollow ==
  InPanel =>
    \/ links = selected.uuid
    \/ asked = "under way" /\ Last(asks) = selected.uuid
    \/ asked = "failed"

\* New statistics never turn a panel, with its dialogs, to another key.
PanelKeepsItsKey == selected # NoKey => selected.email = opened

\* Whatever the order of the answers: when changes stop, the page and the panel of a key
\* that is still listed come to show what the server has, and so do the panel's forms:
\* saving one that was left alone writes no value from before.
PanelSettles ==
  <>[](/\ stats = Snapshot
       /\ selected # NoKey /\ opened \in active =>
            selected = StatOf(opened) /\ draft = FormOf(selected))

=============================================================================
