--------------------------- MODULE KeyPanelProofs ---------------------------
(***************************************************************************)
(* Theorems about KeyPanel, for any keys, protocols, days and calls.       *)
(***************************************************************************)
EXTENDS KeyPanel, FiniteSetTheorems, SequenceTheorems, TLAPS

----------------------------------------------------------------------------
(***************************************************************************)
(* Types, by the part of the system.                                       *)
(***************************************************************************)
ServerOK ==
  /\ uuid \in [Emails -> Nat] /\ active \subseteq Emails
  /\ DOMAIN row \subseteq Nat /\ row \in [DOMAIN row -> Meta]
  /\ cap \in [Emails -> Nat] /\ device \in [Emails -> Device]
  /\ now \in Nat /\ minted \in Nat

ListOK == late \in (SUBSET Stat) \cup {NoKey} /\ stats \subseteq Stat /\ atRiskOnly \in BOOLEAN

PanelOK ==
  /\ selected \in Stat \cup {NoKey} /\ opened \in Emails \cup {NoKey}
  /\ modal \in {"none"} \cup Modals \cup NewKey
  /\ draft \in Draft /\ saving \in Saving \cup {NoKey}

DetailOK == links \in Nat /\ asks \in Seq(Nat) /\ asked \in {"under way", "answered", "failed"}

RestOK == editing \in Card \cup {NoKey} /\ entered \subseteq Nat /\ turns \in Nat

LEMMA TypeParts == TypeOK <=> ServerOK /\ ListOK /\ PanelOK /\ DetailOK /\ RestOK
  BY DEF TypeOK, ServerOK, ListOK, PanelOK, DetailOK, RestOK

\* A dialog is of a panel, and limits are saved while their dialog is open.
Dialogs ==
  /\ modal \in Modals => selected # NoKey
  /\ saving # NoKey => modal = "limits"

Base == ServerOK /\ ListOK /\ PanelOK /\ DetailOK /\ RestOK /\ Dialogs

----------------------------------------------------------------------------
(***************************************************************************)
(* What the operators return.                                              *)
(***************************************************************************)
LEMMA Constants ==
  /\ Emails # {} /\ Cardinality(Emails) \in Nat
  /\ NoKey \notin Emails /\ NoKey \notin Stat /\ NoKey \notin Saving /\ NoKey \notin Card
  /\ Standard \in Tiers
  BY KeyPanelAssumption, NoKeyIsNone, FS_CardinalityType

LEMMA DayType == \A t \in Nat : DayOf(t) \in Nat
  BY SMT DEF DayOf

\* Either page saves a time of the day that was entered.
LEMMA DaySaved ==
  ASSUME NEW d \in Nat
  PROVE  /\ Midnight(d) \in Nat /\ DayOf(Midnight(d)) = d
         /\ EndOfDay(d) \in Nat /\ DayOf(EndOfDay(d)) = d
  BY SMT DEF DayOf, Midnight, EndOfDay, NoDay, Never

LEMMA NeverDay == Never \in Nat /\ NoDay \in Nat /\ DayOf(Never) = NoDay
  BY SMT DEF DayOf, NoDay, Never

LEMMA RowType == ASSUME NEW t \in Nat, NEW tier \in Tiers \cup {NoTier} PROVE Row(t, tier) \in Meta
  BY DEF Row, Meta

LEMMA RowOfType == ASSUME ServerOK, NEW u PROVE RowOf(u) \in Meta
<1>1. NoRow \in Meta
  BY NeverDay, RowType DEF NoRow
<1>2. QED
  BY <1>1 DEF ServerOK, RowOf

LEMMA StatType ==
  ASSUME ServerOK
  PROVE  Snapshot \subseteq Stat /\ \A e \in Emails : StatOf(e) \in Stat
<1>1. ASSUME NEW e \in Emails PROVE StatOf(e) \in Stat
  <2>1. RowOf(uuid[e]) \in Meta
    BY RowOfType
  <2>2. QED
    BY <2>1 DEF StatOf, Stat, ServerOK
<1>2. QED
  BY <1>1 DEF Snapshot, ServerOK

LEMMA FormType ==
  ASSUME NEW s \in Stat
  PROVE  FormOf(s) \in Draft /\ CardFormOf(s) \in Card /\ TierOf(s) \in Tiers \cup {NoTier}
<1>1. s.meta \in Meta /\ s.cap \in Nat /\ s.uuid \in Nat
  BY DEF Stat
<1>2. s.meta.expiry \in Nat /\ s.meta.tier \in Tiers \cup {NoTier}
  BY <1>1 DEF Meta
<1>3. TierOf(s) \in Tiers \cup {NoTier} /\ DayOf(s.meta.expiry) \in Nat
  BY <1>2, DayType, Constants DEF TierOf
<1>4. QED
  BY <1>1, <1>3 DEF FormOf, CardFormOf, Draft, Card

LEMMA NoFormType == NoForm \in Draft
  BY NeverDay DEF NoForm, Draft, NoDay

LEMMA Positions ==
  ASSUME NEW n \in Nat, NEW i \in 1 .. n
  PROVE  /\ i - 1 \in Nat /\ i + 1 \in Int /\ n \in Int
         /\ (IF 1 <= i - 1 THEN (i - 1) - 1 + 1 ELSE 0) = i - 1
         /\ (IF i + 1 <= n THEN n - (i + 1) + 1 ELSE 0) = n - i
         /\ (i + 1) + (n - i) - 1 = n /\ (i - 1) + (n - i) = n - 1
         /\ i < n => /\ n - i \in 1 .. (n - (i + 1) + 1)
                    /\ n - 1 \in 1 .. (i - 1) + (n - i)
                    /\ ~(n - 1 <= i - 1) /\ (n - 1) - (i - 1) = n - i
  OBVIOUS

\* A call that ends leaves the order of the others.
LEMMA RemoveCall ==
  ASSUME NEW s \in Seq(Nat), NEW i \in DOMAIN s
  PROVE  /\ RemoveAt(s, i) \in Seq(Nat)
         /\ i < Len(s) => RemoveAt(s, i) # <<>> /\ Last(RemoveAt(s, i)) = Last(s)
<1>1. i \in 1 .. Len(s) /\ Len(s) \in Nat /\ \A j \in 1 .. Len(s) : s[j] \in Nat
  BY LenProperties
<1>2. ASSUME NEW n \in Nat, n = Len(s), i < n
      PROVE  RemoveAt(s, i) # <<>> /\ Last(RemoveAt(s, i)) = s[n]
  <2>1. i \in 1 .. n
    BY <1>1, <1>2
  <2>2. PICK a, b : a = SubSeq(s, 1, i - 1) /\ b = SubSeq(s, i + 1, n)
    OBVIOUS
  <2>3. a \in Seq(Nat) /\ Len(a) = i - 1
    <3>1. PICK k \in Int : k = i - 1
      BY <2>1
    <3>2. \A j \in 1 .. k : s[j] \in Nat
      BY <1>1, <1>2, <3>1
    <3>3. a \in Seq(Nat) /\ Len(a) = IF 1 <= k THEN k - 1 + 1 ELSE 0
      BY <2>2, <3>1, <3>2, SubSeqProperties
    <3>4. QED
      BY <2>1, <3>1, <3>3
  <2>4. b \in Seq(Nat) /\ Len(b) = n - i /\ b[n - i] = s[n]
    <3>1. \A j \in i + 1 .. n : s[j] \in Nat
      BY <1>1, <1>2
    <3>2. /\ b \in Seq(Nat) /\ Len(b) = IF i + 1 <= n THEN n - (i + 1) + 1 ELSE 0
          /\ \A j \in 1 .. n - (i + 1) + 1 : b[j] = s[(i + 1) + j - 1]
      BY <2>1, <2>2, <3>1, Positions, SubSeqProperties
    <3>3. QED
      BY <1>2, <2>1, <3>2, Positions
  <2>5. /\ a \o b \in Seq(Nat) /\ Len(a \o b) = n - 1
        /\ (a \o b)[n - 1] = b[n - i]
    <3>1. /\ a \o b \in Seq(Nat) /\ Len(a \o b) = Len(a) + Len(b)
          /\ \A j \in 1 .. Len(a) + Len(b) :
               (a \o b)[j] = IF j <= Len(a) THEN a[j] ELSE b[j - Len(a)]
      BY <2>3, <2>4, ConcatProperties
    <3>2. PICK k \in Int : k = n - 1
      BY <2>1
    <3>3. k \in 1 .. Len(a) + Len(b) /\ ~(k <= Len(a)) /\ k - Len(a) = n - i
      BY <1>2, <2>1, <2>3, <2>4, <3>2
    <3>4. (a \o b)[k] = b[n - i]
      BY <3>1, <3>3
    <3>5. Len(a) + Len(b) = n - 1
      BY <2>1, <2>3, <2>4
    <3>6. QED
      BY <3>1, <3>2, <3>4, <3>5
  <2>6. RemoveAt(s, i) = a \o b
    BY <1>2, <2>2 DEF RemoveAt
  <2>7. a \o b # <<>>
    BY <1>2, <2>1, <2>5, Positions, EmptySeq
  <2>8. QED
    BY <2>4, <2>5, <2>6, <2>7 DEF Last
<1>3. RemoveAt(s, i) \in Seq(Nat)
  <2>1. SubSeq(s, 1, i - 1) \in Seq(Nat)
    BY <1>1, Positions, SubSeqProperties
  <2>2. SubSeq(s, i + 1, Len(s)) \in Seq(Nat)
    BY <1>1, Positions, SubSeqProperties
  <2>3. QED
    BY <2>1, <2>2, ConcatProperties DEF RemoveAt
<1>4. QED
  BY <1>1, <1>2, <1>3 DEF Last

LEMMA AddCall ==
  ASSUME NEW s \in Seq(Nat), NEW u \in Nat
  PROVE  Append(s, u) \in Seq(Nat) /\ Append(s, u) # <<>> /\ Last(Append(s, u)) = u
  BY AppendProperties, LenProperties DEF Last

----------------------------------------------------------------------------
(***************************************************************************)
(* What calls do to the server.                                            *)
(***************************************************************************)
LEMMA PutMetaType ==
  ASSUME ServerOK, NEW u \in Nat, NEW r \in Meta, PutMeta(u, r)
  PROVE  ServerOK'
  BY DEF ServerOK, PutMeta, WithRow

LEMMA RotateType ==
  ASSUME ServerOK, NEW e \in Emails, RotateKey(e)
  PROVE  ServerOK'
<1>1. CASE UNCHANGED server
  BY <1>1 DEF ServerOK, server
<1>2. CASE e \in active /\ uuid[e] # Blank
  <2>1. /\ minted' = minted + 1 /\ uuid' = [uuid EXCEPT ![e] = minted + 1]
        /\ row' = IF uuid[e] \in DOMAIN row
                  THEN [v \in (DOMAIN row \ {uuid[e]}) \cup {minted + 1} |->
                          IF v = minted + 1 THEN row[uuid[e]] ELSE row[v]]
                  ELSE row
        /\ UNCHANGED <<active, cap, device, now>>
    BY <1>2 DEF RotateKey
  <2>2. minted + 1 \in Nat
    BY DEF ServerOK
  <2>3. uuid' \in [Emails -> Nat] /\ minted' \in Nat
    BY <2>1, <2>2 DEF ServerOK
  <2>4. DOMAIN row' \subseteq Nat /\ row' \in [DOMAIN row' -> Meta]
    BY <2>1, <2>2 DEF ServerOK
  <2>5. QED
    BY <2>1, <2>3, <2>4 DEF ServerOK
<1>3. QED
  BY <1>1, <1>2 DEF RotateKey

LEMMA DeleteType ==
  ASSUME ServerOK, NEW e \in Emails, DeleteKey(e)
  PROVE  ServerOK'
  BY DEF ServerOK, DeleteKey, WithoutRow, server

LEMMA DisableType ==
  ASSUME ServerOK, NEW e, DisableKey(e)
  PROVE  ServerOK'
  BY DEF ServerOK, DisableKey

LEMMA CreateType ==
  ASSUME ServerOK, NEW e \in Emails, NEW t \in Tiers, CreateKey(e, t)
  PROVE  ServerOK'
<1>1. Row(Never, t) \in Meta /\ minted + 1 \in Nat
  BY NeverDay, RowType DEF ServerOK
<1>2. QED
  BY <1>1 DEF ServerOK, CreateKey, WithRow

LEMMA DeviceType ==
  ASSUME NEW d \in Device, NEW limit, NEW replace
  PROVE  /\ Evaluated(d, limit) \in Device /\ AfterApprove(d, limit, replace) \in Device
         /\ AfterReject(d) \in Device /\ AfterClear(d) \in Device
<1>1. AfterReject(d) \in Device /\ AfterClear(d) \in Device
  BY DEF Device, AfterReject, AfterClear
<1>2. Evaluated(d, limit) \in Device
  BY DEF Device, Evaluated
<1>3. (d.first /\ (d.approved # "no" \/ Count(d) < limit)) \in BOOLEAN
  OBVIOUS
<1>4. AfterApprove(d, limit, replace) \in Device
  BY <1>3 DEF Device, AfterApprove
<1>5. QED
  BY <1>1, <1>2, <1>4

LEMMA DeviceCallType ==
  ASSUME ServerOK, NEW e \in Emails, NEW action \in {"approve", "reject", "clear"},
         NEW replace, DeviceCall(e, action, replace)
  PROVE  ServerOK'
<1>1. device[e] \in Device
  BY DEF ServerOK
<1>2. (CASE action = "approve" -> AfterApprove(device[e], cap[e], replace)
         [] action = "reject"  -> AfterReject(device[e])
         [] action = "clear"   -> AfterClear(device[e])) \in Device
  BY <1>1, DeviceType
<1>3. QED
  BY <1>2 DEF ServerOK, DeviceCall

LEMMA SameServer == ASSUME ServerOK, UNCHANGED server PROVE ServerOK'
  BY DEF ServerOK, server

----------------------------------------------------------------------------
(***************************************************************************)
(* Types are kept, and dialogs stay with their panel.                      *)
(***************************************************************************)
LEMMA TurnType == ASSUME RestOK, Turn PROVE turns' \in Nat
  BY DEF RestOK, Turn

LEMMA PanelKeptType ==
  ASSUME Base, PanelKept
  PROVE  ListOK' /\ PanelOK' /\ DetailOK' /\ Dialogs'
  BY DEF Base, PanelKept, ListOK, PanelOK, DetailOK, Dialogs, list, panel, detail

LEMMA AskType ==
  ASSUME DetailOK, links' \in Nat, NEW u \in Nat, Ask(u) \/ UNCHANGED <<asks, asked>>
  PROVE  DetailOK'
  BY AddCall DEF DetailOK, Ask

LEMMA ClosedType == ASSUME Closed PROVE DetailOK'
  BY EmptySeq DEF Closed, DetailOK, Blank

LEMMA SelectedType ==
  ASSUME PanelOK, selected # NoKey
  PROVE  selected \in Stat /\ selected.email \in Emails /\ selected.uuid \in Nat
  BY DEF PanelOK, Stat

LEMMA InitBase == ASSUME Init PROVE Base
<1>1. ServerOK
  <2>1. uuid \in [Emails -> Nat]
    BY KeyPanelAssumption DEF Init
  <2>2. ASSUME NEW u \in DOMAIN row PROVE u \in Nat /\ row[u] \in Meta
    <3>1. PICK e \in Emails : uuid[e] = u
      BY DEF Init
    <3>2. FirstExpiry[CHOOSE i \in Emails : uuid[i] = u] \in Nat
      BY <3>1, KeyPanelAssumption
    <3>3. u \in Nat /\ row[u] = Row(FirstExpiry[CHOOSE i \in Emails : uuid[i] = u], Standard)
      BY <2>1, <3>1 DEF Init
    <3>4. QED
      BY <3>2, <3>3, RowType, Constants
  <2>3. DOMAIN row \subseteq Nat /\ row \in [DOMAIN row -> Meta]
    BY <2>2 DEF Init
  <2>4. cap \in [Emails -> Nat] /\ device \in [Emails -> Device]
    BY KeyPanelAssumption DEF Init, Device, Unseen
  <2>5. QED
    BY <2>1, <2>3, <2>4, Constants DEF Init, ServerOK
<1>2. ListOK
  BY <1>1, StatType DEF Init, ListOK
<1>3. PanelOK /\ DetailOK /\ Dialogs
  BY NoFormType, EmptySeq DEF Init, PanelOK, DetailOK, Dialogs, Blank, Modals
<1>4. RestOK
  <2>1. \A e \in Emails : DayOf(FirstExpiry[e]) \in Nat
    BY KeyPanelAssumption, DayType
  <2>2. QED
    BY <2>1 DEF Init, RestOK
<1>5. QED
  BY <1>1, <1>2, <1>3, <1>4 DEF Base

LEMMA OutsideBase == ASSUME Base, Outside PROVE Base'
<1>1. Elsewhere
  BY DEF Outside, Tick, Connect, DisabledElsewhere, EnabledElsewhere, RotatedElsewhere
<1>2. ListOK' /\ PanelOK' /\ DetailOK' /\ Dialogs'
  BY <1>1, PanelKeptType DEF Elsewhere
<1>3. RestOK'
  BY <1>1, TurnType DEF Elsewhere, RestOK, Base
<1>4. ServerOK'
  <2>0. ServerOK
    BY DEF Base
  <2>1. CASE Tick
    BY <2>0, <2>1 DEF Tick, ServerOK
  <2>2. ASSUME NEW e \in Emails, Connect(e) PROVE ServerOK'
    <3>1. device[e] \in Device
      BY <2>0 DEF ServerOK
    <3>2. Evaluated(device[e], cap[e]) \in Device
      BY <3>1, DeviceType
    <3>3. QED
      BY <2>0, <2>2, <3>2 DEF Connect, ServerOK
  <2>3. ASSUME NEW e \in Emails, DisabledElsewhere(e) PROVE ServerOK'
    BY <2>0, <2>3, DisableType DEF DisabledElsewhere
  <2>4. ASSUME NEW e \in Emails, EnabledElsewhere(e) PROVE ServerOK'
    BY <2>0, <2>4 DEF EnabledElsewhere, ServerOK
  <2>5. ASSUME NEW e \in Emails, RotatedElsewhere(e) PROVE ServerOK'
    BY <2>0, <2>5, RotateType DEF RotatedElsewhere
  <2>6. QED
    BY <2>1, <2>2, <2>3, <2>4, <2>5 DEF Outside
<1>5. QED
  BY <1>2, <1>3, <1>4 DEF Base

\* The key an answer shows in the panel is one of that name.
LEMMA ResolvedOne ==
  ASSUME NEW S \in SUBSET Stat, Resolved(S, selected) # {}
  PROVE  LET s == CHOOSE t \in Resolved(S, selected) : TRUE
         IN  s \in S /\ s \in Stat /\ s # NoKey /\ s.email = selected.email /\ s.uuid \in Nat
<1> DEFINE s == CHOOSE t \in Resolved(S, selected) : TRUE
<1>1. s \in Resolved(S, selected)
  OBVIOUS
<1>2. s \in S /\ s.email = selected.email
  BY <1>1 DEF Resolved
<1>3. s.uuid \in Nat
  BY <1>2 DEF Stat
<1>4. QED
  BY <1>2, <1>3, Constants

LEMMA ShowBase ==
  ASSUME Base, NEW S \in SUBSET Stat, late' \in (SUBSET Stat) \cup {NoKey}, Show(S)
  PROVE  Base'
<1> DEFINE s == CHOOSE t \in Resolved(S, selected) : TRUE
<1>1. ServerOK' /\ RestOK'
  BY SameServer DEF Base, Show, RestOK
<1>2. ListOK'
  BY DEF Base, ListOK, Show
<1>3. /\ links' = links /\ modal' = modal /\ saving' = saving /\ opened' = opened
      /\ links' \in Nat
  BY DEF Show, Base, DetailOK
<1>4. CASE selected # NoKey /\ Resolved(S, selected) # {}
  <2>1. selected' = s /\ draft' = FormOf(s) /\ (Ask(s.uuid) \/ UNCHANGED <<asks, asked>>)
    BY <1>4 DEF Show, ResetDraft, ReloadLinks
  <2>2. s \in Stat /\ s # NoKey /\ s.uuid \in Nat
    BY <1>4, ResolvedOne
  <2>3. PanelOK' /\ Dialogs'
    BY <1>3, <2>1, <2>2, FormType DEF Base, PanelOK, Dialogs
  <2>4. DetailOK'
    BY <1>3, <2>1, <2>2, AskType DEF Base
  <2>5. QED
    BY <1>1, <1>2, <2>3, <2>4 DEF Base
<1>5. CASE ~(selected # NoKey /\ Resolved(S, selected) # {})
  <2>1. UNCHANGED <<selected, draft, asks, asked>>
    BY <1>5 DEF Show
  <2>2. QED
    BY <1>1, <1>2, <1>3, <2>1 DEF Base, PanelOK, Dialogs, DetailOK
<1>6. QED
  BY <1>4, <1>5

LEMMA ListBase == ASSUME Base, ListStep PROVE Base'
<1>0. ServerOK /\ ListOK /\ PanelOK /\ DetailOK /\ RestOK /\ Dialogs
  BY DEF Base
<1>1. CASE LoadStats
  <2>1. Snapshot \in SUBSET Stat
    BY <1>0, StatType
  <2>2. QED
    BY <1>0, <1>1, <2>1, ShowBase DEF LoadStats, ListOK
<1>2. CASE DelayStats
  BY <1>0, <1>2, StatType, SameServer
     DEF DelayStats, Base, ListOK, PanelOK, DetailOK, RestOK, Dialogs, list, panel, detail
<1>3. CASE ReceiveLate
  BY <1>0, <1>3, ShowBase DEF ReceiveLate, ListOK
<1>4. CASE ToggleAtRisk
  BY <1>0, <1>4, SameServer
     DEF ToggleAtRisk, Base, ListOK, PanelOK, DetailOK, RestOK, Dialogs, panel, detail
<1>5. ASSUME NEW found \in SUBSET Emails, NEW tab \in StatusSets, NEW status \in StatusSets,
             Select(found, tab, status)
      PROVE  Base'
  <2>1. PICK s \in Filtered(found, tab, status) :
          /\ modal \notin Modals /\ saving = NoKey
          /\ selected' = s /\ opened' = s.email
          /\ draft' = ResetDraft(s)
          /\ links' = links \/ links' = Blank
          /\ Ask(s.uuid) \/ UNCHANGED <<asks, asked>>
          /\ UNCHANGED <<server, late, list, modal, saving, editing, entered, turns>>
    BY <1>5 DEF Select, ReloadLinks
  <2>2. s \in Stat /\ s.uuid \in Nat /\ s.email \in Emails
    BY <1>0 DEF Filtered, AtRisk, ListOK, Stat
  <2>3. DetailOK'
    <3>1. links \in Nat /\ Blank \in Nat
      BY <1>0 DEF DetailOK, Blank
    <3>2. links' \in Nat
      BY <2>1, <3>1
    <3>3. QED
      BY <1>0, <2>1, <2>2, <3>2, AskType
  <2>4. PanelOK' /\ Dialogs'
    BY <1>0, <2>1, <2>2, FormType DEF PanelOK, Dialogs, ResetDraft
  <2>5. ServerOK' /\ ListOK' /\ RestOK'
    BY <1>0, <2>1, SameServer DEF ListOK, RestOK, list
  <2>6. QED
    BY <2>3, <2>4, <2>5 DEF Base
<1>6. QED
  BY <1>1, <1>2, <1>3, <1>4, <1>5 DEF ListStep

LEMMA DraftType ==
  ASSUME NEW d \in Draft
  PROVE  /\ \A t \in Tiers : [d EXCEPT !.tier = t] \in Draft
         /\ \A n, c \in Nat : [d EXCEPT !.day = n, !.cap = c] \in Draft
         /\ d.day \in Nat /\ d.cap \in Nat /\ d.tier \in Tiers \cup {NoTier}
  BY DEF Draft

LEMMA MetaType ==
  ASSUME NEW m \in Meta
  PROVE  /\ \A n \in Nat : [m EXCEPT !.expiry = n] \in Meta
         /\ \A t \in Tiers \cup {NoTier} : [m EXCEPT !.tier = t] \in Meta
  BY DEF Meta

\* What steps of the panel do to the server.
LEMMA PanelServer == ASSUME Base, PanelStep PROVE ServerOK'
<1>0. ServerOK /\ PanelOK /\ Dialogs
  BY DEF Base
<1>1. CASE \/ Close \/ CloseModal \/ OpenNewKey \/ CloseNewKey
           \/ \E m \in Modals : Open(m)
           \/ \E i \in DOMAIN asks : ReceiveLinks(i) \/ LoseLinks(i)
           \/ \E d \in Days \cup {NoDay}, c \in Caps : TypeLimits(d, c)
           \/ LoseDeviceLimit \/ \E t \in Tiers : ChooseProtocols(t)
  <2>1. UNCHANGED server
    BY <1>1 DEF Close, CloseModal, OpenNewKey, CloseNewKey, Open, ReceiveLinks, LoseLinks,
                TypeLimits, LoseDeviceLimit, ChooseProtocols
  <2>2. QED
    BY <1>0, <2>1, SameServer
<1>2. ASSUME NEW e \in Emails, NEW t \in Tiers, CreateNewKey(e, t) PROVE ServerOK'
  BY <1>0, <1>2, CreateType DEF CreateNewKey
<1>3. CASE SaveLimits
  <2>1. selected # NoKey
    BY <1>0, <1>3 DEF SaveLimits, Dialogs, Modals
  <2>2. selected.uuid \in Nat /\ RowOf(selected.uuid) \in Meta /\ draft.day \in Nat
    BY <1>0, <2>1, SelectedType, RowOfType, DraftType DEF PanelOK
  <2>3. [RowOf(selected.uuid) EXCEPT !.expiry = Midnight(draft.day)] \in Meta
    BY <2>2, DaySaved, MetaType
  <2>4. QED
    BY <1>0, <1>3, <2>2, <2>3, PutMetaType DEF SaveLimits
<1>4. CASE SaveDeviceLimit
  <2>1. saving.email \in Emails /\ saving.cap \in Nat
    BY <1>0, <1>4 DEF SaveDeviceLimit, PanelOK, Saving
  <2>2. QED
    BY <1>0, <1>4, <2>1 DEF SaveDeviceLimit, ServerOK
<1>5. CASE SaveProtocols
  <2>1. selected.uuid \in Nat /\ RowOf(selected.uuid) \in Meta /\ draft.tier \in Tiers \cup {NoTier}
    BY <1>0, <1>5, SelectedType, RowOfType, DraftType DEF SaveProtocols, PanelOK
  <2>2. [RowOf(selected.uuid) EXCEPT !.tier = draft.tier] \in Meta
    BY <2>1, MetaType
  <2>3. CASE UNCHANGED server
    BY <1>0, <2>3, SameServer
  <2>4. CASE PutMeta(selected.uuid, [RowOf(selected.uuid) EXCEPT !.tier = draft.tier])
    BY <1>0, <2>1, <2>2, <2>4, PutMetaType
  <2>5. QED
    BY <1>5, <2>3, <2>4 DEF SaveProtocols
<1>6. CASE Rotate \/ Delete \/ Disable
  <2>1. selected # NoKey
    BY <1>0, <1>6 DEF Rotate, Delete, Disable, Dialogs, Modals
  <2>2. QED
    BY <1>0, <1>6, <2>1, SelectedType, RotateType, DeleteType, DisableType
       DEF Rotate, Delete, Disable
<1>7. CASE DeviceAction
  <2>1. PICK action \in InBanner(selected) \cup InDevices(selected.device) :
          DeviceCall(selected.email, action, FALSE)
    BY <1>7 DEF DeviceAction
  <2>2. action \in {"approve", "reject", "clear"}
    BY <2>1 DEF InBanner, InDevices
  <2>3. selected.email \in Emails
    BY <1>0, <1>7, SelectedType DEF DeviceAction
  <2>4. QED
    BY <1>0, <2>1, <2>2, <2>3, DeviceCallType
<1>8. QED
  BY <1>1, <1>2, <1>3, <1>4, <1>5, <1>6, <1>7 DEF PanelStep

\* What they do to the page.
LEMMA PanelPage == ASSUME Base, PanelStep PROVE ListOK' /\ PanelOK' /\ DetailOK' /\ RestOK' /\ Dialogs'
<1>0. ListOK /\ PanelOK /\ DetailOK /\ RestOK /\ Dialogs
  BY DEF Base
<1>1. UNCHANGED <<late, list, editing>>
  BY DEF PanelStep, Close, CloseModal, OpenNewKey, CloseNewKey, CreateNewKey, Open, ReceiveLinks,
         LoseLinks, TypeLimits, SaveLimits, SaveDeviceLimit, LoseDeviceLimit, ChooseProtocols,
         SaveProtocols, Rotate, Delete, Disable, DeviceAction
<1>2. ListOK'
  BY <1>0, <1>1 DEF ListOK, list
<1>3. turns' \in Nat
  BY <1>0, TurnType
     DEF PanelStep, Close, CloseModal, OpenNewKey, CloseNewKey, CreateNewKey, Open, ReceiveLinks,
         LoseLinks, TypeLimits, SaveLimits, SaveDeviceLimit, LoseDeviceLimit, ChooseProtocols,
         SaveProtocols, Rotate, Delete, Disable, DeviceAction, RestOK
<1>4. ASSUME UNCHANGED entered, PanelOK', DetailOK', Dialogs'
      PROVE  ListOK' /\ PanelOK' /\ DetailOK' /\ RestOK' /\ Dialogs'
  BY <1>0, <1>1, <1>2, <1>3, <1>4 DEF RestOK
<1>5. CASE Close \/ OpenNewKey \/ Delete
  <2>1. /\ selected' = NoKey /\ opened' = NoKey /\ draft' = NoForm /\ modal' \in {"none", "new"}
        /\ links' = Blank /\ asks' = <<>> /\ asked' = "answered" /\ saving' = saving
        /\ UNCHANGED entered
    BY <1>5 DEF Close, OpenNewKey, Delete, Closed
  <2>2. saving = NoKey
    BY <1>0, <1>5 DEF Close, OpenNewKey, Delete, Dialogs
  <2>3. PanelOK' /\ DetailOK' /\ Dialogs'
    BY <2>1, <2>2, NoFormType, EmptySeq DEF PanelOK, DetailOK, Dialogs, NewKey, Modals, Blank
  <2>4. QED
    BY <1>4, <2>1, <2>3
<1>6. CASE CloseModal \/ (\E m \in Modals : Open(m)) \/ CloseNewKey
           \/ \E e \in Emails, t \in Tiers : CreateNewKey(e, t)
  <2>1. /\ UNCHANGED <<selected, draft, saving, opened, links, entered>>
        /\ modal' \in {"none", "created"} \/ (modal' \in Modals /\ selected # NoKey)
        /\ saving = NoKey
    BY <1>0, <1>6 DEF CloseModal, Open, CloseNewKey, CreateNewKey, detail, Dialogs, NewKey
  <2>2. UNCHANGED <<asks, asked>> \/ (selected # NoKey /\ Ask(selected.uuid))
    BY <1>6 DEF CloseModal, Open, CloseNewKey, CreateNewKey, detail
  <2>3. PanelOK' /\ Dialogs'
    BY <1>0, <2>1 DEF PanelOK, Dialogs, NewKey, Modals
  <2>4. DetailOK'
    <3>1. links' \in Nat
      BY <1>0, <2>1 DEF DetailOK
    <3>2. CASE UNCHANGED <<asks, asked>>
      BY <1>0, <3>1, <3>2 DEF DetailOK
    <3>3. CASE selected # NoKey /\ Ask(selected.uuid)
      BY <1>0, <3>1, <3>3, SelectedType, AskType
    <3>4. QED
      BY <2>2, <3>2, <3>3
  <2>5. QED
    BY <1>4, <2>1, <2>3, <2>4
<1>7. ASSUME NEW i \in DOMAIN asks, ReceiveLinks(i) \/ LoseLinks(i)
      PROVE  ListOK' /\ PanelOK' /\ DetailOK' /\ RestOK' /\ Dialogs'
  <2>1. asks \in Seq(Nat) /\ links \in Nat
    BY <1>0 DEF DetailOK
  <2>2. asks[i] \in Nat /\ RemoveAt(asks, i) \in Seq(Nat)
    BY <1>7, <2>1, RemoveCall, ElementOfSeq, LenProperties
  <2>3. asks' \in Seq(Nat) /\ links' \in Nat
    BY <1>7, <2>1, <2>2 DEF ReceiveLinks, LoseLinks
  <2>4. asked' \in {"under way", "answered", "failed"}
    <3>1. i <= Len(asks) /\ i \in Nat /\ Len(asks) \in Nat
      BY <1>7, <2>1, LenProperties
    <3>2. i = Len(asks) \/ i < Len(asks)
      BY <3>1
    <3>3. asked \in {"under way", "answered", "failed"}
      BY <1>0 DEF DetailOK
    <3>4. CASE ReceiveLinks(i)
      BY <3>2, <3>3, <3>4 DEF ReceiveLinks
    <3>5. CASE LoseLinks(i)
      BY <3>3, <3>5 DEF LoseLinks
    <3>6. QED
      BY <1>7, <3>4, <3>5
  <2>5. UNCHANGED <<entered, panel>>
    BY <1>7 DEF ReceiveLinks, LoseLinks
  <2>6. PanelOK' /\ DetailOK' /\ Dialogs'
    BY <1>0, <2>3, <2>4, <2>5 DEF PanelOK, DetailOK, Dialogs, panel
  <2>7. QED
    BY <1>4, <2>5, <2>6
<1>8. ASSUME NEW d \in Days \cup {NoDay}, NEW c \in Caps, TypeLimits(d, c)
      PROVE  ListOK' /\ PanelOK' /\ DetailOK' /\ RestOK' /\ Dialogs'
  <2>1. d \in Nat /\ c \in Nat
    BY KeyPanelAssumption DEF NoDay
  <2>2. draft' \in Draft
    BY <1>0, <1>8, <2>1, DraftType DEF TypeLimits, PanelOK
  <2>3. PanelOK' /\ DetailOK' /\ Dialogs'
    BY <1>0, <1>8, <2>2 DEF TypeLimits, PanelOK, DetailOK, Dialogs, detail
  <2>4. RestOK'
    BY <1>0, <1>1, <1>3, <1>8, <2>1 DEF TypeLimits, RestOK
  <2>5. QED
    BY <1>2, <2>3, <2>4
<1>9. CASE SaveLimits
  <2>1. selected # NoKey
    BY <1>0, <1>9 DEF SaveLimits, Dialogs, Modals
  <2>2. saving' \in Saving
    BY <1>0, <1>9, <2>1, SelectedType, DraftType DEF SaveLimits, PanelOK, Saving
  <2>3. PanelOK' /\ DetailOK' /\ Dialogs' /\ UNCHANGED entered
    BY <1>0, <1>9, <2>1, <2>2 DEF SaveLimits, PanelOK, DetailOK, Dialogs, detail
  <2>4. QED
    BY <1>4, <2>3
<1>10. CASE SaveDeviceLimit \/ LoseDeviceLimit
  <2>1. /\ saving' = NoKey /\ modal' \in {"none", modal}
        /\ UNCHANGED <<selected, draft, opened, detail, entered>>
    BY <1>10 DEF SaveDeviceLimit, LoseDeviceLimit
  <2>2. PanelOK' /\ DetailOK' /\ Dialogs'
    BY <1>0, <2>1 DEF PanelOK, DetailOK, Dialogs, detail, Modals
  <2>3. QED
    BY <1>4, <2>1, <2>2
<1>11. ASSUME NEW t \in Tiers, ChooseProtocols(t)
       PROVE  ListOK' /\ PanelOK' /\ DetailOK' /\ RestOK' /\ Dialogs'
  <2>1. draft' \in Draft
    BY <1>0, <1>11, DraftType DEF ChooseProtocols, PanelOK
  <2>2. PanelOK' /\ DetailOK' /\ Dialogs' /\ UNCHANGED entered
    BY <1>0, <1>11, <2>1 DEF ChooseProtocols, PanelOK, DetailOK, Dialogs, detail
  <2>3. QED
    BY <1>4, <2>2
<1>12. CASE SaveProtocols \/ Rotate
  <2>1. /\ UNCHANGED <<selected, draft, saving, opened, links, entered>>
        /\ modal' \in {modal, "none"} /\ Ask(selected.uuid)
        /\ selected # NoKey /\ (saving # NoKey => modal' = modal)
    BY <1>0, <1>12 DEF SaveProtocols, Rotate, panel, Dialogs, Modals
  <2>2. PanelOK' /\ Dialogs'
    BY <1>0, <2>1 DEF PanelOK, Dialogs, Modals
  <2>3. DetailOK'
    <3>1. links' \in Nat
      BY <1>0, <2>1 DEF DetailOK
    <3>2. QED
      BY <1>0, <2>1, <3>1, SelectedType, AskType
  <2>4. QED
    BY <1>4, <2>1, <2>2, <2>3
<1>13. CASE Disable \/ DeviceAction
  <2>1. UNCHANGED <<panel, detail, entered>>
    BY <1>13 DEF Disable, DeviceAction
  <2>2. PanelOK' /\ DetailOK' /\ Dialogs'
    BY <1>0, <2>1 DEF PanelOK, DetailOK, Dialogs, panel, detail
  <2>3. QED
    BY <1>4, <2>1, <2>2
<1>14. QED
  BY <1>5, <1>6, <1>7, <1>8, <1>9, <1>10, <1>11, <1>12, <1>13 DEF PanelStep

LEMMA CardBase == ASSUME Base, CardStep PROVE Base'
<1>0. ServerOK /\ RestOK
  BY DEF Base
<1>1. PanelKept
  BY DEF CardStep, OpenCard, TypeCard, SaveCard, CloseCard, DeleteCard, CardDeviceAction, CreateCard
<1>2. turns' \in Nat
  BY <1>0, TurnType DEF CardStep, OpenCard, TypeCard, SaveCard, CloseCard, DeleteCard,
                        CardDeviceAction, CreateCard, RestOK
<1>3. ASSUME ServerOK', editing' \in Card \cup {NoKey}, entered' \subseteq Nat PROVE Base'
  BY <1>1, <1>2, <1>3, PanelKeptType DEF Base, RestOK
<1>4. \A s \in Snapshot : s \in Stat /\ s.email \in Emails
  BY <1>0, StatType DEF Stat
<1>5. ASSUME NEW s \in Snapshot, OpenCard(s) PROVE Base'
  BY <1>0, <1>3, <1>4, <1>5, FormType, SameServer DEF OpenCard, RestOK
<1>6. ASSUME NEW d \in Days \cup {NoDay}, NEW t \in Tiers, TypeCard(d, t) PROVE Base'
  <2>1. d \in Nat
    BY KeyPanelAssumption DEF NoDay
  <2>2. editing' \in Card /\ entered' \subseteq Nat
    BY <1>0, <1>6, <2>1 DEF TypeCard, RestOK, Card
  <2>3. QED
    BY <1>0, <1>3, <1>6, <2>2, SameServer DEF TypeCard
<1>7. CASE SaveCard
  <2>1. editing.uuid \in Nat /\ editing.day \in Nat /\ editing.tier \in Tiers \cup {NoTier}
    BY <1>0, <1>7 DEF SaveCard, RestOK, Card
  <2>2. Row(EndOfDay(editing.day), editing.tier) \in Meta
    BY <2>1, DaySaved, RowType
  <2>3. ServerOK'
    BY <1>0, <1>7, <2>1, <2>2, PutMetaType DEF SaveCard
  <2>4. QED
    BY <1>0, <1>3, <1>7, <2>3 DEF SaveCard, RestOK
<1>8. CASE CloseCard
  BY <1>0, <1>3, <1>8, SameServer DEF CloseCard, RestOK
<1>9. ASSUME NEW s \in Snapshot, DeleteCard(s) PROVE Base'
  BY <1>0, <1>3, <1>4, <1>9, DeleteType DEF DeleteCard, RestOK
<1>10. ASSUME NEW s \in Snapshot, CardDeviceAction(s) PROVE Base'
  <2>1. PICK action \in InCard(s.device) : DeviceCall(s.email, action, Count(s.device) >= s.cap)
    BY <1>10 DEF CardDeviceAction
  <2>2. action \in {"approve", "reject", "clear"}
    BY <2>1 DEF InCard
  <2>3. ServerOK'
    BY <1>0, <1>4, <2>1, <2>2, DeviceCallType
  <2>4. QED
    BY <1>0, <1>3, <1>10, <2>3 DEF CardDeviceAction, RestOK
<1>11. ASSUME NEW e \in Emails, NEW t \in Tiers, CreateCard(e, t) PROVE Base'
  BY <1>0, <1>3, <1>11, CreateType DEF CreateCard, RestOK
<1>12. QED
  BY <1>5, <1>6, <1>7, <1>8, <1>9, <1>10, <1>11 DEF CardStep

LEMMA StepBase == ASSUME Base, [Next]_vars PROVE Base'
<1>1. CASE PanelStep
  BY <1>1, PanelServer, PanelPage DEF Base
<1>2. CASE UNCHANGED vars
  BY <1>2, SameServer, PanelKeptType DEF Base, RestOK, vars, PanelKept
<1>3. QED
  BY <1>1, <1>2, OutsideBase, ListBase, CardBase DEF Next

LEMMA BaseHolds == Spec => []Base
<1>1. Init => Base
  BY InitBase
<1>2. Base /\ [Next]_vars => Base'
  BY StepBase
<1>3. QED
  BY <1>1, <1>2, PTL DEF Spec

\* The server, the pages and what is under way between them keep to their types: no
\* form or dialog ever works on a key that is not there.
THEOREM TypeCorrect == Spec => [](TypeOK /\ Dialogs)
<1>1. Base => TypeOK /\ Dialogs
  BY TypeParts DEF Base
<1>2. QED
  BY <1>1, BaseHolds, PTL

----------------------------------------------------------------------------
(***************************************************************************)
(* The panel keeps its key.                                                *)
(***************************************************************************)
LEMMA PanelStep_Key ==
  ASSUME Base, PanelKeepsItsKey, [Next]_vars
  PROVE  PanelKeepsItsKey'
<1>1. ASSUME UNCHANGED <<selected, opened>> \/ (selected' = NoKey /\ opened' = NoKey)
      PROVE  PanelKeepsItsKey'
  BY <1>1 DEF PanelKeepsItsKey
<1>2. ASSUME NEW S \in SUBSET Stat, Show(S) PROVE PanelKeepsItsKey'
  <2>1. CASE selected # NoKey /\ Resolved(S, selected) # {}
    <3>1. selected'.email = selected.email /\ opened' = opened
      BY <1>2, <2>1, ResolvedOne DEF Show
    <3>2. QED
      BY <2>1, <3>1 DEF PanelKeepsItsKey
  <2>2. CASE ~(selected # NoKey /\ Resolved(S, selected) # {})
    BY <1>1, <1>2, <2>2 DEF Show
  <2>3. QED
    BY <2>1, <2>2
<1>3. CASE ListStep
  <2>1. CASE LoadStats
    BY <1>2, <2>1, StatType DEF LoadStats, Base
  <2>2. CASE ReceiveLate
    BY <1>2, <2>2 DEF ReceiveLate, Base, ListOK
  <2>3. CASE \E found \in SUBSET Emails, tab, status \in StatusSets : Select(found, tab, status)
    BY <2>3 DEF Select, PanelKeepsItsKey
  <2>4. CASE DelayStats \/ ToggleAtRisk
    BY <1>1, <2>4 DEF DelayStats, ToggleAtRisk, panel
  <2>5. QED
    BY <1>3, <2>1, <2>2, <2>3, <2>4 DEF ListStep
<1>4. CASE PanelStep
  BY <1>1, <1>4
     DEF PanelStep, Close, CloseModal, OpenNewKey, CloseNewKey, CreateNewKey, Open, ReceiveLinks,
         LoseLinks, TypeLimits, SaveLimits, SaveDeviceLimit, LoseDeviceLimit, ChooseProtocols,
         SaveProtocols, Rotate, Delete, Disable, DeviceAction, Closed, panel
<1>5. CASE Outside \/ CardStep
  <2>1. PanelKept
    BY <1>5 DEF Outside, Elsewhere, Tick, Connect, DisabledElsewhere, EnabledElsewhere,
                RotatedElsewhere, CardStep, OpenCard, TypeCard, SaveCard, CloseCard, DeleteCard,
                CardDeviceAction, CreateCard
  <2>2. QED
    BY <1>1, <2>1 DEF PanelKept, panel
<1>6. CASE UNCHANGED vars
  BY <1>1, <1>6 DEF vars, panel
<1>7. QED
  BY <1>3, <1>4, <1>5, <1>6 DEF Next

\* Whatever answers are shown, in any order, and whatever happens to the keys meanwhile,
\* the panel never shows another key than the one the operator opened.
THEOREM PanelIsOfItsKey == Spec => []PanelKeepsItsKey
<1>1. Init => PanelKeepsItsKey
  BY DEF Init, PanelKeepsItsKey
<1>2. Base /\ PanelKeepsItsKey /\ [Next]_vars => PanelKeepsItsKey'
  BY PanelStep_Key
<1>3. QED
  BY <1>1, <1>2, BaseHolds, PTL DEF Spec

----------------------------------------------------------------------------
(***************************************************************************)
(* The panel and the list beside it.                                       *)
(***************************************************************************)

\* Statistics, shown or late, have one entry for a name, and what they say of the key of the
\* panel is what the panel shows.
OneOfEach(S) == \A s, t \in S : s.email = t.email => s = t

PanelAgreesWithList ==
  /\ OneOfEach(stats)
  /\ late # NoKey => OneOfEach(late)
  /\ selected # NoKey => \A s \in stats : s.email = selected.email => s = selected

LEMMA SnapshotOneOfEach == OneOfEach(Snapshot)
<1>1. \A e \in active : StatOf(e).email = e
  BY DEF StatOf
<1>2. QED
  BY <1>1 DEF Snapshot, OneOfEach

LEMMA ShownAgrees ==
  ASSUME Base, PanelAgreesWithList, NEW S \in SUBSET Stat, OneOfEach(S), Show(S),
         late' # NoKey => OneOfEach(late')
  PROVE  PanelAgreesWithList'
<1>1. stats' = S
  BY DEF Show
<1>2. CASE selected # NoKey /\ Resolved(S, selected) # {}
  <2>1. selected' \in S
    BY <1>2, ResolvedOne DEF Show
  <2>2. QED
    BY <1>1, <2>1 DEF PanelAgreesWithList, OneOfEach
<1>3. CASE ~(selected # NoKey /\ Resolved(S, selected) # {})
  <2>1. selected' = selected
    BY <1>3 DEF Show
  <2>2. selected # NoKey => \A s \in S : s.email # selected.email
    BY <1>3 DEF Resolved
  <2>3. QED
    BY <1>1, <2>1, <2>2 DEF PanelAgreesWithList, OneOfEach
<1>4. QED
  BY <1>2, <1>3

LEMMA StepAgrees ==
  ASSUME Base, PanelAgreesWithList, [Next]_vars
  PROVE  PanelAgreesWithList'
<1>1. ASSUME UNCHANGED <<stats, late>>, selected' = selected \/ selected' = NoKey
      PROVE  PanelAgreesWithList'
  BY <1>1 DEF PanelAgreesWithList, OneOfEach
<1>2. CASE ListStep
  <2>1. CASE LoadStats
    <3>1. Snapshot \in SUBSET Stat /\ OneOfEach(Snapshot)
      BY StatType, SnapshotOneOfEach DEF Base
    <3>2. Show(Snapshot) /\ (late' # NoKey => OneOfEach(late'))
      BY <2>1 DEF LoadStats, PanelAgreesWithList, OneOfEach
    <3>3. QED
      BY <3>1, <3>2, ShownAgrees
  <2>2. CASE DelayStats
    BY <2>2, SnapshotOneOfEach DEF DelayStats, list, panel, PanelAgreesWithList, OneOfEach
  <2>3. CASE ReceiveLate
    <3>1. late \in SUBSET Stat /\ OneOfEach(late) /\ Show(late) /\ late' = NoKey
      BY <2>3 DEF ReceiveLate, Base, ListOK, PanelAgreesWithList
    <3>2. QED
      BY <3>1, ShownAgrees
  <2>4. CASE ToggleAtRisk
    BY <1>1, <2>4 DEF ToggleAtRisk, panel
  <2>5. ASSUME NEW found \in SUBSET Emails, NEW tab \in StatusSets, NEW status \in StatusSets,
               Select(found, tab, status)
        PROVE  PanelAgreesWithList'
    <3>1. PICK s \in Filtered(found, tab, status) : selected' = s
      BY <2>5 DEF Select
    <3>2. s \in stats
      BY DEF Filtered, AtRisk
    <3>3. UNCHANGED <<stats, late>>
      BY <2>5 DEF Select, list
    <3>4. QED
      BY <3>1, <3>2, <3>3 DEF PanelAgreesWithList, OneOfEach
  <2>6. QED
    BY <1>2, <2>1, <2>2, <2>3, <2>4, <2>5 DEF ListStep
<1>3. CASE PanelStep
  BY <1>1, <1>3
     DEF PanelStep, Close, CloseModal, OpenNewKey, CloseNewKey, CreateNewKey, Open, ReceiveLinks,
         LoseLinks, TypeLimits, SaveLimits, SaveDeviceLimit, LoseDeviceLimit, ChooseProtocols,
         SaveProtocols, Rotate, Delete, Disable, DeviceAction, Closed, panel, list
<1>4. CASE Outside \/ CardStep
  <2>1. PanelKept
    BY <1>4 DEF Outside, Elsewhere, Tick, Connect, DisabledElsewhere, EnabledElsewhere,
                RotatedElsewhere, CardStep, OpenCard, TypeCard, SaveCard, CloseCard, DeleteCard,
                CardDeviceAction, CreateCard
  <2>2. QED
    BY <1>1, <2>1 DEF PanelKept, panel, list
<1>5. CASE UNCHANGED vars
  BY <1>1, <1>5 DEF vars, panel, list
<1>6. QED
  BY <1>2, <1>3, <1>4, <1>5 DEF Next

\* What of PanelSettles is not about fairness: whatever the order of the answers, and though
\* the panel outlives its key, the page never shows a key in two ways, in the list and in the
\* panel, from which its forms and dialogs then act (VpnUsersPanel, setSelected).
THEOREM PanelIsAsListed == Spec => []PanelAgreesWithList
<1>1. Init => PanelAgreesWithList
  BY SnapshotOneOfEach DEF Init, PanelAgreesWithList, OneOfEach
<1>2. Base /\ PanelAgreesWithList /\ [Next]_vars => PanelAgreesWithList'
  BY StepAgrees
<1>3. QED
  BY <1>1, <1>2, BaseHolds, PTL DEF Spec

----------------------------------------------------------------------------
(***************************************************************************)
(* The links follow.  What is shown counts for the key of the panel once   *)
(* the call that was made last has been answered; until then that call is  *)
(* the last of those under way.                                            *)
(***************************************************************************)
LinksInv ==
  InPanel =>
    /\ asked = "under way" => asks # <<>> /\ Last(asks) = selected.uuid
    /\ asked = "answered" => links = selected.uuid

\* A call for the key of the panel settles the matter, whatever was shown before.
LEMMA AskedAnew ==
  ASSUME asks \in Seq(Nat), NEW u \in Nat, Ask(u), selected'.uuid = u
  PROVE  LinksInv'
  BY AddCall DEF Ask, LinksInv

LEMMA LinksKept ==
  ASSUME LinksInv, UNCHANGED <<selected, modal, links, asks, asked>>
  PROVE  LinksInv'
  BY DEF LinksInv, InPanel

LEMMA LinksReceived ==
  ASSUME Base, LinksInv, NEW i \in DOMAIN asks, ReceiveLinks(i) \/ LoseLinks(i)
  PROVE  LinksInv'
<1>1. asks \in Seq(Nat) /\ asked \in {"under way", "answered", "failed"}
  BY DEF Base, DetailOK
<1>2. i < Len(asks) => asks' # <<>> /\ Last(asks') = Last(asks)
  BY <1>1, RemoveCall DEF ReceiveLinks, LoseLinks
<1>3. i = Len(asks) => asks[i] = Last(asks)
  BY DEF Last
<1>4. (i = Len(asks) \/ i < Len(asks)) /\ ~(i = Len(asks) /\ i < Len(asks))
  <2>1. PICK n \in Nat : n = Len(asks) /\ i \in 1 .. n
    BY <1>1, LenProperties
  <2>2. (i = n \/ i < n) /\ ~(i = n /\ i < n)
    BY <2>1
  <2>3. QED
    BY <2>1, <2>2
<1>5. (InPanel' <=> InPanel) /\ selected' = selected
  BY DEF ReceiveLinks, LoseLinks, panel, InPanel
<1>6. CASE ReceiveLinks(i)
  <2>1. CASE asked = "under way" /\ i = Len(asks)
    <3>1. Served(asks[i]) => links' = Last(asks) /\ asked' = "answered"
      BY <1>3, <1>4, <1>6, <2>1 DEF ReceiveLinks
    <3>2. ~Served(asks[i]) => asked' = "failed"
      BY <1>4, <1>6, <2>1 DEF ReceiveLinks
    <3>3. QED
      BY <1>5, <2>1, <3>1, <3>2 DEF LinksInv
  <2>2. CASE asked = "under way" /\ i < Len(asks)
    <3>1. asked' = "under way"
      BY <1>4, <1>6, <2>2 DEF ReceiveLinks
    <3>2. QED
      BY <1>2, <1>5, <2>2, <3>1 DEF LinksInv
  <2>3. CASE asked # "under way"
    <3>1. asked' # "under way" /\ (asked' = "answered" => asked = "answered" /\ links' = links)
      BY <1>6, <2>3 DEF ReceiveLinks
    <3>2. QED
      BY <1>5, <3>1 DEF LinksInv
  <2>4. QED
    BY <1>4, <2>1, <2>2, <2>3
<1>7. CASE LoseLinks(i)
  <2>1. links' = links /\ asked' = IF asked = "under way" /\ i = Len(asks) THEN "failed" ELSE asked
    BY <1>7 DEF LoseLinks
  <2>2. QED
    BY <1>2, <1>4, <1>5, <2>1 DEF LinksInv
<1>8. QED
  BY <1>6, <1>7

LEMMA LinksShown ==
  ASSUME Base, LinksInv, NEW S \in SUBSET Stat, Show(S)
  PROVE  LinksInv'
<1>1. links' = links /\ modal' = modal
  BY DEF Show
<1>2. CASE selected # NoKey /\ Resolved(S, selected) # {}
  <2>1. PICK s : s = CHOOSE t \in Resolved(S, selected) : TRUE
    OBVIOUS
  <2>2. s.uuid \in Nat /\ s # NoKey
    BY <1>2, <2>1, ResolvedOne
  <2>3. selected' = s /\ ReloadLinks(s)
    BY <1>2, <2>1 DEF Show
  <2>4. CASE ~InPanel
    <3>1. ~InPanel'
      BY <1>1, <1>2, <2>4 DEF InPanel
    <3>2. QED
      BY <3>1 DEF LinksInv
  <2>5. CASE InPanel /\ s.uuid = selected.uuid
    <3>1. UNCHANGED <<asks, asked>>
      BY <2>3, <2>5 DEF ReloadLinks
    <3>2. QED
      BY <1>1, <2>3, <2>5, <3>1 DEF LinksInv
  <2>6. CASE InPanel /\ s.uuid # selected.uuid
    <3>1. Ask(s.uuid)
      BY <2>3, <2>6 DEF ReloadLinks
    <3>2. QED
      BY <2>2, <2>3, <3>1, AskedAnew DEF Base, DetailOK
  <2>7. QED
    BY <2>4, <2>5, <2>6
<1>3. CASE ~(selected # NoKey /\ Resolved(S, selected) # {})
  BY <1>1, <1>3, LinksKept DEF Show
<1>4. QED
  BY <1>2, <1>3

LEMMA LinksSelected ==
  ASSUME Base, LinksInv, NEW found, NEW tab, NEW status, Select(found, tab, status)
  PROVE  LinksInv'
<1>1. PICK s \in Filtered(found, tab, status) :
        /\ selected' = s /\ modal' = modal
        /\ IF selected = NoKey /\ modal = "none" THEN Ask(s.uuid)
                                                 ELSE ReloadLinks(s) /\ UNCHANGED links
  BY DEF Select
<1>2. s.uuid \in Nat
  BY DEF Filtered, AtRisk, Base, ListOK, Stat
<1>3. asks \in Seq(Nat)
  BY DEF Base, DetailOK
<1>4. CASE Ask(s.uuid)
  BY <1>1, <1>2, <1>3, <1>4, AskedAnew
<1>5. CASE modal \in NewKey
  BY <1>1, <1>5 DEF LinksInv, InPanel
<1>6. CASE /\ modal \notin NewKey /\ UNCHANGED <<asks, asked, links>>
           /\ InPanel /\ s.uuid = selected.uuid
  BY <1>1, <1>6 DEF LinksInv
<1>7. QED
  <2>1. modal \in {"none"} \cup NewKey
    BY DEF Select, Base, PanelOK
  <2>2. CASE selected # NoKey
    BY <1>1, <1>4, <1>5, <1>6, <2>2 DEF ReloadLinks, InPanel
  <2>3. CASE selected = NoKey
    BY <1>1, <1>4, <1>5, <2>1, <2>3
  <2>4. QED
    BY <2>2, <2>3

LEMMA PanelStep_Links ==
  ASSUME Base, LinksInv, [Next]_vars
  PROVE  LinksInv'
<1>0. asks \in Seq(Nat)
  BY DEF Base, DetailOK
<1>1. CASE ListStep
  <2>1. CASE LoadStats
    BY <2>1, LinksShown, StatType DEF LoadStats, Base
  <2>2. CASE ReceiveLate
    BY <2>2, LinksShown DEF ReceiveLate, Base, ListOK
  <2>3. CASE \E found \in SUBSET Emails, tab, status \in StatusSets : Select(found, tab, status)
    BY <2>3, LinksSelected
  <2>4. CASE DelayStats \/ ToggleAtRisk
    BY <2>4, LinksKept DEF DelayStats, ToggleAtRisk, panel, detail
  <2>5. QED
    BY <1>1, <2>1, <2>2, <2>3, <2>4 DEF ListStep
<1>2. CASE Close \/ OpenNewKey \/ Delete
  BY <1>2 DEF Close, OpenNewKey, Delete, Closed, LinksInv, InPanel
<1>3. ASSUME NEW m \in Modals, Open(m) PROVE LinksInv'
  BY <1>3 DEF Open, LinksInv, InPanel, detail, NewKey
<1>4. CASE CloseModal \/ SaveDeviceLimit
  <2>1. modal \in Modals
    BY <1>4 DEF CloseModal, SaveDeviceLimit, Base, Dialogs, Modals
  <2>2. QED
    BY <1>4, <2>1 DEF CloseModal, SaveDeviceLimit, LinksInv, InPanel, detail, Modals, NewKey
<1>5. ASSUME NEW e \in Emails, NEW t \in Tiers, CreateNewKey(e, t) PROVE LinksInv'
  BY <1>5 DEF CreateNewKey, LinksInv, InPanel, NewKey
<1>6. CASE CloseNewKey
  <2>1. CASE selected = NoKey
    BY <1>6, <2>1 DEF CloseNewKey, LinksInv, InPanel
  <2>2. CASE selected # NoKey
    BY <1>0, <1>6, <2>2, SelectedType, AskedAnew DEF CloseNewKey, Base
  <2>3. QED
    BY <2>1, <2>2
<1>7. CASE SaveProtocols \/ Rotate
  <2>1. selected # NoKey
    BY <1>7 DEF SaveProtocols, Rotate, Base, Dialogs, Modals
  <2>2. QED
    BY <1>0, <1>7, <2>1, SelectedType, AskedAnew DEF SaveProtocols, Rotate, Base, panel
<1>8. CASE \E i \in DOMAIN asks : ReceiveLinks(i) \/ LoseLinks(i)
  BY <1>8, LinksReceived
<1>9. CASE \/ \E d \in Days \cup {NoDay}, c \in Caps : TypeLimits(d, c)
           \/ SaveLimits \/ LoseDeviceLimit \/ Disable \/ DeviceAction
           \/ \E t \in Tiers : ChooseProtocols(t)
  BY <1>9, LinksKept DEF TypeLimits, SaveLimits, LoseDeviceLimit, Disable, DeviceAction,
                         ChooseProtocols, panel, detail
<1>10. CASE Outside \/ CardStep
  <2>1. PanelKept
    BY <1>10 DEF Outside, Elsewhere, Tick, Connect, DisabledElsewhere, EnabledElsewhere,
                 RotatedElsewhere, CardStep, OpenCard, TypeCard, SaveCard, CloseCard, DeleteCard,
                 CardDeviceAction, CreateCard
  <2>2. QED
    BY <2>1, LinksKept DEF PanelKept, panel, detail
<1>11. CASE UNCHANGED vars
  BY <1>11, LinksKept DEF vars, panel, detail
<1>12. QED
  BY <1>1, <1>2, <1>3, <1>4, <1>5, <1>6, <1>7, <1>8, <1>9, <1>10, <1>11 DEF Next, PanelStep

\* The links a panel shows are those of its key, or the call made last, which is for
\* them, is under way, unless a call failed: the order of the answers never leaves the
\* links of another uuid as if they were the key's.
THEOREM LinksAreTheKeys == Spec => []LinksFollow
<1>1. Init => LinksInv
  BY DEF Init, LinksInv, InPanel
<1>2. Base /\ LinksInv /\ [Next]_vars => LinksInv'
  BY PanelStep_Links
<1>3. Base /\ LinksInv => LinksFollow
  BY DEF Base, DetailOK, LinksInv, LinksFollow
<1>4. QED
  BY <1>1, <1>2, <1>3, BaseHolds, PTL DEF Spec

----------------------------------------------------------------------------
(***************************************************************************)
(* Days.  Not only the rows and the forms: the statistics shown, and an    *)
(* answer on its way, have none that was not entered, for the forms are    *)
(* filled from them.                                                       *)
(***************************************************************************)
Known == entered \cup {NoDay}
RowDays == \A u \in DOMAIN row : DayOf(row[u].expiry) \in Known
StatDays(S) == \A s \in S : DayOf(s.meta.expiry) \in Known
FormDays == draft.day \in Known /\ (editing # NoKey => editing.day \in Known)

DaysInv ==
  /\ RowDays /\ FormDays
  /\ StatDays(stats)
  /\ late # NoKey => StatDays(late)

LEMMA RowOfDays == ASSUME RowDays, NEW u PROVE DayOf(RowOf(u).expiry) \in Known
<1>1. NoRow.expiry = Never
  BY DEF NoRow, Row
<1>2. QED
  BY <1>1, NeverDay DEF RowDays, RowOf, Known

LEMMA SnapshotDays == ASSUME RowDays PROVE StatDays(Snapshot)
<1>1. ASSUME NEW e \in active PROVE DayOf(StatOf(e).meta.expiry) \in Known
  BY RowOfDays DEF StatOf
<1>2. QED
  BY <1>1 DEF StatDays, Snapshot

LEMMA PutMetaDays ==
  ASSUME RowDays, UNCHANGED entered, NEW u, NEW r, PutMeta(u, r), DayOf(r.expiry) \in Known
  PROVE  RowDays'
<1>1. Known' = Known
  BY DEF Known
<1>2. QED
  BY <1>1 DEF RowDays, PutMeta, WithRow

LEMMA RotateDays ==
  ASSUME RowDays, UNCHANGED entered, NEW e, RotateKey(e)
  PROVE  RowDays'
<1>1. Known' = Known
  BY DEF Known
<1>2. ASSUME NEW u \in DOMAIN row' PROVE \E v \in DOMAIN row : row'[u] = row[v]
  BY DEF RotateKey, server
<1>3. QED
  BY <1>1, <1>2 DEF RowDays

LEMMA DeleteDays ==
  ASSUME RowDays, UNCHANGED entered, NEW e, DeleteKey(e)
  PROVE  RowDays'
<1>1. Known' = Known
  BY DEF Known
<1>2. QED
  BY <1>1 DEF RowDays, DeleteKey, WithoutRow, server

LEMMA CreateDays ==
  ASSUME RowDays, UNCHANGED entered, NEW e, NEW t, CreateKey(e, t)
  PROVE  RowDays'
<1>1. Known' = Known /\ DayOf(Row(Never, t).expiry) \in Known
  BY NeverDay DEF Known, Row
<1>2. QED
  BY <1>1 DEF RowDays, CreateKey, WithRow

LEMMA SameDays ==
  ASSUME DaysInv, UNCHANGED entered
  PROVE  /\ Known' = Known
         /\ UNCHANGED row => RowDays'
         /\ UNCHANGED <<stats, late>> => StatDays(stats)' /\ (late' # NoKey => StatDays(late)')
         /\ UNCHANGED <<draft, editing>> => FormDays'
  BY DEF DaysInv, Known, RowDays, FormDays, StatDays

LEMMA InitDays == ASSUME Init PROVE DaysInv
<1>1. ASSUME NEW u \in DOMAIN row PROVE DayOf(row[u].expiry) \in Known
  <2>1. PICK e \in Emails : uuid[e] = u
    BY DEF Init
  <2>2. PICK f \in Emails : f = CHOOSE g \in Emails : uuid[g] = u
    BY <2>1
  <2>3. row[u] = Row(FirstExpiry[f], Standard)
    BY <2>2 DEF Init
  <2>4. row[u].expiry = FirstExpiry[f]
    BY <2>3 DEF Row
  <2>5. DayOf(FirstExpiry[f]) \in entered
    BY DEF Init
  <2>6. QED
    BY <2>4, <2>5 DEF Known
<1>2. RowDays
  BY <1>1 DEF RowDays
<1>3. StatDays(stats)
  BY <1>2, SnapshotDays DEF Init
<1>4. QED
  BY <1>2, <1>3 DEF Init, DaysInv, FormDays, NoForm, Known

LEMMA ShownDays ==
  ASSUME Base, DaysInv, NEW S \in SUBSET Stat, StatDays(S), Show(S), late' \in {late, NoKey}
  PROVE  DaysInv'
<1>1. /\ Known' = Known /\ RowDays'
      /\ stats' = S /\ UNCHANGED <<editing, entered>>
  BY SameDays DEF Show, server
<1>2. StatDays(stats)' /\ (late' # NoKey => StatDays(late)')
  BY <1>1 DEF DaysInv, StatDays
<1>3. draft'.day \in Known
  <2>1. CASE selected # NoKey /\ Resolved(S, selected) # {}
    <3>1. PICK s : s = CHOOSE t \in Resolved(S, selected) : TRUE
      OBVIOUS
    <3>2. s \in S /\ draft' = FormOf(s)
      BY <2>1, <3>1, ResolvedOne DEF Show, ResetDraft
    <3>3. QED
      BY <3>2 DEF StatDays, FormOf
  <2>2. CASE ~(selected # NoKey /\ Resolved(S, selected) # {})
    BY <2>2 DEF Show, DaysInv, FormDays
  <2>3. QED
    BY <2>1, <2>2
<1>4. FormDays'
  BY <1>1, <1>3 DEF DaysInv, FormDays
<1>5. QED
  BY <1>1, <1>2, <1>4 DEF DaysInv

LEMMA ListDays == ASSUME Base, DaysInv, ListStep PROVE DaysInv'
<1>0. RowDays
  BY DEF DaysInv
<1>1. CASE LoadStats
  BY <1>0, <1>1, ShownDays, SnapshotDays, StatType DEF LoadStats, Base
<1>2. CASE DelayStats
  <2>1. StatDays(Snapshot)
    BY <1>0, SnapshotDays
  <2>2. /\ late' = Snapshot /\ Known' = Known
        /\ UNCHANGED <<row, stats, draft, editing, entered>>
    BY <1>2, SameDays DEF DelayStats, server, list, panel
  <2>3. QED
    BY <2>1, <2>2 DEF DaysInv, StatDays, RowDays, FormDays
<1>3. CASE ReceiveLate
  BY <1>3, ShownDays DEF ReceiveLate, Base, ListOK, DaysInv
<1>4. CASE ToggleAtRisk
  <2>1. UNCHANGED <<row, stats, late, draft, editing, entered>>
    BY <1>4 DEF ToggleAtRisk, server, panel
  <2>2. QED
    BY <2>1, SameDays DEF DaysInv
<1>5. ASSUME NEW found, NEW tab, NEW status, Select(found, tab, status) PROVE DaysInv'
  <2>1. PICK s \in Filtered(found, tab, status) :
          draft' = ResetDraft(s) /\ UNCHANGED <<server, late, list, editing, entered>>
    BY <1>5 DEF Select
  <2>2. UNCHANGED <<row, late, stats, editing, entered>>
    BY <2>1 DEF server, list
  <2>3. draft'.day \in Known
    BY <2>1 DEF Filtered, AtRisk, DaysInv, StatDays, ResetDraft, FormOf
  <2>4. FormDays'
    BY <2>2, <2>3, SameDays DEF DaysInv, FormDays
  <2>5. QED
    BY <2>2, <2>4, SameDays DEF DaysInv
<1>6. QED
  BY <1>1, <1>2, <1>3, <1>4, <1>5 DEF ListStep

LEMMA PanelDays == ASSUME Base, DaysInv, PanelStep PROVE DaysInv'
<1>0. RowDays /\ FormDays /\ NoForm.day \in Known
  BY DEF DaysInv, NoForm, Known
<1>1. UNCHANGED <<late, stats, editing>>
  BY DEF PanelStep, Close, CloseModal, OpenNewKey, CloseNewKey, CreateNewKey, Open, ReceiveLinks,
         LoseLinks, TypeLimits, SaveLimits, SaveDeviceLimit, LoseDeviceLimit, ChooseProtocols,
         SaveProtocols, Rotate, Delete, Disable, DeviceAction, list
<1>2. ASSUME UNCHANGED entered, RowDays', draft'.day \in Known PROVE DaysInv'
  BY <1>1, <1>2, SameDays DEF DaysInv, FormDays
<1>3. draft.day \in Known
  BY <1>0 DEF FormDays
<1>4. CASE \/ CloseModal \/ CloseNewKey \/ \E m \in Modals : Open(m)
           \/ \E i \in DOMAIN asks : ReceiveLinks(i) \/ LoseLinks(i)
           \/ SaveDeviceLimit \/ LoseDeviceLimit \/ Disable \/ DeviceAction
  <2>1. UNCHANGED <<row, draft, entered>>
    BY <1>4 DEF CloseModal, CloseNewKey, Open, ReceiveLinks, LoseLinks, SaveDeviceLimit,
                LoseDeviceLimit, Disable, DisableKey, DeviceAction, DeviceCall, server, panel
  <2>2. QED
    BY <1>2, <1>3, <2>1, SameDays
<1>5. CASE Close \/ OpenNewKey
  <2>1. UNCHANGED <<row, entered>> /\ draft' = NoForm
    BY <1>5 DEF Close, OpenNewKey, Closed, server
  <2>2. QED
    BY <1>0, <1>2, <2>1, SameDays
<1>6. ASSUME NEW e, NEW t, CreateNewKey(e, t) PROVE DaysInv'
  BY <1>0, <1>2, <1>3, <1>6, CreateDays DEF CreateNewKey
<1>7. ASSUME NEW d \in Days \cup {NoDay}, NEW c \in Caps, TypeLimits(d, c) PROVE DaysInv'
  <2>1. UNCHANGED row /\ Known \subseteq Known' /\ d \in Known'
    BY <1>7 DEF TypeLimits, server, Known
  <2>2. draft' = [draft EXCEPT !.day = d, !.cap = c] /\ draft \in Draft
    BY <1>7 DEF TypeLimits, Base, PanelOK
  <2>3. draft'.day = d
    BY <2>2 DEF Draft
  <2>4. QED
    BY <1>1, <2>1, <2>3 DEF DaysInv, RowDays, FormDays, StatDays
<1>8. CASE SaveLimits
  <2>1. selected # NoKey
    BY <1>8 DEF SaveLimits, Base, Dialogs, Modals
  <2>2. RowOf(selected.uuid) \in Meta /\ draft.day \in Nat
    BY RowOfType, DraftType DEF Base, PanelOK
  <2>3. PICK r : r = [RowOf(selected.uuid) EXCEPT !.expiry = Midnight(draft.day)]
    OBVIOUS
  <2>4. DayOf(r.expiry) \in Known
    <3>1. r.expiry = Midnight(draft.day)
      BY <2>2, <2>3 DEF Meta
    <3>2. QED
      BY <1>3, <2>2, <3>1, DaySaved
  <2>5. RowDays'
    BY <1>0, <1>8, <2>3, <2>4, PutMetaDays DEF SaveLimits
  <2>6. QED
    BY <1>2, <1>3, <1>8, <2>5 DEF SaveLimits
<1>9. ASSUME NEW t \in Tiers, ChooseProtocols(t) PROVE DaysInv'
  <2>1. UNCHANGED <<row, entered>>
    BY <1>9 DEF ChooseProtocols, server
  <2>2. draft'.day = draft.day
    BY <1>9 DEF ChooseProtocols, Base, PanelOK, Draft
  <2>3. QED
    BY <1>2, <1>3, <2>1, <2>2, SameDays
<1>10. CASE SaveProtocols
  <2>1. UNCHANGED <<entered, draft>>
    BY <1>10 DEF SaveProtocols, panel
  <2>2. PICK r : r = [RowOf(selected.uuid) EXCEPT !.tier = draft.tier]
    OBVIOUS
  <2>3. RowOf(selected.uuid) \in Meta
    BY RowOfType DEF Base
  <2>4. r.expiry = RowOf(selected.uuid).expiry
    BY <2>2, <2>3 DEF Meta
  <2>5. DayOf(r.expiry) \in Known
    BY <1>0, <2>4, RowOfDays
  <2>6. RowDays'
    BY <1>0, <1>10, <2>1, <2>2, <2>5, PutMetaDays, SameDays DEF SaveProtocols, server
  <2>7. QED
    BY <1>2, <1>3, <2>1, <2>6
<1>11. CASE Rotate
  BY <1>0, <1>2, <1>3, <1>11, RotateDays DEF Rotate
<1>12. CASE Delete
  BY <1>0, <1>2, <1>12, DeleteDays DEF Delete, Closed
<1>13. QED
  BY <1>4, <1>5, <1>6, <1>7, <1>8, <1>9, <1>10, <1>11, <1>12 DEF PanelStep

LEMMA CardDays == ASSUME Base, DaysInv, CardStep PROVE DaysInv'
<1>0. RowDays /\ FormDays
  BY DEF DaysInv
<1>1. UNCHANGED <<late, stats, draft>>
  BY DEF CardStep, OpenCard, TypeCard, SaveCard, CloseCard, DeleteCard, CardDeviceAction,
         CreateCard, PanelKept, list, panel
<1>2. ASSUME UNCHANGED entered, RowDays', editing' # NoKey => editing'.day \in Known PROVE DaysInv'
  BY <1>1, <1>2, SameDays DEF DaysInv, FormDays
<1>3. editing # NoKey => editing.day \in Known
  BY <1>0 DEF FormDays
<1>4. ASSUME NEW s \in Snapshot, OpenCard(s) PROVE DaysInv'
  <2>1. DayOf(s.meta.expiry) \in Known
    BY <1>0, SnapshotDays DEF StatDays
  <2>2. editing'.day \in Known
    BY <1>4, <2>1 DEF OpenCard, CardFormOf
  <2>3. QED
    BY <1>2, <1>4, <2>2, SameDays DEF OpenCard, server
<1>5. ASSUME NEW d \in Days \cup {NoDay}, NEW t \in Tiers, TypeCard(d, t) PROVE DaysInv'
  <2>1. UNCHANGED row /\ Known \subseteq Known' /\ d \in Known'
    BY <1>5 DEF TypeCard, server, Known
  <2>2. editing' = [editing EXCEPT !.day = d, !.tier = t] /\ editing \in Card
    BY <1>5 DEF TypeCard, Base, RestOK
  <2>3. editing'.day = d
    BY <2>2 DEF Card
  <2>4. QED
    BY <1>1, <2>1, <2>3 DEF DaysInv, RowDays, FormDays, StatDays
<1>6. CASE SaveCard
  <2>1. editing.day \in Nat /\ editing.day \in Known
    BY <1>3, <1>6 DEF SaveCard, Base, RestOK, Card
  <2>2. DayOf(Row(EndOfDay(editing.day), editing.tier).expiry) \in Known
    BY <2>1, DaySaved DEF Row
  <2>3. RowDays'
    BY <1>0, <1>6, <2>2, PutMetaDays DEF SaveCard
  <2>4. QED
    BY <1>2, <1>3, <1>6, <2>3 DEF SaveCard
<1>7. CASE CloseCard
  BY <1>2, <1>7, SameDays DEF CloseCard, server
<1>8. ASSUME NEW s \in Snapshot, DeleteCard(s) PROVE DaysInv'
  BY <1>0, <1>2, <1>3, <1>8, DeleteDays DEF DeleteCard
<1>9. ASSUME NEW s \in Snapshot, CardDeviceAction(s) PROVE DaysInv'
  BY <1>2, <1>3, <1>9, SameDays DEF CardDeviceAction, DeviceCall
<1>10. ASSUME NEW e, NEW t, CreateCard(e, t) PROVE DaysInv'
  BY <1>0, <1>2, <1>3, <1>10, CreateDays DEF CreateCard
<1>11. QED
  BY <1>4, <1>5, <1>6, <1>7, <1>8, <1>9, <1>10 DEF CardStep

LEMMA OutsideDays == ASSUME DaysInv, Outside PROVE DaysInv'
<1>1. UNCHANGED <<late, stats, draft, editing, entered>>
  BY DEF Outside, Tick, Connect, DisabledElsewhere, EnabledElsewhere, RotatedElsewhere, Elsewhere,
         PanelKept, list, panel
<1>2. RowDays'
  BY <1>1, SameDays, RotateDays
     DEF Outside, Tick, Connect, DisabledElsewhere, EnabledElsewhere, RotatedElsewhere, DisableKey,
         DaysInv
<1>3. QED
  BY <1>1, <1>2, SameDays DEF DaysInv

\* Keys expire on days that were entered for keys: however often either page saves, with
\* the time of day it has for a day, and shows again what the other saved.
THEOREM DaysAreKept == Spec => []DaysWereEntered
<1>1. Init => DaysInv
  BY InitDays
<1>2. ASSUME Base, DaysInv, [Next]_vars PROVE DaysInv'
  <2>1. CASE UNCHANGED vars
    <3>1. UNCHANGED <<row, stats, late, draft, editing, entered>>
      BY <2>1 DEF vars, server, list, panel
    <3>2. QED
      BY <1>2, <3>1, SameDays DEF DaysInv
  <2>2. QED
    BY <1>2, <2>1, ListDays, PanelDays, CardDays, OutsideDays DEF Next
<1>3. DaysInv => DaysWereEntered
  BY DEF DaysInv, RowDays, FormDays, Known, DaysWereEntered
<1>4. QED
  BY <1>1, <1>2, <1>3, BaseHolds, PTL DEF Spec

=============================================================================
