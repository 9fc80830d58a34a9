------------------------------- MODULE Review -------------------------------
(***************************************************************************)
(* The posture review: the devices page sorts the keys into those in       *)
(* posture and those an operator should look at, from what the access log  *)
(* shows of the last minutes, the verdicts of the device policy with their *)
(* provenance, and the preset chosen for the key or for its group.         *)
(*                                                                         *)
(* Nothing is enforced by a posture: what a violation leads to are the     *)
(* Keep and Block buttons, which approve or reject every address of a      *)
(* network as the page last saw it, one call per address.  Pages are       *)
(* refreshed by polls, the statistics and the presets apart, so that two   *)
(* operators act on pages of different age.                                *)
(*                                                                         *)
(* The device policy is the dashboard's, which handles a request at a time *)
(* here: the copies of its file and the firewall are DevicePolicy's.       *)
(* Abstracted: titles, counts, flows and the order things are shown in.    *)
(***************************************************************************)
EXTENDS Naturals, FiniteSets, Sequences, SequencesExt

CONSTANTS
  Keys,          \* the keys, by email
  IPs,           \* the addresses: numbers, for the order the code sorts them in
  Uses,          \* Uses[k]: the addresses key k connects from
  Known,         \* Known[k]: its addresses in known_ips.json
  Isp, NoIsp,    \* Isp[ip]: the provider of an address, when it is known
  Country,       \* Country[ip]: its country
  FarApart,      \* pairs of addresses too far apart for one user
  Datacenter,    \* the addresses of datacenters and proxies
  OverCap,       \* the keys whose traffic exceeds their cap
  Limit,         \* DEVICE_LIMIT
  Groups, Ungrouped,
  FirstGroup,    \* the group keys are made in
  Chosen,        \* the presets operators choose
  Pages,         \* the devices pages that are open
  NoClick,       \* a page whose buttons are not busy
  MaxConnections, \* bound on the connections
  MaxTurns       \* bound on lost calls, edits, and presses on what is not flagged

ASSUME ReviewAssumption ==
  /\ IPs \subseteq Nat /\ IsFiniteSet(IPs)
  /\ Uses \in [Keys -> SUBSET IPs]
  /\ Known \in [Keys -> SUBSET IPs]
  /\ FarApart \subseteq IPs \X IPs
  /\ {Ungrouped, FirstGroup} \subseteq Groups
  /\ Chosen \subseteq {"strict", "balanced", "open"}
  /\ {Limit, MaxConnections, MaxTurns} \subseteq Nat

VARIABLES
  activity,      \* activity[k][ip]: when the access log last has k at ip
  policy,        \* device_approvals.json
  store,         \* posture.json
  groupOf,       \* user_meta: the group of each key
  page,          \* page[o]: the answers page o shows
  click,         \* click[o]: the calls of the button pressed on page o
  connections, turns             \* history: what the bounds count

server == <<policy, store, groupOf>>
reviewVars == <<activity, server, page, click, connections, turns>>

Ages    == {"now", "recent", "today", "none"}     \* 60 s, 5 min, 24 h
Sources == {"known_ip_seed", "manual_approval", "auto_trusted_isp", "auto_registered"}
Presets == {"strict", "balanced", "open"}
Unset   == "unset"
Actions == {"approve", "reject"}

\* approved keeps the order in which addresses were approved.
Policy == [approved : Seq([ip : IPs, source : Sources]),
           pending : SUBSET IPs, rejected : SUBSET IPs]
Stat   == [devices : Policy, live : SUBSET IPs, conflict : BOOLEAN, group : Groups]
Store  == [keys : [Keys -> Presets \cup {Unset}], groups : [Groups -> Presets \cup {Unset}]]

ReviewTypeOK ==
  /\ activity \in [Keys -> [IPs -> Ages]]
  /\ policy \in [Keys -> Policy]
  /\ \A k \in Keys : IsInjective([i \in DOMAIN policy[k].approved |-> policy[k].approved[i].ip])
  /\ store \in Store
  /\ groupOf \in [Keys -> Groups]
  /\ page \in [Pages -> [stats : [Keys -> Stat], store : Store]]
  /\ click \in [Pages -> {NoClick} \cup [key : Keys, action : Actions, todo : SUBSET IPs]]

----------------------------------------------------------------------------
(***************************************************************************)
(* The device policy, with the provenance of each approval.                *)
(***************************************************************************)
Approved(p)  == {p.approved[i].ip : i \in DOMAIN p.approved}
From(p, S)   == {p.approved[i].ip : i \in {j \in DOMAIN p.approved : p.approved[j].source \in S}}
Entry(ip, s) == [ip |-> ip, source |-> s]

\* seedFromKnown: a key with no approved address starts from the known ones.
Seeded(p, k) ==
  IF p.approved # <<>> THEN p
  ELSE LET known == SetToSortSeq(Known[k], <) IN
       [p EXCEPT !.approved = [i \in 1 .. (IF Len(known) < Limit THEN Len(known) ELSE Limit)
                                 |-> Entry(known[i], "known_ip_seed")]]

\* evaluateDevicePolicy, for one address.
Classified(p, ip) ==
  IF ip \in Approved(p) \cup p.rejected THEN p
  ELSE IF Isp[ip] # NoIsp /\ \E other \in Approved(p) : Isp[other] = Isp[ip]
  THEN [p EXCEPT !.approved = Append(@, Entry(ip, "auto_trusted_isp"))]
  ELSE IF Len(p.approved) < Limit
  THEN [p EXCEPT !.approved = Append(@, Entry(ip, "auto_registered"))]
  ELSE [p EXCEPT !.pending = @ \cup {ip}]

Seen(k, ages) == {ip \in IPs : activity[k][ip] \in ages}
Evaluated(k) ==
  FoldLeft(Classified, Seeded(policy[k], k), SetToSortSeq(Seen(k, Ages \ {"none"}), <))

Added(p, ip) ==
  [approved |-> Append(p.approved, Entry(ip, "manual_approval")),
   pending |-> p.pending \ {ip}, rejected |-> p.rejected \ {ip}]

\* approveDevice as the page calls it: at the limit it does not replace another
\* address but fails, and the page does not look at the answer.
AfterApprove(p, ip) ==
  IF ip \in Approved(p)
  THEN [approved |-> [i \in DOMAIN p.approved |->
                        IF p.approved[i].ip = ip THEN Entry(ip, "manual_approval")
                                                 ELSE p.approved[i]],
        pending |-> p.pending \ {ip}, rejected |-> p.rejected \ {ip}]
  ELSE IF Len(p.approved) >= Limit THEN p
  ELSE Added(p, ip)

\* rejectDevice leaves an approval where it is.
AfterReject(p, ip) == [p EXCEPT !.pending = @ \ {ip}, !.rejected = @ \cup {ip}]

AfterClear(p, ip) ==
  [approved |-> SelectSeq(p.approved, LAMBDA e : e.ip # ip),
   pending |-> p.pending \ {ip}, rejected |-> p.rejected \ {ip}]

----------------------------------------------------------------------------
(***************************************************************************)
(* What /api/stats answers about a key.                                    *)
(***************************************************************************)

\* Addresses that count neither as live nor for a conflict: an address that waits
\* for its approval is left out like a blocked one, though nothing blocks it.
Hidden(p) == p.pending \cup p.rejected

\* buildDeviceEstimate over every address of the last minute.
ConflictUnfiltered(k, p) ==
  LET active == Seen(k, {"now"}) IN
  /\ Cardinality({Isp[ip] : ip \in active} \ {NoIsp}) > 1
  /\ ~(active \subseteq From(p, {"manual_approval"}))

\* buildDeviceEstimate: two providers within a minute, and an address of that
\* minute that no operator has vouched for.
Conflict(k, p) ==
  LET active == Seen(k, {"now"}) \ Hidden(p) IN
  /\ Cardinality({Isp[ip] : ip \in active} \ {NoIsp}) > 1
  /\ ~(active \subseteq From(p, {"manual_approval"}))

StatOf(k, p) == [devices  |-> p,
                 live     |-> Seen(k, {"now", "recent"}) \ Hidden(p),
                 conflict |-> Conflict(k, p),
                 group    |-> groupOf[k]]

----------------------------------------------------------------------------
(***************************************************************************)
(* The evaluation of a key on the page: networks are addresses of one      *)
(* label, and a network is where its first approved address is.            *)
(***************************************************************************)
Label(ip) == IF Isp[ip] # NoIsp THEN Isp[ip] ELSE Country[ip]
Of(S, n)  == {ip \in S : Label(ip) = n}
Labels(S) == {Label(ip) : ip \in S}
Listed(s) == Approved(s.devices) \cup s.devices.pending \cup s.devices.rejected

\* The address a live network is shown by.
Representative(s, n) ==
  LET a == s.devices.approved
      i == CHOOSE i \in DOMAIN a : /\ Label(a[i].ip) = n
                                   /\ \A j \in 1 .. i - 1 : Label(a[j].ip) # n
  IN a[i].ip

LiveNetworks(s) == Labels(s.live)

\* The baseline: the approved addresses that were not just registered on sight.
Established == Sources \ {"auto_registered"}
Baseline(s) == From(s.devices, Established)
Learning(s) == Baseline(s) = {}

KnownIsp(s, n)     == Learning(s) \/ n \in Labels(Baseline(s))
KnownCountry(s, n) == Learning(s) \/ Country[Representative(s, n)] \in {Country[ip] : ip \in Baseline(s)}

InDatacenter(s, n) == Of(Listed(s), n) \cap Datacenter # {}

TravelsTooFast(s) ==
  \E n, m \in LiveNetworks(s) :
    LET a == Representative(s, n)  b == Representative(s, m) IN
    <<a, b>> \in FarApart \/ Country[a] # Country[b]

Unlimited == Cardinality(IPs) + 1

RulesLaxDatacenter ==
  [strict   |-> [networks |-> 1, overflow |-> "block", geo |-> "home",
                 newIsp |-> "block", datacenter |-> "allow"],
   balanced |-> [networks |-> 2, overflow |-> "warn", geo |-> "warn_new",
                 newIsp |-> "warn", datacenter |-> "warn"],
   open     |-> [networks |-> Unlimited, overflow |-> "allow", geo |-> "any",
                 newIsp |-> "allow", datacenter |-> "allow"]]

Rules ==
  [strict   |-> [networks |-> 1, overflow |-> "block", geo |-> "home",
                 newIsp |-> "block", datacenter |-> "block"],
   balanced |-> [networks |-> 2, overflow |-> "warn", geo |-> "warn_new",
                 newIsp |-> "warn", datacenter |-> "warn"],
   open     |-> [networks |-> Unlimited, overflow |-> "allow", geo |-> "any",
                 newIsp |-> "allow", datacenter |-> "allow"]]

Violation(rule, n, hard) == [rule |-> rule, isp |-> n, hard |-> hard]

When(condition, S) == IF condition THEN S ELSE {}

\* evaluatePosture: a violation that names a network comes with buttons.
Violations(preset, k, s) ==
  LET r == Rules[preset]
      live == LiveNetworks(s)
      abroad == {n \in live : ~KnownCountry(s, n)}
  IN When(s.conflict, {Violation("conflict", NoIsp, TRUE)})
     \cup When(Cardinality(live) > r.networks /\ (r.overflow # "allow" \/ r.networks <= 1),
               {Violation("max_networks", NoIsp, r.overflow = "block" \/ r.networks <= 1)})
     \cup When(TravelsTooFast(s), {Violation("impossible_travel", NoIsp, TRUE)})
     \cup When(r.datacenter # "allow",
               {Violation("datacenter", n, r.datacenter = "block") :
                  n \in {m \in live : InDatacenter(s, m)}})
     \cup When(r.newIsp # "allow",
               {Violation("new_isp", n, r.newIsp = "block") :
                  n \in {m \in live : ~KnownIsp(s, m)}})
     \cup When(r.geo = "home", {Violation("geo", n, TRUE) : n \in abroad})
     \cup When(r.geo = "warn_new",
               {Violation("geo", n, FALSE) : n \in {m \in abroad : KnownIsp(s, m)}})
     \cup When(k \in OverCap, {Violation("traffic", NoIsp, FALSE)})

StateOf(violations) ==
  IF \E v \in violations : v.hard THEN "out" ELSE IF violations # {} THEN "review" ELSE "in"

\* resolvePreset.
Resolve(presets, k, g) ==
  IF presets.keys[k] # Unset THEN presets.keys[k]
  ELSE IF presets.groups[g] # Unset THEN presets.groups[g]
  ELSE "balanced"

\* What page o shows of a key.
PresetShown(o, k) == Resolve(page[o].store, k, page[o].stats[k].group)
Shown(o, k)       == Violations(PresetShown(o, k), k, page[o].stats[k])

----------------------------------------------------------------------------
ReviewInit ==
  /\ activity = [k \in Keys |-> [ip \in IPs |-> "none"]]
  /\ policy = [k \in Keys |-> [approved |-> <<>>, pending |-> {}, rejected |-> {}]]
  /\ store = [keys |-> [k \in Keys |-> Unset], groups |-> [g \in Groups |-> Unset]]
  /\ groupOf = [k \in Keys |-> FirstGroup]
  /\ page = [o \in Pages |-> [stats |-> [k \in Keys |-> StatOf(k, policy[k])], store |-> store]]
  /\ click = [o \in Pages |-> NoClick]
  /\ connections = 0 /\ turns = 0

Turn == turns < MaxTurns /\ turns' = turns + 1

\* The access log: a key connects from one of its addresses, and what it did ages.
Connect(k, ip) ==
  /\ connections < MaxConnections
  /\ connections' = connections + 1
  /\ activity' = [activity EXCEPT ![k][ip] = "now"]
  /\ UNCHANGED <<server, page, click, turns>>

Older == [now |-> "recent", recent |-> "today", today |-> "none"]

Ageing(k, ip) ==
  /\ activity[k][ip] # "none"
  /\ activity' = [activity EXCEPT ![k][ip] = Older[@]]
  /\ UNCHANGED <<server, page, click, connections, turns>>

\* The two polls of a page.  A GET of the statistics evaluates every key, which
\* changes the device policy.
FetchStats(o) ==
  /\ UNCHANGED <<activity, store, groupOf, click, connections, turns>>
  /\ policy' = [k \in Keys |-> Evaluated(k)]
  /\ page' = [page EXCEPT ![o] = [stats |-> [k \in Keys |-> StatOf(k, policy'[k])],
                               store |-> @.store]]

FetchPosture(o) ==
  /\ UNCHANGED <<activity, server, click, connections, turns>>
  /\ page' = [page EXCEPT ![o] = [stats |-> @.stats, store |-> store]]

----------------------------------------------------------------------------
(***************************************************************************)
(* The buttons.                                                            *)
(***************************************************************************)

\* The addresses of a network that its buttons act on, as the page has them.
Keepable(s, n) == Of(Approved(s.devices) \cup s.devices.pending, n)

\* A network of a key, in its card or its drill-down, and each address.
Offered(s) == {Keepable(s, n) : n \in Labels(Listed(s))} \cup {{ip} : ip \in Listed(s)}

Press(o, k, ips, action) ==
  /\ UNCHANGED <<activity, server, page, connections>>
  /\ ips \in Offered(page[o].stats[k]) \ {{}}
  /\ click' = [click EXCEPT ![o] = [key |-> k, action |-> action, todo |-> ips]]

\* What an operator can do something about, as the page shows it: new networks, and
\* those of a conflict that nobody has vouched for.
Flagged(o, k) ==
  LET s == page[o].stats[k] IN
  {v.isp : v \in {w \in Shown(o, k) : w.rule \in {"new_isp", "geo"}}}
  \cup When(s.conflict, Labels(s.live \ From(s.devices, {"manual_approval"})))

\* An operator keeps or blocks a network that is flagged ...
Resolved(o) ==
  /\ UNCHANGED turns
  /\ click[o] = NoClick
  /\ \E k \in Keys, action \in Actions : \E n \in Flagged(o, k) :
       Press(o, k, Keepable(page[o].stats[k], n), action)

\* ... or any other network or address.
PressAny(o, k, ips, action) ==
  /\ Turn
  /\ click[o] = NoClick
  /\ Press(o, k, ips, action)

\* One of its calls ends; after the last one the buttons are free again.
CallEnds(o, ip) ==
  /\ click[o] # NoClick
  /\ ip \in click[o].todo
  /\ click' = [click EXCEPT ![o] =
                 IF @.todo = {ip} THEN NoClick ELSE [@ EXCEPT !.todo = @ \ {ip}]]
  /\ UNCHANGED <<activity, store, groupOf, page, connections>>

Handle(o, ip) ==
  /\ CallEnds(o, ip)
  /\ policy' = [policy EXCEPT ![click[o].key] =
                  IF click[o].action = "approve" THEN AfterApprove(@, ip) ELSE AfterReject(@, ip)]
  /\ UNCHANGED turns

\* A call that fails is ignored.
LoseCall(o, ip) ==
  /\ Turn
  /\ CallEnds(o, ip)
  /\ UNCHANGED policy

----------------------------------------------------------------------------
(***************************************************************************)
(* Presets and groups.                                                     *)
(***************************************************************************)
Edit == Turn /\ UNCHANGED <<activity, page, click, connections>>

\* PresetSelect: a preset for a key, other than the one the page shows.
SetKeyPreset(o, k, preset) ==
  /\ Edit
  /\ preset # PresetShown(o, k)
  /\ store' = [store EXCEPT !.keys[k] = preset]
  /\ UNCHANGED <<policy, groupOf>>

\* The keys of a group on page o, out of those its search field leaves.
GroupKeys(o, found, g) == {k \in found : page[o].stats[k].group = g}

\* GroupPresetSelect: "set all" of a group of which some key is in posture.
SetGroupPreset(o, found, g, preset) ==
  /\ Edit
  /\ \E k \in GroupKeys(o, found, g) : StateOf(Shown(o, k)) = "in"
  /\ store' = [keys   |-> [k \in Keys |-> IF k \in GroupKeys(o, found, g) THEN Unset
                                          ELSE store.keys[k]],
               groups |-> [store.groups EXCEPT ![g] = preset]]
  /\ UNCHANGED <<policy, groupOf>>

\* renameGroup, and deleteGroup, which names its keys Ungrouped.
Renamed(g, name) == [k \in Keys |-> IF groupOf[k] = g THEN name ELSE groupOf[k]]

\* A group is renamed, or deleted: its keys are, the presets are not.
RenameGroup(g, name) ==
  /\ Edit
  /\ g # Ungrouped
  /\ groupOf' = Renamed(g, name)
  /\ UNCHANGED <<policy, store>>

\* The panel of a key: its group, and forgetting one of its addresses.
MoveKey(k, g) ==
  /\ Edit
  /\ groupOf' = [groupOf EXCEPT ![k] = g]
  /\ UNCHANGED <<policy, store>>

ClearDevice(k, ip) ==
  /\ Edit
  /\ ip \in Approved(policy[k]) \cup policy[k].pending \cup policy[k].rejected
  /\ policy' = [policy EXCEPT ![k] = AfterClear(@, ip)]
  /\ UNCHANGED <<store, groupOf>>

----------------------------------------------------------------------------
Environment == \E k \in Keys : \E ip \in Uses[k] : Connect(k, ip) \/ Ageing(k, ip)

Browse(o) ==
  \/ FetchStats(o) \/ FetchPosture(o)
  \/ Resolved(o)
  \/ \E k \in Keys, ips \in SUBSET IPs, action \in Actions : PressAny(o, k, ips, action)
  \/ \E ip \in IPs : Handle(o, ip) \/ LoseCall(o, ip)

Administer ==
  \/ \E o \in Pages, preset \in Chosen :
       \/ \E k \in Keys : SetKeyPreset(o, k, preset)
       \/ \E found \in SUBSET Keys, g \in Groups : SetGroupPreset(o, found, g, preset)
  \/ \E g, name \in Groups : RenameGroup(g, name)
  \/ \E k \in Keys : \/ \E g \in Groups : MoveKey(k, g)
                     \/ \E ip \in Uses[k] : ClearDevice(k, ip)

ReviewNext == Environment \/ Administer \/ \E o \in Pages : Browse(o)
ReviewSpec == ReviewInit /\ [][ReviewNext]_reviewVars

\* Pages poll, calls end, and operators come round to what stays flagged.
FairSpec ==
  /\ ReviewSpec
  /\ \A o \in Pages :
       /\ WF_reviewVars(FetchStats(o)) /\ WF_reviewVars(FetchPosture(o))
       /\ WF_reviewVars(\E ip \in IPs : Handle(o, ip))
       /\ SF_reviewVars(Resolved(o))

----------------------------------------------------------------------------
(***************************************************************************)
(* Properties                                                              *)
(***************************************************************************)

\* However stale the page, and with a call lost or a key, group or preset changed:
\* what is new about a key and what conflicts goes away for good once operators have
\* kept or blocked the networks that are flagged.
ReviewSettles ==
  <>[](\A o \in Pages, k \in Keys :
         \A v \in Shown(o, k) : v.rule \notin {"conflict", "new_isp", "geo"})

Rank == [in |-> 0, review |-> 1, out |-> 2]

\* A stricter preset never judges a key more mildly, whatever was seen of it.
PresetsAreOrdered ==
  \A o \in Pages, k \in Keys :
    LET rank(preset) == Rank[StateOf(Violations(preset, k, page[o].stats[k]))] IN
    rank("open") <= rank("balanced") /\ rank("balanced") <= rank("strict")

=============================================================================
