---------------------------- MODULE DevicePolicy ----------------------------
(***************************************************************************)
(* The device policy: which addresses a key may be used from.  The verdicts*)
(* are kept for all users in one file, device_approvals.json, which the    *)
(* dashboard process (dashboard/src/lib/devices.ts) and the threads of the *)
(* vpn-api process (api/vpn_extensions_v3.py) each load whole, change in   *)
(* memory and replace whole.  A verdict is enforced twice: by routing      *)
(* rules of the Xray config, which only the dashboard rebuilds, and by the *)
(* firewall, which the dashboard reaches with an HTTP call that makes the  *)
(* vpn-api queue a command of scope "permanent", and the vpn-api reaches   *)
(* itself with commands of scope "device".                                 *)
(*                                                                         *)
(* The firewall is the registry of holds that FirewallQueue implements: a  *)
(* queued command is applied at once here.  Abstracted: time stamps (the   *)
(* oldest approved address is any approved address), the file of known     *)
(* addresses (any of a user's addresses may be known), failing writes.     *)
(***************************************************************************)
EXTENDS Naturals, FiniteSets

CONSTANTS
  Users,         \* the keys
  IPs,           \* the addresses
  Uses,          \* Uses[u]: the addresses user u connects from
  Isp,           \* Isp[ip]: the network of an address, or NoIsp
  NoIsp,
  Workers,       \* the dashboard process and the threads of the vpn-api
  Dashboard,     \* the worker that is the dashboard
  DefaultLimit,  \* DefaultLimit[w]: the constant DEVICE_LIMIT in w's code
  Limits,        \* the limits an operator sets; 0 asks for the default
  Operations,    \* the operations operators use
  Idle,          \* a worker with no handler under way
  MaxCalls       \* bound on the dashboard's calls in flight

AllOperations == {"approve", "reject", "clear", "delete", "reset", "limit"}

ASSUME DeviceConstants ==
  /\ Uses \in [Users -> SUBSET IPs]
  /\ IsFiniteSet(IPs)
  /\ DOMAIN Isp = IPs
  /\ Dashboard \in Workers
  /\ DefaultLimit \in [Workers -> Nat \ {0}]
  /\ Limits \subseteq Nat
  /\ Operations \subseteq AllOperations
  /\ MaxCalls \in Nat

VARIABLES
  policy,        \* device_approvals.json: policy[u] is the policy of user u
  work,          \* work[w]: the handler under way in w, with its copy of the file
  routes,        \* the <<user, address>> pairs the Xray config blocks
  calls,         \* the dashboard's calls on their way to the vpn-api (equal ones are one)
  permanent, device, rules,  \* the firewall
  unsynced,      \* history: the <<user, address>> pairs the vpn-api rejected, or stopped
                 \* rejecting, since the dashboard last rebuilt the routes
  unsettled      \* history: the addresses whose last command was lost, or met one that
                 \* contradicts it

firewall == <<permanent, device, rules>>
history  == <<unsynced, unsettled>>
vars == <<policy, work, routes, calls, firewall, history>>

Registry == INSTANCE BlockRegistry

\* limit 0: none was stored yet.
Policy  == [limit : Nat, approved : SUBSET IPs, pending : SUBSET IPs, rejected : SUBSET IPs]
Command == [action : {"block", "unblock"}, ip : IPs]
\* A handler: the user it is about, its copy of the file, the addresses it has yet
\* to evaluate, whether the verdict is enforced after the save, whether the copy was
\* saved, and the commands it has yet to send to the firewall.
Handler == [user : Users, file : [Users -> Policy], todo : SUBSET IPs,
            enforce : BOOLEAN, saved : BOOLEAN, commands : SUBSET Command]

ASSUME IdleIsNoHandler == Idle \notin Handler

TypeOK ==
  /\ policy \in [Users -> Policy]
  /\ work \in [Workers -> {Idle} \cup Handler]
  /\ routes \subseteq Users \X IPs
  /\ calls \subseteq Command
  /\ Registry!RegistryType
  /\ unsynced \subseteq Users \X IPs
  /\ unsettled \subseteq IPs

NoPolicy == [limit |-> 0, approved |-> {}, pending |-> {}, rejected |-> {}]

Init ==
  /\ policy = [u \in Users |-> NoPolicy]
  /\ work = [w \in Workers |-> Idle]
  /\ routes = {} /\ calls = {}
  /\ permanent = {} /\ device = {} /\ rules = {}
  /\ unsynced = {} /\ unsettled = {}
----------------------------------------------------------------------------
(***************************************************************************)
(* The handlers.  Each loads the file and computes the policy to save;     *)
(* Save replaces the file with the handler's copy, and what the verdict    *)
(* means for Xray and the firewall follows the save.                       *)
(***************************************************************************)

LimitOf(w, p)  == IF p.limit = 0 THEN DefaultLimit[w] ELSE p.limit
UserPolicy(w, u) == [policy[u] EXCEPT !.limit = LimitOf(w, policy[u])]

To(action, ip) == [action |-> action, ip |-> ip]

\* The commands of w's scope that were not carried out yet: the dashboard's are of
\* scope "permanent", all others of scope "device".
UnderWay(w) ==
  LET senders == IF w = Dashboard THEN {Dashboard} ELSE Workers \ {Dashboard} IN
  (IF w = Dashboard THEN calls ELSE {})
    \cup (UNION {work[v].commands : v \in {x \in senders : work[x] # Idle}})

Opposite(action) == IF action = "block" THEN "unblock" ELSE "block"

\* The addresses of commands that contradict one of their scope under way: which of
\* the two is carried out last is open.
Contradicted(w, commands) ==
  {c.ip : c \in {d \in commands : To(Opposite(d.action), d.ip) \in UnderWay(w)}}

Start(w, u, p, current, enforce, commands) ==
  /\ work[w] = Idle
  /\ work' = [work EXCEPT ![w] =
                [user |-> u, file |-> [policy EXCEPT ![u] = p], todo |-> current,
                 enforce |-> enforce, saved |-> FALSE, commands |-> commands]]
  /\ unsettled' = unsettled \cup Contradicted(w, commands)
  /\ UNCHANGED <<policy, routes, calls, firewall, unsynced>>

\* A user with no approved address starts from some known ones.
Seeds(p, u) ==
  IF p.approved = {} THEN {seed \in SUBSET Uses[u] : Cardinality(seed) <= p.limit}
                     ELSE {{}}

\* evaluateDevicePolicy: load, seed, then classify the addresses the user was seen
\* from; the vpn-api saves only when there was one.
Evaluate(w, u, current) ==
  /\ current \subseteq Uses[u]
  /\ w # Dashboard => current # {}
  /\ LET p == UserPolicy(w, u) IN
     \E seed \in Seeds(p, u) :
       Start(w, u, [p EXCEPT !.approved = @ \cup seed], current, FALSE, {})

\* Only the dashboard trusts the network of an approved address.
IspTrusted(w, p, ip) ==
  /\ w = Dashboard
  /\ Isp[ip] # NoIsp
  /\ \E other \in p.approved : Isp[other] = Isp[ip]

\* The limit compared off by one.
VerdictOneMore(w, p, ip) ==
  IF ip \in p.approved \cup p.rejected THEN p
  ELSE IF IspTrusted(w, p, ip) \/ Cardinality(p.approved) <= p.limit
       THEN [p EXCEPT !.approved = @ \cup {ip}]
       ELSE [p EXCEPT !.pending = @ \cup {ip}]

Verdict(w, p, ip) ==
  IF ip \in p.approved \cup p.rejected THEN p
  ELSE IF IspTrusted(w, p, ip) \/ Cardinality(p.approved) < p.limit
       THEN [p EXCEPT !.approved = @ \cup {ip}]
       ELSE [p EXCEPT !.pending = @ \cup {ip}]

EvaluateOne(w, ip) ==
  /\ work[w] # Idle
  /\ ip \in work[w].todo
  /\ LET u == work[w].user IN
     work' = [work EXCEPT ![w].todo = @ \ {ip},
                          ![w].file[u] = Verdict(w, @, ip)]
  /\ UNCHANGED <<policy, routes, calls, firewall, history>>

\* An operation an operator starts on user u.
Operate(w, operation, u, p, commands) ==
  /\ operation \in Operations
  /\ w = Dashboard => Cardinality(calls) < MaxCalls
  /\ Start(w, u, p, {}, operation # "limit", commands)

\* approveDevice: at the limit it takes the place of the oldest approved address,
\* or fails and saves nothing.
Full(p, ip) == ip \notin p.approved /\ Cardinality(p.approved) >= p.limit

Approve(w, u, ip) ==
  LET p == UserPolicy(w, u) IN
  \E replaced \in IF Full(p, ip) THEN {{oldest} : oldest \in p.approved} ELSE {{}} :
    Operate(w, "approve", u,
            [p EXCEPT !.approved = (@ \ replaced) \cup {ip},
                      !.pending  = @ \ {ip},
                      !.rejected = @ \ {ip}],
            {To("unblock", ip)})

\* rejectDevice.
Reject(w, u, ip) ==
  Operate(w, "reject", u,
          [UserPolicy(w, u) EXCEPT !.pending  = @ \ {ip},
                                   !.rejected = @ \cup {ip}],
          {To("block", ip)})

\* clearDevice.
Clear(u, ip) ==
  /\ ip \in policy[u].approved \cup policy[u].pending \cup policy[u].rejected
  /\ Operate(Dashboard, "clear", u,
             [UserPolicy(Dashboard, u) EXCEPT !.approved = @ \ {ip},
                                              !.pending  = @ \ {ip},
                                              !.rejected = @ \ {ip}],
             {To("unblock", ip)})

\* DELETE /api/devices/blocked.
DeleteBlocked(u, ip) ==
  /\ ip \in policy[u].pending \cup policy[u].rejected
  /\ Operate(Dashboard, "delete", u,
             [policy[u] EXCEPT !.pending  = @ \ {ip},
                               !.rejected = @ \ {ip}],
             {})

\* resetUserDevices: the vpn-api unblocks what was pending or rejected, the
\* dashboard only names it in its answer.
Reset(w, u) ==
  LET p == UserPolicy(w, u) IN
  Operate(w, "reset", u,
          [p EXCEPT !.approved = {}, !.pending = {}, !.rejected = {}],
          IF w = Dashboard THEN {}
          ELSE {To("unblock", ip) : ip \in p.pending \cup p.rejected})

SetLimit(u, limit) ==
  Operate(Dashboard, "limit", u,
          [policy[u] EXCEPT !.limit =
             IF limit > 0 THEN limit ELSE DefaultLimit[Dashboard]],
          {})

----------------------------------------------------------------------------
(***************************************************************************)
(* The save and what follows it.                                           *)
(***************************************************************************)

RejectedIn(file) == {pair \in Users \X IPs : pair[2] \in file[pair[1]].rejected}
Rejected == RejectedIn(policy)

\* The addresses that w unblocks while the file it saves rejects them for another
\* user, or while another handler's copy still rejects them.
UnblockedYetRejected(w) ==
  {ip \in IPs :
     /\ To("unblock", ip) \in work[w].commands
     /\ \/ \E u \in Users \ {work[w].user} : ip \in work[w].file[u].rejected
        \/ \E v \in Workers \ {w} :
             /\ work[v] # Idle /\ ~work[v].saved
             /\ \E u \in Users : ip \in work[v].file[u].rejected}

\* Saving the policy of one user as the file.
SaveOneUser(w) ==
  /\ work[w] # Idle
  /\ ~work[w].saved /\ work[w].todo = {}
  /\ policy' = work[w].file[work[w].user]
  /\ work' = [work EXCEPT ![w] =
                IF @.enforce THEN [@ EXCEPT !.saved = TRUE] ELSE Idle]
  /\ UNCHANGED <<routes, calls, firewall, history>>

\* The file becomes the handler's copy, whatever it holds by now.
Save(w) ==
  /\ work[w] # Idle
  /\ ~work[w].saved /\ work[w].todo = {}
  /\ policy' = work[w].file
  /\ work' = [work EXCEPT ![w] =
                IF @.enforce THEN [@ EXCEPT !.saved = TRUE] ELSE Idle]
  /\ unsynced' =
       IF w = Dashboard THEN unsynced
       ELSE unsynced \cup (Rejected \ RejectedIn(work[w].file))
                     \cup (RejectedIn(work[w].file) \ Rejected)
  /\ unsettled' = unsettled \cup UnblockedYetRejected(w)
  /\ UNCHANGED <<routes, calls, firewall>>

\* Adding the rules of the rejected addresses and keeping the ones there were.
SyncAddsOnly ==
  /\ work[Dashboard] # Idle /\ work[Dashboard].saved
  /\ routes' = routes \cup Rejected
  /\ calls' = calls \cup work[Dashboard].commands
  /\ work' = [work EXCEPT ![Dashboard] = Idle]
  /\ unsynced' = {}
  /\ UNCHANGED <<policy, firewall, unsettled>>

\* The dashboard: syncDeviceBlockRoutes rebuilds the routes from the file as it is
\* now, then the call to the vpn-api is sent.
SyncAndCall ==
  /\ work[Dashboard] # Idle /\ work[Dashboard].saved
  /\ routes' = Rejected
  /\ calls' = calls \cup work[Dashboard].commands
  /\ work' = [work EXCEPT ![Dashboard] = Idle]
  /\ unsynced' = {}
  /\ UNCHANGED <<policy, firewall, unsettled>>

\* An address is settled again by a block that no unblock of its scope can follow.
Settle(w, c) ==
  unsettled' = IF c.action = "block" /\ To("unblock", c.ip) \notin UnderWay(w)
               THEN unsettled \ {c.ip} ELSE unsettled

\* Queueing without the scope, which puts the command on the permanent list.
QueueUnscoped(w, c) ==
  /\ w # Dashboard
  /\ work[w] # Idle /\ work[w].saved
  /\ c \in work[w].commands
  /\ IF c.action = "block" THEN Registry!Hold(c.ip) ELSE Registry!Release(c.ip)
  /\ rules' = permanent' \cup device'
  /\ work' = [work EXCEPT ![w].commands = @ \ {c}]
  /\ Settle(w, c)
  /\ UNCHANGED <<policy, routes, calls, unsynced>>

\* The vpn-api: write_firewall_command for each command, with scope "device".
QueueDevice(w, c) ==
  /\ w # Dashboard
  /\ work[w] # Idle /\ work[w].saved
  /\ c \in work[w].commands
  /\ IF c.action = "block" THEN Registry!HoldDevice(c.ip) ELSE Registry!ReleaseDevice(c.ip)
  /\ rules' = permanent' \cup device'
  /\ work' = [work EXCEPT ![w].commands = @ \ {c}]
  /\ Settle(w, c)
  /\ UNCHANGED <<policy, routes, calls, unsynced>>

Finish(w) ==
  /\ w # Dashboard
  /\ work[w] # Idle /\ work[w].saved /\ work[w].commands = {}
  /\ work' = [work EXCEPT ![w] = Idle]
  /\ UNCHANGED <<policy, routes, calls, firewall, history>>

\* A call of the dashboard reaches the vpn-api, which queues a permanent command ...
Deliver(c) ==
  /\ c \in calls
  /\ calls' = calls \ {c}
  /\ IF c.action = "block" THEN Registry!Hold(c.ip) ELSE Registry!Release(c.ip)
  /\ rules' = permanent' \cup device'
  /\ Settle(Dashboard, c)
  /\ UNCHANGED <<policy, work, routes, unsynced>>

\* ... or fails, which the dashboard ignores.
LoseCall(c) ==
  /\ c \in calls
  /\ calls' = calls \ {c}
  /\ unsettled' = unsettled \cup {c.ip}
  /\ UNCHANGED <<policy, work, routes, firewall, unsynced>>

----------------------------------------------------------------------------
Evaluation ==
  \E w \in Workers :
    \/ \E u \in Users, current \in SUBSET IPs : Evaluate(w, u, current)
    \/ \E ip \in IPs : EvaluateOne(w, ip)

Operation ==
  \E u \in Users :
    \/ \E w \in Workers, ip \in Uses[u] : Approve(w, u, ip) \/ Reject(w, u, ip)
    \/ \E ip \in Uses[u] : Clear(u, ip) \/ DeleteBlocked(u, ip)
    \/ \E w \in Workers : Reset(w, u)
    \/ \E limit \in Limits : SetLimit(u, limit)

Enforcement ==
  \/ \E w \in Workers : Save(w) \/ Finish(w) \/ \E c \in Command : QueueDevice(w, c)
  \/ SyncAndCall
  \/ \E c \in Command : Deliver(c) \/ LoseCall(c)

Next == Evaluation \/ Operation \/ Enforcement
Spec == Init /\ [][Next]_vars

----------------------------------------------------------------------------
(***************************************************************************)
(* Properties                                                              *)
(***************************************************************************)

\* A key is never used from more approved addresses than its limit: not when the
\* dashboard and the vpn-api, with their different defaults, overwrite each other's
\* verdicts.  For limits that are not changed and networks that are not trusted.
LimitRespected ==
  \A u \in Users : Cardinality(policy[u].approved) <= policy[u].limit

\* Between the dashboard's handlers the Xray config blocks exactly the rejected
\* addresses of each user, but for the verdicts of the vpn-api, which rebuilds no
\* routes: those wait for the dashboard's next verdict.
RoutesMatchRejected ==
  work[Dashboard] = Idle =>
    \A pair \in (Users \X IPs) \ unsynced : pair \in routes <=> pair \in Rejected

AtRest == calls = {} /\ \A w \in Workers : work[w] = Idle

\* Once nothing is under way, the firewall denies every rejected address, whichever
\* processes gave their verdicts on it through which copies of the file, unless the
\* last command about it was lost, met one that contradicts it, or lifted the rule
\* while another key or another handler's copy still rejected the address.
RejectedIsDenied ==
  AtRest => \A u \in Users : policy[u].rejected \subseteq rules \cup unsettled

\* dashboard/src/app/api/devices/blocked/route.ts: "remove from rejected/pending and
\* unblock".  With no such accident, the firewall denies no address that is not rejected.
DeniedIsRejected ==
  AtRest /\ unsettled = {} =>
    \A ip \in rules : \E u \in Users : ip \in policy[u].rejected

=============================================================================
