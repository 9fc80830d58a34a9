------------------------- MODULE DevicePolicyProofs -------------------------
(***************************************************************************)
(* What holds of the device policy for every number of users, addresses    *)
(* and worker threads.                                                     *)
(***************************************************************************)
EXTENDS DevicePolicy, FiniteSetTheorems, TLAPS

----------------------------------------------------------------------------
(* Types *)

\* The policy a handler starts from, with the default limit filled in.
LEMMA UserPolicyType ==
  ASSUME policy \in [Users -> Policy], NEW w \in Workers, NEW u \in Users
  PROVE  /\ UserPolicy(w, u) \in Policy
         /\ UserPolicy(w, u).limit \in Nat \ {0}
         /\ UserPolicy(w, u).approved = policy[u].approved
         /\ UserPolicy(w, u).pending = policy[u].pending
         /\ UserPolicy(w, u).rejected = policy[u].rejected
         /\ policy[u].limit # 0 => UserPolicy(w, u).limit = policy[u].limit
<1>1. policy[u] \in Policy /\ DefaultLimit[w] \in Nat \ {0}
  BY DeviceConstants
<1>2. LimitOf(w, policy[u]) \in Nat \ {0}
  BY <1>1 DEF LimitOf, Policy
<1>3. QED
  BY <1>1, <1>2 DEF UserPolicy, LimitOf, Policy

\* Starting a handler with a well-formed policy keeps every variable in its type.
LEMMA StartType ==
  ASSUME TypeOK, NEW w \in Workers, NEW u \in Users, NEW p \in Policy,
         NEW current \in SUBSET IPs, NEW enforce \in BOOLEAN,
         NEW commands \in SUBSET Command,
         Start(w, u, p, current, enforce, commands)
  PROVE  TypeOK'
<1> DEFINE handler == [user |-> u, file |-> [policy EXCEPT ![u] = p], todo |-> current,
                       enforce |-> enforce, saved |-> FALSE, commands |-> commands]
<1>1. [policy EXCEPT ![u] = p] \in [Users -> Policy]
  BY DEF TypeOK
<1>2. handler \in Handler
  BY <1>1 DEF Handler
<1>3. work' = [work EXCEPT ![w] = handler]
  BY DEF Start
<1>4. work' \in [Workers -> {Idle} \cup Handler]
  <2> HIDE DEF handler
  <2> QED BY <1>2, <1>3 DEF TypeOK
<1>5. Contradicted(w, commands) \subseteq IPs
  BY DEF Contradicted, Command
<1>6. QED
  BY <1>4, <1>5 DEF TypeOK, Start, firewall, Registry!RegistryType

\* Uses names addresses.
LEMMA UsesType == ASSUME NEW u \in Users PROVE Uses[u] \subseteq IPs
BY DeviceConstants

LEMMA CommandType ==
  ASSUME NEW action \in {"block", "unblock"}, NEW ip \in IPs
  PROVE  To(action, ip) \in Command
BY DEF To, Command

\* Classifying one address keeps a policy well-formed.
LEMMA VerdictType ==
  ASSUME NEW w \in Workers, NEW p \in Policy, NEW ip \in IPs
  PROVE  Verdict(w, p, ip) \in Policy
BY DEF Verdict, Policy

LEMMA EvaluationType ==
  ASSUME TypeOK, Evaluation PROVE TypeOK'
<1>1. ASSUME NEW w \in Workers, NEW u \in Users, NEW current \in SUBSET IPs,
             Evaluate(w, u, current)
      PROVE  TypeOK'
  <2>1. UserPolicy(w, u) \in Policy
    BY UserPolicyType DEF TypeOK
  <2>2. PICK seed \in Seeds(UserPolicy(w, u), u) :
          Start(w, u, [UserPolicy(w, u) EXCEPT !.approved = @ \cup seed], current, FALSE, {})
    BY <1>1 DEF Evaluate
  <2>3. seed \subseteq IPs
    BY UsesType DEF Seeds
  <2>4. [UserPolicy(w, u) EXCEPT !.approved = @ \cup seed] \in Policy
    BY <2>1, <2>3 DEF Policy
  <2>5. PICK p \in Policy : Start(w, u, p, current, FALSE, {})
    BY <2>2, <2>4
  <2>6. FALSE \in BOOLEAN /\ {} \in SUBSET Command
    OBVIOUS
  <2>7. QED
    BY <2>5, <2>6, StartType, Zenon
<1>2. ASSUME NEW w \in Workers, NEW ip \in IPs, EvaluateOne(w, ip) PROVE TypeOK'
  <2> DEFINE h == work[w]
             q == Verdict(w, h.file[h.user], ip)
  <2>1. h \in Handler
    BY <1>2 DEF EvaluateOne, TypeOK
  <2>2. q \in Policy
    BY <2>1, VerdictType DEF Handler
  <2>3. work' = [work EXCEPT ![w] = [h EXCEPT !.todo = @ \ {ip}, !.file[h.user] = q]]
    BY <1>2, <2>1 DEF EvaluateOne, TypeOK, Handler
  <2>4. [h EXCEPT !.todo = @ \ {ip}, !.file[h.user] = q] \in Handler
    <3> HIDE DEF q, h
    <3> QED BY <2>1, <2>2 DEF Handler
  <2>5. work' \in [Workers -> {Idle} \cup Handler]
    BY <2>3, <2>4 DEF TypeOK
  <2>6. QED
    BY <1>2, <2>5 DEF EvaluateOne, TypeOK, firewall, history, Registry!RegistryType
<1>3. QED
  BY <1>1, <1>2 DEF Evaluation

LEMMA OperationType ==
  ASSUME TypeOK, Operation PROVE TypeOK'
<1>1. ASSUME NEW u \in Users, NEW w \in Workers, NEW operation, NEW p \in Policy,
             NEW commands \in SUBSET Command, Operate(w, operation, u, p, commands)
      PROVE  TypeOK'
  BY <1>1, StartType DEF Operate
<1> SUFFICES ASSUME NEW u \in Users,
                    \/ \E w \in Workers, ip \in Uses[u] : Approve(w, u, ip) \/ Reject(w, u, ip)
                    \/ \E ip \in Uses[u] : Clear(u, ip) \/ DeleteBlocked(u, ip)
                    \/ \E w \in Workers : Reset(w, u)
                    \/ \E limit \in Limits : SetLimit(u, limit)
             PROVE  TypeOK'
  BY DEF Operation
<1>2. policy[u] \in Policy /\ \A w \in Workers : UserPolicy(w, u) \in Policy
  BY UserPolicyType DEF TypeOK
<1>3. Dashboard \in Workers /\ DefaultLimit[Dashboard] \in Nat /\ Limits \subseteq Nat
  BY DeviceConstants
<1>4. ASSUME NEW w \in Workers, NEW ip \in Uses[u], Approve(w, u, ip) PROVE TypeOK'
  <2> DEFINE p == UserPolicy(w, u)
  <2>1. PICK replaced :
          Operate(w, "approve", u,
                  [p EXCEPT !.approved = (@ \ replaced) \cup {ip},
                            !.pending  = @ \ {ip},
                            !.rejected = @ \ {ip}],
                  {To("unblock", ip)})
    BY <1>4 DEF Approve
  <2>2. [p EXCEPT !.approved = (@ \ replaced) \cup {ip}, !.pending = @ \ {ip},
                  !.rejected = @ \ {ip}] \in Policy
    BY <1>2, UsesType DEF Policy
  <2>3. {To("unblock", ip)} \in SUBSET Command
    BY CommandType, UsesType
  <2>4. QED
    BY <1>1, <2>1, <2>2, <2>3
<1>5. ASSUME NEW w \in Workers, NEW ip \in Uses[u], Reject(w, u, ip) PROVE TypeOK'
  <2>1. [UserPolicy(w, u) EXCEPT !.pending = @ \ {ip}, !.rejected = @ \cup {ip}] \in Policy
    BY <1>2, UsesType DEF Policy
  <2>2. {To("block", ip)} \in SUBSET Command
    BY CommandType, UsesType
  <2>3. QED
    BY <1>1, <1>5, <2>1, <2>2 DEF Reject
<1>6. ASSUME NEW ip \in Uses[u], Clear(u, ip) PROVE TypeOK'
  <2>1. [UserPolicy(Dashboard, u) EXCEPT !.approved = @ \ {ip}, !.pending = @ \ {ip},
                                         !.rejected = @ \ {ip}] \in Policy
    BY <1>2, <1>3 DEF Policy
  <2>2. {To("unblock", ip)} \in SUBSET Command
    BY CommandType, UsesType
  <2>3. QED
    BY <1>1, <1>3, <1>6, <2>1, <2>2 DEF Clear
<1>7. ASSUME NEW ip \in Uses[u], DeleteBlocked(u, ip) PROVE TypeOK'
  <2>1. [policy[u] EXCEPT !.pending = @ \ {ip}, !.rejected = @ \ {ip}] \in Policy
    BY <1>2 DEF Policy
  <2>2. ASSUME NEW p \in Policy, Operate(Dashboard, "delete", u, p, {}) PROVE TypeOK'
    BY <1>1, <1>3, <2>2
  <2>3. QED
    BY <1>7, <2>1, <2>2 DEF DeleteBlocked
<1>8. ASSUME NEW w \in Workers, Reset(w, u) PROVE TypeOK'
  <2> DEFINE p == UserPolicy(w, u)
             commands == IF w = Dashboard THEN {}
                         ELSE {To("unblock", ip) : ip \in p.pending \cup p.rejected}
  <2>1. [p EXCEPT !.approved = {}, !.pending = {}, !.rejected = {}] \in Policy
    BY <1>2 DEF Policy
  <2>2. p.pending \subseteq IPs /\ p.rejected \subseteq IPs
    BY <1>2 DEF Policy
  <2>3. commands \in SUBSET Command
    BY <2>2, CommandType
  <2>4. Operate(w, "reset", u, [p EXCEPT !.approved = {}, !.pending = {}, !.rejected = {}],
                commands)
    BY <1>8 DEF Reset
  <2>5. QED
    BY <1>1, <2>1, <2>3, <2>4
<1>9. ASSUME NEW limit \in Limits, SetLimit(u, limit) PROVE TypeOK'
  <2>1. [policy[u] EXCEPT !.limit =
           IF limit > 0 THEN limit ELSE DefaultLimit[Dashboard]] \in Policy
    BY <1>2, <1>3 DEF Policy
  <2>2. QED
    BY <1>1, <1>3, <1>9, <2>1 DEF SetLimit
<1>10. QED
  BY <1>4, <1>5, <1>6, <1>7, <1>8, <1>9

LEMMA EnforcementType ==
  ASSUME TypeOK, Enforcement PROVE TypeOK'
<1>1. ASSUME NEW w \in Workers, Save(w) PROVE TypeOK'
  <2>1. work[w] \in Handler
    BY <1>1 DEF Save, TypeOK
  <2>2. work[w].file \in [Users -> Policy] /\ [work[w] EXCEPT !.saved = TRUE] \in Handler
    BY <2>1 DEF Handler
  <2>3. work' \in [Workers -> {Idle} \cup Handler]
    BY <1>1, <2>2 DEF Save, TypeOK
  <2>4. unsynced' \subseteq Users \X IPs /\ unsettled' \subseteq IPs
    BY <1>1 DEF Save, TypeOK, Rejected, RejectedIn, UnblockedYetRejected
  <2>5. QED
    BY <1>1, <2>2, <2>3, <2>4 DEF Save, TypeOK, firewall, Registry!RegistryType
<1>2. ASSUME NEW w \in Workers, Finish(w) PROVE TypeOK'
  BY <1>2 DEF Finish, TypeOK, firewall, history, Registry!RegistryType
<1>3. ASSUME NEW w \in Workers, NEW c \in Command, QueueDevice(w, c) PROVE TypeOK'
  <2>1. work[w] \in Handler /\ c.ip \in IPs
    BY <1>3 DEF QueueDevice, TypeOK, Command
  <2>2. [work[w] EXCEPT !.commands = @ \ {c}] \in Handler
    BY <2>1 DEF Handler
  <2>3. work' \in [Workers -> {Idle} \cup Handler]
    BY <1>3, <2>2 DEF QueueDevice, TypeOK
  <2>4. QED
    BY <1>3, <2>1, <2>3 DEF QueueDevice, TypeOK, Registry!RegistryType,
         Registry!HoldDevice, Registry!ReleaseDevice, Settle
<1>4. CASE SyncAndCall
  <2>1. work[Dashboard] \in Handler
    BY <1>4, DeviceConstants DEF SyncAndCall, TypeOK
  <2>2. Rejected \subseteq Users \X IPs /\ work[Dashboard].commands \subseteq Command
    BY <2>1 DEF Rejected, RejectedIn, Handler
  <2>3. QED
    BY <1>4, <2>2 DEF SyncAndCall, TypeOK, firewall, Registry!RegistryType
<1>5. ASSUME NEW c \in Command, Deliver(c) \/ LoseCall(c) PROVE TypeOK'
  <2>1. c.ip \in IPs
    BY DEF Command
  <2>2. QED
    BY <1>5, <2>1 DEF Deliver, LoseCall, TypeOK, firewall, Registry!RegistryType,
         Registry!Hold, Registry!Release, Settle
<1>6. QED
  BY <1>1, <1>2, <1>3, <1>4, <1>5 DEF Enforcement

\* Type correctness of the file, of every handler's copy of it, and of the firewall,
\* for every interleaving of the dashboard and the vpn-api threads.
THEOREM TypeCorrect == Spec => []TypeOK
<1>1. Init => TypeOK
  BY DEF Init, TypeOK, NoPolicy, Policy, Registry!RegistryType
<1>2. TypeOK /\ [Next]_vars => TypeOK'
  <2>1. CASE UNCHANGED vars
    BY <2>1 DEF vars, firewall, history, TypeOK, Registry!RegistryType
  <2>2. QED
    BY <2>1, EvaluationType, OperationType, EnforcementType DEF Next
<1>3. QED
  BY <1>1, <1>2, PTL DEF Spec
----------------------------------------------------------------------------
(* The limit *)

Within(p) == Cardinality(p.approved) <= p.limit

\* What makes the limit inductive: it also holds in every copy of the file, so that
\* no save, however stale, brings it into the file broken.
LimitInv ==
  /\ \A u \in Users : Within(policy[u])
  /\ \A w \in Workers : work[w] # Idle => \A u \in Users : Within(work[w].file[u])

LEMMA ApprovedFinite ==
  ASSUME NEW p \in Policy
  PROVE  IsFiniteSet(p.approved) /\ Cardinality(p.approved) \in Nat
<1>1. IsFiniteSet(IPs) /\ p.approved \in SUBSET IPs
  BY DeviceConstants DEF Policy
<1>2. QED
  BY <1>1, FS_Subset, FS_CardinalityType

\* The default limit admits what is approved: nothing, if no limit was stored.
LEMMA UserPolicyWithin ==
  ASSUME TypeOK, LimitInv, NEW w \in Workers, NEW u \in Users
  PROVE  Within(UserPolicy(w, u))
<1>1. Cardinality(policy[u].approved) <= policy[u].limit /\ policy[u] \in Policy
  BY DEF LimitInv, Within, TypeOK
<1>2. Cardinality(policy[u].approved) \in Nat
  BY <1>1, ApprovedFinite
<1>3. policy[u].limit \in Nat
  BY <1>1 DEF Policy
<1>4. QED
  BY <1>1, <1>2, <1>3, UserPolicyType DEF Within, TypeOK

\* Removing approved addresses keeps a policy within its limit.
LEMMA WithinFewer ==
  ASSUME NEW p \in Policy, NEW q \in Policy, Within(p), q.limit = p.limit,
         q.approved \subseteq p.approved
  PROVE  Within(q)
<1>1. Cardinality(q.approved) <= Cardinality(p.approved)
  BY ApprovedFinite, FS_Subset
<1>2. p.limit \in Nat
  BY DEF Policy
<1>3. QED
  BY <1>1, <1>2, ApprovedFinite DEF Within

\* Approving one address below the limit does, too.
LEMMA WithinOneMore ==
  ASSUME NEW p \in Policy, NEW q \in Policy, q.limit = p.limit, NEW ip,
         q.approved = p.approved \cup {ip}, Cardinality(p.approved) < p.limit
  PROVE  Within(q)
<1>1. IsFiniteSet(p.approved) /\ Cardinality(p.approved) \in Nat /\ p.limit \in Nat
  BY ApprovedFinite DEF Policy
<1>2. Cardinality(p.approved \cup {ip}) \in {Cardinality(p.approved),
                                             Cardinality(p.approved) + 1}
  BY <1>1, FS_AddElement
<1>3. Cardinality(q.approved) \in Nat /\ Cardinality(q.approved) <= p.limit
  BY <1>1, <1>2
<1>4. QED
  BY <1>3 DEF Within

\* Starting a handler with a policy within its limit.
LEMMA StartWithin ==
  ASSUME TypeOK, LimitInv, NEW w \in Workers, NEW u \in Users, NEW p, Within(p),
         NEW current, NEW enforce, NEW commands,
         Start(w, u, p, current, enforce, commands)
  PROVE  LimitInv'
<1> DEFINE file     == [policy EXCEPT ![u] = p]
           handler  == [user |-> u, file |-> file, todo |-> current,
                        enforce |-> enforce, saved |-> FALSE, commands |-> commands]
<1>1. \A v \in Users : Within(file[v])
  BY DEF LimitInv, TypeOK
<1>2. handler.file = file
  OBVIOUS
<1>3. work' = [work EXCEPT ![w] = handler] /\ policy' = policy
  BY DEF Start
<1> HIDE DEF file, handler
<1>4. \A v \in Workers : work'[v] = IF v = w THEN handler ELSE work[v]
  BY <1>3 DEF TypeOK
<1>5. QED
  BY <1>1, <1>2, <1>3, <1>4 DEF LimitInv, Within

\* Classifying one address, when no network is trusted.
LEMMA VerdictWithin ==
  ASSUME NEW w \in Workers, NEW p \in Policy, NEW ip \in IPs, Within(p),
         \A a \in IPs : Isp[a] = NoIsp
  PROVE  Within(Verdict(w, p, ip))
<1>1. Verdict(w, p, ip) \in Policy
  BY VerdictType
<1>2. CASE ip \in p.approved \cup p.rejected
  BY <1>2 DEF Verdict
<1>3. CASE ip \notin p.approved \cup p.rejected /\ Cardinality(p.approved) < p.limit
  <2>1. Verdict(w, p, ip).limit = p.limit /\ Verdict(w, p, ip).approved = p.approved \cup {ip}
    BY <1>3 DEF Verdict, Policy
  <2>2. QED
    BY <1>1, <1>3, <2>1, WithinOneMore
<1>4. CASE ip \notin p.approved \cup p.rejected /\ ~(Cardinality(p.approved) < p.limit)
  <2>1. ~IspTrusted(w, p, ip)
    BY DEF IspTrusted
  <2>2. Verdict(w, p, ip).limit = p.limit /\ Verdict(w, p, ip).approved = p.approved
    BY <1>4, <2>1 DEF Verdict, Policy
  <2>3. QED
    BY <2>2 DEF Within
<1>5. QED
  BY <1>2, <1>3, <1>4

LEMMA EvaluationWithin ==
  ASSUME TypeOK, LimitInv, \A a \in IPs : Isp[a] = NoIsp, Evaluation
  PROVE  LimitInv'
<1>1. ASSUME NEW w \in Workers, NEW u \in Users, NEW current \in SUBSET IPs,
             Evaluate(w, u, current)
      PROVE  LimitInv'
  <2>1. UserPolicy(w, u) \in Policy
    BY UserPolicyType DEF TypeOK
  <2>2. PICK seed \in Seeds(UserPolicy(w, u), u) :
          Start(w, u, [UserPolicy(w, u) EXCEPT !.approved = @ \cup seed], current, FALSE, {})
    BY <1>1 DEF Evaluate
  <2> DEFINE p == [UserPolicy(w, u) EXCEPT !.approved = @ \cup seed]
  <2>3. p.limit = UserPolicy(w, u).limit
        /\ p.approved = UserPolicy(w, u).approved \cup seed
    BY <2>1 DEF Policy
  <2>4. Within(p)
    <3>1. CASE UserPolicy(w, u).approved = {}
      <4>1. Cardinality(seed) <= UserPolicy(w, u).limit
        BY <3>1 DEF Seeds
      <4>2. p.approved = seed
        BY <2>3, <3>1
      <4>3. QED
        BY <2>3, <4>1, <4>2 DEF Within
    <3>2. CASE UserPolicy(w, u).approved # {}
      <4>1. seed = {}
        BY <3>2 DEF Seeds
      <4>2. p.approved = UserPolicy(w, u).approved
        BY <2>3, <4>1
      <4>3. QED
        BY <2>3, <4>2, UserPolicyWithin DEF Within
    <3>3. QED
      BY <3>1, <3>2
  <2>5. QED
    <3> HIDE DEF p
    <3>1. Start(w, u, p, current, FALSE, {})
      BY <2>2 DEF p
    <3>2. QED
      BY <2>4, <3>1, StartWithin, Zenon
<1>2. ASSUME NEW w \in Workers, NEW ip \in IPs, EvaluateOne(w, ip) PROVE LimitInv'
  <2> DEFINE h == work[w]
             q == Verdict(w, h.file[h.user], ip)
  <2>1. h \in Handler /\ h # Idle
    BY <1>2 DEF EvaluateOne, TypeOK
  <2>2. h.user \in Users /\ h.file \in [Users -> Policy]
    BY <2>1 DEF Handler
  <2>3. Within(q)
    BY <2>1, <2>2, VerdictWithin DEF LimitInv
  <2>4. work' = [work EXCEPT ![w] = [h EXCEPT !.todo = @ \ {ip}, !.file[h.user] = q]]
    BY <1>2, <2>1 DEF EvaluateOne, TypeOK, Handler
  <2>5. work'[w].file = [h.file EXCEPT ![h.user] = q]
    BY <2>1, <2>4 DEF TypeOK, Handler
  <2>6. \A v \in Users : Within(work'[w].file[v])
    <3> HIDE DEF q
    <3> QED BY <2>1, <2>2, <2>3, <2>5 DEF LimitInv
  <2>7. \A v \in Workers \ {w} : work'[v] = work[v]
    BY <2>4 DEF TypeOK
  <2>8. policy' = policy
    BY <1>2 DEF EvaluateOne
  <2>9. QED
    BY <2>6, <2>7, <2>8 DEF LimitInv, Within
<1>3. QED
  BY <1>1, <1>2 DEF Evaluation
\* The operations, when the limit is not among them.
LEMMA OperationWithin ==
  ASSUME TypeOK, LimitInv, "limit" \notin Operations, Operation
  PROVE  LimitInv'
<1>1. ASSUME NEW u \in Users, NEW w \in Workers, NEW operation, NEW p \in Policy,
             NEW q \in Policy, Within(p), q.limit = p.limit, q.approved \subseteq p.approved,
             NEW commands, Operate(w, operation, u, q, commands)
      PROVE  LimitInv'
  <2>1. Within(q)
    BY <1>1, WithinFewer
  <2>2. QED
    BY <1>1, <2>1, StartWithin DEF Operate
<1> SUFFICES ASSUME NEW u \in Users,
                    \/ \E w \in Workers, ip \in Uses[u] : Approve(w, u, ip) \/ Reject(w, u, ip)
                    \/ \E ip \in Uses[u] : Clear(u, ip) \/ DeleteBlocked(u, ip)
                    \/ \E w \in Workers : Reset(w, u)
                    \/ \E limit \in Limits : SetLimit(u, limit)
             PROVE  LimitInv'
  BY DEF Operation
<1>2. policy[u] \in Policy /\ Within(policy[u])
  BY DEF TypeOK, LimitInv
<1>3. \A w \in Workers : UserPolicy(w, u) \in Policy /\ Within(UserPolicy(w, u))
  BY UserPolicyType, UserPolicyWithin DEF TypeOK
<1>4. Dashboard \in Workers
  BY DeviceConstants
<1>5. ASSUME NEW w \in Workers, NEW ip \in Uses[u], Approve(w, u, ip) PROVE LimitInv'
  <2> DEFINE p == UserPolicy(w, u)
             q(replaced) == [p EXCEPT !.approved = (@ \ replaced) \cup {ip},
                                      !.pending  = @ \ {ip},
                                      !.rejected = @ \ {ip}]
  <2>1. PICK replaced \in IF Full(p, ip) THEN {{oldest} : oldest \in p.approved} ELSE {{}} :
          Operate(w, "approve", u, q(replaced), {To("unblock", ip)})
    BY <1>5 DEF Approve
  <2>2. /\ q(replaced) \in Policy
        /\ q(replaced).limit = p.limit
        /\ q(replaced).approved = (p.approved \ replaced) \cup {ip}
    BY <1>3, UsesType DEF Policy
  <2>3. /\ IsFiniteSet(p.approved) /\ Cardinality(p.approved) \in Nat
        /\ p.limit \in Nat /\ Cardinality(p.approved) <= p.limit
    BY <1>3, ApprovedFinite DEF Policy, Within
  <2> HIDE DEF p
  <2>4. Cardinality((p.approved \ replaced) \cup {ip}) <= p.limit
    <3>1. CASE Full(p, ip)
      <4>1. PICK oldest \in p.approved : replaced = {oldest}
        BY <2>1, <3>1
      <4>2. /\ IsFiniteSet(p.approved \ {oldest})
            /\ Cardinality(p.approved \ {oldest}) = Cardinality(p.approved) - 1
        BY <2>3, FS_RemoveElement
      <4>3. Cardinality((p.approved \ {oldest}) \cup {ip})
              = Cardinality(p.approved \ {oldest}) + 1
        BY <3>1, <4>2, FS_AddElement DEF Full
      <4>4. QED
        BY <2>3, <4>1, <4>2, <4>3
    <3>2. CASE ~Full(p, ip)
      <4>1. replaced = {} /\ (p.approved \ replaced) \cup {ip} = p.approved \cup {ip}
        BY <2>1, <3>2
      <4>2. Cardinality(p.approved \cup {ip}) =
              IF ip \in p.approved THEN Cardinality(p.approved) ELSE Cardinality(p.approved) + 1
        BY <2>3, FS_AddElement
      <4>3. QED
        BY <2>3, <3>2, <4>1, <4>2 DEF Full
    <3>3. QED
      BY <3>1, <3>2
  <2>5. Within(q(replaced))
    BY <2>2, <2>4 DEF Within
  <2>6. QED
    <3> HIDE DEF q
    <3> QED BY <2>1, <2>5, StartWithin DEF Operate
<1>6. ASSUME NEW w \in Workers, NEW ip \in Uses[u], Reject(w, u, ip) PROVE LimitInv'
  <2> DEFINE q == [UserPolicy(w, u) EXCEPT !.pending = @ \ {ip}, !.rejected = @ \cup {ip}]
  <2>1. q \in Policy /\ q.limit = UserPolicy(w, u).limit
        /\ q.approved \subseteq UserPolicy(w, u).approved
    BY <1>3, UsesType DEF Policy
  <2>2. Operate(w, "reject", u, q, {To("block", ip)})
    BY <1>6 DEF Reject
  <2>3. QED
    <3> HIDE DEF q
    <3> QED BY <1>1, <1>3, <2>1, <2>2
<1>7. ASSUME NEW ip \in Uses[u], Clear(u, ip) PROVE LimitInv'
  <2> DEFINE p == UserPolicy(Dashboard, u)
             q == [p EXCEPT !.approved = @ \ {ip}, !.pending = @ \ {ip},
                            !.rejected = @ \ {ip}]
  <2>1. q \in Policy /\ q.limit = p.limit /\ q.approved \subseteq p.approved
    BY <1>3, <1>4 DEF Policy
  <2>2. Operate(Dashboard, "clear", u, q, {To("unblock", ip)})
    BY <1>7 DEF Clear
  <2>3. QED
    <3> HIDE DEF q
    <3> QED BY <1>1, <1>3, <1>4, <2>1, <2>2
<1>8. ASSUME NEW ip \in Uses[u], DeleteBlocked(u, ip) PROVE LimitInv'
  <2> DEFINE q == [policy[u] EXCEPT !.pending = @ \ {ip}, !.rejected = @ \ {ip}]
  <2>1. q \in Policy /\ q.limit = policy[u].limit /\ q.approved \subseteq policy[u].approved
    BY <1>2 DEF Policy
  <2>2. Operate(Dashboard, "delete", u, q, {})
    BY <1>8 DEF DeleteBlocked
  <2>3. QED
    <3> HIDE DEF q
    <3> QED BY <1>1, <1>2, <1>4, <2>1, <2>2
<1>9. ASSUME NEW w \in Workers, Reset(w, u) PROVE LimitInv'
  <2> DEFINE p == UserPolicy(w, u)
             q == [p EXCEPT !.approved = {}, !.pending = {}, !.rejected = {}]
  <2>1. q \in Policy /\ q.limit = p.limit /\ q.approved \subseteq p.approved
    BY <1>3 DEF Policy
  <2>2. PICK commands : Operate(w, "reset", u, q, commands)
    BY <1>9 DEF Reset
  <2>3. QED
    <3> HIDE DEF q
    <3> QED BY <1>1, <1>3, <2>1, <2>2
<1>10. ASSUME NEW limit \in Limits, SetLimit(u, limit) PROVE LimitInv'
  BY <1>10 DEF SetLimit, Operate
<1>11. QED
  BY <1>5, <1>6, <1>7, <1>8, <1>9, <1>10

LEMMA EnforcementWithin ==
  ASSUME TypeOK, LimitInv, Enforcement
  PROVE  LimitInv'
<1>1. ASSUME NEW w \in Workers, Save(w) PROVE LimitInv'
  <2>1. work[w] \in Handler /\ work[w] # Idle /\ policy' = work[w].file
    BY <1>1 DEF Save, TypeOK
  <2>2. work'[w] # Idle => work'[w].file = work[w].file
    BY <1>1, <2>1 DEF Save, TypeOK, Handler
  <2>3. \A v \in Workers \ {w} : work'[v] = work[v]
    BY <1>1 DEF Save, TypeOK
  <2>4. QED
    BY <2>1, <2>2, <2>3 DEF LimitInv, Within
<1>2. ASSUME NEW w \in Workers, Finish(w) PROVE LimitInv'
  BY <1>2 DEF Finish, TypeOK, LimitInv, Within
<1>3. ASSUME NEW w \in Workers, NEW c \in Command, QueueDevice(w, c) PROVE LimitInv'
  <2>1. work[w] \in Handler /\ work[w] # Idle /\ policy' = policy
    BY <1>3 DEF QueueDevice, TypeOK
  <2>2. work'[w].file = work[w].file
    BY <1>3, <2>1 DEF QueueDevice, TypeOK, Handler
  <2>3. \A v \in Workers \ {w} : work'[v] = work[v]
    BY <1>3 DEF QueueDevice, TypeOK
  <2>4. QED
    BY <2>1, <2>2, <2>3 DEF LimitInv, Within
<1>4. CASE SyncAndCall
  BY <1>4, DeviceConstants DEF SyncAndCall, TypeOK, LimitInv, Within
<1>5. ASSUME NEW c \in Command, Deliver(c) \/ LoseCall(c) PROVE LimitInv'
  BY <1>5 DEF Deliver, LoseCall, LimitInv, Within
<1>6. QED
  BY <1>1, <1>2, <1>3, <1>4, <1>5 DEF Enforcement

\* A key is never used from more approved addresses than its limit, whatever the
\* dashboard and any number of vpn-api threads overwrite of each other's work,
\* as long as the limit is not changed and no network is trusted.
THEOREM LimitAlwaysRespected ==
  ASSUME "limit" \notin Operations, \A a \in IPs : Isp[a] = NoIsp
  PROVE  Spec => []LimitRespected
<1>1. Init => TypeOK /\ LimitInv
  <2>1. Init => TypeOK
    BY DEF Init, TypeOK, NoPolicy, Policy, Registry!RegistryType
  <2>2. Init => LimitInv
    BY FS_EmptySet DEF Init, LimitInv, NoPolicy, Within
  <2>3. QED
    BY <2>1, <2>2
<1>2. TypeOK /\ LimitInv /\ [Next]_vars => TypeOK' /\ LimitInv'
  <2> SUFFICES ASSUME TypeOK, LimitInv, [Next]_vars PROVE TypeOK' /\ LimitInv'
    OBVIOUS
  <2>1. CASE UNCHANGED vars
    BY <2>1 DEF vars, firewall, history, TypeOK, Registry!RegistryType, LimitInv, Within
  <2>2. CASE Evaluation
    BY <2>2, EvaluationType, EvaluationWithin
  <2>3. CASE Operation
    BY <2>3, OperationType, OperationWithin
  <2>4. CASE Enforcement
    BY <2>4, EnforcementType, EnforcementWithin
  <2>5. QED
    BY <2>1, <2>2, <2>3, <2>4 DEF Next
<1>3. LimitInv => LimitRespected
  BY DEF LimitInv, LimitRespected, Within
<1>4. QED
  BY <1>1, <1>2, <1>3, PTL DEF Spec
----------------------------------------------------------------------------
(***************************************************************************)
(* Limits that change.  A lowered limit takes back no approval, and a      *)
(* stale copy may bring back a policy approved under a higher one: what    *)
(* bounds the approved addresses is then the highest limit anyone ever     *)
(* gives.                                                                  *)
(***************************************************************************)

\* No limit there is or can be given is above the bound.
HighestLimit(bound) ==
  /\ bound \in Nat
  /\ \A w \in Workers : DefaultLimit[w] <= bound
  /\ \A limit \in Limits : limit <= bound

Below(p, bound) == p.limit <= bound /\ Cardinality(p.approved) <= bound

\* As with the limit, in the file and in every copy of it.
BelowInv(bound) ==
  /\ \A u \in Users : Below(policy[u], bound)
  /\ \A w \in Workers : work[w] # Idle => \A u \in Users : Below(work[w].file[u], bound)

LEMMA UserPolicyBelow ==
  ASSUME TypeOK, NEW bound, HighestLimit(bound), BelowInv(bound),
         NEW w \in Workers, NEW u \in Users
  PROVE  Below(UserPolicy(w, u), bound)
<1>1. UserPolicy(w, u).limit = LimitOf(w, policy[u])
      /\ UserPolicy(w, u).approved = policy[u].approved
  BY DEF TypeOK, Policy, UserPolicy
<1>2. Below(policy[u], bound)
  BY DEF BelowInv
<1>3. QED
  BY <1>1, <1>2 DEF Below, LimitOf, HighestLimit

\* Removing approved addresses.
LEMMA BelowFewer ==
  ASSUME NEW bound \in Nat, NEW p \in Policy, NEW q \in Policy, Below(p, bound),
         q.limit <= bound, q.approved \subseteq p.approved
  PROVE  Below(q, bound)
<1>1. Cardinality(q.approved) <= Cardinality(p.approved)
  BY ApprovedFinite, FS_Subset
<1>2. QED
  BY <1>1, ApprovedFinite DEF Below

\* Approving one address below the limit.
LEMMA BelowOneMore ==
  ASSUME NEW bound \in Nat, NEW p \in Policy, NEW q \in Policy, Below(p, bound),
         q.limit = p.limit, NEW ip, q.approved = p.approved \cup {ip},
         Cardinality(p.approved) < p.limit
  PROVE  Below(q, bound)
<1>1. Cardinality(q.approved) <= q.limit
  BY WithinOneMore DEF Within
<1>2. p.limit \in Nat
  BY DEF Policy
<1>3. QED
  BY <1>1, <1>2, ApprovedFinite DEF Below

LEMMA StartBelow ==
  ASSUME TypeOK, NEW bound, BelowInv(bound), NEW w \in Workers, NEW u \in Users,
         NEW p, Below(p, bound), NEW current, NEW enforce, NEW commands,
         Start(w, u, p, current, enforce, commands)
  PROVE  BelowInv(bound)'
<1> DEFINE file     == [policy EXCEPT ![u] = p]
           handler  == [user |-> u, file |-> file, todo |-> current,
                        enforce |-> enforce, saved |-> FALSE, commands |-> commands]
<1>1. \A v \in Users : Below(file[v], bound)
  BY DEF BelowInv, TypeOK
<1>2. handler.file = file
  OBVIOUS
<1>3. work' = [work EXCEPT ![w] = handler] /\ policy' = policy
  BY DEF Start
<1> HIDE DEF file, handler
<1>4. \A v \in Workers : work'[v] = IF v = w THEN handler ELSE work[v]
  BY <1>3 DEF TypeOK
<1>5. QED
  BY <1>1, <1>2, <1>3, <1>4 DEF BelowInv, Below

LEMMA VerdictBelow ==
  ASSUME NEW bound \in Nat, NEW w \in Workers, NEW p \in Policy, NEW ip \in IPs,
         Below(p, bound), \A a \in IPs : Isp[a] = NoIsp
  PROVE  Below(Verdict(w, p, ip), bound)
<1>1. Verdict(w, p, ip) \in Policy
  BY VerdictType
<1>2. CASE ip \in p.approved \cup p.rejected
  BY <1>2 DEF Verdict
<1>3. CASE ip \notin p.approved \cup p.rejected /\ Cardinality(p.approved) < p.limit
  <2>1. Verdict(w, p, ip).limit = p.limit /\ Verdict(w, p, ip).approved = p.approved \cup {ip}
    BY <1>3 DEF Verdict, Policy
  <2>2. QED
    BY <1>1, <1>3, <2>1, BelowOneMore
<1>4. CASE ip \notin p.approved \cup p.rejected /\ ~(Cardinality(p.approved) < p.limit)
  <2>1. ~IspTrusted(w, p, ip)
    BY DEF IspTrusted
  <2>2. Verdict(w, p, ip).limit = p.limit /\ Verdict(w, p, ip).approved = p.approved
    BY <1>4, <2>1 DEF Verdict, Policy
  <2>3. QED
    BY <2>2 DEF Below
<1>5. QED
  BY <1>2, <1>3, <1>4

LEMMA EvaluationBelow ==
  ASSUME TypeOK, NEW bound, HighestLimit(bound), BelowInv(bound),
         \A a \in IPs : Isp[a] = NoIsp, Evaluation
  PROVE  BelowInv(bound)'
<1>1. ASSUME NEW w \in Workers, NEW u \in Users, NEW current \in SUBSET IPs,
             Evaluate(w, u, current)
      PROVE  BelowInv(bound)'
  <2>1. UserPolicy(w, u) \in Policy /\ Below(UserPolicy(w, u), bound)
    BY UserPolicyType, UserPolicyBelow DEF TypeOK
  <2>2. PICK seed \in Seeds(UserPolicy(w, u), u) :
          Start(w, u, [UserPolicy(w, u) EXCEPT !.approved = @ \cup seed], current, FALSE, {})
    BY <1>1 DEF Evaluate
  <2> DEFINE p == [UserPolicy(w, u) EXCEPT !.approved = @ \cup seed]
  <2>3. p.limit = UserPolicy(w, u).limit
        /\ p.approved = UserPolicy(w, u).approved \cup seed
    BY <2>1 DEF Policy
  <2>4. Below(p, bound)
    <3>1. CASE UserPolicy(w, u).approved = {}
      <4>1. Cardinality(seed) <= UserPolicy(w, u).limit /\ seed \subseteq IPs
        BY <3>1, UsesType DEF Seeds
      <4>2. p.approved = seed /\ UserPolicy(w, u).limit \in Nat
        BY <2>1, <2>3, <3>1 DEF Policy
      <4>3. Cardinality(seed) \in Nat
        BY <4>1, DeviceConstants, FS_Subset, FS_CardinalityType
      <4>4. QED
        BY <2>1, <2>3, <4>1, <4>2, <4>3 DEF Below, HighestLimit
    <3>2. CASE UserPolicy(w, u).approved # {}
      <4>1. seed = {}
        BY <3>2 DEF Seeds
      <4>2. p.approved = UserPolicy(w, u).approved
        BY <2>3, <4>1
      <4>3. QED
        BY <2>1, <2>3, <4>2 DEF Below
    <3>3. QED
      BY <3>1, <3>2
  <2>5. QED
    <3> HIDE DEF p
    <3>1. Start(w, u, p, current, FALSE, {})
      BY <2>2 DEF p
    <3>2. QED
      BY <2>4, <3>1, StartBelow, Zenon
<1>2. ASSUME NEW w \in Workers, NEW ip \in IPs, EvaluateOne(w, ip) PROVE BelowInv(bound)'
  <2> DEFINE h == work[w]
             q == Verdict(w, h.file[h.user], ip)
  <2>1. h \in Handler /\ h # Idle
    BY <1>2 DEF EvaluateOne, TypeOK
  <2>2. h.user \in Users /\ h.file \in [Users -> Policy]
    BY <2>1 DEF Handler
  <2>3. Below(q, bound)
    BY <2>1, <2>2, VerdictBelow DEF BelowInv, HighestLimit
  <2>4. work' = [work EXCEPT ![w] = [h EXCEPT !.todo = @ \ {ip}, !.file[h.user] = q]]
    BY <1>2, <2>1 DEF EvaluateOne, TypeOK, Handler
  <2>5. work'[w].file = [h.file EXCEPT ![h.user] = q]
    BY <2>1, <2>4 DEF TypeOK, Handler
  <2>6. \A v \in Users : Below(work'[w].file[v], bound)
    <3> HIDE DEF q
    <3> QED BY <2>1, <2>2, <2>3, <2>5 DEF BelowInv
  <2>7. \A v \in Workers \ {w} : work'[v] = work[v]
    BY <2>4 DEF TypeOK
  <2>8. policy' = policy
    BY <1>2 DEF EvaluateOne
  <2>9. QED
    BY <2>6, <2>7, <2>8 DEF BelowInv, Below
<1>3. QED
  BY <1>1, <1>2 DEF Evaluation

\* Every operation, the one that sets a limit included.
LEMMA OperationBelow ==
  ASSUME TypeOK, NEW bound, HighestLimit(bound), BelowInv(bound), Operation
  PROVE  BelowInv(bound)'
<1>1. ASSUME NEW u \in Users, NEW w \in Workers, NEW operation, NEW p \in Policy,
             NEW q \in Policy, Below(p, bound), q.limit <= bound,
             q.approved \subseteq p.approved, NEW commands,
             Operate(w, operation, u, q, commands)
      PROVE  BelowInv(bound)'
  <2>1. Below(q, bound)
    BY <1>1, BelowFewer DEF HighestLimit
  <2>2. QED
    BY <1>1, <2>1, StartBelow DEF Operate
<1> SUFFICES ASSUME NEW u \in Users,
                    \/ \E w \in Workers, ip \in Uses[u] : Approve(w, u, ip) \/ Reject(w, u, ip)
                    \/ \E ip \in Uses[u] : Clear(u, ip) \/ DeleteBlocked(u, ip)
                    \/ \E w \in Workers : Reset(w, u)
                    \/ \E limit \in Limits : SetLimit(u, limit)
             PROVE  BelowInv(bound)'
  BY DEF Operation
<1>2. policy[u] \in Policy /\ Below(policy[u], bound) /\ bound \in Nat
  BY DEF TypeOK, BelowInv, HighestLimit
<1>3. \A w \in Workers : /\ UserPolicy(w, u) \in Policy
                         /\ Below(UserPolicy(w, u), bound)
                         /\ UserPolicy(w, u).limit <= bound
  BY UserPolicyType, UserPolicyBelow DEF TypeOK, Below
<1>4. Dashboard \in Workers
  BY DeviceConstants
<1>5. ASSUME NEW w \in Workers, NEW ip \in Uses[u], Approve(w, u, ip)
      PROVE  BelowInv(bound)'
  <2> DEFINE p == UserPolicy(w, u)
             q(replaced) == [p EXCEPT !.approved = (@ \ replaced) \cup {ip},
                                      !.pending  = @ \ {ip},
                                      !.rejected = @ \ {ip}]
  <2>1. PICK replaced \in IF Full(p, ip) THEN {{oldest} : oldest \in p.approved} ELSE {{}} :
          Operate(w, "approve", u, q(replaced), {To("unblock", ip)})
    BY <1>5 DEF Approve
  <2>2. /\ q(replaced) \in Policy
        /\ q(replaced).limit = p.limit
        /\ q(replaced).approved = (p.approved \ replaced) \cup {ip}
    BY <1>3, UsesType DEF Policy
  <2>3. /\ IsFiniteSet(p.approved) /\ Cardinality(p.approved) \in Nat
        /\ p.limit \in Nat /\ p.limit <= bound /\ Cardinality(p.approved) <= bound
    BY <1>3, ApprovedFinite DEF Policy, Below
  <2> HIDE DEF p
  <2>4. Cardinality((p.approved \ replaced) \cup {ip}) <= bound
    <3>1. CASE Full(p, ip)
      <4>1. PICK oldest \in p.approved : replaced = {oldest}
        BY <2>1, <3>1
      <4>2. /\ IsFiniteSet(p.approved \ {oldest})
            /\ Cardinality(p.approved \ {oldest}) = Cardinality(p.approved) - 1
        BY <2>3, FS_RemoveElement
      <4>3. Cardinality((p.approved \ {oldest}) \cup {ip})
              = Cardinality(p.approved \ {oldest}) + 1
        BY <3>1, <4>2, FS_AddElement DEF Full
      <4>4. QED
        BY <2>3, <4>1, <4>2, <4>3
    <3>2. CASE ~Full(p, ip)
      <4>1. replaced = {} /\ (p.approved \ replaced) \cup {ip} = p.approved \cup {ip}
        BY <2>1, <3>2
      <4>2. Cardinality(p.approved \cup {ip}) =
              IF ip \in p.approved THEN Cardinality(p.approved) ELSE Cardinality(p.approved) + 1
        BY <2>3, FS_AddElement
      <4>3. QED
        BY <1>2, <2>3, <3>2, <4>1, <4>2 DEF Full
    <3>3. QED
      BY <3>1, <3>2
  <2>5. Below(q(replaced), bound)
    BY <2>2, <2>3, <2>4 DEF Below
  <2>6. QED
    <3> HIDE DEF q
    <3> QED BY <2>1, <2>5, StartBelow DEF Operate
<1>6. ASSUME NEW w \in Workers, NEW ip \in Uses[u], Reject(w, u, ip) PROVE BelowInv(bound)'
  <2> DEFINE q == [UserPolicy(w, u) EXCEPT !.pending = @ \ {ip}, !.rejected = @ \cup {ip}]
  <2>1. q \in Policy /\ q.limit = UserPolicy(w, u).limit
        /\ q.approved \subseteq UserPolicy(w, u).approved
    BY <1>3, UsesType DEF Policy
  <2>2. Operate(w, "reject", u, q, {To("block", ip)})
    BY <1>6 DEF Reject
  <2>3. QED
    <3> HIDE DEF q
    <3> QED BY <1>1, <1>3, <2>1, <2>2
<1>7. ASSUME NEW ip \in Uses[u], Clear(u, ip) PROVE BelowInv(bound)'
  <2> DEFINE p == UserPolicy(Dashboard, u)
             q == [p EXCEPT !.approved = @ \ {ip}, !.pending = @ \ {ip},
                            !.rejected = @ \ {ip}]
  <2>1. q \in Policy /\ q.limit = p.limit /\ q.approved \subseteq p.approved
    BY <1>3, <1>4 DEF Policy
  <2>2. Operate(Dashboard, "clear", u, q, {To("unblock", ip)})
    BY <1>7 DEF Clear
  <2>3. QED
    <3> HIDE DEF q
    <3> QED BY <1>1, <1>3, <1>4, <2>1, <2>2
<1>8. ASSUME NEW ip \in Uses[u], DeleteBlocked(u, ip) PROVE BelowInv(bound)'
  <2> DEFINE q == [policy[u] EXCEPT !.pending = @ \ {ip}, !.rejected = @ \ {ip}]
  <2>1. q \in Policy /\ q.limit = policy[u].limit /\ q.approved \subseteq policy[u].approved
    BY <1>2 DEF Policy
  <2>2. Operate(Dashboard, "delete", u, q, {})
    BY <1>8 DEF DeleteBlocked
  <2>3. policy[u].limit <= bound
    BY <1>2 DEF Below
  <2>4. QED
    <3> HIDE DEF q
    <3> QED BY <1>1, <1>2, <1>4, <2>1, <2>2, <2>3
<1>9. ASSUME NEW w \in Workers, Reset(w, u) PROVE BelowInv(bound)'
  <2> DEFINE p == UserPolicy(w, u)
             q == [p EXCEPT !.approved = {}, !.pending = {}, !.rejected = {}]
  <2>1. q \in Policy /\ q.limit = p.limit /\ q.approved \subseteq p.approved
    BY <1>3 DEF Policy
  <2>2. PICK commands : Operate(w, "reset", u, q, commands)
    BY <1>9 DEF Reset
  <2>3. QED
    <3> HIDE DEF q
    <3> QED BY <1>1, <1>3, <2>1, <2>2
<1>10. ASSUME NEW limit \in Limits, SetLimit(u, limit) PROVE BelowInv(bound)'
  <2> DEFINE given == IF limit > 0 THEN limit ELSE DefaultLimit[Dashboard]
             q     == [policy[u] EXCEPT !.limit = given]
  <2>1. given \in Nat /\ given <= bound
    BY <1>4, DeviceConstants DEF HighestLimit
  <2>2. Operate(Dashboard, "limit", u, q, {})
    BY <1>10 DEF SetLimit
  <2> HIDE DEF given
  <2>3. q \in Policy /\ q.limit = given /\ q.approved = policy[u].approved
    BY <1>2, <2>1 DEF Policy
  <2>4. QED
    <3> HIDE DEF q
    <3> QED BY <1>1, <1>2, <1>4, <2>1, <2>2, <2>3
<1>11. QED
  BY <1>5, <1>6, <1>7, <1>8, <1>9, <1>10

LEMMA EnforcementBelow ==
  ASSUME TypeOK, NEW bound, BelowInv(bound), Enforcement
  PROVE  BelowInv(bound)'
<1>1. ASSUME NEW w \in Workers, Save(w) PROVE BelowInv(bound)'
  <2>1. work[w] \in Handler /\ work[w] # Idle /\ policy' = work[w].file
    BY <1>1 DEF Save, TypeOK
  <2>2. work'[w] # Idle => work'[w].file = work[w].file
    BY <1>1, <2>1 DEF Save, TypeOK, Handler
  <2>3. \A v \in Workers \ {w} : work'[v] = work[v]
    BY <1>1 DEF Save, TypeOK
  <2>4. QED
    BY <2>1, <2>2, <2>3 DEF BelowInv, Below
<1>2. ASSUME NEW w \in Workers, Finish(w) PROVE BelowInv(bound)'
  BY <1>2 DEF Finish, TypeOK, BelowInv, Below
<1>3. ASSUME NEW w \in Workers, NEW c \in Command, QueueDevice(w, c) PROVE BelowInv(bound)'
  <2>1. work[w] \in Handler /\ work[w] # Idle /\ policy' = policy
    BY <1>3 DEF QueueDevice, TypeOK
  <2>2. work'[w].file = work[w].file
    BY <1>3, <2>1 DEF QueueDevice, TypeOK, Handler
  <2>3. \A v \in Workers \ {w} : work'[v] = work[v]
    BY <1>3 DEF QueueDevice, TypeOK
  <2>4. QED
    BY <2>1, <2>2, <2>3 DEF BelowInv, Below
<1>4. CASE SyncAndCall
  BY <1>4, DeviceConstants DEF SyncAndCall, TypeOK, BelowInv, Below
<1>5. ASSUME NEW c \in Command, Deliver(c) \/ LoseCall(c) PROVE BelowInv(bound)'
  BY <1>5 DEF Deliver, LoseCall, BelowInv, Below
<1>6. QED
  BY <1>1, <1>2, <1>3, <1>4, <1>5 DEF Enforcement

\* With limits that operators change while stale copies are saved, a key is never used from
\* more approved addresses than the highest limit anyone gives or any process has as its
\* default (approveDevice, evaluateDevicePolicy and the vpn-api's copy of them), as long as
\* no network is trusted.
THEOREM HighestLimitRespected ==
  ASSUME NEW bound, HighestLimit(bound), \A a \in IPs : Isp[a] = NoIsp
  PROVE  Spec => [](\A u \in Users : Cardinality(policy[u].approved) <= bound)
<1>1. Init => TypeOK /\ BelowInv(bound)
  <2>1. Init => TypeOK
    BY DEF Init, TypeOK, NoPolicy, Policy, Registry!RegistryType
  <2>2. Init => BelowInv(bound)
    BY FS_EmptySet DEF Init, BelowInv, NoPolicy, Below, HighestLimit
  <2>3. QED
    BY <2>1, <2>2
<1>2. TypeOK /\ BelowInv(bound) /\ [Next]_vars => TypeOK' /\ BelowInv(bound)'
  <2> SUFFICES ASSUME TypeOK, BelowInv(bound), [Next]_vars PROVE TypeOK' /\ BelowInv(bound)'
    OBVIOUS
  <2>1. CASE UNCHANGED vars
    BY <2>1 DEF vars, firewall, history, TypeOK, Registry!RegistryType, BelowInv, Below
  <2>2. CASE Evaluation
    BY <2>2, EvaluationType, EvaluationBelow
  <2>3. CASE Operation
    BY <2>3, OperationType, OperationBelow
  <2>4. CASE Enforcement
    BY <2>4, EnforcementType, EnforcementBelow
  <2>5. QED
    BY <2>1, <2>2, <2>3, <2>4 DEF Next
<1>3. BelowInv(bound) => \A u \in Users : Cardinality(policy[u].approved) <= bound
  BY DEF BelowInv, Below
<1>4. QED
  BY <1>1, <1>2, <1>3, PTL DEF Spec
----------------------------------------------------------------------------
(* Classifying an address changes no rejection and no command of any handler. *)

LEMMA ClassifiedHandler ==
  ASSUME TypeOK, NEW w \in Workers, NEW ip \in IPs, EvaluateOne(w, ip), NEW v \in Workers
  PROVE  /\ work'[v] = Idle <=> work[v] = Idle
         /\ work[v] # Idle =>
              /\ work'[v].user = work[v].user /\ work'[v].commands = work[v].commands
              /\ work'[v].saved = work[v].saved /\ work'[v].enforce = work[v].enforce
              /\ \A u \in Users : work'[v].file[u].rejected = work[v].file[u].rejected
              /\ RejectedIn(work'[v].file) = RejectedIn(work[v].file)
<1> DEFINE h == work[w]
           q == Verdict(w, h.file[h.user], ip)
           k == [h EXCEPT !.todo = @ \ {ip}, !.file[h.user] = q]
<1>1. h \in Handler /\ h # Idle
  BY DEF EvaluateOne, TypeOK
<1>2. h.user \in Users /\ h.file \in [Users -> Policy]
  BY <1>1 DEF Handler
<1>3. q \in Policy /\ q.rejected = h.file[h.user].rejected
  <2>1. q.rejected = h.file[h.user].rejected
    BY <1>2 DEF Verdict, Policy
  <2>2. QED
    BY <1>2, <2>1, VerdictType
<1>4. work' = [work EXCEPT ![w] = k]
  BY <1>1 DEF EvaluateOne, TypeOK, Handler
<1> HIDE DEF q
<1>5. /\ k \in Handler /\ k.file = [h.file EXCEPT ![h.user] = q]
      /\ k.user = h.user /\ k.commands = h.commands
      /\ k.saved = h.saved /\ k.enforce = h.enforce
  BY <1>1, <1>2, <1>3 DEF Handler
<1> HIDE DEF k
<1>6. \A u \in Users : k.file[u].rejected = h.file[u].rejected
  BY <1>2, <1>3, <1>5
<1>7. RejectedIn(k.file) = RejectedIn(h.file)
  BY <1>6 DEF RejectedIn
<1>8. CASE v = w
  <2>1. work'[v] = k /\ k # Idle
    BY <1>4, <1>5, <1>8, IdleIsNoHandler DEF TypeOK
  <2>2. QED
    BY <1>1, <1>5, <1>6, <1>7, <1>8, <2>1
<1>9. CASE v # w
  BY <1>4, <1>9 DEF TypeOK
<1>10. QED
  BY <1>8, <1>9

----------------------------------------------------------------------------
(* The routes *)

Agree(pairs, others) == \A pair \in (Users \X IPs) \ unsynced : pair \in pairs <=> pair \in others

\* What makes the match of routes and verdicts inductive: but for what the vpn-api has
\* changed since, the routes only lag behind between a save of the dashboard and the sync
\* after it, and a handler of the dashboard that does not sync saves the rejections there
\* are.
RoutesInv ==
  /\ (work[Dashboard] # Idle => ~work[Dashboard].saved) => Agree(routes, Rejected)
  /\ work[Dashboard] # Idle /\ ~work[Dashboard].enforce =>
       Agree(RejectedIn(work[Dashboard].file), Rejected)

\* Starting a handler whose policy has the same rejections, or that enforces them.
LEMMA StartRoutes ==
  ASSUME TypeOK, RoutesInv, NEW w \in Workers, NEW u \in Users, NEW p, NEW current,
         NEW enforce, NEW commands, ~enforce => p.rejected = policy[u].rejected,
         Start(w, u, p, current, enforce, commands)
  PROVE  RoutesInv'
<1>1. PICK copy : copy = [policy EXCEPT ![u] = p]
  OBVIOUS
<1>2. ~enforce => RejectedIn(copy) = Rejected
  BY <1>1 DEF TypeOK, RejectedIn, Rejected
<1> DEFINE handler == [user |-> u, file |-> copy, todo |-> current,
                       enforce |-> enforce, saved |-> FALSE, commands |-> commands]
<1>3. handler.file = copy /\ handler.saved = FALSE /\ handler.enforce = enforce
  OBVIOUS
<1>4. /\ work' = [work EXCEPT ![w] = handler] /\ work[w] = Idle
      /\ policy' = policy /\ routes' = routes /\ unsynced' = unsynced
  BY <1>1 DEF Start
<1> HIDE DEF handler
<1>5. Rejected' = Rejected /\ Dashboard \in Workers
  BY <1>4, DeviceConstants DEF Rejected, RejectedIn
<1>6. work'[Dashboard] = IF w = Dashboard THEN handler ELSE work[Dashboard]
  BY <1>4, <1>5 DEF TypeOK
<1>7. CASE w = Dashboard
  <2>1. Agree(routes, Rejected)'
    BY <1>4, <1>5, <1>7 DEF RoutesInv, Agree
  <2>2. ~work'[Dashboard].enforce => RejectedIn(work'[Dashboard].file) = Rejected'
    BY <1>2, <1>3, <1>5, <1>6, <1>7
  <2>3. QED
    BY <2>1, <2>2 DEF RoutesInv, Agree, RejectedIn
<1>8. CASE w # Dashboard
  BY <1>4, <1>5, <1>6, <1>8 DEF RoutesInv, Agree, RejectedIn
<1>9. QED
  BY <1>7, <1>8

\* An operation enforces its verdict, or is a limit, which rejects nothing.
LEMMA OperateRoutes ==
  ASSUME TypeOK, RoutesInv, NEW w \in Workers, NEW u \in Users, NEW p, NEW operation,
         NEW commands, operation = "limit" => p.rejected = policy[u].rejected,
         Operate(w, operation, u, p, commands)
  PROVE  RoutesInv'
<1>1. PICK enforce : /\ Start(w, u, p, {}, enforce, commands)
                     /\ enforce = (operation # "limit")
  BY DEF Operate
<1>2. QED
  BY <1>1, StartRoutes, Zenon

LEMMA OperationRoutes ==
  ASSUME TypeOK, RoutesInv, Operation PROVE RoutesInv'
<1>1. PICK u \in Users :
        \/ \E w \in Workers, ip \in Uses[u] : Approve(w, u, ip) \/ Reject(w, u, ip)
        \/ \E ip \in Uses[u] : Clear(u, ip) \/ DeleteBlocked(u, ip)
        \/ \E w \in Workers : Reset(w, u)
        \/ \E limit \in Limits : SetLimit(u, limit)
  BY DEF Operation
<1>2. ASSUME NEW w \in Workers, NEW p, NEW operation, NEW commands,
             operation # "limit", Operate(w, operation, u, p, commands)
      PROVE  RoutesInv'
  BY <1>2, OperateRoutes, Zenon
<1>3. Dashboard \in Workers
  BY DeviceConstants
<1>4. ASSUME NEW w \in Workers, NEW ip, Approve(w, u, ip) \/ Reject(w, u, ip)
      PROVE  RoutesInv'
  BY <1>2, <1>4 DEF Approve, Reject
<1>5. ASSUME NEW ip, Clear(u, ip) \/ DeleteBlocked(u, ip) PROVE RoutesInv'
  BY <1>2, <1>3, <1>5 DEF Clear, DeleteBlocked
<1>6. ASSUME NEW w \in Workers, Reset(w, u) PROVE RoutesInv'
  BY <1>2, <1>6 DEF Reset
<1>7. ASSUME NEW limit, SetLimit(u, limit) PROVE RoutesInv'
  <2> DEFINE p == [policy[u] EXCEPT !.limit =
                     IF limit > 0 THEN limit ELSE DefaultLimit[Dashboard]]
  <2>1. p.rejected = policy[u].rejected
    BY DEF TypeOK, Policy
  <2>2. Operate(Dashboard, "limit", u, p, {})
    BY <1>7 DEF SetLimit
  <2> HIDE DEF p
  <2>3. QED
    BY <1>3, <2>1, <2>2, OperateRoutes, Zenon
<1>8. QED
  BY <1>1, <1>4, <1>5, <1>6, <1>7

LEMMA EvaluationRoutes ==
  ASSUME TypeOK, RoutesInv, Evaluation PROVE RoutesInv'
<1>1. ASSUME NEW w \in Workers, NEW u \in Users, NEW current, Evaluate(w, u, current)
      PROVE  RoutesInv'
  <2>1. PICK seed :
          Start(w, u, [UserPolicy(w, u) EXCEPT !.approved = @ \cup seed], current, FALSE, {})
    BY <1>1 DEF Evaluate
  <2> DEFINE p == [UserPolicy(w, u) EXCEPT !.approved = @ \cup seed]
  <2>2. p.rejected = policy[u].rejected
    BY UserPolicyType DEF TypeOK, Policy
  <2>3. Start(w, u, p, current, FALSE, {})
    BY <2>1
  <2> HIDE DEF p
  <2>4. QED
    BY <2>2, <2>3, StartRoutes, Zenon
<1>2. ASSUME NEW w \in Workers, NEW ip \in IPs, EvaluateOne(w, ip) PROVE RoutesInv'
  <2>1. /\ policy' = policy /\ routes' = routes /\ unsynced' = unsynced
        /\ Rejected' = Rejected /\ Dashboard \in Workers
    BY <1>2, DeviceConstants DEF EvaluateOne, history, Rejected, RejectedIn
  <2>2. /\ work'[Dashboard] = Idle <=> work[Dashboard] = Idle
        /\ work[Dashboard] # Idle =>
             /\ work'[Dashboard].saved = work[Dashboard].saved
             /\ work'[Dashboard].enforce = work[Dashboard].enforce
             /\ RejectedIn(work'[Dashboard].file) = RejectedIn(work[Dashboard].file)
    BY <1>2, <2>1, ClassifiedHandler
  <2>3. QED
    BY <2>1, <2>2 DEF RoutesInv, Agree, RejectedIn
<1>3. QED
  BY <1>1, <1>2 DEF Evaluation

LEMMA EnforcementRoutes ==
  ASSUME TypeOK, RoutesInv, Enforcement PROVE RoutesInv'
<1> USE DeviceConstants
<1>1. ASSUME NEW w \in Workers, Save(w), w # Dashboard PROVE RoutesInv'
  <2>1. /\ work'[Dashboard] = work[Dashboard] /\ routes' = routes
        /\ Rejected' = RejectedIn(work[w].file)
        /\ unsynced' = unsynced \cup (Rejected \ RejectedIn(work[w].file))
                                \cup (RejectedIn(work[w].file) \ Rejected)
    BY <1>1 DEF Save, TypeOK, Rejected, RejectedIn
  <2>2. \A pair \in (Users \X IPs) \ unsynced' :
          pair \notin unsynced /\ (pair \in Rejected' <=> pair \in Rejected)
    BY <2>1
  <2>3. QED
    BY <2>1, <2>2 DEF RoutesInv, Agree, RejectedIn
<1>2. ASSUME Save(Dashboard) PROVE RoutesInv'
  <2> DEFINE h == work[Dashboard]
  <2>1. /\ h \in Handler /\ h # Idle /\ ~h.saved
        /\ Rejected' = RejectedIn(h.file) /\ routes' = routes /\ unsynced' = unsynced
    BY <1>2 DEF Save, TypeOK, Rejected, RejectedIn
  <2>2. CASE h.enforce
    <3>1. work'[Dashboard] = [h EXCEPT !.saved = TRUE]
      BY <1>2, <2>2 DEF Save, TypeOK
    <3>2. /\ work'[Dashboard].saved = TRUE /\ work'[Dashboard].enforce = TRUE
          /\ work'[Dashboard] \in Handler
      BY <2>1, <2>2, <3>1 DEF Handler
    <3>3. QED
      BY <3>2, IdleIsNoHandler DEF RoutesInv
  <2>3. CASE ~h.enforce
    <3>1. work'[Dashboard] = Idle
      BY <1>2, <2>3 DEF Save, TypeOK
    <3>2. QED
      BY <2>1, <2>3, <3>1 DEF RoutesInv, Agree
  <2>4. QED
    BY <2>2, <2>3
<1>3. CASE SyncAndCall
  <2>1. work'[Dashboard] = Idle /\ routes' = Rejected /\ Rejected' = Rejected
    BY <1>3 DEF SyncAndCall, TypeOK, Rejected, RejectedIn
  <2>2. QED
    BY <2>1 DEF RoutesInv, Agree
<1>4. ASSUME work'[Dashboard] = work[Dashboard], policy' = policy, routes' = routes,
             unsynced' = unsynced
      PROVE  RoutesInv'
  BY <1>4 DEF RoutesInv, Agree, Rejected, RejectedIn
<1>5. ASSUME NEW w \in Workers, Finish(w) \/ \E c \in Command : QueueDevice(w, c)
      PROVE  RoutesInv'
  BY <1>4, <1>5 DEF Finish, QueueDevice, history, TypeOK
<1>6. ASSUME NEW c \in Command, Deliver(c) \/ LoseCall(c) PROVE RoutesInv'
  BY <1>4, <1>6 DEF Deliver, LoseCall
<1>7. QED
  BY <1>1, <1>2, <1>3, <1>5, <1>6 DEF Enforcement

\* Between the dashboard's handlers the Xray config blocks exactly the rejected addresses,
\* but for what the vpn-api's threads changed since the dashboard's last verdict: however
\* they and the dashboard overwrite each other's file, no handler of the dashboard leaves
\* the routes behind its own save (syncDeviceBlockRoutes after each verdict).
THEOREM RoutesAlwaysMatchRejected == Spec => []RoutesMatchRejected
<1>1. Init => RoutesInv
  BY DeviceConstants DEF Init, RoutesInv, Agree, Rejected, RejectedIn, NoPolicy
<1>2. TypeOK /\ RoutesInv /\ [Next]_vars => RoutesInv'
  <2>1. UNCHANGED vars /\ RoutesInv => RoutesInv'
    BY DEF vars, history, RoutesInv, Agree, Rejected, RejectedIn
  <2>2. QED
    BY <2>1, EvaluationRoutes, OperationRoutes, EnforcementRoutes DEF Next
<1>3. RoutesInv => RoutesMatchRejected
  BY DEF RoutesInv, Agree, RoutesMatchRejected
<1>4. QED
  BY <1>1, <1>2, <1>3, TypeCorrect, PTL DEF Spec

----------------------------------------------------------------------------
(* The firewall *)

\* The two lists that hold an address.
Scopes     == {"permanent", "device"}
ScopeOf(w) == IF w = Dashboard THEN "permanent" ELSE "device"
Held(s)    == IF s = "permanent" THEN permanent ELSE device

\* The commands of a scope that were not carried out yet, and those among them whose
\* verdict was saved, which may be carried out at any moment.
Going(s, c) ==
  \/ s = "permanent" /\ c \in calls
  \/ \E v \in Workers : ScopeOf(v) = s /\ work[v] # Idle /\ c \in work[v].commands
Sent(s, c) ==
  \/ s = "permanent" /\ c \in calls
  \/ \E v \in Workers : /\ ScopeOf(v) = s /\ work[v] # Idle /\ work[v].saved
                        /\ c \in work[v].commands

\* A scope is sure to hold an address: a block is going and no unblock, or it is held
\* and no unblock was sent.
Sure(s, ip) ==
  \/ Going(s, To("block", ip)) /\ ~Going(s, To("unblock", ip))
  \/ ip \in Held(s) /\ ~Sent(s, To("unblock", ip))

\* The file rejects the address for some key, or a copy that will replace the file does.
Claimed(ip) ==
  \/ \E u \in Users : ip \in policy[u].rejected
  \/ \E v \in Workers : /\ work[v] # Idle /\ ~work[v].saved
                        /\ \E u \in Users : ip \in work[v].file[u].rejected

\* A verdict that unblocks an address does not reject it, and one that is not enforced
\* has no command.
Consistent(h) ==
  /\ \A ip : To("unblock", ip) \in h.commands => ip \notin h.file[h.user].rejected
  /\ ~h.enforce => h.commands = {}

SettledAreSure == \A ip \in IPs \ unsettled : Claimed(ip) => \E s \in Scopes : Sure(s, ip)

\* What makes the denial of rejected addresses inductive: a settled address that some key's
\* policy rejects, in the file or in a copy still to be saved, is sure to be held by one of
\* the two lists.
DeniedInv ==
  /\ rules = permanent \cup device
  /\ \A w \in Workers : work[w] # Idle => Consistent(work[w])
  /\ SettledAreSure

\* What the specification's history compares a command with.
LEMMA GoingIsUnderWay ==
  ASSUME NEW w \in Workers, NEW c
  PROVE  c \in UnderWay(w) <=> Going(ScopeOf(w), c)
<1> DEFINE senders == IF w = Dashboard THEN {Dashboard} ELSE Workers \ {Dashboard}
           handled == UNION {work[v].commands : v \in {x \in senders : work[x] # Idle}}
<1>1. \A v : v \in senders <=> v \in Workers /\ ScopeOf(v) = ScopeOf(w)
  BY DeviceConstants DEF ScopeOf
<1>2. c \in handled <=> \E v \in senders : work[v] # Idle /\ c \in work[v].commands
  OBVIOUS
<1>3. c \in UnderWay(w) <=> \/ \E v \in senders : work[v] # Idle /\ c \in work[v].commands
                            \/ w = Dashboard /\ c \in calls
  <2>1. UnderWay(w) = (IF w = Dashboard THEN calls ELSE {}) \cup handled
    BY DEF UnderWay
  <2> HIDE DEF handled, senders
  <2>2. QED
    BY <1>2, <2>1
<1>4. w = Dashboard <=> ScopeOf(w) = "permanent"
  BY DEF ScopeOf
<1> HIDE DEF senders, handled
<1>5. QED
  BY <1>1, <1>3, <1>4 DEF Going

LEMMA SentIsGoing == ASSUME NEW s, NEW c, Sent(s, c) PROVE Going(s, c)
BY DEF Sent, Going

\* What a command of one verdict is not about.
LEMMA CommandsDiffer ==
  ASSUME NEW action, NEW other, NEW ip, NEW a
  PROVE  To(action, ip) = To(other, a) => action = other /\ ip = a
<1>1. ASSUME To(action, ip) = To(other, a) PROVE action = other /\ ip = a
  <2>1. To(action, ip).action = To(other, a).action /\ To(action, ip).ip = To(other, a).ip
    BY <1>1
  <2>2. QED
    BY <2>1 DEF To
<1>2. QED
  BY <1>1

\* A step that lifts no hold on an address and sends no unblock of it.
LEMMA SureStays ==
  ASSUME NEW s, NEW ip, Sure(s, ip),
         Going(s, To("block", ip)) => Going(s, To("block", ip))',
         Going(s, To("unblock", ip))' => Going(s, To("unblock", ip)),
         Sent(s, To("unblock", ip))' => Sent(s, To("unblock", ip)),
         ip \in Held(s) => ip \in Held(s)'
  PROVE  Sure(s, ip)'
BY DEF Sure

\* Starting a handler that saves no rejection it does not block: a command that contradicts
\* one going unsettles the address.
LEMMA StartDenied ==
  ASSUME TypeOK, DeniedInv, NEW w \in Workers, NEW u \in Users, NEW p \in Policy,
         NEW current \in SUBSET IPs, NEW enforce \in BOOLEAN,
         NEW commands \in SUBSET Command,
         ~enforce => commands = {},
         \A ip : To("unblock", ip) \in commands => ip \notin p.rejected,
         \A ip : To("block", ip) \in commands => ip \in p.rejected,
         \A ip \in p.rejected : ip \in policy[u].rejected \/ To("block", ip) \in commands,
         Start(w, u, p, current, enforce, commands)
  PROVE  DeniedInv'
<1>1. PICK copy : copy = [policy EXCEPT ![u] = p]
  OBVIOUS
<1>2. \A v \in Users : copy[v] = IF v = u THEN p ELSE policy[v]
  BY <1>1 DEF TypeOK
<1> DEFINE handler == [user |-> u, file |-> copy, todo |-> current,
                       enforce |-> enforce, saved |-> FALSE, commands |-> commands]
<1>3. /\ handler.file = copy /\ handler.saved = FALSE /\ handler.enforce = enforce
      /\ handler.user = u /\ handler.commands = commands
  OBVIOUS
<1>4. /\ work' = [work EXCEPT ![w] = handler] /\ work[w] = Idle
      /\ policy' = policy /\ calls' = calls
      /\ permanent' = permanent /\ device' = device /\ rules' = rules
      /\ unsettled' = unsettled \cup Contradicted(w, commands)
  BY <1>1 DEF Start, firewall
<1>5. Consistent(handler) /\ handler # Idle
  <2>1. handler \in Handler
    BY <1>1 DEF Handler, TypeOK
  <2>2. QED
    BY <1>2, <1>3, <2>1, IdleIsNoHandler DEF Consistent
<1> HIDE DEF handler
<1>6. \A v \in Workers : work'[v] = IF v = w THEN handler ELSE work[v]
  BY <1>4 DEF TypeOK
<1>7. \A s, c : /\ Going(s, c)' => Going(s, c) \/ (s = ScopeOf(w) /\ c \in commands)
                /\ Going(s, c) => Going(s, c)'
                /\ Sent(s, c)' => Sent(s, c)
  BY <1>3, <1>4, <1>6 DEF Going, Sent, ScopeOf
<1>8. \A s : Held(s)' = Held(s)
  BY <1>4 DEF Held
<1>9. ASSUME NEW ip \in IPs \ unsettled', Claimed(ip)' PROVE \E s \in Scopes : Sure(s, ip)'
  <2> DEFINE own == ScopeOf(w)
  <2>1. own \in Scopes
    BY DEF ScopeOf, Scopes
  <2>2. \A action \in {"block", "unblock"} :
          To(action, ip) \in commands => ~Going(own, To(Opposite(action), ip))
    <3> SUFFICES ASSUME NEW action \in {"block", "unblock"}, To(action, ip) \in commands,
                        Going(own, To(Opposite(action), ip))
                 PROVE  FALSE
      OBVIOUS
    <3>1. To(Opposite(action), ip) \in UnderWay(w)
      BY GoingIsUnderWay
    <3>2. To(action, ip).action = action /\ To(action, ip).ip = ip
      BY DEF To
    <3>3. ip \in Contradicted(w, commands)
      BY <3>1, <3>2 DEF Contradicted
    <3>4. QED
      BY <1>4, <1>9, <3>3
  <2>3. CASE To("block", ip) \in commands
    <3>1. Going(own, To("block", ip))'
      BY <1>3, <1>5, <1>6, <2>3 DEF Going
    <3>2. To("unblock", ip) \notin commands
      BY <2>3
    <3>3. ~Going(own, To("unblock", ip))'
      BY <1>7, <2>2, <2>3, <3>2 DEF Opposite
    <3>4. QED
      BY <2>1, <3>1, <3>3 DEF Sure
  <2>4. CASE To("block", ip) \notin commands
    <3>1. Claimed(ip)
      BY <1>2, <1>3, <1>4, <1>6, <1>9, <2>4 DEF Claimed
    <3>2. PICK s \in Scopes : Sure(s, ip)
      BY <1>4, <1>9, <3>1 DEF DeniedInv, SettledAreSure
    <3>3. CASE Going(s, To("block", ip)) /\ ~Going(s, To("unblock", ip))
      <4>1. ~(s = own /\ To("unblock", ip) \in commands)
        BY <2>2, <3>3 DEF Opposite
      <4>2. QED
        BY <1>7, <3>3, <4>1 DEF Sure
    <3>4. CASE ip \in Held(s) /\ ~Sent(s, To("unblock", ip))
      BY <1>7, <1>8, <3>4 DEF Sure
    <3>5. QED
      BY <3>2, <3>3, <3>4 DEF Sure
  <2>5. QED
    BY <2>3, <2>4
<1>10. \A v \in Workers : work'[v] # Idle => Consistent(work'[v])
  BY <1>5, <1>6 DEF DeniedInv
<1>11. QED
  BY <1>4, <1>9, <1>10 DEF DeniedInv, SettledAreSure

LEMMA OperateDenied ==
  ASSUME TypeOK, DeniedInv, NEW w \in Workers, NEW u \in Users, NEW p \in Policy,
         NEW operation, NEW commands \in SUBSET Command,
         operation = "limit" => commands = {},
         \A ip : To("unblock", ip) \in commands => ip \notin p.rejected,
         \A ip : To("block", ip) \in commands => ip \in p.rejected,
         \A ip \in p.rejected : ip \in policy[u].rejected \/ To("block", ip) \in commands,
         Operate(w, operation, u, p, commands)
  PROVE  DeniedInv'
<1>1. PICK enforce \in BOOLEAN : /\ Start(w, u, p, {}, enforce, commands)
                                 /\ enforce = (operation # "limit")
  BY DEF Operate
<1>2. {} \in SUBSET IPs /\ (~enforce => commands = {})
  BY <1>1
<1>3. QED
  BY <1>1, <1>2, StartDenied, Zenon

\* A verdict that only unblocks, and takes back the rejections of what it unblocks.
LEMMA UnblockDenied ==
  ASSUME TypeOK, DeniedInv, NEW w \in Workers, NEW u \in Users, NEW p \in Policy,
         NEW operation, NEW ips \in SUBSET IPs, operation = "limit" => ips = {},
         p.rejected \subseteq policy[u].rejected \ ips,
         Operate(w, operation, u, p, {To("unblock", ip) : ip \in ips})
  PROVE  DeniedInv'
<1> DEFINE commands == {To("unblock", ip) : ip \in ips}
<1>1. commands \in SUBSET Command
  BY CommandType
<1>2. \A action, ip : To(action, ip) \in commands <=> action = "unblock" /\ ip \in ips
  BY CommandsDiffer
<1>3. operation = "limit" => commands = {}
  OBVIOUS
<1>4. Operate(w, operation, u, p, commands)
  OBVIOUS
<1> HIDE DEF commands
<1>5. /\ \A ip : To("unblock", ip) \in commands => ip \notin p.rejected
      /\ \A ip : To("block", ip) \in commands => ip \in p.rejected
      /\ \A ip \in p.rejected : ip \in policy[u].rejected \/ To("block", ip) \in commands
  BY <1>2
<1>6. QED
  BY <1>1, <1>3, <1>4, <1>5, OperateDenied, Zenon

LEMMA OperationDenied ==
  ASSUME TypeOK, DeniedInv, Operation PROVE DeniedInv'
<1>1. PICK u \in Users :
        \/ \E w \in Workers, ip \in Uses[u] : Approve(w, u, ip) \/ Reject(w, u, ip)
        \/ \E ip \in Uses[u] : Clear(u, ip) \/ DeleteBlocked(u, ip)
        \/ \E w \in Workers : Reset(w, u)
        \/ \E limit \in Limits : SetLimit(u, limit)
  BY DEF Operation
<1>2. /\ policy[u] \in Policy
      /\ \A w \in Workers : /\ UserPolicy(w, u) \in Policy
                            /\ UserPolicy(w, u).rejected = policy[u].rejected
                            /\ UserPolicy(w, u).pending = policy[u].pending
  BY UserPolicyType DEF TypeOK
<1>3. Dashboard \in Workers /\ DefaultLimit[Dashboard] \in Nat /\ Limits \subseteq Nat
      /\ Uses[u] \subseteq IPs
  BY DeviceConstants, UsesType
<1>4. ASSUME NEW w \in Workers, NEW p \in Policy, NEW operation, NEW ip \in IPs,
             operation # "limit", p.rejected \subseteq policy[u].rejected \ {ip},
             Operate(w, operation, u, p, {To("unblock", ip)})
      PROVE  DeniedInv'
  <2>1. {To("unblock", ip)} = {To("unblock", a) : a \in {ip}} /\ {ip} \in SUBSET IPs
    OBVIOUS
  <2>2. PICK ips \in SUBSET IPs :
          ips = {ip} /\ Operate(w, operation, u, p, {To("unblock", a) : a \in ips})
    BY <1>4, <2>1
  <2>3. QED
    BY <1>4, <2>2, UnblockDenied
<1>5. ASSUME NEW w \in Workers, NEW p \in Policy, NEW operation,
             p.rejected \subseteq policy[u].rejected, Operate(w, operation, u, p, {})
      PROVE  DeniedInv'
  <2> DEFINE none == {}
  <2>1. /\ none \in SUBSET Command /\ (operation = "limit" => none = {})
        /\ \A ip : To("unblock", ip) \in none => ip \notin p.rejected
        /\ \A ip : To("block", ip) \in none => ip \in p.rejected
        /\ \A ip \in p.rejected : ip \in policy[u].rejected \/ To("block", ip) \in none
        /\ Operate(w, operation, u, p, none)
    BY <1>5
  <2> HIDE DEF none
  <2>2. QED
    BY <2>1, OperateDenied, Zenon
<1>6. ASSUME NEW w \in Workers, NEW ip \in Uses[u], Approve(w, u, ip) PROVE DeniedInv'
  <2>1. PICK replaced :
          Operate(w, "approve", u,
                  [UserPolicy(w, u) EXCEPT !.approved = (@ \ replaced) \cup {ip},
                                           !.pending  = @ \ {ip},
                                           !.rejected = @ \ {ip}],
                  {To("unblock", ip)})
    BY <1>6 DEF Approve
  <2> DEFINE p == [UserPolicy(w, u) EXCEPT !.approved = (@ \ replaced) \cup {ip},
                                           !.pending  = @ \ {ip}, !.rejected = @ \ {ip}]
  <2>2. p \in Policy /\ p.rejected = policy[u].rejected \ {ip}
    BY <1>2, <1>3 DEF Policy
  <2>3. ip \in IPs /\ Operate(w, "approve", u, p, {To("unblock", ip)})
    BY <1>3, <2>1
  <2> HIDE DEF p
  <2>4. QED
    BY <1>4, <2>2, <2>3
<1>7. ASSUME NEW w \in Workers, NEW ip \in Uses[u], Reject(w, u, ip) PROVE DeniedInv'
  <2> DEFINE p == [UserPolicy(w, u) EXCEPT !.pending = @ \ {ip}, !.rejected = @ \cup {ip}]
             commands == {To("block", ip)}
  <2>1. p \in Policy /\ p.rejected = policy[u].rejected \cup {ip}
    BY <1>2, <1>3 DEF Policy
  <2>2. commands \in SUBSET Command
    BY <1>3, CommandType
  <2>3. \A action, a : To(action, a) \in commands <=> action = "block" /\ a = ip
    BY CommandsDiffer
  <2>4. Operate(w, "reject", u, p, commands) /\ "reject" # "limit"
    BY <1>7 DEF Reject
  <2> HIDE DEF p, commands
  <2>5. /\ \A a : To("unblock", a) \in commands => a \notin p.rejected
        /\ \A a : To("block", a) \in commands => a \in p.rejected
        /\ \A a \in p.rejected : a \in policy[u].rejected \/ To("block", a) \in commands
    BY <2>1, <2>3
  <2>6. QED
    BY <2>1, <2>2, <2>4, <2>5, OperateDenied, Zenon
<1>8. ASSUME NEW ip \in Uses[u], Clear(u, ip) PROVE DeniedInv'
  <2> DEFINE p == [UserPolicy(Dashboard, u) EXCEPT !.approved = @ \ {ip},
                                                   !.pending  = @ \ {ip},
                                                   !.rejected = @ \ {ip}]
  <2>1. p \in Policy /\ p.rejected = policy[u].rejected \ {ip}
    BY <1>2, <1>3 DEF Policy
  <2>2. ip \in IPs /\ Operate(Dashboard, "clear", u, p, {To("unblock", ip)})
    BY <1>3, <1>8 DEF Clear
  <2> HIDE DEF p
  <2>3. QED
    BY <1>3, <1>4, <2>1, <2>2
<1>9. ASSUME NEW ip \in Uses[u], DeleteBlocked(u, ip) PROVE DeniedInv'
  <2> DEFINE p == [policy[u] EXCEPT !.pending = @ \ {ip}, !.rejected = @ \ {ip}]
  <2>1. p \in Policy /\ p.rejected \subseteq policy[u].rejected
    BY <1>2 DEF Policy
  <2>2. Operate(Dashboard, "delete", u, p, {})
    BY <1>9 DEF DeleteBlocked
  <2> HIDE DEF p
  <2>3. QED
    BY <1>3, <1>5, <2>1, <2>2
<1>10. ASSUME NEW w \in Workers, Reset(w, u) PROVE DeniedInv'
  <2> DEFINE own == UserPolicy(w, u)
             p   == [own EXCEPT !.approved = {}, !.pending = {}, !.rejected = {}]
             ips == own.pending \cup own.rejected
  <2>1. p \in Policy /\ p.rejected = {} /\ ips \in SUBSET IPs
    BY <1>2 DEF Policy
  <2>2. Operate(w, "reset", u, p,
                IF w = Dashboard THEN {} ELSE {To("unblock", ip) : ip \in ips})
    BY <1>10 DEF Reset
  <2> HIDE DEF p, ips
  <2>3. CASE w = Dashboard
    BY <1>5, <2>1, <2>2, <2>3
  <2>4. CASE w # Dashboard
    BY <2>1, <2>2, <2>4, UnblockDenied
  <2>5. QED
    BY <2>3, <2>4
<1>11. ASSUME NEW limit \in Limits, SetLimit(u, limit) PROVE DeniedInv'
  <2> DEFINE p == [policy[u] EXCEPT !.limit =
                     IF limit > 0 THEN limit ELSE DefaultLimit[Dashboard]]
  <2>1. p \in Policy /\ p.rejected \subseteq policy[u].rejected
    BY <1>2, <1>3 DEF Policy
  <2>2. Operate(Dashboard, "limit", u, p, {})
    BY <1>11 DEF SetLimit
  <2> HIDE DEF p
  <2>3. QED
    BY <1>3, <1>5, <2>1, <2>2
<1>12. QED
  BY <1>1, <1>6, <1>7, <1>8, <1>9, <1>10, <1>11

LEMMA EvaluationDenied ==
  ASSUME TypeOK, DeniedInv, Evaluation PROVE DeniedInv'
<1>1. ASSUME NEW w \in Workers, NEW u \in Users, NEW current \in SUBSET IPs,
             Evaluate(w, u, current)
      PROVE  DeniedInv'
  <2>1. UserPolicy(w, u) \in Policy /\ UserPolicy(w, u).rejected = policy[u].rejected
    BY UserPolicyType DEF TypeOK
  <2>2. PICK seed \in Seeds(UserPolicy(w, u), u) :
          Start(w, u, [UserPolicy(w, u) EXCEPT !.approved = @ \cup seed], current, FALSE, {})
    BY <1>1 DEF Evaluate
  <2> DEFINE p    == [UserPolicy(w, u) EXCEPT !.approved = @ \cup seed]
             none == {}
  <2>3. seed \subseteq IPs
    BY UsesType DEF Seeds
  <2>4. p \in Policy /\ p.rejected = policy[u].rejected
    BY <2>1, <2>3 DEF Policy
  <2>5. Start(w, u, p, current, FALSE, none) /\ FALSE \in BOOLEAN
    BY <2>2
  <2>6. /\ none \in SUBSET Command /\ (~FALSE => none = {})
        /\ \A ip : To("unblock", ip) \in none => ip \notin p.rejected
        /\ \A ip : To("block", ip) \in none => ip \in p.rejected
        /\ \A ip \in p.rejected : ip \in policy[u].rejected \/ To("block", ip) \in none
    BY <2>4
  <2> HIDE DEF p, none
  <2>7. QED
    BY <2>4, <2>5, <2>6, StartDenied, Zenon
<1>2. ASSUME NEW w \in Workers, NEW ip \in IPs, EvaluateOne(w, ip) PROVE DeniedInv'
  <2>1. /\ policy' = policy /\ calls' = calls /\ unsettled' = unsettled
        /\ permanent' = permanent /\ device' = device /\ rules' = rules
    BY <1>2 DEF EvaluateOne, firewall, history
  <2>2. \A v \in Workers :
          /\ work'[v] = Idle <=> work[v] = Idle
          /\ work[v] # Idle =>
               /\ work'[v].user = work[v].user /\ work'[v].commands = work[v].commands
               /\ work'[v].saved = work[v].saved /\ work'[v].enforce = work[v].enforce
               /\ \A u \in Users : work'[v].file[u].rejected = work[v].file[u].rejected
    BY <1>2, ClassifiedHandler
  <2>3. \A v \in Workers : work[v] # Idle => work[v].user \in Users
    BY DEF TypeOK, Handler
  <2>4. \A v \in Workers : work'[v] # Idle => Consistent(work'[v])
    BY <2>2, <2>3 DEF DeniedInv, Consistent
  <2>5. \A s, c : /\ Going(s, c)' <=> Going(s, c)
                  /\ Sent(s, c)' <=> Sent(s, c)
                  /\ Held(s)' = Held(s)
    BY <2>1, <2>2 DEF Going, Sent, Held
  <2>6. \A a : Claimed(a)' => Claimed(a)
    BY <2>1, <2>2 DEF Claimed
  <2>7. \A s, a : Sure(s, a) => Sure(s, a)'
    BY <2>5 DEF Sure
  <2>8. QED
    BY <2>1, <2>4, <2>6, <2>7 DEF DeniedInv, SettledAreSure
<1>3. QED
  BY <1>1, <1>2 DEF Evaluation

\* A save sends the commands of its handler.  One that unblocks an address which some key
\* still rejects unsettles it.
LEMMA SaveDenied ==
  ASSUME TypeOK, DeniedInv, NEW w \in Workers, Save(w) PROVE DeniedInv'
<1> DEFINE h == work[w]
<1>1. /\ h \in Handler /\ h # Idle /\ ~h.saved /\ h.user \in Users
      /\ policy' = h.file /\ calls' = calls
      /\ permanent' = permanent /\ device' = device /\ rules' = rules
      /\ unsettled' = unsettled \cup UnblockedYetRejected(w)
  BY DEF Save, TypeOK, firewall, Handler
<1>2. \A v \in Workers \ {w} : work'[v] = work[v]
  BY DEF Save, TypeOK
<1>3. /\ h.enforce =>
           /\ work'[w] # Idle /\ work'[w].saved /\ work'[w].commands = h.commands
           /\ work'[w].user = h.user /\ work'[w].file = h.file
           /\ work'[w].enforce = h.enforce
      /\ ~h.enforce => work'[w] = Idle
  <2>1. work'[w] = IF h.enforce THEN [h EXCEPT !.saved = TRUE] ELSE Idle
    BY <1>1 DEF Save, TypeOK
  <2>2. h.enforce => [h EXCEPT !.saved = TRUE] \in Handler
    BY <1>1 DEF Handler
  <2>3. QED
    BY <1>1, <2>1, <2>2, IdleIsNoHandler DEF Handler
<1>4. Consistent(h)
  BY <1>1 DEF DeniedInv
<1>5. \A v \in Workers : work'[v] # Idle => Consistent(work'[v])
  BY <1>2, <1>3, <1>4 DEF DeniedInv, Consistent
<1> HIDE DEF h
<1>6. \A s, c : /\ Going(s, c)' <=> Going(s, c)
                /\ Sent(s, c)' => Sent(s, c) \/ c \in h.commands
                /\ Held(s)' = Held(s)
  BY <1>1, <1>2, <1>3, <1>4 DEF Going, Sent, Held, Consistent, h
<1>7. \A ip : Claimed(ip)' => Claimed(ip)
  BY <1>1, <1>2, <1>3 DEF Claimed, h
<1>8. ASSUME NEW ip \in IPs \ unsettled', Claimed(ip)' PROVE \E s \in Scopes : Sure(s, ip)'
  <2>1. To("unblock", ip) \notin h.commands
    <3> SUFFICES ASSUME To("unblock", ip) \in h.commands PROVE FALSE
      OBVIOUS
    <3>1. ip \notin UnblockedYetRejected(w)
      BY <1>1, <1>8
    <3>2. /\ \A u \in Users \ {h.user} : ip \notin h.file[u].rejected
          /\ \A v \in Workers \ {w} : work[v] # Idle /\ ~work[v].saved =>
               \A u \in Users : ip \notin work[v].file[u].rejected
      BY <1>8, <3>1 DEF UnblockedYetRejected, h
    <3>3. ip \notin h.file[h.user].rejected
      BY <1>4 DEF Consistent
    <3>4. QED
      BY <1>1, <1>2, <1>3, <1>8, <3>2, <3>3 DEF Claimed
  <2>2. PICK s \in Scopes : Sure(s, ip)
    BY <1>1, <1>7, <1>8 DEF DeniedInv, SettledAreSure
  <2>3. Sure(s, ip)'
    BY <1>6, <2>1, <2>2 DEF Sure
  <2>4. QED
    BY <2>3
<1>9. QED
  BY <1>1, <1>5, <1>8 DEF DeniedInv, SettledAreSure

\* A command of scope s is carried out.
LEMMA CarriedOut ==
  ASSUME DeniedInv, NEW s \in Scopes, NEW c \in Command, Sent(s, c),
         \A x : /\ Going(s, x)' => Going(s, x)
                /\ Going(s, x) => Going(s, x)' \/ x = c
                /\ Sent(s, x)' => Sent(s, x),
         \A t \in Scopes \ {s} : \A x : /\ Going(t, x)' <=> Going(t, x)
                                        /\ Sent(t, x)' <=> Sent(t, x),
         \A t \in Scopes \ {s} : Held(t)' = Held(t),
         Held(s)' = IF c.action = "block" THEN Held(s) \cup {c.ip} ELSE Held(s) \ {c.ip},
         unsettled' = IF c.action = "block" /\ ~Going(s, To("unblock", c.ip))
                      THEN unsettled \ {c.ip} ELSE unsettled,
         \A ip : Claimed(ip)' => Claimed(ip)
  PROVE  SettledAreSure'
<1> SUFFICES ASSUME NEW ip \in IPs \ unsettled', Claimed(ip)'
             PROVE  \E t \in Scopes : Sure(t, ip)'
  BY DEF SettledAreSure
<1>1. c = To(c.action, c.ip) /\ c.action \in {"block", "unblock"}
  BY DEF Command, To
<1>2. \A t \in Scopes \ {s} : Sure(t, ip) => Sure(t, ip)'
  BY DEF Sure
<1>3. ip \notin unsettled => \E t \in Scopes : Sure(t, ip)
  BY DEF DeniedInv, SettledAreSure
<1>4. Going(s, c)
  BY SentIsGoing
<1>5. CASE c.ip = ip /\ c.action = "block"
  <2>1. ip \in Held(s)'
    BY <1>5
  <2>2. CASE Sent(s, To("unblock", ip))
    <3>1. Going(s, To("unblock", ip))
      BY <2>2, SentIsGoing
    <3>2. ip \notin unsettled /\ ~Sure(s, ip)
      BY <1>5, <2>2, <3>1 DEF Sure
    <3>3. QED
      BY <1>2, <1>3, <3>2
  <2>3. CASE ~Sent(s, To("unblock", ip))
    BY <2>1, <2>3 DEF Sure
  <2>4. QED
    BY <2>2, <2>3
<1>6. CASE c.ip = ip /\ c.action = "unblock"
  <2>1. ip \notin unsettled /\ ~Sure(s, ip)
    BY <1>1, <1>4, <1>6 DEF Sure
  <2>2. QED
    BY <1>2, <1>3, <2>1
<1>7. CASE c.ip # ip
  <2>1. ip \notin unsettled /\ (ip \in Held(s) => ip \in Held(s)')
    BY <1>7
  <2>2. To("block", ip) # c
    BY <1>7 DEF To
  <2>3. Sure(s, ip) => Sure(s, ip)'
    BY <2>1, <2>2 DEF Sure
  <2>4. QED
    BY <1>2, <1>3, <2>1, <2>3
<1>8. QED
  BY <1>1, <1>5, <1>6, <1>7

LEMMA EnforcementDenied ==
  ASSUME TypeOK, DeniedInv, Enforcement PROVE DeniedInv'
<1> USE DeviceConstants
<1>1. ASSUME NEW w \in Workers, NEW c \in Command, QueueDevice(w, c) PROVE DeniedInv'
  <2> DEFINE h == work[w]
             k == [h EXCEPT !.commands = @ \ {c}]
  <2>1. /\ h \in Handler /\ h # Idle /\ h.saved /\ c \in h.commands /\ w # Dashboard
        /\ work' = [work EXCEPT ![w] = k]
        /\ policy' = policy /\ calls' = calls /\ permanent' = permanent
        /\ rules' = permanent' \cup device'
        /\ device' = IF c.action = "block" THEN device \cup {c.ip} ELSE device \ {c.ip}
    BY <1>1 DEF QueueDevice, TypeOK, Registry!HoldDevice, Registry!ReleaseDevice
  <2>2. /\ k \in Handler /\ k # Idle /\ k.user = h.user /\ k.file = h.file
        /\ k.saved = h.saved /\ k.enforce = h.enforce /\ k.commands = h.commands \ {c}
    BY <2>1, IdleIsNoHandler DEF Handler
  <2> HIDE DEF k
  <2>3. \A v \in Workers : work'[v] = IF v = w THEN k ELSE work[v]
    BY <2>1 DEF TypeOK
  <2>4. ScopeOf(w) = "device" /\ "device" \in Scopes /\ "device" # "permanent"
    BY <2>1 DEF ScopeOf, Scopes
  <2>5. /\ Sent("device", c)
        /\ \A x : /\ Going("device", x)' => Going("device", x)
                  /\ Going("device", x) => Going("device", x)' \/ x = c
                  /\ Sent("device", x)' => Sent("device", x)
    BY <2>1, <2>2, <2>3, <2>4 DEF Going, Sent
  <2>6. \A t \in Scopes \ {"device"} : /\ Held(t)' = Held(t)
                                       /\ \A x : /\ Going(t, x)' <=> Going(t, x)
                                                 /\ Sent(t, x)' <=> Sent(t, x)
    BY <2>1, <2>2, <2>3, <2>4 DEF Going, Sent, Held, Scopes
  <2>7. Held("device")' = IF c.action = "block" THEN Held("device") \cup {c.ip}
                                                ELSE Held("device") \ {c.ip}
    BY <2>1, <2>4 DEF Held
  <2>8. unsettled' = IF c.action = "block" /\ ~Going("device", To("unblock", c.ip))
                     THEN unsettled \ {c.ip} ELSE unsettled
    BY <1>1, <2>4, GoingIsUnderWay DEF QueueDevice, Settle
  <2>9. \A ip : Claimed(ip)' => Claimed(ip)
    BY <2>1, <2>2, <2>3 DEF Claimed
  <2>10. \A v \in Workers : work'[v] # Idle => Consistent(work'[v])
    BY <2>1, <2>2, <2>3 DEF DeniedInv, Consistent
  <2>11. SettledAreSure'
    BY <2>4, <2>5, <2>6, <2>7, <2>8, <2>9, CarriedOut
  <2>12. QED
    BY <2>1, <2>10, <2>11 DEF DeniedInv
<1>2. ASSUME NEW c \in Command, Deliver(c) PROVE DeniedInv'
  <2>1. /\ c \in calls /\ calls' = calls \ {c} /\ policy' = policy /\ work' = work
        /\ rules' = permanent' \cup device' /\ device' = device
        /\ permanent' = IF c.action = "block" THEN permanent \cup {c.ip}
                                              ELSE permanent \ {c.ip}
    BY <1>2 DEF Deliver, Registry!Hold, Registry!Release
  <2>2. ScopeOf(Dashboard) = "permanent" /\ "permanent" \in Scopes
    BY DEF ScopeOf, Scopes
  <2>3. /\ Sent("permanent", c)
        /\ \A x : /\ Going("permanent", x)' => Going("permanent", x)
                  /\ Going("permanent", x) => Going("permanent", x)' \/ x = c
                  /\ Sent("permanent", x)' => Sent("permanent", x)
    BY <2>1 DEF Going, Sent
  <2>4. \A t \in Scopes \ {"permanent"} : /\ Held(t)' = Held(t)
                                          /\ \A x : /\ Going(t, x)' <=> Going(t, x)
                                                    /\ Sent(t, x)' <=> Sent(t, x)
    BY <2>1 DEF Going, Sent, Held, Scopes
  <2>5. Held("permanent")' = IF c.action = "block" THEN Held("permanent") \cup {c.ip}
                                                   ELSE Held("permanent") \ {c.ip}
    BY <2>1 DEF Held
  <2>6. unsettled' = IF c.action = "block" /\ ~Going("permanent", To("unblock", c.ip))
                     THEN unsettled \ {c.ip} ELSE unsettled
    BY <1>2, <2>2, GoingIsUnderWay DEF Deliver, Settle
  <2>7. \A ip : Claimed(ip)' => Claimed(ip)
    BY <2>1 DEF Claimed
  <2>8. SettledAreSure'
    BY <2>2, <2>3, <2>4, <2>5, <2>6, <2>7, CarriedOut
  <2>9. QED
    BY <2>1, <2>8 DEF DeniedInv, Consistent
<1>3. ASSUME NEW c \in Command, LoseCall(c) PROVE DeniedInv'
  <2>1. /\ c \in calls /\ calls' = calls \ {c} /\ policy' = policy /\ work' = work
        /\ unsettled' = unsettled \cup {c.ip}
        /\ permanent' = permanent /\ device' = device /\ rules' = rules
    BY <1>3 DEF LoseCall, firewall
  <2>2. \A s, ip : /\ Held(s)' = Held(s)
                   /\ Claimed(ip)' => Claimed(ip)
    BY <2>1 DEF Held, Claimed
  <2>3. \A s, x : /\ Going(s, x)' => Going(s, x)
                  /\ Going(s, x) => Going(s, x)' \/ x = c
                  /\ Sent(s, x)' => Sent(s, x)
    BY <2>1 DEF Going, Sent
  <2>4. \A ip : ip # c.ip => To("block", ip) # c
    BY DEF To
  <2>5. \A s, ip : ip # c.ip /\ Sure(s, ip) => Sure(s, ip)'
    BY <2>2, <2>3, <2>4 DEF Sure
  <2>6. QED
    BY <2>1, <2>2, <2>5 DEF DeniedInv, SettledAreSure, Consistent
<1>4. ASSUME policy' = policy, permanent' = permanent, device' = device, rules' = rules,
             unsettled' = unsettled,
             \A v \in Workers : work'[v] # Idle => work'[v] = work[v],
             \A s, c : (Going(s, c)' <=> Going(s, c)) /\ (Sent(s, c)' => Sent(s, c))
      PROVE  DeniedInv'
  <2>1. \A s : Held(s)' = Held(s)
    BY <1>4 DEF Held
  <2>2. \A ip : Claimed(ip)' => Claimed(ip)
    BY <1>4 DEF Claimed
  <2>3. \A s, ip : Sure(s, ip) => Sure(s, ip)'
    BY <1>4, <2>1 DEF Sure
  <2>4. QED
    BY <1>4, <2>2, <2>3 DEF DeniedInv, SettledAreSure
<1>5. CASE SyncAndCall
  <2>1. /\ work[Dashboard] # Idle /\ work[Dashboard].saved
        /\ policy' = policy /\ calls' = calls \cup work[Dashboard].commands
        /\ permanent' = permanent /\ device' = device /\ rules' = rules
        /\ unsettled' = unsettled
        /\ \A v \in Workers : work'[v] = IF v = Dashboard THEN Idle ELSE work[v]
    BY <1>5 DEF SyncAndCall, firewall, TypeOK
  <2>2. \A s, c : (Going(s, c)' <=> Going(s, c)) /\ (Sent(s, c)' => Sent(s, c))
    BY <2>1 DEF Going, Sent, ScopeOf
  <2>3. QED
    BY <1>4, <2>1, <2>2
<1>6. ASSUME NEW w \in Workers, Finish(w) PROVE DeniedInv'
  <2>1. /\ work[w].commands = {} /\ policy' = policy /\ calls' = calls
        /\ permanent' = permanent /\ device' = device /\ rules' = rules
        /\ unsettled' = unsettled
        /\ \A v \in Workers : work'[v] = IF v = w THEN Idle ELSE work[v]
    BY <1>6 DEF Finish, firewall, history, TypeOK
  <2>2. \A s, c : (Going(s, c)' <=> Going(s, c)) /\ (Sent(s, c)' => Sent(s, c))
    BY <2>1 DEF Going, Sent
  <2>3. QED
    BY <1>4, <2>1, <2>2
<1>7. QED
  BY <1>1, <1>2, <1>3, <1>5, <1>6, SaveDenied DEF Enforcement

\* Once nothing is under way, the firewall denies every rejected address, for the dashboard
\* and any number of vpn-api threads that save their copies over each other's, any number of
\* calls in flight and every network and limit, unless the last command about it was lost,
\* met one of its scope that contradicts it, or lifted the rule while another key or another
\* handler's copy still rejected the address (rejectDevice, firewallBlock and the vpn-api's
\* write_firewall_command with scope "device").
THEOREM RejectedAlwaysDenied == Spec => []RejectedIsDenied
<1>1. Init => DeniedInv
  BY DEF Init, DeniedInv, SettledAreSure, Claimed, NoPolicy
<1>2. TypeOK /\ DeniedInv /\ [Next]_vars => DeniedInv'
  <2>1. UNCHANGED vars /\ DeniedInv => DeniedInv'
    <3> SUFFICES ASSUME UNCHANGED vars, DeniedInv PROVE DeniedInv'
      OBVIOUS
    <3>1. /\ policy' = policy /\ work' = work /\ calls' = calls /\ unsettled' = unsettled
          /\ permanent' = permanent /\ device' = device /\ rules' = rules
      BY DEF vars, firewall, history
    <3>2. \A s, x : /\ Going(s, x)' <=> Going(s, x)
                    /\ Sent(s, x)' <=> Sent(s, x)
                    /\ Held(s)' = Held(s)
      BY <3>1 DEF Going, Sent, Held
    <3>3. \A s, ip : (Sure(s, ip) => Sure(s, ip)') /\ (Claimed(ip)' => Claimed(ip))
      BY <3>1, <3>2 DEF Sure, Claimed
    <3>4. QED
      BY <3>1, <3>3 DEF DeniedInv, SettledAreSure, Consistent
  <2>2. QED
    BY <2>1, EvaluationDenied, OperationDenied, EnforcementDenied DEF Next
<1>3. TypeOK /\ DeniedInv => RejectedIsDenied
  <2> SUFFICES ASSUME TypeOK, DeniedInv, AtRest, NEW u \in Users,
                      NEW ip \in policy[u].rejected, ip \notin unsettled
               PROVE  ip \in rules
    BY DEF RejectedIsDenied
  <2>1. Claimed(ip) /\ ip \in IPs
    BY DEF Claimed, TypeOK, Policy
  <2>2. PICK s \in Scopes : Sure(s, ip)
    BY <2>1 DEF DeniedInv, SettledAreSure
  <2>3. \A c : ~Going(s, c)
    BY DEF AtRest, Going
  <2>4. QED
    BY <2>2, <2>3 DEF Sure, Held, DeniedInv
<1>4. QED
  BY <1>1, <1>2, <1>3, TypeCorrect, PTL DEF Spec

=============================================================================
