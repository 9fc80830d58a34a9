---------------------------- MODULE FirewallProofs ----------------------------
(***************************************************************************)
(* What holds of the firewall queue, for every number of producers,        *)
(* addresses, commands and crashes, and of the protection mode that        *)
(* promotes bans into it, for any number of lines in fail2ban's log, of    *)
(* polls and of choices of the mode.                                       *)
(***************************************************************************)
EXTENDS Protection, TLAPS, WellFoundedInduction

\* Every step any of the three specifications allows.
AnyNext == Produce \/ Apply \/ LoadFails \/ Crash \/ Promote

USE DEF TypeOK, At, files, applier, history, vars

----------------------------------------------------------------------------
(* Types *)

\* Appending one command to a queue gives a queue.
LEMMA IssueType ==
  ASSUME issued \in Nat, queue \in Seq(Command),
         NEW action \in {"block", "unblock"}, NEW ip \in IPs, NEW scope \in Scopes
  PROVE  Append(queue, Issue(action, ip, scope)) \in Seq(Command)
<1>1. Issue(action, ip, scope) \in Command
  BY DEF Issue, Command
<1>2. QED
  BY <1>1

\* The first of a non-empty sequence is one of its elements, the rest is a sequence.
LEMMA HeadTailType ==
  ASSUME NEW S, NEW s \in Seq(S), s # <<>>
  PROVE  Head(s) \in S /\ Tail(s) \in Seq(S)
OBVIOUS

LEMMA CommandsType ==
  ASSUME NEW s \in Seq(Command), NEW cmd \in Commands(s)
  PROVE  cmd \in Command /\ cmd.ip \in IPs
<1>1. \A i \in DOMAIN s : s[i] \in Command
  OBVIOUS
<1>2. cmd \in Command
  BY <1>1 DEF Commands
<1>3. QED
  BY <1>2 DEF Command

\* No step of any specification takes a variable out of its type.
LEMMA TypeStep == TypeOK /\ [AnyNext]_vars => TypeOK'
<1> SUFFICES ASSUME TypeOK, [AnyNext]_vars PROVE TypeOK'
  OBVIOUS
<1>1. ASSUME NEW p \in Producers, NEW action \in {"block", "unblock"},
             NEW ip \in IPs, NEW scope \in Scopes, LoadAndAppend(p, action, ip, scope)
      PROVE  TypeOK'
  BY <1>1, IssueType DEF LoadAndAppend
<1>2. ASSUME NEW p \in Producers, ReplaceQueue(p) PROVE TypeOK'
  <2>1. overwritten' \in SUBSET IPs
    BY <1>2, CommandsType DEF ReplaceQueue
  <2>2. QED
    BY <1>2, <2>1 DEF ReplaceQueue
<1>3. CASE LoadQueue \/ LoadLists \/ LoadFails
  <2>1. CASE LoadQueue
    BY <2>1 DEF LoadQueue
  <2>2. CASE LoadLists
    BY <2>2 DEF LoadLists
  <2>3. CASE LoadFails
    BY <2>3 DEF LoadFails
  <2>4. QED
    BY <1>3, <2>1, <2>2, <2>3
<1>4. CASE ApplyNext
  <2>1. Head(todo) \in Command /\ Tail(todo) \in Seq(Command)
    BY <1>4, HeadTailType DEF ApplyNext
  <2>2. Head(todo).ip \in IPs /\ Head(todo).id \in Nat
    BY <2>1 DEF Command
  <2>3. perm' \in SUBSET IPs /\ dev' \in SUBSET IPs /\ rules' \in SUBSET IPs
    BY <1>4, <2>2 DEF ApplyNext, Block, UnblockDevice, UnblockForGood
  <2>4. QED
    BY <1>4, <2>1, <2>2, <2>3 DEF ApplyNext
<1>5. CASE OpenBlocks \/ WriteBlocks \/ OpenDeviceBlocks \/ WriteDeviceBlocks
  BY <1>5 DEF OpenBlocks, WriteBlocks, OpenDeviceBlocks, WriteDeviceBlocks
<1>6. CASE RemoveQueue
  BY <1>6 DEF RemoveQueue
<1>7. CASE Crash
  BY <1>7 DEF Crash
<1>8. ASSUME NEW bans \in SUBSET IPs, PromoteBegin(bans) PROVE TypeOK'
  BY <1>8 DEF PromoteBegin, ListRead
<1>9. ASSUME NEW ip \in IPs, PromoteQueue(ip) PROVE TypeOK'
  <2>1. promotion \in [list : SUBSET IPs, left : SUBSET IPs]
    BY <1>9 DEF PromoteQueue
  <2>2. promotion' \in [list : SUBSET IPs, left : SUBSET IPs]
    BY <1>9, <2>1 DEF PromoteQueue
  <2>3. Append(queue, Issue("block", ip, "permanent")) \in Seq(Command)
    BY IssueType, ConstantsAssumption
  <2>4. draft' \in [Producers -> Seq(Command)] /\ issued' \in Nat
    <3>1. CASE QueuedForGood(ip)
      BY <1>9, <3>1 DEF PromoteQueue
    <3>2. CASE ~QueuedForGood(ip)
      <4>1. /\ draft' = [draft EXCEPT ![Dashboard] =
                           Append(queue, Issue("block", ip, "permanent"))]
            /\ issued' = issued + 1
        BY <1>9, <3>2, Zenon DEF PromoteQueue
      <4>2. ASSUME NEW q \in Seq(Command)
            PROVE  [draft EXCEPT ![Dashboard] = q] \in [Producers -> Seq(Command)]
        OBVIOUS
      <4>3. draft' \in [Producers -> Seq(Command)]
        BY <2>3, <4>1, <4>2, Zenon
      <4>4. QED
        BY <4>1, <4>3
    <3>3. QED
      BY <3>1, <3>2
  <2>5. QED
    BY <1>9, <2>2, <2>4 DEF PromoteQueue
<1>10. CASE PromoteEnd
  BY <1>10 DEF PromoteEnd
<1>11. CASE UNCHANGED vars
  BY <1>11
<1>12. QED
  BY <1>1, <1>2, <1>3, <1>4, <1>5, <1>6, <1>7, <1>8, <1>9, <1>10, <1>11
     DEF AnyNext, Produce, Apply, Promote

LEMMA InitType == Init => TypeOK
BY DEF Init

\* Type correctness of the fault-free queue, of the queue with crashes and of the
\* queue with promotions.
THEOREM TypeCorrect == Spec => []TypeOK
<1>1. [Next]_vars => [AnyNext]_vars
  BY DEF Next, AnyNext
<1>2. QED
  BY <1>1, InitType, TypeStep, PTL DEF Spec

THEOREM PromotingTypeCorrect == PromotingSpec => []TypeOK
<1>1. [PromotingNext]_vars => [AnyNext]_vars
  BY DEF PromotingNext, AnyNext
<1>2. QED
  BY <1>1, InitType, TypeStep, PTL DEF PromotingSpec

----------------------------------------------------------------------------
(* The rules follow the lists *)

\* The device list is truncated only between its two writing steps, and is what the
\* applier has in memory once it is written.  Nobody else writes that file.
DevicePhase ==
  /\ deviceBlocks = Torn => pc = "deviceOpen"
  /\ pc = "deviceWritten" => deviceBlocks = dev

\* The same of the permanent list, while the dashboard does not write it.
PermanentPhase ==
  /\ blocks = Torn <=> pc = "blocksOpen"
  /\ pc \in {"blocksWritten", "deviceOpen", "deviceWritten"} => blocks = perm

\* The inductive invariant of the fault-free queue.
RulesInv == TypeOK /\ DevicePhase /\ PermanentPhase /\ RulesFollowLists

LEMMA RulesInvInit == Init => RulesInv
BY InitType, ConstantsAssumption
   DEF Init, RulesInv, DevicePhase, PermanentPhase, RulesFollowLists,
       PermanentInForce, DeviceInForce, Working

\* One command moves the rules with the copies of the lists.
LEMMA ApplyRules ==
  ASSUME TypeOK, RulesFollowLists, ApplyNext
  PROVE  RulesFollowLists' /\ rules' = perm' \cup dev'
<1> DEFINE cmd == Head(todo)
<1>1. Working /\ Working'
  BY DEF Working, ApplyNext
<1>2. rules = perm \cup dev
  BY <1>1 DEF RulesFollowLists, PermanentInForce, DeviceInForce
<1>3. \/ Block(cmd.ip, cmd.scope)
      \/ UnblockDevice(cmd.ip)
      \/ UnblockForGood(cmd.ip)
  BY DEF ApplyNext
<1>4. rules' = perm' \cup dev'
  BY <1>2, <1>3 DEF Block, UnblockDevice, UnblockForGood
<1>5. QED
  BY <1>1, <1>4 DEF RulesFollowLists, PermanentInForce, DeviceInForce

LEMMA RulesInvStep == RulesInv /\ [Next]_vars => RulesInv'
<1> SUFFICES ASSUME RulesInv, [Next]_vars PROVE RulesInv'
  OBVIOUS
<1> USE DEF RulesInv, DevicePhase, PermanentPhase
<1>0. TypeOK'
  BY TypeStep DEF Next, AnyNext
<1>1. ASSUME NEW p \in Producers, NEW action \in {"block", "unblock"},
             NEW ip \in IPs, NEW scope \in Scopes, LoadAndAppend(p, action, ip, scope)
      PROVE  RulesInv'
  BY <1>0, <1>1 DEF LoadAndAppend, RulesFollowLists, PermanentInForce, DeviceInForce, Working
<1>2. ASSUME NEW p \in Producers, ReplaceQueue(p) PROVE RulesInv'
  BY <1>0, <1>2 DEF ReplaceQueue, RulesFollowLists, PermanentInForce, DeviceInForce, Working
<1>3. CASE LoadQueue
  BY <1>0, <1>3 DEF LoadQueue, RulesFollowLists, PermanentInForce, DeviceInForce, Working
<1>4. CASE LoadLists
  BY <1>0, <1>4 DEF LoadLists, RulesFollowLists, PermanentInForce, DeviceInForce, Working
<1>5. CASE ApplyNext
  <2>1. RulesFollowLists'
    BY <1>5, ApplyRules
  <2>2. (DevicePhase /\ PermanentPhase)'
    BY <1>5 DEF ApplyNext
  <2>3. QED
    BY <1>0, <2>1, <2>2
<1>6. CASE OpenBlocks
  BY <1>0, <1>6, ConstantsAssumption
     DEF OpenBlocks, RulesFollowLists, PermanentInForce, DeviceInForce, Working
<1>7. CASE WriteBlocks
  BY <1>0, <1>7, ConstantsAssumption
     DEF WriteBlocks, RulesFollowLists, PermanentInForce, DeviceInForce, Working
<1>8. CASE OpenDeviceBlocks
  BY <1>0, <1>8, ConstantsAssumption
     DEF OpenDeviceBlocks, RulesFollowLists, PermanentInForce, DeviceInForce, Working
<1>9. CASE WriteDeviceBlocks
  BY <1>0, <1>9, ConstantsAssumption
     DEF WriteDeviceBlocks, RulesFollowLists, PermanentInForce, DeviceInForce, Working
<1>10. CASE RemoveQueue
  BY <1>0, <1>10 DEF RemoveQueue, RulesFollowLists, PermanentInForce, DeviceInForce, Working
<1>11. CASE UNCHANGED vars
  BY <1>0, <1>11 DEF RulesFollowLists, PermanentInForce, DeviceInForce, Working
<1>12. QED
  BY <1>1, <1>2, <1>3, <1>4, <1>5, <1>6, <1>7, <1>8, <1>9, <1>10, <1>11
     DEF Next, Produce, Apply

\* However many producers overwrite or lose each other's commands, the firewall
\* denies exactly the addresses of the two lists in force.
THEOREM RulesAlwaysFollowLists == Spec => []RulesFollowLists
<1>1. RulesInv => RulesFollowLists
  BY DEF RulesInv
<1>2. QED
  BY <1>1, RulesInvInit, RulesInvStep, PTL DEF Spec

----------------------------------------------------------------------------
(* The queue implements the registry of holds *)

USE DEF Registry!Init, Registry!Next, Registry!registryVars, Registry!Hold,
        Registry!Release, Registry!HoldDevice, Registry!ReleaseDevice

\* Applying a command is one step of the registry.
LEMMA ApplyIsRegistryStep ==
  ASSUME RulesInv, ApplyNext PROVE Registry!Next
<1> DEFINE ip == Head(todo).ip
<1>1. ip \in IPs
  <2>1. Head(todo) \in Command
    BY HeadTailType DEF ApplyNext, RulesInv
  <2>2. QED
    BY <2>1 DEF Command
<1>2. /\ PermanentInForce = perm /\ PermanentInForce' = perm'
      /\ DeviceInForce = dev /\ DeviceInForce' = dev'
  BY DEF ApplyNext, PermanentInForce, DeviceInForce, Working
<1>3. rules' = perm' \cup dev'
  BY ApplyRules DEF RulesInv
<1>4. \/ Block(ip, Head(todo).scope)
      \/ UnblockDevice(ip)
      \/ UnblockForGood(ip)
  BY DEF ApplyNext
<1>5. \/ perm' = perm \cup {ip} /\ dev' = dev
      \/ perm' = perm \ {ip} /\ dev' = dev
      \/ dev' = dev \cup {ip} /\ perm' = perm
      \/ dev' = dev \ {ip} /\ perm' = perm
  BY <1>4 DEF Block, UnblockDevice, UnblockForGood
<1>6. QED
  BY <1>1, <1>2, <1>3, <1>5

\* Every step of the queue is a step of the registry or leaves it alone.
LEMMA RegistryStep ==
  RulesInv /\ [Next]_vars => [Registry!Next]_Registry!registryVars
<1> SUFFICES ASSUME RulesInv, [Next]_vars
             PROVE  [Registry!Next]_Registry!registryVars
  OBVIOUS
<1> USE DEF RulesInv, DevicePhase, PermanentPhase, PermanentInForce, DeviceInForce, Working
<1>1. ASSUME NEW p \in Producers, NEW action \in {"block", "unblock"},
             NEW ip \in IPs, NEW scope \in Scopes, LoadAndAppend(p, action, ip, scope)
      PROVE  UNCHANGED Registry!registryVars
  BY <1>1 DEF LoadAndAppend
<1>2. ASSUME NEW p \in Producers, ReplaceQueue(p)
      PROVE  UNCHANGED Registry!registryVars
  BY <1>2 DEF ReplaceQueue
<1>3. CASE LoadQueue
  BY <1>3 DEF LoadQueue
<1>4. CASE LoadLists
  BY <1>4 DEF LoadLists
<1>5. CASE ApplyNext
  BY <1>5, ApplyIsRegistryStep
<1>6. CASE OpenBlocks \/ WriteBlocks \/ OpenDeviceBlocks \/ WriteDeviceBlocks
  BY <1>6 DEF OpenBlocks, WriteBlocks, OpenDeviceBlocks, WriteDeviceBlocks
<1>7. CASE RemoveQueue
  BY <1>7 DEF RemoveQueue
<1>8. CASE UNCHANGED vars
  BY <1>8
<1>9. QED
  BY <1>1, <1>2, <1>3, <1>4, <1>5, <1>6, <1>7, <1>8 DEF Next, Produce, Apply

LEMMA RegistryInit == Init => Registry!Init
BY ConstantsAssumption DEF Init, PermanentInForce, DeviceInForce, Working

\* The fault-free queue implements the registry: each command applied takes or
\* releases one hold, and the rules are exactly what is held.
THEOREM QueueImplementsRegistry == Spec => ImplementsRegistry
<1>1. QED
  BY RulesInvInit, RulesInvStep, RegistryInit, RegistryStep, PTL
     DEF Spec, ImplementsRegistry, Registry!Spec

----------------------------------------------------------------------------
(* Device blocks under promotions *)

\* What is left of RulesInv when the dashboard rewrites the permanent list.
HoldInv == TypeOK /\ DevicePhase /\ DeviceHoldKeepsRule

LEMMA HoldInvInit == Init => HoldInv
BY InitType, ConstantsAssumption
   DEF Init, HoldInv, DevicePhase, DeviceHoldKeepsRule, DeviceInForce, Working

LEMMA HoldInvStep == HoldInv /\ [PromotingNext]_vars => HoldInv'
<1> SUFFICES ASSUME HoldInv, [PromotingNext]_vars PROVE HoldInv'
  OBVIOUS
<1> USE DEF HoldInv, DevicePhase, DeviceHoldKeepsRule, DeviceInForce, Working
<1>0. TypeOK'
  BY TypeStep DEF PromotingNext, AnyNext
<1>1. ASSUME NEW p \in Producers, NEW action \in {"block", "unblock"},
             NEW ip \in IPs, NEW scope \in Scopes, LoadAndAppend(p, action, ip, scope)
      PROVE  HoldInv'
  BY <1>0, <1>1 DEF LoadAndAppend
<1>2. ASSUME NEW p \in Producers, ReplaceQueue(p) PROVE HoldInv'
  BY <1>0, <1>2 DEF ReplaceQueue
<1>3. CASE LoadQueue
  BY <1>0, <1>3 DEF LoadQueue
<1>4. CASE LoadLists
  BY <1>0, <1>4 DEF LoadLists
<1>5. CASE ApplyNext
  <2>1. \/ Block(Head(todo).ip, Head(todo).scope)
        \/ UnblockDevice(Head(todo).ip)
        \/ UnblockForGood(Head(todo).ip)
    BY <1>5 DEF ApplyNext
  <2>2. dev \subseteq rules
    BY <1>5 DEF ApplyNext
  <2>3. dev' \subseteq rules'
    BY <2>1, <2>2 DEF Block, UnblockDevice, UnblockForGood
  <2>4. QED
    BY <1>0, <1>5, <2>3 DEF ApplyNext
<1>6. CASE OpenBlocks \/ WriteBlocks
  BY <1>0, <1>6 DEF OpenBlocks, WriteBlocks
<1>7. CASE OpenDeviceBlocks
  BY <1>0, <1>7 DEF OpenDeviceBlocks
<1>8. CASE WriteDeviceBlocks
  BY <1>0, <1>8, ConstantsAssumption DEF WriteDeviceBlocks
<1>9. CASE RemoveQueue
  BY <1>0, <1>9 DEF RemoveQueue
<1>10. ASSUME NEW bans \in SUBSET IPs, PromoteBegin(bans) PROVE HoldInv'
  BY <1>0, <1>10 DEF PromoteBegin
<1>11. ASSUME NEW ip \in IPs, PromoteQueue(ip) PROVE HoldInv'
  BY <1>0, <1>11 DEF PromoteQueue
<1>12. CASE PromoteEnd
  BY <1>0, <1>12 DEF PromoteEnd
<1>13. CASE UNCHANGED vars
  BY <1>0, <1>13
<1>14. QED
  BY <1>1, <1>2, <1>3, <1>4, <1>5, <1>6, <1>7, <1>8, <1>9, <1>10, <1>11, <1>12, <1>13
     DEF PromotingNext, Produce, Apply, Promote

\* Whatever the dashboard promotes and whenever, an address the device policy holds
\* stays denied.
THEOREM DeviceHoldsSurvivePromotions == PromotingSpec => []DeviceHoldKeepsRule
<1>1. HoldInv => DeviceHoldKeepsRule
  BY DEF HoldInv
<1>2. QED
  BY <1>1, HoldInvInit, HoldInvStep, PTL DEF PromotingSpec

----------------------------------------------------------------------------
(* Crashes *)

\* What a sequence of commands has of an address.
Named(s, ip)     == \E cmd \in Commands(s) : cmd.ip = ip
Blocking(s, ip)  == \E cmd \in Commands(s) : cmd.ip = ip /\ cmd.action = "block"
ForDevice(s, ip) ==
  \E cmd \in Commands(s) : cmd.ip = ip /\ cmd.action = "unblock" /\ cmd.scope = "device"
ForGood(s, ip)   ==
  \E cmd \in Commands(s) : cmd.ip = ip /\ cmd.action = "unblock" /\ cmd.scope # "device"

\* Applying the commands of s to two lists makes UFW agree with them about an address:
\* it does already, or UFW denies it and any command is about it, or one blocks it, or
\* UFW does not deny it and each list that has it is told to let it go.
Heals(s, ip, list, deviceList) ==
  \/ ip \in rules <=> ip \in list \cup deviceList
  \/ ip \in rules /\ Named(s, ip)
  \/ Blocking(s, ip)
  \/ ip \notin rules /\ (ip \in list => ForGood(s, ip)) /\ (ip \in deviceList => ForDevice(s, ip))

\* Where the lists are in each step of the script, and what a crash may leave.
Phases ==
  /\ pc = "applying" => Torn \notin {blocks, deviceBlocks}
  /\ pc = "blocksOpen" => blocks = Torn /\ deviceBlocks # Torn
  /\ pc = "blocksWritten" => blocks = perm /\ deviceBlocks # Torn
  /\ pc = "deviceOpen" => blocks = perm /\ deviceBlocks = Torn
  /\ pc = "deviceWritten" => blocks = perm /\ deviceBlocks = dev
  /\ pc \notin {"idle", "loaded", "applying"} => todo = <<>>
  /\ pc # "idle" \/ Torn \in {blocks, deviceBlocks} => queue # <<>>

\* What the applier still has to do about an address stays queued, and so does what it
\* did to its copies and not yet to the files.
KeptQueued(ip) ==
  /\ pc # "idle" => \A cmd \in Commands(todo) : cmd.ip = ip => cmd \in Commands(queue)
  /\ Working /\ blocks # Torn =>
       /\ ip \in blocks \ perm => ForGood(queue, ip)
       /\ ip \in perm \ blocks => Blocking(queue, ip)
  /\ Working /\ deviceBlocks # Torn =>
       /\ ip \in deviceBlocks \ dev => ForDevice(queue, ip)
       /\ ip \in dev \ deviceBlocks => Blocking(queue, ip)

\* So this run heals the address, if it ends, and the next one does, if it does not.
Healing(ip) ==
  /\ Working => Heals(todo, ip, perm, dev)
  /\ Torn \notin {blocks, deviceBlocks} =>
       /\ Heals(queue, ip, blocks, deviceBlocks)
       /\ pc = "loaded" => Heals(todo, ip, blocks, deviceBlocks)

AddressInv(ip) == KeptQueued(ip) /\ Healing(ip)

\* The inductive invariant of the queue with crashes.
CrashInv == TypeOK /\ Phases /\ \A ip \in IPs \ overwritten : AddressInv(ip)

LEMMA CommandsOf ==
  ASSUME NEW s \in Seq(Command), s # <<>>
  PROVE  Head(s) \in Command /\ Commands(s) = {Head(s)} \cup Commands(Tail(s))
<1>1. Head(s) = s[1] /\ 1 \in DOMAIN s /\ Head(s) \in Command
  OBVIOUS
<1>2. /\ \A i \in DOMAIN Tail(s) : i + 1 \in DOMAIN s /\ Tail(s)[i] = s[i + 1]
      /\ \A i \in DOMAIN s : i # 1 => i - 1 \in DOMAIN Tail(s) /\ Tail(s)[i - 1] = s[i]
  OBVIOUS
<1>3. ASSUME NEW i \in DOMAIN s, i # 1 PROVE s[i] \in Commands(Tail(s))
  <2>1. PICK j \in DOMAIN Tail(s) : Tail(s)[j] = s[i]
    BY <1>2, <1>3
  <2>2. QED
    BY <2>1 DEF Commands
<1>4. ASSUME NEW j \in DOMAIN Tail(s) PROVE Tail(s)[j] \in Commands(s)
  <2>1. PICK i \in DOMAIN s : Tail(s)[j] = s[i]
    BY <1>2
  <2>2. QED
    BY <2>1 DEF Commands
<1>5. Commands(s) \subseteq {Head(s)} \cup Commands(Tail(s))
  BY <1>1, <1>3 DEF Commands
<1>6. {Head(s)} \cup Commands(Tail(s)) \subseteq Commands(s)
  BY <1>1, <1>4 DEF Commands
<1>7. QED
  BY <1>1, <1>5, <1>6

LEMMA NoCommands == Commands(<<>>) = {}
  BY DEF Commands

\* What the first command is to an address, and what the rest are.
LEMMA FirstAndRest ==
  ASSUME NEW s \in Seq(Command), s # <<>>, NEW ip
  PROVE  /\ Named(s, ip) <=> Head(s).ip = ip \/ Named(Tail(s), ip)
         /\ Blocking(s, ip) <=>
              (Head(s).ip = ip /\ Head(s).action = "block") \/ Blocking(Tail(s), ip)
         /\ ForDevice(s, ip) <=>
              \/ Head(s).ip = ip /\ Head(s).action = "unblock" /\ Head(s).scope = "device"
              \/ ForDevice(Tail(s), ip)
         /\ ForGood(s, ip) <=>
              \/ Head(s).ip = ip /\ Head(s).action = "unblock" /\ Head(s).scope # "device"
              \/ ForGood(Tail(s), ip)
  BY CommandsOf DEF Named, Blocking, ForDevice, ForGood

\* A queue that has all a queue had of an address heals it as well.
LEMMA MoreHeals ==
  ASSUME NEW s, NEW t, NEW ip, NEW list, NEW deviceList,
         \A cmd \in Commands(s) : cmd.ip = ip => cmd \in Commands(t)
  PROVE  /\ Heals(s, ip, list, deviceList) => Heals(t, ip, list, deviceList)
         /\ ForGood(s, ip) => ForGood(t, ip)
         /\ ForDevice(s, ip) => ForDevice(t, ip)
         /\ Blocking(s, ip) => Blocking(t, ip)
  BY DEF Heals, Named, Blocking, ForDevice, ForGood

\* Nothing is left to do: UFW agrees.
LEMMA Healed ==
  ASSUME NEW ip, NEW list, NEW deviceList, Heals(<<>>, ip, list, deviceList)
  PROVE  ip \in rules <=> ip \in list \cup deviceList
  BY NoCommands DEF Heals, Named, Blocking, ForDevice, ForGood

LEMMA CrashInvInit == Init => CrashInv
<1> SUFFICES ASSUME Init PROVE CrashInv
  OBVIOUS
<1>1. TypeOK /\ Torn \notin {blocks, deviceBlocks}
  BY InitType, ConstantsAssumption DEF Init
<1>2. Phases
  BY <1>1 DEF Init, Phases
<1>3. ASSUME NEW ip \in IPs PROVE AddressInv(ip)
  BY DEF Init, AddressInv, KeptQueued, Healing, Heals, Working
<1>4. QED
  BY <1>1, <1>2, <1>3 DEF CrashInv

LEMMA SameCrashInv ==
  ASSUME CrashInv, TypeOK', UNCHANGED <<files, rules, applier, overwritten>> PROVE CrashInv'
<1>1. Phases'
  BY DEF CrashInv, Phases
<1>2. ASSUME NEW ip \in IPs \ overwritten PROVE AddressInv(ip)'
  BY DEF CrashInv, AddressInv, KeptQueued, Healing, Heals, Working
<1>3. QED
  BY <1>1, <1>2 DEF CrashInv

\* A producer's copy takes the place of the queue.
LEMMA ReplaceHeals ==
  ASSUME CrashInv, TypeOK', NEW p \in Producers, ReplaceQueue(p) PROVE CrashInv'
<1>1. Phases'
  BY DEF CrashInv, Phases, ReplaceQueue
<1>2. ASSUME NEW ip \in IPs \ overwritten' PROVE AddressInv(ip)'
  <2>1. ip \in IPs \ overwritten /\ KeptQueued(ip) /\ Healing(ip)
    BY DEF ReplaceQueue, CrashInv, AddressInv
  <2>2. \A cmd \in Commands(queue) : cmd.ip = ip => cmd \in Commands(queue')
    BY DEF ReplaceQueue
  <2>3. UNCHANGED <<blocks, deviceBlocks, rules, applier>>
    BY DEF ReplaceQueue
  <2>4. KeptQueued(ip)'
    BY <2>1, <2>2, <2>3, MoreHeals DEF KeptQueued, Working
  <2>5. \A list, deviceList :
          Heals(queue, ip, list, deviceList) => Heals(queue, ip, list, deviceList)'
    BY <2>2, <2>3, MoreHeals DEF Heals, Named
  <2>6. Healing(ip)'
    BY <2>1, <2>3, <2>5 DEF Healing, Heals, Working
  <2>7. QED
    BY <2>4, <2>6 DEF AddressInv
<1>3. QED
  BY <1>1, <1>2 DEF CrashInv

\* Once the applier's copies agree with UFW about an address, so do the files it writes.
LEMMA Written ==
  ASSUME NEW ip \in IPs, TypeOK, Working, todo = <<>>, KeptQueued(ip), Healing(ip)
  PROVE  /\ ip \in rules <=> ip \in perm \cup dev
         /\ deviceBlocks # Torn => Heals(queue, ip, perm, deviceBlocks)
         /\ Heals(queue, ip, perm, dev)
<1>1. ip \in rules <=> ip \in perm \cup dev
  BY Healed DEF Healing
<1>2. Heals(queue, ip, perm, dev)
  BY <1>1 DEF Heals
<1>3. ASSUME deviceBlocks # Torn PROVE Heals(queue, ip, perm, deviceBlocks)
  <2>1. ip \in deviceBlocks \ dev => ForDevice(queue, ip)
    BY <1>3 DEF KeptQueued
  <2>2. ip \in dev \ deviceBlocks => Blocking(queue, ip)
    BY <1>3 DEF KeptQueued
  <2>3. QED
    BY <1>1, <2>1, <2>2 DEF Heals
<1>4. QED
  BY <1>1, <1>2, <1>3

\* One command, as its address sees it: UFW comes to agree with the applier's copies, or
\* keeps not denying it while one of them has it and is still to let it go.
LEMMA ApplyHeals ==
  ASSUME TypeOK, ApplyNext, NEW ip \in IPs, Head(todo).ip = ip, Heals(todo, ip, perm, dev)
  PROVE  Heals(todo, ip, perm, dev)'
<1> DEFINE cmd == Head(todo)
<1>1. /\ todo # <<>> /\ todo \in Seq(Command) /\ todo' = Tail(todo) /\ cmd \in Command
  BY CommandsOf DEF ApplyNext
<1>2. CASE cmd.action = "block" /\ Block(ip, cmd.scope)
  <2>1. ip \in rules' /\ ip \in perm' \cup dev'
    BY <1>2 DEF Block
  <2>2. QED
    BY <2>1 DEF Heals
<1>3. CASE cmd.action = "unblock" /\ cmd.scope = "device" /\ UnblockDevice(ip)
  <2>1. perm' = perm /\ ip \notin dev' /\ (ip \in perm => rules' = rules)
        /\ (ip \notin perm => ip \notin rules')
    BY <1>3 DEF UnblockDevice
  <2>2. CASE ip \notin perm \/ ip \in rules
    BY <2>1, <2>2 DEF Heals
  <2>3. CASE ip \in perm /\ ip \notin rules
    <3>1. Blocking(todo, ip) \/ ForGood(todo, ip)
      BY <2>3 DEF Heals
    <3>2. Blocking(todo, ip)' \/ ForGood(todo, ip)'
      BY <1>1, <1>3, <3>1, FirstAndRest
    <3>3. QED
      BY <2>1, <2>3, <3>2 DEF Heals, Blocking, ForGood
  <2>4. QED
    BY <2>2, <2>3
<1>4. CASE cmd.action = "unblock" /\ cmd.scope # "device" /\ UnblockForGood(ip)
  <2>1. dev' = dev /\ ip \notin perm' /\ (ip \in dev => rules' = rules)
        /\ (ip \notin dev => ip \notin rules')
    BY <1>4 DEF UnblockForGood
  <2>2. CASE ip \notin dev \/ ip \in rules
    BY <2>1, <2>2 DEF Heals
  <2>3. CASE ip \in dev /\ ip \notin rules
    <3>1. Blocking(todo, ip) \/ ForDevice(todo, ip)
      BY <2>3 DEF Heals
    <3>2. Blocking(todo, ip)' \/ ForDevice(todo, ip)'
      BY <1>1, <1>4, <3>1, FirstAndRest
    <3>3. QED
      BY <2>1, <2>3, <3>2 DEF Heals, Blocking, ForDevice
  <2>4. QED
    BY <2>2, <2>3
<1>5. QED
  BY <1>2, <1>3, <1>4 DEF ApplyNext

\* An address the command is not about.
LEMMA ApplyElsewhere ==
  ASSUME TypeOK, ApplyNext, NEW ip \in IPs, Head(todo).ip # ip
  PROVE  /\ ip \in perm' <=> ip \in perm
         /\ ip \in dev' <=> ip \in dev
         /\ ip \in rules' <=> ip \in rules
         /\ Heals(todo, ip, perm, dev) => Heals(todo, ip, perm, dev)'
<1> DEFINE cmd == Head(todo)
<1>1. todo # <<>> /\ todo \in Seq(Command) /\ todo' = Tail(todo)
  BY DEF ApplyNext
<1>2. Block(cmd.ip, cmd.scope) \/ UnblockDevice(cmd.ip) \/ UnblockForGood(cmd.ip)
  BY DEF ApplyNext
<1>3. /\ ip \in perm' <=> ip \in perm
      /\ ip \in dev' <=> ip \in dev
      /\ ip \in rules' <=> ip \in rules
  BY <1>2 DEF Block, UnblockDevice, UnblockForGood
<1>4. /\ Named(todo, ip) <=> Named(todo, ip)'
      /\ Blocking(todo, ip) <=> Blocking(todo, ip)'
      /\ ForDevice(todo, ip) <=> ForDevice(todo, ip)'
      /\ ForGood(todo, ip) <=> ForGood(todo, ip)'
  <2>1. /\ Named(todo, ip) <=> Named(Tail(todo), ip)
        /\ Blocking(todo, ip) <=> Blocking(Tail(todo), ip)
        /\ ForDevice(todo, ip) <=> ForDevice(Tail(todo), ip)
        /\ ForGood(todo, ip) <=> ForGood(Tail(todo), ip)
    BY <1>1, FirstAndRest
  <2>2. Commands(todo)' = Commands(Tail(todo))
    BY <1>1 DEF Commands
  <2>3. QED
    BY <2>1, <2>2 DEF Named, Blocking, ForDevice, ForGood
<1>5. QED
  BY <1>3, <1>4 DEF Heals

\* The command stays queued, so that the next run would heal the address with the lists as
\* they are in the files.
LEMMA ApplyQueued ==
  ASSUME TypeOK, Phases, ApplyNext, NEW ip \in IPs, Head(todo).ip = ip,
         KeptQueued(ip), Heals(queue, ip, blocks, deviceBlocks)
  PROVE  /\ ip \in blocks \ perm' => ForGood(queue, ip)
         /\ ip \in perm' \ blocks => Blocking(queue, ip)
         /\ ip \in deviceBlocks \ dev' => ForDevice(queue, ip)
         /\ ip \in dev' \ deviceBlocks => Blocking(queue, ip)
         /\ Heals(queue, ip, blocks, deviceBlocks)'
<1> DEFINE cmd == Head(todo)
<1>1. /\ Torn \notin {blocks, deviceBlocks} /\ Working /\ todo # <<>> /\ todo \in Seq(Command)
      /\ UNCHANGED <<queue, blocks, deviceBlocks>>
  BY DEF ApplyNext, Phases, Working
<1>2. cmd \in Commands(queue)
  BY <1>1, CommandsOf DEF KeptQueued, ApplyNext
<1>3. /\ ip \in blocks \ perm => ForGood(queue, ip)
      /\ ip \in perm \ blocks => Blocking(queue, ip)
      /\ ip \in deviceBlocks \ dev => ForDevice(queue, ip)
      /\ ip \in dev \ deviceBlocks => Blocking(queue, ip)
  BY <1>1 DEF KeptQueued
<1>4. Named(queue, ip)
  BY <1>2 DEF Named
<1>5. ASSUME \/ rules' = rules
             \/ /\ ip \notin rules'
                /\ ip \in blocks => ForGood(queue, ip)
                /\ ip \in deviceBlocks => ForDevice(queue, ip)
      PROVE  Heals(queue, ip, blocks, deviceBlocks)'
  BY <1>1, <1>5 DEF Heals, Named, Blocking, ForGood, ForDevice
<1>6. CASE cmd.action = "block" /\ Block(ip, cmd.scope)
  <2>1. Blocking(queue, ip)
    BY <1>2, <1>6 DEF Blocking
  <2>2. Heals(queue, ip, blocks, deviceBlocks)'
    BY <1>1, <2>1 DEF Heals, Blocking
  <2>3. perm \subseteq perm' /\ dev \subseteq dev'
    BY <1>6 DEF Block
  <2>4. QED
    BY <1>3, <2>1, <2>2, <2>3
<1>7. CASE cmd.action = "unblock" /\ cmd.scope = "device" /\ UnblockDevice(ip)
  <2>1. ForDevice(queue, ip)
    BY <1>2, <1>7 DEF ForDevice
  <2>2. perm' = perm /\ dev' = dev \ {ip} /\ (rules' = rules \/ (ip \notin perm /\ ip \notin rules'))
    BY <1>7 DEF UnblockDevice
  <2>3. Heals(queue, ip, blocks, deviceBlocks)'
    BY <1>3, <1>5, <2>1, <2>2
  <2>4. QED
    BY <1>3, <2>1, <2>2, <2>3
<1>8. CASE cmd.action = "unblock" /\ cmd.scope # "device" /\ UnblockForGood(ip)
  <2>1. ForGood(queue, ip)
    BY <1>2, <1>8 DEF ForGood
  <2>2. dev' = dev /\ perm' = perm \ {ip} /\ (rules' = rules \/ (ip \notin dev /\ ip \notin rules'))
    BY <1>8 DEF UnblockForGood
  <2>3. Heals(queue, ip, blocks, deviceBlocks)'
    BY <1>3, <1>5, <2>1, <2>2
  <2>4. QED
    BY <1>3, <2>1, <2>2, <2>3
<1>9. QED
  BY <1>6, <1>7, <1>8 DEF ApplyNext

LEMMA ApplyCrashInv == ASSUME CrashInv, TypeOK', ApplyNext PROVE CrashInv'
<1>1. /\ UNCHANGED <<queue, blocks, deviceBlocks, pc, overwritten>>
      /\ pc = "applying" /\ Working /\ Working' /\ todo # <<>> /\ todo' = Tail(todo)
      /\ TypeOK /\ Phases /\ Torn \notin {blocks, deviceBlocks}
  BY DEF ApplyNext, Working, CrashInv, Phases
<1>2. Phases'
  BY <1>1 DEF Phases
<1>3. ASSUME NEW ip \in IPs \ overwritten PROVE AddressInv(ip)'
  <2>1. KeptQueued(ip) /\ Heals(todo, ip, perm, dev) /\ Heals(queue, ip, blocks, deviceBlocks)
    BY <1>1 DEF CrashInv, AddressInv, Healing
  <2>2. \A cmd \in Commands(todo') : cmd \in Commands(todo)
    BY <1>1, CommandsOf
  <2>3. \A cmd \in Commands(todo') : cmd.ip = ip => cmd \in Commands(queue')
    BY <1>1, <2>1, <2>2 DEF KeptQueued
  <2>4. CASE Head(todo).ip = ip
    <3>1. Heals(todo, ip, perm, dev)'
      BY <1>1, <2>1, <2>4, ApplyHeals
    <3>2. /\ ip \in blocks \ perm' => ForGood(queue, ip)
          /\ ip \in perm' \ blocks => Blocking(queue, ip)
          /\ ip \in deviceBlocks \ dev' => ForDevice(queue, ip)
          /\ ip \in dev' \ deviceBlocks => Blocking(queue, ip)
          /\ Heals(queue, ip, blocks, deviceBlocks)'
      BY <1>1, <2>1, <2>4, ApplyQueued
    <3>3. KeptQueued(ip)'
      BY <1>1, <2>3, <3>2 DEF KeptQueued, Blocking, ForGood, ForDevice
    <3>4. Healing(ip)'
      BY <1>1, <3>1, <3>2 DEF Healing
    <3>5. QED
      BY <3>3, <3>4 DEF AddressInv
  <2>5. CASE Head(todo).ip # ip
    <3>1. /\ ip \in perm' <=> ip \in perm
          /\ ip \in dev' <=> ip \in dev
          /\ ip \in rules' <=> ip \in rules
          /\ Heals(todo, ip, perm, dev)'
      BY <1>1, <2>1, <2>5, ApplyElsewhere
    <3>2. KeptQueued(ip)'
      BY <1>1, <2>1, <2>3, <3>1 DEF KeptQueued, Blocking, ForGood, ForDevice
    <3>3. Heals(queue, ip, blocks, deviceBlocks)'
      BY <1>1, <2>1, <3>1 DEF Heals, Named, Blocking, ForGood, ForDevice
    <3>4. Healing(ip)'
      BY <1>1, <3>1, <3>3 DEF Healing
    <3>5. QED
      BY <3>2, <3>4 DEF AddressInv
  <2>6. QED
    BY <2>4, <2>5
<1>4. QED
  BY <1>1, <1>2, <1>3 DEF CrashInv

LEMMA CrashInvStep == CrashInv /\ [CrashNext]_vars => CrashInv'
<1> SUFFICES ASSUME CrashInv, [CrashNext]_vars PROVE CrashInv'
  OBVIOUS
<1>0. TypeOK' /\ TypeOK /\ Phases
  BY TypeStep DEF CrashNext, AnyNext, CrashInv
<1>1. ASSUME NEW ip \in IPs \ overwritten PROVE KeptQueued(ip) /\ Healing(ip)
  BY DEF CrashInv, AddressInv
<1>2. ASSUME Phases', overwritten' = overwritten,
             \A ip \in IPs \ overwritten : KeptQueued(ip)' /\ Healing(ip)'
      PROVE  CrashInv'
  BY <1>0, <1>2 DEF CrashInv, AddressInv
<1>3. ASSUME NEW p \in Producers, NEW action \in {"block", "unblock"},
             NEW ip \in IPs, NEW scope \in Scopes, LoadAndAppend(p, action, ip, scope)
      PROVE  CrashInv'
  BY <1>0, <1>3, SameCrashInv DEF LoadAndAppend
<1>4. ASSUME NEW p \in Producers, ReplaceQueue(p) PROVE CrashInv'
  BY <1>0, <1>4, ReplaceHeals
<1>5. CASE LoadQueue
  <2>1. /\ pc' = "loaded" /\ todo' = queue /\ queue # <<>> /\ ~Working'
        /\ UNCHANGED <<files, rules, overwritten>>
    BY <1>5 DEF LoadQueue, Working
  <2>2. Phases'
    BY <1>0, <2>1 DEF Phases
  <2>3. ASSUME NEW ip \in IPs \ overwritten PROVE KeptQueued(ip)' /\ Healing(ip)'
    <3>1. Torn \notin {blocks, deviceBlocks} => Heals(queue, ip, blocks, deviceBlocks)
      BY <1>1 DEF Healing
    <3>2. Healing(ip)'
      BY <2>1, <3>1 DEF Healing, Heals, Named, Blocking, ForGood, ForDevice
    <3>3. KeptQueued(ip)'
      BY <2>1 DEF KeptQueued
    <3>4. QED
      BY <3>2, <3>3
  <2>4. QED
    BY <1>2, <2>1, <2>2, <2>3
<1>6. CASE LoadLists
  <2>1. /\ pc = "loaded" /\ pc' = "applying" /\ Torn \notin {blocks, deviceBlocks} /\ Working'
        /\ perm' = blocks /\ dev' = deviceBlocks
        /\ UNCHANGED <<files, rules, overwritten, todo>>
    BY <1>6 DEF LoadLists, Working
  <2>2. Phases'
    BY <1>0, <2>1 DEF Phases
  <2>3. ASSUME NEW ip \in IPs \ overwritten PROVE KeptQueued(ip)' /\ Healing(ip)'
    <3>1. /\ Heals(queue, ip, blocks, deviceBlocks) /\ Heals(todo, ip, blocks, deviceBlocks)
          /\ \A cmd \in Commands(todo) : cmd.ip = ip => cmd \in Commands(queue)
      BY <1>1, <2>1 DEF Healing, KeptQueued
    <3>2. Healing(ip)'
      BY <2>1, <3>1 DEF Healing, Heals, Named, Blocking, ForGood, ForDevice
    <3>3. KeptQueued(ip)'
      BY <2>1, <3>1 DEF KeptQueued
    <3>4. QED
      BY <3>2, <3>3
  <2>4. QED
    BY <1>2, <2>1, <2>2, <2>3
<1>7. CASE ApplyNext
  BY <1>0, <1>7, ApplyCrashInv
<1>8. CASE OpenBlocks
  <2>1. /\ pc = "applying" /\ pc' = "blocksOpen" /\ todo = <<>> /\ blocks' = Torn
        /\ Working /\ Working'
        /\ UNCHANGED <<queue, deviceBlocks, rules, overwritten, todo, perm, dev>>
    BY <1>8 DEF OpenBlocks, Working
  <2>2. Phases'
    BY <1>0, <2>1 DEF Phases
  <2>3. ASSUME NEW ip \in IPs \ overwritten PROVE KeptQueued(ip)' /\ Healing(ip)'
    BY <1>1, <2>1 DEF Healing, KeptQueued, Heals, Named, Blocking, ForGood, ForDevice
  <2>4. QED
    BY <1>2, <2>1, <2>2, <2>3
<1>9. CASE WriteBlocks
  <2>1. /\ pc = "blocksOpen" /\ pc' = "blocksWritten" /\ todo = <<>> /\ blocks' = perm
        /\ Working /\ Working' /\ deviceBlocks # Torn
        /\ UNCHANGED <<queue, deviceBlocks, rules, overwritten, todo, perm, dev>>
    BY <1>0, <1>9 DEF WriteBlocks, Working, Phases
  <2>2. Phases'
    BY <1>0, <2>1 DEF Phases
  <2>3. ASSUME NEW ip \in IPs \ overwritten PROVE KeptQueued(ip)' /\ Healing(ip)'
    <3>1. Heals(queue, ip, perm, deviceBlocks)
      BY <1>0, <1>1, <2>1, Written
    <3>2. Healing(ip)'
      BY <1>1, <2>1, <3>1 DEF Healing, Heals, Named, Blocking, ForGood, ForDevice
    <3>3. KeptQueued(ip)'
      BY <1>1, <2>1 DEF KeptQueued, Blocking, ForGood, ForDevice
    <3>4. QED
      BY <3>2, <3>3
  <2>4. QED
    BY <1>2, <2>1, <2>2, <2>3
<1>10. CASE OpenDeviceBlocks
  <2>1. /\ pc = "blocksWritten" /\ pc' = "deviceOpen" /\ todo = <<>> /\ deviceBlocks' = Torn
        /\ Working /\ Working'
        /\ UNCHANGED <<queue, blocks, rules, overwritten, todo, perm, dev>>
    BY <1>0, <1>10 DEF OpenDeviceBlocks, Working, Phases
  <2>2. Phases'
    BY <1>0, <2>1 DEF Phases
  <2>3. ASSUME NEW ip \in IPs \ overwritten PROVE KeptQueued(ip)' /\ Healing(ip)'
    BY <1>1, <2>1 DEF Healing, KeptQueued, Heals, Named, Blocking, ForGood, ForDevice
  <2>4. QED
    BY <1>2, <2>1, <2>2, <2>3
<1>11. CASE WriteDeviceBlocks
  <2>1. /\ pc = "deviceOpen" /\ pc' = "deviceWritten" /\ todo = <<>>
        /\ deviceBlocks' = dev /\ blocks = perm /\ Working /\ Working'
        /\ UNCHANGED <<queue, blocks, rules, overwritten, todo, perm, dev>>
    BY <1>0, <1>11 DEF WriteDeviceBlocks, Working, Phases
  <2>2. Phases'
    BY <1>0, <2>1 DEF Phases
  <2>3. ASSUME NEW ip \in IPs \ overwritten PROVE KeptQueued(ip)' /\ Healing(ip)'
    <3>1. Heals(queue, ip, perm, dev)
      BY <1>0, <1>1, <2>1, Written
    <3>2. Healing(ip)'
      BY <1>1, <2>1, <3>1 DEF Healing, Heals, Named, Blocking, ForGood, ForDevice
    <3>3. KeptQueued(ip)'
      BY <1>1, <2>1 DEF KeptQueued, Blocking, ForGood, ForDevice
    <3>4. QED
      BY <3>2, <3>3
  <2>4. QED
    BY <1>2, <2>1, <2>2, <2>3
<1>12. CASE RemoveQueue
  <2>1. /\ pc = "deviceWritten" /\ pc' = "idle" /\ todo = <<>> /\ blocks = perm /\ deviceBlocks = dev
        /\ Working /\ ~Working' /\ Torn \notin {blocks, deviceBlocks}
        /\ UNCHANGED <<blocks, deviceBlocks, rules, overwritten>>
    BY <1>0, <1>12, ConstantsAssumption DEF RemoveQueue, Working, Phases
  <2>2. Phases'
    BY <2>1 DEF Phases
  <2>3. ASSUME NEW ip \in IPs \ overwritten PROVE KeptQueued(ip)' /\ Healing(ip)'
    <3>1. ip \in rules <=> ip \in blocks \cup deviceBlocks
      BY <1>0, <1>1, <2>1, Written
    <3>2. QED
      BY <2>1, <3>1 DEF Healing, KeptQueued, Heals
  <2>4. QED
    BY <1>2, <2>1, <2>2, <2>3
<1>13. CASE LoadFails \/ Crash
  <2>1. /\ pc # "idle" /\ pc' = "idle" /\ todo' = <<>> /\ ~Working'
        /\ UNCHANGED <<files, rules, overwritten>>
    BY <1>13 DEF LoadFails, Crash, Working
  <2>2. Phases'
    BY <1>0, <2>1 DEF Phases
  <2>3. ASSUME NEW ip \in IPs \ overwritten PROVE KeptQueued(ip)' /\ Healing(ip)'
    BY <1>1, <2>1 DEF Healing, KeptQueued, Heals, Named, Blocking, ForGood, ForDevice
  <2>4. QED
    BY <1>2, <2>1, <2>2, <2>3
<1>14. CASE UNCHANGED vars
  BY <1>0, <1>14, SameCrashInv
<1>15. QED
  BY <1>3, <1>4, <1>5, <1>6, <1>7, <1>8, <1>9, <1>10, <1>11, <1>12, <1>13, <1>14
     DEF CrashNext, Produce, Apply

\* The applier may die in any step, any number of times, and producers overwrite each
\* other's commands as they do: when the queue is drained, the lists are whole and UFW
\* agrees with them about every address of which no command was overwritten.
THEOREM CrashesHeal == CrashSpec => []SettledMeansConsistent
<1>1. ASSUME CrashInv PROVE SettledMeansConsistent
  <2>1. SUFFICES ASSUME pc = "idle", queue = <<>>
                 PROVE  /\ Torn \notin {blocks, deviceBlocks}
                        /\ \A ip \in IPs \ overwritten :
                             ip \in rules <=> ip \in blocks \cup deviceBlocks
    BY DEF SettledMeansConsistent, Settled
  <2>2. Torn \notin {blocks, deviceBlocks}
    BY <1>1, <2>1 DEF CrashInv, Phases
  <2>3. ASSUME NEW ip \in IPs \ overwritten
        PROVE  ip \in rules <=> ip \in blocks \cup deviceBlocks
    <3>1. Heals(<<>>, ip, blocks, deviceBlocks)
      BY <1>1, <2>1, <2>2 DEF CrashInv, AddressInv, Healing
    <3>2. QED
      BY <3>1, Healed
  <2>4. QED
    BY <2>2, <2>3
<1>2. QED
  BY <1>1, CrashInvInit, CrashInvStep, PTL DEF CrashSpec

----------------------------------------------------------------------------
(***************************************************************************)
(* The ends of the applier's runs.  What of DrainsUnlessWedged is not      *)
(* about fairness: a run has a bounded number of steps left, which only    *)
(* the steps of the applier change, and ends in one of three ways.         *)
(***************************************************************************)

\* How many steps a run has left.
StepsFrom == [idle |-> 0, deviceWritten |-> 1, deviceOpen |-> 2, blocksWritten |-> 3,
              blocksOpen |-> 4, applying |-> 5, loaded |-> 6]
RunLeft   == StepsFrom[pc] + Len(todo)

\* A step of the applier or its death during a run brings the end nearer.
RunShortens == pc # "idle" /\ ~UNCHANGED applier => RunLeft' < RunLeft

\* A run ends with the queue removed, at a list that is truncated, or because it dies.
RunEnds == pc # "idle" /\ pc' = "idle" => queue' = <<>> \/ Wedged' \/ crashes' = crashes + 1

\* A run that has not ended has a next step: nothing it reads can stop it.
RunGoesOn ==
  pc # "idle" =>
    \/ pc = "loaded"
    \/ pc = "applying" /\ (todo = <<>> \/ Head(todo).action \in {"block", "unblock"})
    \/ pc \in {"blocksOpen", "blocksWritten", "deviceOpen", "deviceWritten"}

LEMMA ApplyShortens == ASSUME TypeOK, ApplyNext PROVE RunShortens /\ RunEnds
<1>1. Len(todo') = Len(todo) - 1 /\ Len(todo) \in Nat /\ pc = "applying" /\ pc' = "applying"
  BY DEF ApplyNext
<1>2. QED
  BY <1>1 DEF RunShortens, RunEnds, RunLeft, StepsFrom

LEMMA RunStep == TypeOK /\ [AnyNext]_vars => RunShortens /\ RunEnds
<1> SUFFICES ASSUME TypeOK, [AnyNext]_vars PROVE RunShortens /\ RunEnds
  OBVIOUS
<1> USE DEF RunShortens, RunEnds, RunLeft, StepsFrom
<1>1. Len(todo) \in Nat
  OBVIOUS
<1>2. CASE UNCHANGED applier
  BY <1>2
<1>3. CASE LoadQueue
  BY <1>3 DEF LoadQueue
<1>4. CASE LoadLists
  BY <1>1, <1>4 DEF LoadLists
<1>5. CASE LoadFails
  BY <1>1, <1>5 DEF LoadFails, Wedged
<1>6. CASE ApplyNext
  BY <1>6, ApplyShortens
<1>7. CASE OpenBlocks
  BY <1>1, <1>7 DEF OpenBlocks
<1>8. CASE WriteBlocks
  BY <1>1, <1>8 DEF WriteBlocks
<1>9. CASE OpenDeviceBlocks
  BY <1>1, <1>9 DEF OpenDeviceBlocks
<1>10. CASE WriteDeviceBlocks
  BY <1>1, <1>10 DEF WriteDeviceBlocks
<1>11. CASE RemoveQueue
  BY <1>1, <1>11 DEF RemoveQueue
<1>12. CASE Crash
  BY <1>1, <1>12 DEF Crash
<1>13. ASSUME NEW p \in Producers, NEW action, NEW ip, NEW scope,
              LoadAndAppend(p, action, ip, scope) \/ ReplaceQueue(p)
       PROVE  UNCHANGED applier
  BY <1>13 DEF LoadAndAppend, ReplaceQueue
<1>14. CASE Promote
  BY <1>14 DEF Promote, PromoteBegin, PromoteQueue, PromoteEnd
<1>15. QED
  BY <1>2, <1>3, <1>4, <1>5, <1>6, <1>7, <1>8, <1>9, <1>10, <1>11, <1>12, <1>13, <1>14
     DEF AnyNext, Produce, Apply

\* What producers do and where the applier dies changes nothing about it: a run, once begun,
\* has a next step as long as it lasts, takes no more steps than it has commands and six, and
\* ends with the queue removed, at a truncated list, or by dying.
THEOREM RunsComeToAnEnd == CrashSpec => [][RunShortens /\ RunEnds]_vars /\ []RunGoesOn
<1>1. TypeOK => RunGoesOn
  <2>1. TypeOK /\ todo # <<>> => Head(todo) \in Command
    BY HeadTailType
  <2>2. QED
    BY <2>1 DEF RunGoesOn, Command
<1>2. [CrashNext]_vars => [AnyNext]_vars
  BY DEF CrashNext, AnyNext
<1>3. TypeOK /\ [CrashNext]_vars => TypeOK'
  BY <1>2, TypeStep
<1>4. TypeOK /\ [CrashNext]_vars => [RunShortens /\ RunEnds]_vars
  BY <1>2, RunStep
<1>5. QED
  BY <1>1, <1>3, <1>4, InitType, PTL DEF CrashSpec

HIDE DEF TypeOK, At, files, applier, history, vars

----------------------------------------------------------------------------
(***************************************************************************)
(* Protection is the firewall queue, with promotions that a poll begins.   *)
(***************************************************************************)

LEMMA PollPromotes ==
  ASSUME NEW kind \in Kinds, PollEnd(kind) PROVE UNCHANGED vars \/ Promote
<1>1. UNCHANGED vars \/ PromoteBegin(Promotable(kind))
  BY DEF PollEnd
<1>2. Promotable(kind) \in SUBSET IPs
  BY DEF Promotable
<1>3. QED
  BY <1>1, <1>2 DEF Promote

LEMMA ProtectionStep == [ProtectionNext]_ProtectionVars => [PromotingNext]_vars
<1> SUFFICES ASSUME [ProtectionNext]_ProtectionVars PROVE [PromotingNext]_vars
  OBVIOUS
<1>1. CASE Fail2ban
  BY <1>1 DEF Fail2ban, Tick, Rotate, WriteLine
<1>2. CASE \E m \in Modes : SetMode(m)
  BY <1>2 DEF SetMode
<1>3. CASE \E kind \in Kinds : PollBegin(kind)
  BY <1>3 DEF PollBegin
<1>4. CASE \E kind \in Kinds : PollEnd(kind)
  BY <1>4, PollPromotes DEF PromotingNext
<1>5. CASE Firewall
  BY <1>5 DEF Firewall, PromotingNext, Promote
<1>6. CASE UNCHANGED ProtectionVars
  BY <1>6 DEF ProtectionVars
<1>7. QED
  BY <1>1, <1>2, <1>3, <1>4, <1>5, <1>6 DEF ProtectionNext, Serve

\* The polls of the two pages, with the modes and bans they read before their awaits, do to
\* the firewall queue nothing but promotions of bans, as FirewallQueue allows any.
THEOREM ProtectionIsPromoting == ProtectionSpec => PromotingSpec
<1>1. ProtectionInit => Init
  BY DEF ProtectionInit
<1>2. QED
  BY <1>1, ProtectionStep, PTL DEF ProtectionSpec, PromotingSpec

\* However polls promote while the applier works, an address the device policy holds stays
\* denied (applyProtectionModeToBans, apply-vpn-changes.sh).
THEOREM DeviceHoldsSurvivePolls == ProtectionSpec => []DeviceHoldKeepsRule
  BY ProtectionIsPromoting, DeviceHoldsSurvivePromotions, PTL

----------------------------------------------------------------------------
(***************************************************************************)
(* What a promotion goes by.                                               *)
(***************************************************************************)

LEMMA LastExists ==
  ASSUME NEW n \in Nat, NEW S \in SUBSET (1 .. n), S # {}
  PROVE  \E i \in S : \A j \in S : j <= i
<1> DEFINE T == {n - i : i \in S}
<1>1. T \subseteq Nat /\ T # {}
  <2>1. \A i \in S : n - i \in Nat
    OBVIOUS
  <2>2. PICK i \in S : TRUE
    OBVIOUS
  <2>3. n - i \in T
    BY <2>2
  <2>4. QED
    BY <2>1, <2>3
<1>2. PICK x \in T : \A y \in T : <<y, x>> \notin OpToRel(<, Nat)
  BY <1>1, NatLessThanWellFounded, WFMin, Zenon
<1>3. \A y \in T : ~(y < x)
  BY <1>1, <1>2 DEF OpToRel
<1>4. PICK i \in S : x = n - i
  OBVIOUS
<1>5. ASSUME NEW j \in S PROVE j <= i
  <2>1. n - j \in T
    OBVIOUS
  <2>2. QED
    BY <1>3, <1>4, <2>1
<1>6. QED
  BY <1>5

LogDated == log \in [old : Seq(Line), new : Seq(Line)] /\ clock \in Stamps

\* Without permanent-deny no date is in force.
ModeDated ==
  /\ mode \in Modes /\ effective \in Stamps \cup {Never}
  /\ mode # "permanent-deny" => effective = Never

PollDated ==
  poll \in [Kinds -> {NoPoll} \cup [mode : Modes, bans : [IPs -> Stamps \cup {NoBan}]]]

Dated == LogDated /\ ModeDated /\ PollDated

LEMMA BanDated == LogDated => \A ip \in IPs : BannedSince(ip) \in Stamps \cup {NoBan}
<1> SUFFICES ASSUME LogDated, NEW ip \in IPs PROVE BannedSince(ip) \in Stamps \cup {NoBan}
  OBVIOUS
<1>1. Lines \in Seq(Line)
  BY DEF LogDated, Lines
<1>2. ASSUME About(ip) # {} PROVE BannedSince(ip) \in Stamps \cup {NoBan}
  <2>1. About(ip) \in SUBSET (1 .. Len(Lines)) /\ Len(Lines) \in Nat
    BY <1>1 DEF About
  <2>2. \E i \in About(ip) : \A j \in About(ip) : j <= i
    BY <1>2, <2>1, LastExists
  <2> DEFINE last == CHOOSE i \in About(ip) : \A j \in About(ip) : j <= i
  <2>3. last \in About(ip)
    BY <2>2
  <2> HIDE DEF last
  <2>4. Lines[last] \in Line
    BY <1>1, <2>1, <2>3
  <2>5. BannedSince(ip) = IF Lines[last].banned THEN Lines[last].at ELSE NoBan
    BY <1>2 DEF BannedSince, last
  <2>6. QED
    BY <2>4, <2>5 DEF Line
<1>3. QED
  BY <1>2 DEF BannedSince

LEMMA DatedInit == ProtectionInit => Dated
<1> SUFFICES ASSUME ProtectionInit PROVE Dated
  OBVIOUS
<1>1. 0 \in Stamps
  BY ProtectionAssumption DEF Stamps
<1>2. LogDated
  BY <1>1 DEF ProtectionInit, LogDated
<1>3. ModeDated /\ PollDated
  BY <1>1 DEF ProtectionInit, ModeDated, PollDated
<1>4. QED
  BY <1>2, <1>3 DEF Dated

LEMMA DatedStep == Dated /\ [ProtectionNext]_ProtectionVars => Dated'
<1> SUFFICES ASSUME Dated, [ProtectionNext]_ProtectionVars PROVE Dated'
  OBVIOUS
<1> USE DEF Dated
<1>1. CASE Tick
  BY <1>1, ProtectionAssumption
     DEF Tick, LogDated, ModeDated, PollDated, policyFile, Stamps
<1>2. ASSUME NEW ip \in IPs, WriteLine(ip) PROVE Dated'
  <2>1. clock - (clock % 2) \in Stamps
    BY ProtectionAssumption DEF LogDated, Stamps
  <2>2. NewLine(ip) \in Line
    BY <2>1 DEF NewLine, Line
  <2>3. log' = [old |-> log.old, new |-> Append(log.new, NewLine(ip))]
    BY <1>2 DEF WriteLine, LogDated
  <2>4. log' \in [old : Seq(Line), new : Seq(Line)]
    BY <2>2, <2>3 DEF LogDated
  <2>5. QED
    BY <1>2, <2>4 DEF WriteLine, LogDated, ModeDated, PollDated, policyFile
<1>3. CASE Rotate
  BY <1>3 DEF Rotate, LogDated, ModeDated, PollDated, policyFile
<1>4. ASSUME NEW m \in Modes, SetMode(m) PROVE Dated'
  BY <1>4 DEF SetMode, LogDated, ModeDated, PollDated, host
<1>5. ASSUME NEW kind \in Kinds, PollBegin(kind) PROVE Dated'
  <2>1. [mode |-> mode, bans |-> [ip \in IPs |-> BannedSince(ip)]]
          \in [mode : Modes, bans : [IPs -> Stamps \cup {NoBan}]]
    BY BanDated DEF ModeDated
  <2>2. QED
    BY <1>5, <2>1 DEF PollBegin, LogDated, ModeDated, PollDated, host, policyFile
<1>6. ASSUME NEW kind \in Kinds, PollEnd(kind) PROVE Dated'
  BY <1>6 DEF PollEnd, LogDated, ModeDated, PollDated, host, policyFile
<1>7. CASE Firewall \/ UNCHANGED ProtectionVars
  BY <1>7 DEF Firewall, ProtectionVars, protection, host, policyFile,
              LogDated, ModeDated, PollDated
<1>8. QED
  BY <1>1, <1>2, <1>3, <1>4, <1>5, <1>6, <1>7 DEF ProtectionNext, Fail2ban, Serve

Promoted ==
  promotion = NoPromotion /\ promotion' # NoPromotion =>
    /\ mode = "permanent-deny"
    /\ \A ip \in promotion'.left :
         \E kind \in Kinds :
           poll[kind] # NoPoll /\ poll[kind].bans[ip] \in effective .. MaxTime

LEMMA PollPromotesDated ==
  ASSUME Dated, NEW kind \in Kinds, PollEnd(kind), promotion' # promotion
  PROVE  /\ mode = "permanent-deny"
         /\ \A ip \in promotion'.left :
              poll[kind] # NoPoll /\ poll[kind].bans[ip] \in effective .. MaxTime
<1>1. Promotable(kind) # {} /\ promotion'.left = Promotable(kind) /\ poll[kind] # NoPoll
  BY DEF PollEnd, PromoteBegin, vars
<1>2. ASSUME NEW ip \in Promotable(kind)
      PROVE  poll[kind].bans[ip] \in effective .. MaxTime /\ effective \in Stamps
  <2>1. poll[kind].bans[ip] \in Stamps /\ poll[kind].bans[ip] >= effective
    BY <1>1 DEF Promotable, Dated, PollDated
  <2>2. QED
    BY <2>1, ProtectionAssumption DEF Dated, ModeDated, Stamps, Never
<1>3. effective # Never
  BY <1>1, <1>2, ProtectionAssumption DEF Stamps, Never
<1>4. QED
  BY <1>1, <1>2, <1>3 DEF Dated, ModeDated

\* Although a poll reads the mode and the bans before an await during which both may change,
\* what it promotes are bans that began after the mode in force was chosen: the date, which
\* is read after the await, stands in for the mode (applyProtectionModeToBans).
THEOREM OnlyInForcePromoted == ProtectionSpec => PromotedOnlyInForce
<1>1. ASSUME Dated, [ProtectionNext]_ProtectionVars PROVE Promoted
  <2>1. \/ promotion' = promotion
        \/ promotion' = NoPromotion
        \/ promotion # NoPromotion
        \/ \E kind \in Kinds : PollEnd(kind)
    BY <1>1 DEF vars, ProtectionNext, ProtectionVars, Fail2ban, Tick, Rotate, WriteLine, Serve,
       SetMode, PollBegin, Firewall, Produce, LoadAndAppend, ReplaceQueue, Apply,
       LoadQueue, LoadLists, ApplyNext, OpenBlocks, WriteBlocks, OpenDeviceBlocks,
       WriteDeviceBlocks, RemoveQueue, PromoteEnd, PromoteQueue
  <2>2. ASSUME NEW kind \in Kinds, PollEnd(kind), promotion' # promotion PROVE Promoted
    BY <1>1, <2>2, PollPromotesDated DEF Promoted
  <2>3. QED
    BY <2>1, <2>2 DEF Promoted
<1>2. Dated /\ [ProtectionNext]_ProtectionVars =>
        [promotion = NoPromotion /\ promotion' # NoPromotion =>
           /\ mode = "permanent-deny"
           /\ \A ip \in promotion'.left :
                \E kind \in Kinds :
                  poll[kind] # NoPoll /\ poll[kind].bans[ip] \in effective .. MaxTime
          ]_ProtectionVars
  BY <1>1 DEF Promoted
<1>3. QED
  BY <1>2, DatedInit, DatedStep, PTL DEF ProtectionSpec, PromotedOnlyInForce

=============================================================================
