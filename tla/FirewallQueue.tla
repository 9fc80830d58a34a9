---------------------------- MODULE FirewallQueue ----------------------------
(***************************************************************************)
(* The firewall command queue.  The dashboard process and the threads of   *)
(* the vpn-api process append commands to the file pending_firewall.json;  *)
(* a host service that systemd starts over and over                        *)
(* (scripts/apply-vpn-changes.sh) drains it into UFW and records who holds *)
(* each address in permanent_blocks.json and device_blocks.json.  No lock  *)
(* is shared between the processes: the queue is a file that each of them  *)
(* reads and then replaces, and so is the permanent list, which the        *)
(* dashboard also rewrites when it promotes fail2ban bans.                 *)
(*                                                                         *)
(* A file is a variable; reading it and replacing it are two actions.      *)
(***************************************************************************)
EXTENDS Naturals, Sequences, FiniteSets

CONSTANTS
  Producers,     \* threads and processes that queue commands
  Dashboard,     \* the producer that is the dashboard process
  IPs,           \* the addresses commands are about
  Scopes,        \* the scopes commands are issued with
  Torn,          \* content of a file truncated by open(path, "w") and not yet written
  NoPromotion,   \* the dashboard is not promoting bans
  MaxCommands,   \* bound on the commands issued
  MaxCrashes,    \* bound on the crashes of the applier
  MaxPromotions  \* bound on the promotions started by the dashboard

ASSUME ConstantsAssumption ==
  /\ Scopes \subseteq {"permanent", "device", "temporary"}
  /\ "permanent" \in Scopes
  /\ \A list \in SUBSET IPs : list # Torn
  /\ \A list, left \in SUBSET IPs : [list |-> list, left |-> left] # NoPromotion
  /\ Dashboard \in Producers
  /\ {MaxCommands, MaxCrashes, MaxPromotions} \subseteq Nat

VARIABLES
  queue,         \* pending_firewall.json; <<>> when the file does not exist
  blocks,        \* permanent_blocks.json
  deviceBlocks,  \* device_blocks.json
  rules,         \* the addresses UFW denies
  draft,         \* draft[p]: the queue p is about to write; <<>> when p is idle
  promotion,     \* the dashboard's promotion under way: the list it will write
                 \* and the addresses it has still to queue
  pc,            \* where the applier is in its script
  todo,          \* the commands the applier has read and not yet applied
  perm, dev,     \* the applier's copies of the two lists
  issued,        \* history: number of commands issued, the id of the last one
  applied,       \* history: ids of the commands applied
  overwritten,   \* history: addresses of commands a producer's copy took out of the queue
  crashes,       \* history: number of crashes of the applier
  promotions     \* history: number of promotions started

files   == <<queue, blocks, deviceBlocks>>
applier == <<pc, todo, perm, dev>>
history == <<issued, applied, overwritten, crashes, promotions>>
vars    == <<files, rules, draft, promotion, applier, history>>

Command == [id : Nat, action : {"block", "unblock"}, ip : IPs, scope : Scopes]
Commands(s) == {s[i] : i \in DOMAIN s}
Ids(s)      == {cmd.id : cmd \in Commands(s)}

TypeOK ==
  /\ queue \in Seq(Command)
  /\ blocks \in {Torn} \cup SUBSET IPs
  /\ deviceBlocks \in {Torn} \cup SUBSET IPs
  /\ rules \in SUBSET IPs
  /\ draft \in [Producers -> Seq(Command)]
  /\ promotion \in {NoPromotion} \cup [list : SUBSET IPs, left : SUBSET IPs]
  /\ pc \in {"idle", "loaded", "applying", "blocksOpen", "blocksWritten",
             "deviceOpen", "deviceWritten"}
  /\ todo \in Seq(Command)
  /\ perm \in SUBSET IPs
  /\ dev \in SUBSET IPs
  /\ issued \in Nat
  /\ applied \in SUBSET Nat /\ overwritten \in SUBSET IPs
  /\ crashes \in Nat
  /\ promotions \in Nat

Init ==
  /\ queue = <<>>
  /\ blocks \in SUBSET IPs
  /\ deviceBlocks \in SUBSET IPs
  /\ rules = blocks \cup deviceBlocks
  /\ draft = [p \in Producers |-> <<>>]
  /\ promotion = NoPromotion
  /\ pc = "idle" /\ todo = <<>> /\ perm = {} /\ dev = {}
  /\ issued = 0 /\ applied = {} /\ overwritten = {} /\ crashes = 0 /\ promotions = 0

----------------------------------------------------------------------------
(***************************************************************************)
(* Producers: write_firewall_command in the vpn-api and                    *)
(* queueFirewallCommand in the dashboard load the queue, append to their   *)
(* copy and put the copy in place with an atomic rename.                   *)
(***************************************************************************)

\* A command record with two of its fields swapped.
IssueSwapped(action, ip, scope) ==
  [id |-> issued + 1, action |-> scope, ip |-> ip, scope |-> action]

Issue(action, ip, scope) ==
  [id |-> issued + 1, action |-> action, ip |-> ip, scope |-> scope]

\* Load the queue and append one command to the copy.  The dashboard runs one
\* handler at a time, so it does not start this while it promotes.
LoadAndAppend(p, action, ip, scope) ==
  /\ draft[p] = <<>>
  /\ p = Dashboard => promotion = NoPromotion
  /\ issued < MaxCommands
  /\ issued' = issued + 1
  /\ draft' = [draft EXCEPT ![p] = Append(queue, Issue(action, ip, scope))]
  /\ UNCHANGED <<files, rules, promotion, applier, applied, overwritten, crashes, promotions>>

\* Put the copy in place of the queue, whatever the queue holds by now.
ReplaceQueue(p) ==
  /\ draft[p] # <<>>
  /\ queue' = draft[p]
  /\ draft' = [draft EXCEPT ![p] = <<>>]
  /\ overwritten' = overwritten \cup {cmd.ip : cmd \in Commands(queue) \ Commands(draft[p])}
  /\ UNCHANGED <<blocks, deviceBlocks, rules, promotion, applier, issued, applied, crashes,
                 promotions>>

----------------------------------------------------------------------------
(***************************************************************************)
(* The dashboard promoting fail2ban bans (applyProtectionModeToBans): it   *)
(* reads the permanent list, queues a block for each banned address that   *)
(* is not listed, and then writes the list with those addresses added.     *)
(* Protection models which bans are promoted; here they are any.           *)
(***************************************************************************)

\* A list that cannot be parsed is read as empty.
ListRead == IF blocks = Torn THEN {} ELSE blocks

PromoteBegin(bans) ==
  /\ promotion = NoPromotion
  /\ draft[Dashboard] = <<>>
  /\ promotions < MaxPromotions
  /\ bans # {} /\ bans \cap ListRead = {}
  /\ promotion' = [list |-> ListRead \cup bans, left |-> bans]
  /\ promotions' = promotions + 1
  /\ UNCHANGED <<files, rules, draft, applier, issued, applied, overwritten, crashes>>

QueuedForGood(ip) ==
  \E i \in DOMAIN queue :
    queue[i].action = "block" /\ queue[i].ip = ip /\ queue[i].scope = "permanent"

\* queuePermanentBlock of one address: nothing if such a command is queued,
\* otherwise the copy to write is drafted; ReplaceQueue(Dashboard) writes it.
PromoteQueue(ip) ==
  /\ promotion # NoPromotion
  /\ ip \in promotion.left
  /\ draft[Dashboard] = <<>>
  /\ promotion' = [promotion EXCEPT !.left = @ \ {ip}]
  /\ IF QueuedForGood(ip)
     THEN UNCHANGED <<draft, issued>>
     ELSE /\ draft' = [draft EXCEPT ![Dashboard] =
                         Append(queue, Issue("block", ip, "permanent"))]
          /\ issued' = issued + 1
  /\ UNCHANGED <<files, rules, applier, applied, overwritten, crashes, promotions>>

PromoteEnd ==
  /\ promotion # NoPromotion
  /\ promotion.left = {}
  /\ draft[Dashboard] = <<>>
  /\ blocks' = promotion.list
  /\ promotion' = NoPromotion
  /\ UNCHANGED <<queue, deviceBlocks, rules, draft, applier, history>>

----------------------------------------------------------------------------
(***************************************************************************)
(* The applier: one run of the Python block of apply-vpn-changes.sh.       *)
(***************************************************************************)

At(here, there) == pc = here /\ pc' = there

\* The queue file exists: read it.
LoadQueue ==
  /\ At("idle", "loaded")
  /\ queue # <<>>
  /\ todo' = queue
  /\ UNCHANGED <<files, rules, draft, promotion, perm, dev, history>>

\* Read the two lists.
LoadLists ==
  /\ At("loaded", "applying")
  /\ blocks # Torn /\ deviceBlocks # Torn
  /\ perm' = blocks /\ dev' = deviceBlocks
  /\ UNCHANGED <<files, rules, draft, promotion, todo, history>>

\* A list that cannot be parsed raises: the error is logged, the queue stays.
LoadFails ==
  /\ At("loaded", "idle")
  /\ blocks = Torn \/ deviceBlocks = Torn
  /\ todo' = <<>>
  /\ UNCHANGED <<files, rules, draft, promotion, perm, dev, history>>

Block(ip, scope) ==
  /\ rules' = rules \cup {ip}
  /\ IF scope = "device"
     THEN dev' = dev \cup {ip} /\ perm' = perm
     ELSE perm' = perm \cup {ip} /\ dev' = dev

\* Unblocking for good without asking the device list.
UnblockForGoodUnchecked(ip) ==
  /\ perm' = perm \ {ip} /\ dev' = dev
  /\ rules' = rules \ {ip}

UnblockForGood(ip) ==
  /\ perm' = perm \ {ip} /\ dev' = dev
  /\ rules' = IF ip \in dev THEN rules ELSE rules \ {ip}

\* Unblocking a device that leaves the rule to the permanent list's next change.
UnblockDeviceListOnly(ip) ==
  /\ dev' = dev \ {ip} /\ perm' = perm
  /\ rules' = rules

UnblockDevice(ip) ==
  /\ dev' = dev \ {ip} /\ perm' = perm
  /\ rules' = IF ip \in perm \cup dev' THEN rules ELSE rules \ {ip}

\* Apply one command: the UFW call and the change of the list in memory.
ApplyNext ==
  /\ pc = "applying" /\ pc' = pc
  /\ todo # <<>>
  /\ todo' = Tail(todo)
  /\ LET cmd == Head(todo) IN
     /\ \/ cmd.action = "block" /\ Block(cmd.ip, cmd.scope)
        \/ cmd.action = "unblock" /\ cmd.scope = "device" /\ UnblockDevice(cmd.ip)
        \/ cmd.action = "unblock" /\ cmd.scope # "device" /\ UnblockForGood(cmd.ip)
     /\ applied' = applied \cup {cmd.id}
  /\ UNCHANGED <<files, draft, promotion, issued, overwritten, crashes, promotions>>

\* Removing the queue before the lists it changed are saved.
OpenBlocksDequeued ==
  /\ At("applying", "blocksOpen")
  /\ todo = <<>>
  /\ blocks' = Torn /\ queue' = <<>>
  /\ UNCHANGED <<deviceBlocks, rules, draft, promotion, todo, perm, dev, history>>

\* json.dump(blocks, open(BLOCKS, "w")): open truncates, the content follows
\* when the file is closed.
OpenBlocks ==
  /\ At("applying", "blocksOpen")
  /\ todo = <<>>
  /\ blocks' = Torn
  /\ UNCHANGED <<queue, deviceBlocks, rules, draft, promotion, todo, perm, dev, history>>

\* If the dashboard renamed a new list over the truncated file, the content goes
\* to a file that no longer has a name.
WriteBlocks ==
  /\ At("blocksOpen", "blocksWritten")
  /\ blocks' = IF blocks = Torn THEN perm ELSE blocks
  /\ UNCHANGED <<queue, deviceBlocks, rules, draft, promotion, todo, perm, dev, history>>

OpenDeviceBlocks ==
  /\ At("blocksWritten", "deviceOpen")
  /\ deviceBlocks' = Torn
  /\ UNCHANGED <<queue, blocks, rules, draft, promotion, todo, perm, dev, history>>

WriteDeviceBlocks ==
  /\ At("deviceOpen", "deviceWritten")
  /\ deviceBlocks' = dev
  /\ UNCHANGED <<queue, blocks, rules, draft, promotion, todo, perm, dev, history>>

\* Ending the script without removing the queue.
RemoveQueueNever ==
  /\ At("deviceWritten", "idle")
  /\ perm' = {} /\ dev' = {}
  /\ UNCHANGED <<files, rules, draft, promotion, todo, history>>

\* os.remove(PENDING), whatever was appended since LoadQueue; the script ends.
RemoveQueue ==
  /\ At("deviceWritten", "idle")
  /\ queue' = <<>>
  /\ perm' = {} /\ dev' = {}
  /\ UNCHANGED <<blocks, deviceBlocks, rules, draft, promotion, todo, history>>

\* The applier dies (reboot, systemctl stop, SIGKILL): its memory is gone, the
\* files and the UFW rules stay; systemd starts it again.
Crash ==
  /\ pc # "idle" /\ pc' = "idle"
  /\ crashes < MaxCrashes
  /\ crashes' = crashes + 1
  /\ todo' = <<>> /\ perm' = {} /\ dev' = {}
  /\ UNCHANGED <<files, rules, draft, promotion, issued, applied, overwritten, promotions>>

----------------------------------------------------------------------------
Produce ==
  \E p \in Producers :
    \/ \E action \in {"block", "unblock"}, ip \in IPs, scope \in Scopes :
         LoadAndAppend(p, action, ip, scope)
    \/ ReplaceQueue(p)

Apply ==
  \/ LoadQueue \/ LoadLists \/ ApplyNext
  \/ OpenBlocks \/ WriteBlocks \/ OpenDeviceBlocks \/ WriteDeviceBlocks
  \/ RemoveQueue

Promote ==
  \/ \E bans \in SUBSET IPs : PromoteBegin(bans)
  \/ \E ip \in IPs : PromoteQueue(ip)
  \/ PromoteEnd

\* Commands are queued and drained; nothing fails.
Next == Produce \/ Apply
Spec == Init /\ [][Next]_vars

\* The applier may also die anywhere.  systemd restarts it for ever
\* (Restart=always) and the script runs to its end: its next step is never
\* postponed for ever.
CrashNext == Produce \/ Apply \/ LoadFails \/ Crash
CrashSpec == Init /\ [][CrashNext]_vars
FairCrashSpec == CrashSpec /\ WF_vars(Apply \/ LoadFails)

\* The dashboard may also promote bans while the applier runs.
PromotingNext == Produce \/ Apply \/ Promote
PromotingSpec == Init /\ [][PromotingNext]_vars

----------------------------------------------------------------------------
(***************************************************************************)
(* Properties                                                              *)
(***************************************************************************)

\* The lists in force: the applier's copies while it works, the files otherwise.
Working         == pc \notin {"idle", "loaded"}
PermanentInForce == IF Working THEN perm ELSE blocks
DeviceInForce    == IF Working THEN dev ELSE deviceBlocks

\* While no crash and no promotion interferes, the queue implements the registry
\* of holds: UFW denies an address exactly while one of the lists in force has it,
\* whatever the producers overwrite, lose or repeat.
RulesFollowLists == rules = PermanentInForce \cup DeviceInForce

\* Each command the applier applies is one change of hold of the registry, and
\* loading and saving the files changes nothing in it.
Registry == INSTANCE BlockRegistry
              WITH permanent <- PermanentInForce, device <- DeviceInForce
ImplementsRegistry == Registry!Spec

\* Crashes at any point of the script: once a later run has drained the queue, the
\* lists are whole and UFW agrees with them.  Replaying commands that were already
\* applied, with lists that were or were not saved, ends where one run would have.
\* Only an address of which a command was overwritten may be left denied by no list, or
\* listed and not denied.
Settled == pc = "idle" /\ queue = <<>>
SettledMeansConsistent ==
  Settled => /\ Torn \notin {blocks, deviceBlocks}
             /\ \A ip \in IPs \ overwritten : ip \in rules <=> ip \in blocks \cup deviceBlocks

\* The only thing that keeps a restarted applier from draining the queue is a
\* list that a crash left truncated.
Wedged == pc = "idle" /\ Torn \in {blocks, deviceBlocks}
DrainsUnlessWedged == (queue # <<>>) ~> (queue = <<>> \/ Wedged)

\* The device policy's blocks do not depend on who rewrites the permanent list:
\* a promotion at any moment never makes the applier lift a rule the device list
\* still needs.
DeviceHoldKeepsRule == DeviceInForce \subseteq rules

\* api/vpn-api.py answers "UFW rule applied within 60 seconds" once a command is in
\* the queue: a command leaves the queue only after it was applied.
NoCommandLost == [][Ids(queue) \ Ids(queue') \subseteq applied]_vars

=============================================================================
