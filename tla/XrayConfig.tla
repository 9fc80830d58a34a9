----------------------------- MODULE XrayConfig -----------------------------
(***************************************************************************)
(* Xray's config.json and the process that runs it.  The dashboard writes  *)
(* the file when keys change (xray-config.ts) and when an operator edits   *)
(* an inbound by its position in a list their page loaded earlier          *)
(* (inbound-config.ts, ProtocolCatalogClient); the vpn-api writes keys     *)
(* under a lock of its own.  An edit asks the applier                      *)
(* (apply-vpn-changes.sh) to test the file and restart Xray; a key change  *)
(* is made known to the running Xray by a call to the vpn-api, which also  *)
(* has a restart of its own.                                               *)
(*                                                                         *)
(* Abstracted: an inbound is its tag, its protocol, whether Xray accepts   *)
(* it, and who it lists; uuids (KeyLifecycle) and routing (DevicePolicy)   *)
(* are left out.  A write of the dashboard is one step: it is synchronous. *)
(***************************************************************************)
EXTENDS Naturals, Sequences, FiniteSets, SequencesExt

CONSTANTS
  Emails,         \* the keys' names
  Kinds,          \* the protocols an inbound with keys may have
  Tags,           \* the tags inbounds are given
  Browsers,       \* the pages that edit inbounds
  Initial,        \* the installed inbounds
  None,           \* no edit, no copy of the config
  MaxInbounds, MaxOperations, MaxSafeRestarts

Inbound == [tag : Tags, kind : Kinds, good : BOOLEAN, clients : SUBSET Emails]
System  == [tag |-> "api", kind |-> "api", good |-> TRUE, clients |-> {}]
Config  == UNION {[1..n -> Inbound \cup {System}] : n \in 0..MaxInbounds}
Edit == [verb : {"create", "update", "delete"}, index : 1..MaxInbounds, inbound : Inbound]
Call == [verb : {"enable", "disable"}, email : Emails]

ASSUME XrayConstants ==
  /\ "api" \notin Tags \cup Kinds
  /\ Initial \in Config /\ \E i \in DOMAIN Initial : Initial[i] = System
  /\ \A i, j \in DOMAIN Initial : Initial[i].tag = Initial[j].tag => i = j
  /\ None \notin Edit \cup Config
  /\ {MaxInbounds, MaxOperations, MaxSafeRestarts} \subseteq Nat

VARIABLES
  config,       \* config.json
  backup,       \* config.json.bak
  requested,    \* is there a pending_config.json
  applier,      \* where apply-vpn-changes.sh is
  running,      \* the inbounds Xray runs, or None when it does not run
  calls,        \* calls of the dashboard that the vpn-api has not answered yet
  edits,        \* per page, the edit that is open: made from the list it loaded
  copied,       \* the vpn-api: the config it read and is about to write, or None
  safe,         \* the vpn-api's restart: the copy it restores if Xray stays away, or None
  undone,       \* history since Xray was restarted: an older config put back, a request lost
  failed,       \* history since then: a call was lost, or made while Xray was down
  narrowed,     \* history: keys that lost an inbound which the running Xray was not told
  operations, safeRestarts

vars == <<config, backup, requested, applier, running, calls, edits, copied, safe, undone,
          failed, narrowed, operations, safeRestarts>>

Up == running # None
Good(cfg) == \A i \in DOMAIN cfg : cfg[i].good
Shape(cfg) == [i \in DOMAIN cfg |-> [cfg[i] EXCEPT !.clients = {}]]
Listing(cfg, e) == {i \in DOMAIN cfg : e \in cfg[i].clients}
TagTaken(cfg, tag, besides) == \E i \in DOMAIN cfg \ besides : cfg[i].tag = tag

TypeOK ==
  /\ config \in Config /\ backup \in Config \cup {None} /\ running \in Config \cup {None}
  /\ \A i, j \in DOMAIN config : config[i].tag = config[j].tag => i = j
  /\ requested \in BOOLEAN
  /\ applier \in {"idle", "taken", "tested"}
  /\ calls \subseteq Call
  /\ edits \in [Browsers -> Edit \cup {None}]
  /\ copied \in Config \cup {None} /\ safe \in Config \cup {None}
  /\ undone \in BOOLEAN /\ failed \in BOOLEAN /\ narrowed \subseteq Emails
  /\ operations \in Nat /\ safeRestarts \in Nat

Init ==
  /\ config = Initial /\ running = Initial
  /\ backup = None /\ copied = None /\ safe = None
  /\ requested = FALSE /\ applier = "idle"
  /\ calls = {} /\ edits = [b \in Browsers |-> None]
  /\ undone = FALSE /\ failed = FALSE /\ narrowed = {}
  /\ operations = 0 /\ safeRestarts = 0

Operate ==
  /\ operations < MaxOperations
  /\ operations' = operations + 1
  /\ UNCHANGED safeRestarts

----------------------------------------------------------------------------
(***************************************************************************)
(* Keys.                                                                   *)
(***************************************************************************)

\* writeCfgOnly: the backup is what the file was.
WriteCfgOnly(cfg) == backup' = config /\ config' = cfg

\* syncUserAcrossInbounds: the key is listed where its protocols are.
Synced(cfg, e, kinds) ==
  [i \in DOMAIN cfg |->
    [cfg[i] EXCEPT !.clients = IF cfg[i].kind \in kinds THEN @ \cup {e} ELSE @ \ {e}]]

\* The keys that lose an inbound, none of which the running Xray is told.
Losing(new) == {e \in Emails : ~(Listing(config, e) \subseteq Listing(new, e))}

Told(verb, e) == calls' = calls \cup {[verb |-> verb, email |-> e]}

\* addUser and the sync after it: a key, new to the first inbound, is made, and the running
\* Xray is told to serve it.  Other inbounds may have listed one of its name.
AddKey(e) ==
  /\ Operate
  /\ config # <<>> /\ config[1] # System /\ e \notin config[1].clients
  /\ \E kinds \in (SUBSET Kinds) \ {{}} :
       LET pushed == [config EXCEPT ![1].clients = @ \cup {e}]
           new    == Synced(pushed, e, kinds)
       IN /\ config' = new
          /\ backup' = IF new = pushed THEN config ELSE pushed
          /\ narrowed' = narrowed \cup Losing(new)
  /\ Told("enable", e)
  /\ UNCHANGED <<requested, applier, running, edits, copied, safe, undone, failed>>

\* restoreUser: a disabled key, which no inbound lists, is enabled.
RestoreKey(e) ==
  /\ Operate
  /\ Listing(config, e) = {}
  /\ \E kinds \in (SUBSET Kinds) \ {{}} :
       /\ Synced(config, e, kinds) # config
       /\ WriteCfgOnly(Synced(config, e, kinds))
  /\ Told("enable", e)
  /\ UNCHANGED <<requested, applier, running, edits, copied, safe, undone, failed, narrowed>>

\* removeUser: a key is disabled or deleted.
RemoveKey(e) ==
  /\ Operate
  /\ Listing(config, e) # {}
  /\ WriteCfgOnly(Synced(config, e, {}))
  /\ Told("disable", e)
  /\ UNCHANGED <<requested, applier, running, edits, copied, safe, undone, failed, narrowed>>

\* PUT api/meta: other protocols for a key.  The running Xray is not told.
EditProtocols(e) ==
  /\ Operate
  /\ Listing(config, e) # {}
  /\ \E kinds \in SUBSET Kinds :
       LET new == Synced(config, e, kinds) IN
       /\ new # config
       /\ WriteCfgOnly(new)
       /\ narrowed' = narrowed \cup Losing(new)
  /\ UNCHANGED <<requested, applier, running, calls, edits, copied, safe, undone, failed>>

\* xray_user_enable adding the key wherever its caller says, listed or not.
EnableUnchecked(e) ==
  running' = [i \in DOMAIN running |->
    IF running[i].tag # "api" THEN [running[i] EXCEPT !.clients = @ \cup {e}] ELSE running[i]]

\* xray_user_enable: into the running inbounds whose tag lists the key in config.json now.
Enable(e) ==
  running' = [i \in DOMAIN running |->
    IF \E j \in Listing(config, e) : config[j].tag = running[i].tag
    THEN [running[i] EXCEPT !.clients = @ \cup {e}] ELSE running[i]]

\* xray_user_disable: out of the running inbounds that have a tag of config.json.
Disable(e) ==
  running' = [i \in DOMAIN running |->
    IF running[i].tag # "api" /\ \E j \in DOMAIN config : config[j].tag = running[i].tag
    THEN [running[i] EXCEPT !.clients = @ \ {e}] ELSE running[i]]

\* The vpn-api makes a call, in any order; the dashboard ignores what comes of it.
Sync ==
  /\ \E c \in calls :
       /\ calls' = calls \ {c}
       /\ IF ~Up THEN failed' = TRUE /\ UNCHANGED <<running, narrowed>>
          ELSE /\ \/ c.verb = "enable" /\ Enable(c.email) /\ UNCHANGED narrowed
                  \/ c.verb = "disable" /\ Disable(c.email) /\ narrowed' = narrowed \ {c.email}
               /\ UNCHANGED failed
  /\ UNCHANGED <<config, backup, requested, applier, edits, copied, safe, undone,
                 operations, safeRestarts>>

\* A call is lost.
LoseCall ==
  /\ \E c \in calls : calls' = calls \ {c}
  /\ failed' = TRUE
  /\ UNCHANGED <<config, backup, requested, applier, running, edits, copied, safe, undone,
                 operations, safeRestarts, narrowed>>

\* add_user and remove_user of the vpn-api read the config ...
VpnApiRead ==
  /\ Operate
  /\ copied = None
  /\ copied' = config
  /\ UNCHANGED <<config, backup, requested, applier, running, calls, edits, safe, undone, failed, narrowed>>

\* ... and write it with the first inbound changed, whatever was written since; they raise
\* when the first inbound keeps no keys.
VpnApiWrite ==
  /\ copied # None
  /\ copied' = None
  /\ \/ /\ copied # <<>> /\ copied[1] # System
        /\ \E e \in Emails :
             WriteCfgOnly([copied EXCEPT ![1].clients = IF e \in @ THEN @ \ {e} ELSE @ \cup {e}])
        /\ undone' = (undone \/ Shape(copied) # Shape(config))
        /\ failed' = TRUE
     \/ /\ copied = <<>> \/ copied[1] = System
        /\ UNCHANGED <<config, backup, undone, failed>>
  /\ UNCHANGED <<requested, applier, running, calls, edits, safe, operations, safeRestarts, narrowed>>

----------------------------------------------------------------------------
(***************************************************************************)
(* Inbounds.                                                               *)
(***************************************************************************)

\* writeConfig made like the dashboard's other writes, with writeCfgOnly.
WriteConfigOnly(cfg) == WriteCfgOnly(cfg) /\ UNCHANGED requested

\* writeConfig: like the dashboard's other writes, and asks for a restart.
WriteConfig(cfg) == WriteCfgOnly(cfg) /\ requested' = TRUE

\* rotateUserUuid: a restart is asked for.
RotateKey(e) ==
  /\ Operate
  /\ Listing(config, e) # {}
  /\ WriteConfig(config)
  /\ UNCHANGED <<applier, running, calls, edits, copied, safe, undone, failed, narrowed>>

\* openEdit and the changes the operator makes, or the question whether to delete: from the
\* list the page has.  A system inbound cannot be picked.
OpenEdit(b) ==
  /\ Operate
  /\ edits[b] = None
  /\ \E i \in {j \in DOMAIN config : config[j] # System} :
       \E verb \in {"update", "delete"}, kind \in Kinds, good \in BOOLEAN :
         edits' = [edits EXCEPT ![b] = [verb |-> verb, index |-> i,
                     inbound |-> [config[i] EXCEPT !.kind = kind, !.good = good]]]
  /\ UNCHANGED <<config, backup, requested, applier, running, calls, copied, safe, undone, failed, narrowed>>

\* openCreate: from the template of a protocol; what it leaves to fill in may stay so.
OpenCreate(b) ==
  /\ Operate
  /\ edits[b] = None
  /\ \E tag \in Tags, kind \in Kinds, good \in BOOLEAN :
       edits' = [edits EXCEPT ![b] = [verb |-> "create", index |-> 1,
                   inbound |-> [tag |-> tag, kind |-> kind, good |-> good, clients |-> {}]]]
  /\ UNCHANGED <<config, backup, requested, applier, running, calls, copied, safe, undone, failed, narrowed>>

\* createInbound.
CreateInbound(edit) ==
  /\ ~TagTaken(config, edit.inbound.tag, {})
  /\ Len(config) < MaxInbounds
  /\ WriteConfig(Append(config, edit.inbound))

\* updateInbound trusting the page not to offer a system inbound.
UpdateInboundAny(edit) ==
  /\ edit.index \in DOMAIN config
  /\ ~TagTaken(config, edit.inbound.tag, {edit.index})
  /\ WriteConfig([config EXCEPT ![edit.index] = edit.inbound])

\* updateInbound: whatever is at that position now is replaced, its clients too.
UpdateInbound(edit) ==
  /\ edit.index \in DOMAIN config /\ config[edit.index] # System
  /\ ~TagTaken(config, edit.inbound.tag, {edit.index})
  /\ WriteConfig([config EXCEPT ![edit.index] = edit.inbound])

\* deleteInbound.
DeleteInbound(edit) ==
  /\ edit.index \in DOMAIN config /\ config[edit.index] # System
  /\ config[edit.index].clients = {}
  /\ WriteConfig(RemoveAt(config, edit.index))

\* saveInbound and removeInbound: the edit is carried out, or refused.
Save(b) ==
  /\ edits[b] # None
  /\ edits' = [edits EXCEPT ![b] = None]
  /\ \/ edits[b].verb = "create" /\ CreateInbound(edits[b])
     \/ edits[b].verb = "update" /\ UpdateInbound(edits[b])
     \/ edits[b].verb = "delete" /\ DeleteInbound(edits[b])
     \/ UNCHANGED <<config, backup, requested>>
  /\ UNCHANGED <<applier, running, calls, copied, safe, undone, failed, operations, safeRestarts, narrowed>>

----------------------------------------------------------------------------
(***************************************************************************)
(* Restarts.                                                               *)
(***************************************************************************)

\* Xray starts with the config, or, since the unit tests it first, not at all.
Started == running' = IF Good(config) THEN config ELSE None

\* The request only being read.
TakeRequestLeft ==
  /\ applier = "idle" /\ requested
  /\ applier' = "taken"
  /\ UNCHANGED <<config, backup, requested, running, calls, edits, copied, safe, undone, failed,
                 operations, safeRestarts, narrowed>>

\* The request is read, and removed before anything is done about it.
TakeRequest ==
  /\ applier = "idle" /\ requested
  /\ applier' = "taken"
  /\ requested' = FALSE
  /\ UNCHANGED <<config, backup, running, calls, edits, copied, safe, undone, failed,
                 operations, safeRestarts, narrowed>>

\* xray run -test: a config that fails is replaced by the backup, good or not.
TestConfig ==
  /\ applier = "taken"
  /\ IF Good(config) THEN applier' = "tested" /\ UNCHANGED <<config, undone>>
     ELSE /\ applier' = "idle"
          /\ config' = IF backup = None THEN config ELSE backup
          /\ undone' = TRUE
  /\ UNCHANGED <<backup, requested, running, calls, edits, copied, safe, failed,
                 operations, safeRestarts, narrowed>>

\* systemctl restart xray: the config may have changed since it was tested.
RestartXray ==
  /\ applier = "tested"
  /\ applier' = "idle"
  /\ Started
  /\ undone' = FALSE /\ failed' = FALSE /\ narrowed' = {}
  /\ UNCHANGED <<config, backup, requested, calls, edits, copied, safe, operations, safeRestarts>>

\* The applier ends after it removed the request and before it restarts Xray.
ApplierDies ==
  /\ applier # "idle"
  /\ applier' = "idle"
  /\ undone' = TRUE
  /\ UNCHANGED <<config, backup, requested, running, calls, edits, copied, safe, failed,
                 operations, safeRestarts, narrowed>>

\* safe_restart of the vpn-api: the config is tested and copied; Xray, if it runs, is told to
\* end, and ends cleanly, so that systemd (Restart=on-failure) leaves it so.
SafeRestart ==
  /\ safe = None /\ safeRestarts < MaxSafeRestarts
  /\ safeRestarts' = safeRestarts + 1
  /\ Good(config)
  /\ safe' = config
  /\ running' = None
  /\ UNCHANGED <<config, backup, requested, applier, calls, edits, copied, undone, failed, operations, narrowed>>

\* A process is seen, the one that ends or one that the applier started; or none is, and
\* the copy is put back.
SafeRestartEnds ==
  /\ safe # None
  /\ safe' = None
  /\ \/ UNCHANGED <<config, undone>>
     \/ ~Up /\ config' = safe /\ undone' = (undone \/ config # safe)
  /\ UNCHANGED <<backup, requested, applier, running, calls, edits, copied, failed,
                 operations, safeRestarts, narrowed>>

Next ==
  \/ \E e \in Emails : AddKey(e) \/ RestoreKey(e) \/ RemoveKey(e)
                        \/ EditProtocols(e) \/ RotateKey(e)
  \/ Sync \/ LoseCall \/ VpnApiRead \/ VpnApiWrite
  \/ \E b \in Browsers : OpenEdit(b) \/ OpenCreate(b) \/ Save(b)
  \/ TakeRequest \/ TestConfig \/ RestartXray \/ ApplierDies \/ SafeRestart \/ SafeRestartEnds

Spec == Init /\ [][Next]_vars

\* The applier is run every minute.
FairSpec == Spec /\ WF_vars(TakeRequest) /\ WF_vars(TestConfig) /\ WF_vars(RestartXray)

----------------------------------------------------------------------------
(***************************************************************************)
(* Properties.                                                             *)
(***************************************************************************)

Quiet == ~requested /\ applier = "idle" /\ Up

\* However old the list an operator picked a position from, and whatever copy of the config
\* is put back, the inbound through which the vpn-api reaches Xray stays (updateInbound,
\* deleteInbound, normalizeInbound).
SystemInboundStays == \E i \in DOMAIN config : config[i] = System

\* No edit is forgotten: when no restart is asked for or under way, a running Xray has the
\* inbounds of config.json, although requests that come while the applier works on an
\* earlier one are removed or answered together.  Until the next restart by the applier the two
\* may differ when an older config was put back, by the applier, the vpn-api's restart or its
\* writes, or when the applier died with a request.
EditsAreLoaded == Quiet /\ ~undone => Shape(running) = Shape(config)

\* When no call is under way either, and none failed, whoever the running Xray serves is
\* listed in config.json, but for keys whose protocols were edited: calls that overtake each
\* other never leave a removed key behind, because a key is added only where the file lists
\* it when the call is made, and removed from every inbound, those lost before too.
ServesOnlyListed ==
  Quiet /\ ~undone /\ ~failed /\ calls = {} =>
    \A i \in DOMAIN running : running[i].clients \subseteq config[i].clients \cup narrowed

\* A request to restart is always taken and worked off.
RequestsAreServed == requested ~> (~requested /\ applier = "idle")

=============================================================================
