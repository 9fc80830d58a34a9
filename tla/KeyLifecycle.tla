---------------------------- MODULE KeyLifecycle ----------------------------
(***************************************************************************)
(* The life of access keys.  A key is a uuid that the Xray config lists    *)
(* under the email of its user, in the inbounds of its protocols, and a    *)
(* row of the dashboard's table user_meta.  The dashboard's handlers       *)
(* (dashboard/src/app/api/users, api/meta, api/invite/redeem) change both  *)
(* without an await in between, and so does the enforcement of limits      *)
(* (lib/traffic-enforce.ts) for one row; but it walks over a snapshot of   *)
(* the rows and awaits the live sync after each row it acts on, so that    *)
(* other handlers and other enforcement runs change keys in between.       *)
(*                                                                         *)
(* Abstracted: quota and expiry are one limit, exceeded by an email and    *)
(* cleared by a new month; a display name is the email it normalises to;   *)
(* protocols Xray has no inbound for are left out; the running Xray and    *)
(* the calls that sync it are not modelled.                                *)
(***************************************************************************)
EXTENDS Naturals, FiniteSets

CONSTANTS
  Emails,        \* the emails operators create keys for
  Unnamed,       \* the display name, and so the email, of a key that has none
  Uuids,         \* the uuids that randomUUID() may draw
  Inbounds,      \* the inbounds of the Xray config that have clients
  Primary,       \* inbounds[0]: vless-reality
  Passworded,    \* those whose clients have a password and no id (Trojan, Shadowsocks)
  Bundles,       \* the sets of protocols operators assign
  Runs,          \* the enforcement runs that may be under way at the same time
  NoMeta,        \* there is no row
  Idle,          \* an enforcement run that is not under way
  MaxOperations  \* bound on the operations of operators and time

Names == Emails \cup {Unnamed}
Meta == [name : Names, protocols : SUBSET Inbounds, limited : BOOLEAN,
         disabled : BOOLEAN, reason : {"none", "manual", "limit"}]
Client == [inbound : Inbounds, email : Names, uuid : Uuids]
Row == [uuid : Uuids, disabled : BOOLEAN, reason : {"none", "manual", "limit"}]
Run == [rows : SUBSET Row, live : SUBSET Client]

ASSUME KeyConstants ==
  /\ Primary \in Inbounds /\ Passworded \subseteq Inbounds \ {Primary}
  /\ Bundles \subseteq (SUBSET Inbounds) \ {{}}
  /\ NoMeta \notin Meta \cup Names
  /\ Idle \notin Run
  /\ MaxOperations \in Nat

VARIABLES
  clients,       \* config.json: the clients of its inbounds
  backup,        \* config.json.bak
  meta,          \* the table user_meta
  over,          \* the emails that exceed their limit, if they have one
  runs,          \* the enforcement runs: rows to go, clients listed at the start
  home,          \* history: the email a uuid was drawn for
  operations     \* history: number of operations

vars == <<clients, backup, meta, over, runs, home, operations>>

TypeOK ==
  /\ clients \subseteq Client
  /\ backup \subseteq Client
  /\ meta \in [Uuids -> Meta \cup {NoMeta}]
  /\ over \subseteq Names
  /\ runs \in [Runs -> Run \cup {Idle}]
  /\ home \in [Uuids -> Names \cup {NoMeta}]
  /\ operations \in Nat

Init ==
  /\ clients = {} /\ backup = {}
  /\ meta = [uuid \in Uuids |-> NoMeta]
  /\ over = {}
  /\ runs = [run \in Runs |-> Idle]
  /\ home = [uuid \in Uuids |-> NoMeta]
  /\ operations = 0

----------------------------------------------------------------------------
(***************************************************************************)
(* The Xray config and the rows.                                           *)
(***************************************************************************)

Of(email)   == {c \in clients : c.email = email}
Entries(uuid, email, inbounds) == [inbound : inbounds, email : {email}, uuid : {uuid}]
Fresh       == {uuid \in Uuids : home[uuid] = NoMeta}

\* writeCfgOnly: the config as it was becomes the backup, if anything changed.
Write(new) ==
  /\ clients' = new
  /\ backup' = IF new = clients THEN backup ELSE clients

\* Leaving the entries an email has in wanted inbounds as they are.
SyncedAddsOnly(config, uuid, email, wanted) ==
  LET kept == {c \in config : c.email = email /\ c.inbound \in wanted} IN
  {c \in config : c.email # email} \cup kept
    \cup Entries(uuid, email, wanted \ {c.inbound : c \in kept})

\* syncUserAcrossInbounds: the email is listed in the wanted inbounds only, and
\* with this uuid.
Synced(config, uuid, email, wanted) ==
  {c \in config : c.email # email} \cup Entries(uuid, email, wanted)

\* removeUser from the first inbound only.
WithoutPrimary(email) == {c \in clients : c.email = email => c.inbound # Primary}

\* removeUser.
Without(email) == clients \ Of(email)

\* upsertMeta's row before the patch.
RowOf(uuid) ==
  IF meta[uuid] # NoMeta THEN meta[uuid]
  ELSE [name |-> Unnamed, protocols |-> {Primary}, limited |-> FALSE,
        disabled |-> FALSE, reason |-> "none"]

Disabled(m, reason) == [m EXCEPT !.disabled = TRUE, !.reason = reason]
\* Clearing the reason with the value of a missing row.
EnabledNoRow(m)     == [m EXCEPT !.disabled = FALSE, !.reason = NoMeta]
Enabled(m)          == [m EXCEPT !.disabled = FALSE, !.reason = "none"]
SetMeta(uuid, m)    == meta' = [meta EXCEPT ![uuid] = m]

\* evaluateBlock.
Blocked(email, m) == m # NoMeta /\ m.limited /\ email \in over

Operate ==
  /\ operations < MaxOperations
  /\ operations' = operations + 1

----------------------------------------------------------------------------
(***************************************************************************)
(* The handlers of the dashboard.                                          *)
(***************************************************************************)

\* POST /api/users and the redemption of an invite: addUser looks for the email in
\* the first inbound only and writes it there, then the bundle is synced.
Add(email, name, bundle, limited) ==
  /\ Operate
  /\ \A c \in Of(email) : c.inbound # Primary
  /\ \E uuid \in Fresh :
       LET added == clients \cup Entries(uuid, email, {Primary})
           all   == Synced(added, uuid, email, bundle)
       IN
       /\ clients' = all
       /\ backup' = IF all = added THEN clients ELSE added
       /\ SetMeta(uuid, [name |-> name, protocols |-> bundle, limited |-> limited,
                         disabled |-> FALSE, reason |-> "none"])
       /\ home' = [home EXCEPT ![uuid] = email]
  /\ UNCHANGED <<over, runs>>

\* DELETE /api/users/[email]: a key the config does not list is not found.
Delete(email) ==
  /\ Operate
  /\ \E c \in Of(email) : SetMeta(c.uuid, NoMeta)
  /\ Write(Without(email))
  /\ UNCHANGED <<over, runs, home>>

\* POST /api/users/[email]/rotate.
Rotate(email) ==
  /\ Operate
  /\ \E c \in Of(email), uuid \in Fresh :
       /\ Write({IF d.email = email THEN [d EXCEPT !.uuid = uuid] ELSE d : d \in clients})
       /\ meta' = [meta EXCEPT ![uuid] = meta[c.uuid], ![c.uuid] = NoMeta]
       /\ home' = [home EXCEPT ![uuid] = email]
  /\ UNCHANGED <<over, runs>>

\* POST /api/users/[email]/disable with disabled = true.
Disable(email) ==
  /\ Operate
  /\ \E c \in Of(email) : SetMeta(c.uuid, Disabled(RowOf(c.uuid), "manual"))
  /\ Write(Without(email))
  /\ UNCHANGED <<over, runs, home>>

\* resolveUuid: the config, or else the ids in its backup.
Resolve(email) ==
  IF Of(email) # {} THEN {c.uuid : c \in Of(email)}
  ELSE {c.uuid : c \in {d \in backup : d.email = email /\ d.inbound \notin Passworded}}

\* Re-enabling a key without evaluating its limit again.
EnableUnchecked(email, lift, reset) ==
  /\ Operate
  /\ \E uuid \in Resolve(email) :
       LET blocked == Blocked(email, meta[uuid])
           row     == IF blocked /\ lift THEN [RowOf(uuid) EXCEPT !.limited = FALSE]
                      ELSE RowOf(uuid)
       IN
       /\ over' = IF blocked /\ reset THEN over \ {email} ELSE over
       /\ Write(Synced(clients, uuid, email, row.protocols))
       /\ SetMeta(uuid, Enabled(row))
  /\ UNCHANGED <<runs, home>>

\* The same route with disabled = false: a blocked key is restored only with a
\* resolution that clears the block (lift its limit, reset its usage); one that does
\* not only changes amounts, and the key stays as it is.
Enable(email, lift, reset) ==
  /\ Operate
  /\ \E uuid \in Resolve(email) :
       LET blocked == Blocked(email, meta[uuid])
           row     == IF blocked /\ lift THEN [RowOf(uuid) EXCEPT !.limited = FALSE]
                      ELSE RowOf(uuid)
       IN
       /\ blocked => lift \/ reset
       /\ over' = IF blocked /\ reset THEN over \ {email} ELSE over
       /\ Write(Synced(clients, uuid, email, row.protocols))
       /\ SetMeta(uuid, Enabled(row))
  /\ UNCHANGED <<runs, home>>

\* PUT /api/meta/[uuid] of the name and the limit; a row that is missing (its key was
\* deleted) is made again ...
Edit(uuid, name, limited) ==
  /\ Operate
  /\ home[uuid] # NoMeta
  /\ SetMeta(uuid, [RowOf(uuid) EXCEPT !.name = name, !.limited = limited])
  /\ UNCHANGED <<clients, backup, over, runs, home>>

\* ... and of the protocols, which are synced under the email the uuid is listed with.
EditProtocols(uuid, bundle) ==
  /\ Operate
  /\ home[uuid] # NoMeta
  /\ SetMeta(uuid, [RowOf(uuid) EXCEPT !.protocols = bundle])
  /\ LET listed == {c.email : c \in {d \in clients : d.uuid = uuid}}
         wanted == IF RowOf(uuid).disabled THEN {} ELSE bundle
     IN
     IF listed = {} THEN UNCHANGED <<clients, backup>>
     ELSE \E email \in listed : Write(Synced(clients, uuid, email, wanted))
  /\ UNCHANGED <<over, runs, home>>

\* The device policy rewrites the config's routes (syncDeviceBlockRoutes): the
\* clients stay, the backup is replaced.
RewriteRoutes ==
  /\ Operate
  /\ backup # clients
  /\ backup' = clients
  /\ UNCHANGED <<clients, meta, over, runs, home>>

\* Traffic is counted until the limit is exceeded; a month begins.
Exceed(email) ==
  /\ Operate
  /\ email \notin over
  /\ over' = over \cup {email}
  /\ UNCHANGED <<clients, backup, meta, runs, home>>

NewMonth ==
  /\ Operate
  /\ over # {}
  /\ over' = {}
  /\ UNCHANGED <<clients, backup, meta, runs, home>>

----------------------------------------------------------------------------
(***************************************************************************)
(* runEnforcement.  A row carries the snapshot of disabled and             *)
(* disabled_reason; the limit is evaluated when the row's turn comes.      *)
(***************************************************************************)

Snapshot ==
  {[uuid |-> uuid, disabled |-> meta[uuid].disabled, reason |-> meta[uuid].reason] :
     uuid \in {u \in Uuids : meta[u] # NoMeta /\ (meta[u].limited \/ meta[u].disabled)}}

\* listClients reads the first inbound only.
Listed == {c \in clients : c.inbound = Primary}

\* The email the uuid is listed under, or else the key's display name.
ResolvedEmails(uuid) ==
  LET emails == {c.email : c \in {d \in Listed : d.uuid = uuid}} IN
  IF emails # {} THEN emails ELSE {meta[uuid].name}

\* Looking the key up by its display name only.
MustDisableByName(row, live, email) ==
  /\ Blocked(email, meta[row.uuid])
  /\ \E c \in live : c.email = meta[row.uuid].name

MustDisable(row, live, email) ==
  /\ Blocked(email, meta[row.uuid])
  /\ \E c \in live : c.email = email \/ c.uuid = row.uuid

\* The snapshot decides whether the key was disabled, and by whom.
MustRestore(row, email) ==
  /\ ~Blocked(email, meta[row.uuid])
  /\ row.disabled /\ row.reason # "manual"

Skips(row, live) ==
  meta[row.uuid] # NoMeta =>
    \E email \in ResolvedEmails(row.uuid) :
      ~MustDisable(row, live, email) /\ ~MustRestore(row, email)

Act(row, live) ==
  /\ meta[row.uuid] # NoMeta
  /\ \E email \in ResolvedEmails(row.uuid) :
       \/ /\ MustDisable(row, live, email)
          /\ Write(Without(email))
          /\ SetMeta(row.uuid, Disabled(meta[row.uuid], "limit"))
       \/ /\ MustRestore(row, email)
          /\ Write(Synced(clients, row.uuid, email, meta[row.uuid].protocols))
          /\ SetMeta(row.uuid, Enabled(meta[row.uuid]))

\* From one await to the next: rows that need no action are passed over, one row is
\* acted on.
Advance(run, rows, live) ==
  \E row \in rows : \E skipped \in SUBSET (rows \ {row}) :
    /\ \A s \in skipped : Skips(s, live)
    /\ Act(row, live)
    /\ runs' = [runs EXCEPT ![run] = [rows |-> rows \ (skipped \cup {row}), live |-> live]]
    /\ UNCHANGED <<over, home, operations>>

\* A run that acts on no row changes nothing.
Begin(run) ==
  /\ runs[run] = Idle
  /\ Advance(run, Snapshot, Listed)

Proceed(run) ==
  /\ runs[run] # Idle
  /\ Advance(run, runs[run].rows, runs[run].live)

End(run) ==
  /\ runs[run] # Idle
  /\ \A row \in runs[run].rows : Skips(row, runs[run].live)
  /\ runs' = [runs EXCEPT ![run] = Idle]
  /\ UNCHANGED <<clients, backup, meta, over, home, operations>>

----------------------------------------------------------------------------
Operation ==
  \/ \E email \in Emails, name \in Emails, bundle \in Bundles, limited \in BOOLEAN :
       Add(email, name, bundle, limited)
  \/ \E email \in Names : Delete(email) \/ Rotate(email) \/ Disable(email)
  \/ \E email \in Names, lift, reset \in BOOLEAN : Enable(email, lift, reset)
  \/ \E uuid \in Uuids, name \in Emails, limited \in BOOLEAN : Edit(uuid, name, limited)
  \/ \E uuid \in Uuids, bundle \in Bundles : EditProtocols(uuid, bundle)
  \/ \E email \in Names : Exceed(email)
  \/ RewriteRoutes
  \/ NewMonth

Enforcement == \E run \in Runs : Begin(run) \/ Proceed(run) \/ End(run)

Next == Operation \/ Enforcement
Spec == Init /\ [][Next]_vars

\* While a dashboard is open, enforcement runs keep being started, and a run's
\* awaited calls are answered or fail.
FairSpec == Spec /\ WF_vars(Enforcement)

----------------------------------------------------------------------------
(***************************************************************************)
(* Properties                                                              *)
(***************************************************************************)

\* Whatever handlers and enforcement runs do in between, the inbounds never list an
\* email with two different uuids: every link of a user is for the same key.
OneUuidPerEmail == \A c, d \in clients : c.email = d.email => c.uuid = d.uuid

\* A key whose row says disabled is in no inbound of the Xray config.
DisabledIsOut ==
  \A uuid \in Uuids :
    meta[uuid] # NoMeta /\ meta[uuid].disabled => \A c \in clients : c.uuid # uuid

\* Why both hold, when every assigned bundle has the first inbound's protocol: ...
\* the config and its backup list a uuid under one email, so that removing the
\* email's entries removes the key; ...
OneEmailPerUuid == \A c, d \in clients \cup backup : c.uuid = d.uuid => c.email = d.email

\* a uuid that is listed anywhere or has a row is not drawn again; ...
Known ==
  /\ \A c \in clients \cup backup : home[c.uuid] # NoMeta
  /\ \A uuid \in Uuids : meta[uuid] # NoMeta => home[uuid] # NoMeta

\* and the first inbound, the only one enforcement reads, lists every key.
PrimaryListed ==
  /\ \A c \in clients : [inbound |-> Primary, email |-> c.email, uuid |-> c.uuid] \in clients
  /\ \A uuid \in Uuids : meta[uuid] # NoMeta => Primary \in meta[uuid].protocols

\* The inductive invariant behind the safety properties: what keeps handlers and
\* enforcement runs, which find keys by email and change them by uuid, from touching
\* another user's key.
KeyInvariant ==
  OneUuidPerEmail /\ DisabledIsOut /\ OneEmailPerUuid /\ Known /\ PrimaryListed

\* No key is restored, by an operator or by enforcement, while the limit evaluated
\* for the email it is listed under blocks it.
RestoredNotBlocked ==
  [][\A uuid \in Uuids :
       /\ meta[uuid] # NoMeta /\ meta[uuid].disabled
       /\ meta'[uuid] # NoMeta /\ ~meta'[uuid].disabled
       => \A c \in clients' : c.uuid = uuid => ~Blocked(c.email, meta[uuid])']_vars

\* docs/public/SECURITY_MODEL.md: "Keys are disabled when a limit or expiry is
\* reached".  A blocked key is not served for ever.
Served(uuid) == \E c \in clients : c.uuid = uuid /\ Blocked(c.email, meta[uuid])
LimitsEnforced == \A uuid \in Uuids : Served(uuid) ~> ~Served(uuid)

\* dashboard/src/lib/traffic-enforce.ts: "Find email regardless of live status (may
\* be already removed)".  A key is only ever listed under the email it was made for.
KeysKeepEmail == \A c \in clients : c.email = home[c.uuid]

\* dashboard/src/app/api/users/[email]/disable/route.ts: "fall back to the .bak
\* snapshot written just before a user is removed, so re-enable can still find
\* disabled users".
ReenableFindsKey ==
  \A uuid \in Uuids :
    meta[uuid] # NoMeta /\ meta[uuid].disabled => Resolve(home[uuid]) # {}

\* dashboard/src/lib/traffic-enforce.ts: "Manual disables are never auto-restored".
ManualNeverAutoRestored ==
  [][\A uuid \in Uuids :
       /\ meta[uuid] # NoMeta /\ meta[uuid].disabled /\ meta[uuid].reason = "manual"
       /\ meta'[uuid] # NoMeta /\ ~meta'[uuid].disabled
       => runs' = runs]_vars

=============================================================================
