------------------------- MODULE KeyLifecycleProofs -------------------------
(***************************************************************************)
(* What holds of access keys for every number of users, uuids, inbounds,   *)
(* enforcement runs and operations.                                        *)
(***************************************************************************)
EXTENDS KeyLifecycle, TLAPS

----------------------------------------------------------------------------
(* Types *)

\* What the operators on configs return.
LEMMA EntriesType ==
  ASSUME NEW uuid \in Uuids, NEW email \in Names, NEW inbounds \in SUBSET Inbounds
  PROVE  Entries(uuid, email, inbounds) \subseteq Client
BY DEF Entries, Client

LEMMA SyncedType ==
  ASSUME NEW config \in SUBSET Client, NEW uuid \in Uuids, NEW email \in Names,
         NEW wanted \in SUBSET Inbounds
  PROVE  Synced(config, uuid, email, wanted) \subseteq Client
BY EntriesType DEF Synced

LEMMA WriteType ==
  ASSUME clients \subseteq Client, backup \subseteq Client,
         NEW new \in SUBSET Client, Write(new)
  PROVE  clients' \subseteq Client /\ backup' \subseteq Client
BY DEF Write

LEMMA ClientType ==
  ASSUME NEW c \in Client
  PROVE  c.inbound \in Inbounds /\ c.email \in Names /\ c.uuid \in Uuids
BY DEF Client

\* Changing the uuids of an email's entries gives entries.
LEMMA RenewedType ==
  ASSUME clients \subseteq Client, NEW uuid \in Uuids, NEW email
  PROVE  {IF d.email = email THEN [d EXCEPT !.uuid = uuid] ELSE d : d \in clients}
           \subseteq Client
BY DEF Client

\* What the operators on rows return, and what they leave alone.
LEMMA MetaType ==
  ASSUME NEW m \in Meta
  PROVE  m.name \in Names /\ m.protocols \subseteq Inbounds /\ m.limited \in BOOLEAN
         /\ m.disabled \in BOOLEAN /\ m.reason \in {"none", "manual", "limit"}
BY DEF Meta

LEMMA RowOfType ==
  ASSUME meta \in [Uuids -> Meta \cup {NoMeta}], NEW uuid \in Uuids
  PROVE  /\ RowOf(uuid) \in Meta
         /\ meta[uuid] # NoMeta => RowOf(uuid) = meta[uuid]
         /\ meta[uuid] = NoMeta => RowOf(uuid).protocols = {Primary}
BY KeyConstants DEF RowOf, Meta, Names

LEMMA DisabledType ==
  ASSUME NEW m \in Meta, NEW reason \in {"manual", "limit"}
  PROVE  /\ Disabled(m, reason) \in Meta
         /\ Disabled(m, reason).protocols = m.protocols
         /\ Disabled(m, reason).disabled = TRUE
BY DEF Disabled, Meta

LEMMA EnabledType ==
  ASSUME NEW m \in Meta
  PROVE  /\ Enabled(m) \in Meta
         /\ Enabled(m).protocols = m.protocols
         /\ Enabled(m).limited = m.limited
         /\ Enabled(m).disabled = FALSE
BY DEF Enabled, Meta

LEMMA LiftedType ==
  ASSUME NEW m \in Meta
  PROVE  /\ [m EXCEPT !.limited = FALSE] \in Meta
         /\ [m EXCEPT !.limited = FALSE].protocols = m.protocols
         /\ [m EXCEPT !.limited = FALSE].limited = FALSE
BY DEF Meta

LEMMA EditedType ==
  ASSUME NEW m \in Meta, NEW name \in Emails, NEW limited \in BOOLEAN
  PROVE  /\ [m EXCEPT !.name = name, !.limited = limited] \in Meta
         /\ [m EXCEPT !.name = name, !.limited = limited].protocols = m.protocols
         /\ [m EXCEPT !.name = name, !.limited = limited].disabled = m.disabled
BY DEF Meta, Names

LEMMA ReassignedType ==
  ASSUME NEW m \in Meta, NEW bundle \in SUBSET Inbounds
  PROVE  /\ [m EXCEPT !.protocols = bundle] \in Meta
         /\ [m EXCEPT !.protocols = bundle].protocols = bundle
         /\ [m EXCEPT !.protocols = bundle].disabled = m.disabled
BY DEF Meta

LEMMA SetMetaType ==
  ASSUME meta \in [Uuids -> Meta \cup {NoMeta}], NEW uuid \in Uuids,
         NEW m \in Meta \cup {NoMeta}, SetMeta(uuid, m)
  PROVE  /\ meta' \in [Uuids -> Meta \cup {NoMeta}]
         /\ meta'[uuid] = m
         /\ \A other \in Uuids \ {uuid} : meta'[other] = meta[other]
BY DEF SetMeta

\* Restoring or disabling one key: what the config and the row become.
LEMMA KeyChangeType ==
  ASSUME TypeOK, NEW uuid \in Uuids, NEW m \in Meta \cup {NoMeta},
         NEW new \in SUBSET Client, Write(new), SetMeta(uuid, m)
  PROVE  /\ clients' \subseteq Client /\ backup' \subseteq Client
         /\ meta' \in [Uuids -> Meta \cup {NoMeta}]
BY WriteType, SetMetaType DEF TypeOK

LEMMA WithoutType ==
  ASSUME clients \subseteq Client, NEW email PROVE Without(email) \subseteq Client
BY DEF Without

LEMMA OperateType ==
  ASSUME TypeOK, Operate PROVE operations' \in Nat
BY DEF TypeOK, Operate

LEMMA HomeType ==
  ASSUME TypeOK, NEW uuid \in Uuids, NEW email \in Names,
         home' = [home EXCEPT ![uuid] = email]
  PROVE  home' \in [Uuids -> Names \cup {NoMeta}]
BY DEF TypeOK

\* The handlers.
LEMMA AddType ==
  ASSUME TypeOK, NEW email \in Emails, NEW name \in Emails, NEW bundle \in Bundles,
         NEW limited \in BOOLEAN, Add(email, name, bundle, limited)
  PROVE  TypeOK'
<1>1. PICK uuid \in Fresh :
        LET added == clients \cup Entries(uuid, email, {Primary})
            all   == Synced(added, uuid, email, bundle)
        IN
        /\ clients' = all
        /\ backup' = IF all = added THEN clients ELSE added
        /\ SetMeta(uuid, [name |-> name, protocols |-> bundle, limited |-> limited,
                          disabled |-> FALSE, reason |-> "none"])
        /\ home' = [home EXCEPT ![uuid] = email]
  BY DEF Add
<1> DEFINE added == clients \cup Entries(uuid, email, {Primary})
           row   == [name |-> name, protocols |-> bundle, limited |-> limited,
                     disabled |-> FALSE, reason |-> "none"]
<1>2. uuid \in Uuids /\ email \in Names /\ bundle \subseteq Inbounds
  BY KeyConstants DEF Fresh, Names
<1>3. added \subseteq Client
  BY <1>2, EntriesType, KeyConstants DEF TypeOK
<1>4. Synced(added, uuid, email, bundle) \subseteq Client
  <2> HIDE DEF added
  <2> QED BY <1>2, <1>3, SyncedType
<1>5. row \in Meta
  BY <1>2 DEF Meta, Names
<1>6. meta' \in [Uuids -> Meta \cup {NoMeta}]
  <2> HIDE DEF row
  <2>1. SetMeta(uuid, row)
    BY <1>1 DEF row
  <2> QED BY <1>2, <1>5, <2>1, SetMetaType DEF TypeOK
<1>7. clients' \subseteq Client /\ backup' \subseteq Client
  BY <1>1, <1>3, <1>4 DEF TypeOK
<1>8. home' \in [Uuids -> Names \cup {NoMeta}]
  BY <1>1, <1>2, HomeType
<1>9. QED
  BY <1>6, <1>7, <1>8, OperateType DEF Add, TypeOK

LEMMA DeleteType ==
  ASSUME TypeOK, NEW email \in Names, Delete(email)
  PROVE  TypeOK'
<1>1. PICK c \in Of(email) : SetMeta(c.uuid, NoMeta)
  BY DEF Delete
<1>2. c.uuid \in Uuids
  BY ClientType DEF Of, TypeOK
<1>3. /\ clients' \subseteq Client /\ backup' \subseteq Client
      /\ meta' \in [Uuids -> Meta \cup {NoMeta}]
  BY <1>1, <1>2, KeyChangeType, WithoutType DEF Delete, TypeOK
<1>4. QED
  BY <1>3, OperateType DEF Delete, TypeOK

LEMMA RotateType ==
  ASSUME TypeOK, NEW email \in Names, Rotate(email)
  PROVE  TypeOK'
<1>1. PICK c \in Of(email), uuid \in Fresh :
        /\ Write({IF d.email = email THEN [d EXCEPT !.uuid = uuid] ELSE d : d \in clients})
        /\ meta' = [meta EXCEPT ![uuid] = meta[c.uuid], ![c.uuid] = NoMeta]
        /\ home' = [home EXCEPT ![uuid] = email]
  BY DEF Rotate
<1>2. c.uuid \in Uuids /\ uuid \in Uuids
  BY ClientType DEF Of, Fresh, TypeOK
<1>3. clients' \subseteq Client /\ backup' \subseteq Client
  BY <1>1, <1>2, RenewedType, WriteType DEF TypeOK
<1>4. meta' \in [Uuids -> Meta \cup {NoMeta}]
  <2> DEFINE m == meta[c.uuid]
  <2>1. m \in Meta \cup {NoMeta}
    BY <1>2 DEF TypeOK
  <2>2. meta' = [meta EXCEPT ![uuid] = m, ![c.uuid] = NoMeta]
    BY <1>1
  <2> HIDE DEF m
  <2>3. QED
    BY <1>2, <2>1, <2>2 DEF TypeOK
<1>5. home' \in [Uuids -> Names \cup {NoMeta}]
  BY <1>1, <1>2, HomeType
<1>6. QED
  BY <1>3, <1>4, <1>5, OperateType DEF Rotate, TypeOK

LEMMA DisableType ==
  ASSUME TypeOK, NEW email \in Names, Disable(email)
  PROVE  TypeOK'
<1>1. PICK c \in Of(email) : SetMeta(c.uuid, Disabled(RowOf(c.uuid), "manual"))
  BY DEF Disable
<1>2. c.uuid \in Uuids
  BY ClientType DEF Of, TypeOK
<1>3. Disabled(RowOf(c.uuid), "manual") \in Meta
  BY <1>2, RowOfType, DisabledType DEF TypeOK
<1>4. /\ clients' \subseteq Client /\ backup' \subseteq Client
      /\ meta' \in [Uuids -> Meta \cup {NoMeta}]
  BY <1>1, <1>2, <1>3, KeyChangeType, WithoutType DEF Disable, TypeOK
<1>5. QED
  BY <1>4, OperateType DEF Disable, TypeOK

\* The uuid of a re-enabled key, and its row with the limit lifted or not.
LEMMA ResolveType ==
  ASSUME TypeOK, NEW email, NEW uuid \in Resolve(email)
  PROVE  uuid \in Uuids
BY ClientType DEF Resolve, Of, TypeOK

LEMMA RestoredRowType ==
  ASSUME TypeOK, NEW uuid \in Uuids, NEW lifted \in BOOLEAN, NEW row,
         row = IF lifted THEN [RowOf(uuid) EXCEPT !.limited = FALSE] ELSE RowOf(uuid)
  PROVE  row \in Meta /\ row.protocols = RowOf(uuid).protocols
BY RowOfType, LiftedType DEF TypeOK

LEMMA EnableType ==
  ASSUME TypeOK, NEW email \in Names, NEW lift \in BOOLEAN, NEW reset \in BOOLEAN,
         Enable(email, lift, reset)
  PROVE  TypeOK'
<1>1. PICK uuid \in Resolve(email) :
        LET blocked == Blocked(email, meta[uuid])
            row     == IF blocked /\ lift THEN [RowOf(uuid) EXCEPT !.limited = FALSE]
                       ELSE RowOf(uuid)
        IN
        /\ over' = IF blocked /\ reset THEN over \ {email} ELSE over
        /\ Write(Synced(clients, uuid, email, row.protocols))
        /\ SetMeta(uuid, Enabled(row))
  BY DEF Enable
<1> DEFINE blocked == Blocked(email, meta[uuid])
           row     == IF blocked /\ lift THEN [RowOf(uuid) EXCEPT !.limited = FALSE]
                      ELSE RowOf(uuid)
<1>2. uuid \in Uuids
  BY ResolveType
<1>3. row \in Meta
  <2>1. (blocked /\ lift) \in BOOLEAN
    BY Zenon DEF Blocked
  <2>2. QED
    BY <1>2, RowOfType, LiftedType DEF TypeOK
<1>4. Enabled(row) \in Meta /\ row.protocols \subseteq Inbounds
  <2> HIDE DEF row
  <2> QED BY <1>3, EnabledType, MetaType
<1>5. Write(Synced(clients, uuid, email, row.protocols)) /\ SetMeta(uuid, Enabled(row))
  BY <1>1
<1>6. over' \subseteq Names
  BY <1>1 DEF TypeOK
<1>7. /\ clients' \subseteq Client /\ backup' \subseteq Client
      /\ meta' \in [Uuids -> Meta \cup {NoMeta}]
  <2> HIDE DEF row
  <2> QED BY <1>2, <1>4, <1>5, SyncedType, KeyChangeType DEF TypeOK
<1>8. QED
  BY <1>6, <1>7, OperateType DEF Enable, TypeOK

LEMMA EditType ==
  ASSUME TypeOK, NEW uuid \in Uuids, NEW name \in Emails, NEW limited \in BOOLEAN,
         Edit(uuid, name, limited)
  PROVE  TypeOK'
<1> DEFINE row == [RowOf(uuid) EXCEPT !.name = name, !.limited = limited]
<1>1. RowOf(uuid) \in Meta
  BY RowOfType DEF TypeOK
<1>2. row \in Meta
  BY <1>1, EditedType
<1>3. SetMeta(uuid, row)
  BY DEF Edit
<1>4. meta' \in [Uuids -> Meta \cup {NoMeta}]
  <2> HIDE DEF row
  <2> QED BY <1>2, <1>3, SetMetaType DEF TypeOK
<1>5. QED
  BY <1>4, OperateType DEF Edit, TypeOK

LEMMA EditProtocolsType ==
  ASSUME TypeOK, NEW uuid \in Uuids, NEW bundle \in Bundles, EditProtocols(uuid, bundle)
  PROVE  TypeOK'
<1> DEFINE row == [RowOf(uuid) EXCEPT !.protocols = bundle]
           listed == {c.email : c \in {d \in clients : d.uuid = uuid}}
           wanted == IF RowOf(uuid).disabled THEN {} ELSE bundle
<1>1. RowOf(uuid) \in Meta /\ bundle \in SUBSET Inbounds
  BY KeyConstants, RowOfType DEF TypeOK
<1>2. row \in Meta
  BY <1>1, ReassignedType
<1>3. SetMeta(uuid, row)
  BY DEF EditProtocols
<1>4. meta' \in [Uuids -> Meta \cup {NoMeta}]
  <2> HIDE DEF row
  <2> QED BY <1>2, <1>3, SetMetaType DEF TypeOK
<1>5. clients' \subseteq Client /\ backup' \subseteq Client
  <2>1. CASE listed = {}
    BY <2>1 DEF EditProtocols, TypeOK
  <2>2. CASE listed # {}
    <3>1. PICK email \in listed : Write(Synced(clients, uuid, email, wanted))
      BY <2>2 DEF EditProtocols
    <3>2. email \in Names
      BY ClientType DEF TypeOK
    <3>3. Synced(clients, uuid, email, wanted) \subseteq Client
      BY <1>1, <3>2, SyncedType DEF TypeOK
    <3>4. QED
      BY <3>1, <3>3, WriteType DEF TypeOK
  <2>3. QED
    BY <2>1, <2>2
<1>6. QED
  BY <1>4, <1>5, OperateType DEF EditProtocols, TypeOK

LEMMA OutsideType ==
  ASSUME TypeOK, RewriteRoutes \/ NewMonth \/ \E email \in Names : Exceed(email)
  PROVE  TypeOK'
BY OperateType DEF RewriteRoutes, NewMonth, Exceed, TypeOK

\* An enforcement run.
LEMMA ListedType == ASSUME TypeOK PROVE Listed \subseteq Client
BY DEF Listed, TypeOK

LEMMA SnapshotType == ASSUME TypeOK PROVE Snapshot \subseteq Row
<1>1. ASSUME NEW uuid \in Uuids, meta[uuid] # NoMeta
      PROVE  [uuid |-> uuid, disabled |-> meta[uuid].disabled,
              reason |-> meta[uuid].reason] \in Row
  <2>1. meta[uuid] \in Meta
    BY <1>1 DEF TypeOK
  <2>2. QED
    BY <2>1, MetaType DEF Row
<1>2. QED
  BY <1>1 DEF Snapshot

LEMMA ResolvedType ==
  ASSUME TypeOK, NEW uuid \in Uuids, meta[uuid] # NoMeta,
         NEW email \in ResolvedEmails(uuid)
  PROVE  email \in Names
<1>1. meta[uuid].name \in Names
  BY MetaType DEF TypeOK
<1>2. \A c \in Listed : c.email \in Names
  BY ListedType, ClientType
<1>3. QED
  BY <1>1, <1>2 DEF ResolvedEmails

\* Acting on one row.
LEMMA ActType ==
  ASSUME TypeOK, NEW row \in Row, NEW live, Act(row, live)
  PROVE  /\ clients' \subseteq Client /\ backup' \subseteq Client
         /\ meta' \in [Uuids -> Meta \cup {NoMeta}]
<1>1. row.uuid \in Uuids /\ meta[row.uuid] # NoMeta
  BY DEF Row, Act
<1>2. meta[row.uuid] \in Meta
  BY <1>1 DEF TypeOK
<1>3. PICK email \in ResolvedEmails(row.uuid) :
       \/ /\ MustDisable(row, live, email)
          /\ Write(Without(email))
          /\ SetMeta(row.uuid, Disabled(meta[row.uuid], "limit"))
       \/ /\ MustRestore(row, email)
          /\ Write(Synced(clients, row.uuid, email, meta[row.uuid].protocols))
          /\ SetMeta(row.uuid, Enabled(meta[row.uuid]))
  BY DEF Act
<1>4. email \in Names
  BY <1>1, ResolvedType
<1>5. CASE Write(Without(email)) /\ SetMeta(row.uuid, Disabled(meta[row.uuid], "limit"))
  <2>1. Disabled(meta[row.uuid], "limit") \in Meta
    BY <1>2, DisabledType
  <2>2. QED
    BY <1>1, <1>5, <2>1, WithoutType, KeyChangeType DEF TypeOK
<1>6. CASE /\ Write(Synced(clients, row.uuid, email, meta[row.uuid].protocols))
           /\ SetMeta(row.uuid, Enabled(meta[row.uuid]))
  <2>1. Enabled(meta[row.uuid]) \in Meta /\ meta[row.uuid].protocols \subseteq Inbounds
    BY <1>2, EnabledType, MetaType
  <2>2. Synced(clients, row.uuid, email, meta[row.uuid].protocols) \subseteq Client
    BY <1>1, <1>4, <2>1, SyncedType DEF TypeOK
  <2>3. QED
    BY <1>1, <1>6, <2>1, <2>2, KeyChangeType
<1>7. QED
  BY <1>3, <1>5, <1>6

LEMMA AdvanceType ==
  ASSUME TypeOK, NEW run \in Runs, NEW rows \in SUBSET Row, NEW live \in SUBSET Client,
         Advance(run, rows, live)
  PROVE  TypeOK'
<1>1. PICK row \in rows : \E skipped \in SUBSET (rows \ {row}) :
        /\ Act(row, live)
        /\ runs' = [runs EXCEPT ![run] =
                      [rows |-> rows \ (skipped \cup {row}), live |-> live]]
  BY DEF Advance
<1>2. PICK skipped \in SUBSET (rows \ {row}) :
        /\ Act(row, live)
        /\ runs' = [runs EXCEPT ![run] =
                      [rows |-> rows \ (skipped \cup {row}), live |-> live]]
  BY <1>1
<1> DEFINE left == [rows |-> rows \ (skipped \cup {row}), live |-> live]
<1>3. left \in Run
  BY DEF Run
<1>4. runs' \in [Runs -> Run \cup {Idle}]
  <2>1. runs' = [runs EXCEPT ![run] = left]
    BY <1>2
  <2> HIDE DEF left
  <2>2. QED
    BY <1>3, <2>1 DEF TypeOK
<1>5. row \in Row
  OBVIOUS
<1>6. QED
  BY <1>2, <1>4, <1>5, ActType DEF Advance, TypeOK

LEMMA RunType ==
  ASSUME TypeOK, NEW run \in Runs, Begin(run) \/ Proceed(run) \/ End(run)
  PROVE  TypeOK'
<1>1. CASE Begin(run)
  BY <1>1, SnapshotType, ListedType, AdvanceType DEF Begin
<1>2. CASE Proceed(run)
  <2>1. runs[run] \in Run
    BY <1>2 DEF Proceed, TypeOK
  <2>2. runs[run].rows \subseteq Row /\ runs[run].live \subseteq Client
    BY <2>1 DEF Run
  <2>3. QED
    BY <1>2, <2>2, AdvanceType DEF Proceed
<1>3. CASE End(run)
  BY <1>3 DEF End, TypeOK
<1>4. QED
  BY <1>1, <1>2, <1>3

LEMMA TypeStep == TypeOK /\ [Next]_vars => TypeOK'
<1> SUFFICES ASSUME TypeOK, [Next]_vars PROVE TypeOK'
  OBVIOUS
<1>1. CASE Operation
  BY <1>1, AddType, DeleteType, RotateType, DisableType, EnableType, EditType,
     EditProtocolsType, OutsideType DEF Operation
<1>2. CASE Enforcement
  BY <1>2, RunType DEF Enforcement
<1>3. CASE UNCHANGED vars
  BY <1>3 DEF vars, TypeOK
<1>4. QED
  BY <1>1, <1>2, <1>3 DEF Next

\* The files, the rows and the enforcement runs stay well-formed.
THEOREM TypeCorrect == Spec => []TypeOK
<1>1. Init => TypeOK
  BY DEF Init, TypeOK
<1>2. QED
  BY <1>1, TypeStep, PTL DEF Spec

----------------------------------------------------------------------------
(* One uuid per email *)

OneUuid(config) == \A c, d \in config : c.email = d.email => c.uuid = d.uuid

LEMMA EntriesAre ==
  ASSUME NEW uuid, NEW email, NEW inbounds, NEW c \in Entries(uuid, email, inbounds)
  PROVE  c.inbound \in inbounds /\ c.email = email /\ c.uuid = uuid
BY DEF Entries

\* Syncing an email gives it one uuid and changes no other email's.
LEMMA SyncedOneUuid ==
  ASSUME NEW config, NEW uuid, NEW email, NEW wanted,
         \A c, d \in config : c.email # email /\ c.email = d.email => c.uuid = d.uuid
  PROVE  OneUuid(Synced(config, uuid, email, wanted))
BY EntriesAre DEF Synced, OneUuid

LEMMA WithoutOneUuid ==
  ASSUME OneUuid(clients), NEW email PROVE OneUuid(Without(email))
BY DEF Without, OneUuid

LEMMA RenewedAre ==
  ASSUME NEW d \in Client, NEW uuid \in Uuids
  PROVE  /\ [d EXCEPT !.uuid = uuid].inbound = d.inbound
         /\ [d EXCEPT !.uuid = uuid].email = d.email
         /\ [d EXCEPT !.uuid = uuid].uuid = uuid
BY DEF Client

Renewed(email, uuid) == {IF d.email = email THEN [d EXCEPT !.uuid = uuid] ELSE d : d \in clients}

LEMMA RenewedOneUuid ==
  ASSUME clients \subseteq Client, OneUuid(clients), NEW email, NEW uuid \in Uuids
  PROVE  OneUuid(Renewed(email, uuid))
<1> SUFFICES ASSUME NEW c \in Renewed(email, uuid), NEW d \in Renewed(email, uuid),
                    c.email = d.email
             PROVE  c.uuid = d.uuid
  BY DEF OneUuid
<1>1. PICK c0 \in clients : c = IF c0.email = email THEN [c0 EXCEPT !.uuid = uuid] ELSE c0
  BY DEF Renewed
<1>2. PICK d0 \in clients : d = IF d0.email = email THEN [d0 EXCEPT !.uuid = uuid] ELSE d0
  BY DEF Renewed
<1>3. c.email = c0.email /\ c.uuid = IF c0.email = email THEN uuid ELSE c0.uuid
  BY <1>1, RenewedAre
<1>4. d.email = d0.email /\ d.uuid = IF d0.email = email THEN uuid ELSE d0.uuid
  BY <1>2, RenewedAre
<1>5. QED
  BY <1>3, <1>4 DEF OneUuid

LEMMA OneUuidStep ==
  TypeOK /\ OneUuid(clients) /\ [Next]_vars => OneUuid(clients)'
<1> SUFFICES ASSUME TypeOK, OneUuid(clients), [Next]_vars PROVE OneUuid(clients')
  BY DEF OneUuid
<1>1. ASSUME NEW email, NEW name, NEW bundle, NEW limited, Add(email, name, bundle, limited)
      PROVE  OneUuid(clients')
  <2>1. PICK uuid \in Fresh :
          clients' = Synced(clients \cup Entries(uuid, email, {Primary}), uuid, email, bundle)
    BY <1>1 DEF Add
  <2>2. \A c \in clients \cup Entries(uuid, email, {Primary}) :
          c.email # email => c \in clients
    BY EntriesAre
  <2>3. QED
    BY <2>1, <2>2, SyncedOneUuid DEF OneUuid
<1>2. ASSUME NEW email, Delete(email) \/ Disable(email) PROVE OneUuid(clients')
  BY <1>2, WithoutOneUuid DEF Delete, Disable, Write
<1>3. ASSUME NEW email, Rotate(email) PROVE OneUuid(clients')
  <2>1. PICK uuid \in Fresh : Write(Renewed(email, uuid))
    BY <1>3 DEF Rotate, Renewed
  <2>2. QED
    BY <2>1, RenewedOneUuid DEF Write, Fresh, TypeOK
<1>4. ASSUME NEW email, NEW lift, NEW reset, Enable(email, lift, reset)
      PROVE  OneUuid(clients')
  <2>1. PICK uuid, wanted : Write(Synced(clients, uuid, email, wanted))
    BY <1>4 DEF Enable
  <2>2. QED
    BY <2>1, SyncedOneUuid DEF Write, OneUuid
<1>5. ASSUME NEW uuid, NEW bundle, EditProtocols(uuid, bundle) PROVE OneUuid(clients')
  <2>1. \/ clients' = clients
        \/ \E email, wanted : Write(Synced(clients, uuid, email, wanted))
    BY <1>5 DEF EditProtocols
  <2>2. QED
    BY <2>1, SyncedOneUuid DEF Write, OneUuid
<1>6. ASSUME NEW row, NEW live, Act(row, live) PROVE OneUuid(clients')
  <2>1. PICK email : \/ Write(Without(email))
                     \/ Write(Synced(clients, row.uuid, email, meta[row.uuid].protocols))
    BY <1>6 DEF Act
  <2>2. QED
    BY <2>1, SyncedOneUuid, WithoutOneUuid DEF Write, OneUuid
<1>7. CASE Operation
  <2>1. CASE \/ \E uuid \in Uuids, name \in Emails, limited \in BOOLEAN :
                  Edit(uuid, name, limited)
             \/ \E email \in Names : Exceed(email)
             \/ RewriteRoutes
             \/ NewMonth
    BY <2>1 DEF Edit, Exceed, RewriteRoutes, NewMonth
  <2>2. QED
    BY <1>1, <1>2, <1>3, <1>4, <1>5, <1>7, <2>1 DEF Operation
<1>8. CASE Enforcement
  <2>1. PICK run \in Runs : Begin(run) \/ Proceed(run) \/ End(run)
    BY <1>8 DEF Enforcement
  <2>2. ASSUME NEW rows, NEW live, Advance(run, rows, live) PROVE OneUuid(clients')
    BY <1>6, <2>2 DEF Advance
  <2>3. CASE End(run)
    BY <2>3 DEF End
  <2>4. QED
    BY <2>1, <2>2, <2>3 DEF Begin, Proceed
<1>9. CASE UNCHANGED vars
  BY <1>9 DEF vars
<1>10. QED
  BY <1>7, <1>8, <1>9 DEF Next

\* Whatever handlers and enforcement runs do in between, every link of a user is for
\* the same key.
THEOREM OneUuidAlways == Spec => []OneUuidPerEmail
<1>1. Init => TypeOK /\ OneUuid(clients)
  BY DEF Init, TypeOK, OneUuid
<1>2. TypeOK /\ OneUuid(clients) => OneUuidPerEmail
  BY DEF OneUuid, OneUuidPerEmail
<1>3. QED
  BY <1>1, <1>2, TypeStep, OneUuidStep, PTL DEF Spec

----------------------------------------------------------------------------
(* Disabled keys are out, restored keys are not blocked *)

\* The profiles operators assign contain the first inbound's protocol.
ProfilesListPrimary == \A bundle \in Bundles : Primary \in bundle

OneEmail(config) == \A c, d \in config : c.uuid = d.uuid => c.email = d.email
First(c)         == [inbound |-> Primary, email |-> c.email, uuid |-> c.uuid]
InFirst(config)  == \A c \in config : First(c) \in config

\* uuid is listed under email only.
Only(uuid, email) == \A c \in clients : c.uuid = uuid => c.email = email

Kept == DisabledIsOut /\ OneEmailPerUuid /\ Known /\ PrimaryListed

\* The body of RestoredNotBlocked.
NoneRestoredBlocked ==
  \A uuid \in Uuids :
    /\ meta[uuid] # NoMeta /\ meta[uuid].disabled
    /\ meta'[uuid] # NoMeta /\ ~meta'[uuid].disabled
    => \A c \in clients' : c.uuid = uuid => ~Blocked(c.email, meta[uuid])'

\* Replacing the config by one that lists uuids under the same emails.
LEMMA WriteKeeps ==
  ASSUME NEW new, Write(new), OneEmailPerUuid, OneEmail(new \cup clients)
  PROVE  OneEmailPerUuid' /\ clients' = new /\ backup' \subseteq clients \cup backup
BY DEF Write, OneEmailPerUuid, OneEmail

\* The config after a key was synced.
LEMMA SyncedKeeps ==
  ASSUME NEW uuid, NEW email, NEW wanted, OneEmailPerUuid, InFirst(clients),
         Only(uuid, email), wanted = {} \/ Primary \in wanted
  PROVE  LET new == Synced(clients, uuid, email, wanted) IN
         /\ OneEmail(new \cup clients)
         /\ InFirst(new)
         /\ \A c \in new : c \in clients \/ (c.uuid = uuid /\ c.email = email)
<1> DEFINE new == Synced(clients, uuid, email, wanted)
<1>1. ASSUME NEW c \in new
      PROVE  c \in clients \/ (c.uuid = uuid /\ c.email = email /\ wanted # {})
  BY <1>1, EntriesAre DEF Synced
<1>2. \A c, d \in clients : c.uuid = d.uuid => c.email = d.email
  BY DEF OneEmailPerUuid
<1>3. OneEmail(new \cup clients)
  <2> HIDE DEF new
  <2> QED BY <1>1, <1>2 DEF OneEmail, Only
<1>4. InFirst(new)
  <2> SUFFICES ASSUME NEW c \in new PROVE First(c) \in new
    BY DEF InFirst
  <2>1. CASE c \in clients /\ c.email # email
    <3>1. First(c) \in clients /\ First(c).email # email
      BY <2>1 DEF InFirst, First
    <3>2. QED
      BY <3>1 DEF Synced
  <2>2. CASE c \in Entries(uuid, email, wanted)
    <3>1. Primary \in wanted /\ c.email = email /\ c.uuid = uuid
      BY <2>2, EntriesAre
    <3>2. First(c) \in Entries(uuid, email, wanted)
      BY <3>1 DEF First, Entries
    <3>3. QED
      BY <3>2 DEF Synced
  <2>3. QED
    BY <2>1, <2>2 DEF Synced
<1>5. QED
  BY <1>1, <1>3, <1>4

LEMMA InFirstIs ==
  ASSUME PrimaryListed PROVE InFirst(clients)
BY DEF PrimaryListed, InFirst, First

\* A key that is synced and whose row becomes enabled.
LEMMA RestoreStep ==
  ASSUME TypeOK, Kept, NEW uuid \in Uuids, NEW email, NEW m \in Meta,
         Write(Synced(clients, uuid, email, m.protocols)), SetMeta(uuid, m),
         Only(uuid, email), home[uuid] # NoMeta, UNCHANGED home,
         ~m.disabled, Primary \in m.protocols, ~(m.limited /\ email \in over')
  PROVE  Kept' /\ NoneRestoredBlocked
<1> DEFINE new == Synced(clients, uuid, email, m.protocols)
<1>1. /\ OneEmail(new \cup clients) /\ InFirst(new)
      /\ \A c \in new : c \in clients \/ (c.uuid = uuid /\ c.email = email)
  BY SyncedKeeps, InFirstIs DEF Kept
<1> HIDE DEF new
<1>2. OneEmailPerUuid' /\ clients' = new /\ backup' \subseteq clients \cup backup
  BY <1>1, WriteKeeps DEF Kept, new
<1>3. meta'[uuid] = m /\ \A other \in Uuids \ {uuid} : meta'[other] = meta[other]
  BY SetMetaType DEF TypeOK
<1>4. m # NoMeta
  BY KeyConstants
<1>5. DisabledIsOut'
  BY <1>1, <1>2, <1>3 DEF DisabledIsOut, Kept
<1>6. Known'
  BY <1>1, <1>2, <1>3 DEF Known, Kept
<1>7. PrimaryListed'
  <2>1. \A c \in clients' : First(c) \in clients'
    BY <1>1, <1>2 DEF InFirst
  <2>2. \A u \in Uuids : meta'[u] # NoMeta => Primary \in meta'[u].protocols
    BY <1>3 DEF PrimaryListed, Kept
  <2>3. QED
    BY <2>1, <2>2 DEF PrimaryListed, First
<1>8. NoneRestoredBlocked
  <2>1. \A c \in clients' : c.uuid = uuid => c.email = email
    BY <1>1, <1>2 DEF Only
  <2>2. QED
    BY <1>3, <2>1 DEF NoneRestoredBlocked, Blocked
<1>9. QED
  BY <1>2, <1>5, <1>6, <1>7, <1>8 DEF Kept

\* A key whose entries are removed and whose row is disabled or deleted.
LEMMA RemoveStep ==
  ASSUME TypeOK, Kept, NEW uuid \in Uuids, NEW email, NEW m \in Meta \cup {NoMeta},
         Write(Without(email)), SetMeta(uuid, m),
         Only(uuid, email), home[uuid] # NoMeta, UNCHANGED home,
         m # NoMeta => m.disabled /\ Primary \in m.protocols
  PROVE  Kept' /\ NoneRestoredBlocked
<1>1. /\ Without(email) \subseteq clients
      /\ \A c \in Without(email) : c.email # email
      /\ \A c \in clients : c.email # email => c \in Without(email)
  BY DEF Without, Of
<1>2. OneEmail(Without(email) \cup clients)
  BY <1>1 DEF OneEmail, OneEmailPerUuid, Kept
<1>3. OneEmailPerUuid' /\ clients' = Without(email) /\ backup' \subseteq clients \cup backup
  BY <1>2, WriteKeeps DEF Kept
<1>4. meta'[uuid] = m /\ \A other \in Uuids \ {uuid} : meta'[other] = meta[other]
  BY SetMetaType DEF TypeOK
<1>5. DisabledIsOut'
  BY <1>1, <1>3, <1>4 DEF DisabledIsOut, Only, Kept
<1>6. Known'
  BY <1>1, <1>3, <1>4 DEF Known, Kept
<1>7. PrimaryListed'
  <2>1. ASSUME NEW c \in clients' PROVE First(c) \in clients'
    BY <1>1, <1>3, InFirstIs DEF InFirst, First, Kept
  <2>2. \A u \in Uuids : meta'[u] # NoMeta => Primary \in meta'[u].protocols
    BY <1>4 DEF PrimaryListed, Kept
  <2>3. QED
    BY <2>1, <2>2 DEF PrimaryListed, First
<1>8. NoneRestoredBlocked
  BY <1>4 DEF NoneRestoredBlocked
<1>9. QED
  BY <1>3, <1>5, <1>6, <1>7, <1>8 DEF Kept

\* A listed uuid was drawn, and it is listed under the one email.
LEMMA ListedUuid ==
  ASSUME TypeOK, Kept, NEW c \in clients
  PROVE  c.uuid \in Uuids /\ home[c.uuid] # NoMeta /\ Only(c.uuid, c.email)
         /\ (meta[c.uuid] # NoMeta => ~meta[c.uuid].disabled)
BY ClientType DEF TypeOK, Kept, Known, OneEmailPerUuid, Only, DisabledIsOut

LEMMA AddKeeps ==
  ASSUME TypeOK, Kept, ProfilesListPrimary,
         NEW email \in Emails, NEW name \in Emails, NEW bundle \in Bundles,
         NEW limited \in BOOLEAN, Add(email, name, bundle, limited)
  PROVE  Kept' /\ NoneRestoredBlocked
<1> DEFINE row == [name |-> name, protocols |-> bundle, limited |-> limited,
                   disabled |-> FALSE, reason |-> "none"]
<1>1. PICK uuid \in Fresh :
        LET added == clients \cup Entries(uuid, email, {Primary})
            all   == Synced(added, uuid, email, bundle)
        IN
        /\ clients' = all
        /\ backup' = IF all = added THEN clients ELSE added
        /\ SetMeta(uuid, row)
        /\ home' = [home EXCEPT ![uuid] = email]
  BY DEF Add
<1> DEFINE entries == Entries(uuid, email, {Primary})
           all     == Synced(clients \cup entries, uuid, email, bundle)
<1>2. /\ uuid \in Uuids /\ home[uuid] = NoMeta /\ meta[uuid] = NoMeta
      /\ \A c \in clients \cup backup : c.uuid # uuid
  BY DEF Fresh, Known, Kept
<1>3. row.protocols = bundle /\ row.disabled = FALSE /\ row \in Meta \cup {NoMeta}
  <2>1. bundle \subseteq Inbounds
    BY KeyConstants
  <2>2. QED
    BY <2>1 DEF Meta, Names
<1>4. meta'[uuid] = row /\ \A other \in Uuids \ {uuid} : meta'[other] = meta[other]
  <2> HIDE DEF row
  <2> QED BY <1>1, <1>2, <1>3, SetMetaType DEF TypeOK
<1>5. /\ home'[uuid] # NoMeta
      /\ \A other \in Uuids \ {uuid} : home'[other] = home[other]
  BY <1>1, <1>2, KeyConstants DEF TypeOK, Names
<1>6. \A c \in clients' \cup backup' : c \in clients \/ (c.uuid = uuid /\ c.email = email)
  BY <1>1, EntriesAre DEF Synced
<1>7. OneEmailPerUuid'
  BY <1>2, <1>6 DEF OneEmailPerUuid, Kept
<1>8. DisabledIsOut'
  <2> HIDE DEF row
  <2>1. \A c \in clients' : c \in clients \/ c.uuid = uuid
    BY <1>6
  <2>2. QED
    BY <1>3, <1>4, <2>1 DEF DisabledIsOut, Kept
<1>9. Known'
  <2>1. ASSUME NEW c \in clients' \cup backup' PROVE home'[c.uuid] # NoMeta
    <3>1. CASE c \in clients
      <4>1. home[c.uuid] # NoMeta /\ c.uuid \in Uuids /\ c.uuid # uuid
        BY <1>2, <3>1, ListedUuid
      <4>2. QED
        BY <1>5, <4>1
    <3>2. CASE c.uuid = uuid
      BY <1>5, <3>2
    <3>3. QED
      BY <1>6, <2>1, <3>1, <3>2
  <2>2. ASSUME NEW u \in Uuids, meta'[u] # NoMeta PROVE home'[u] # NoMeta
    BY <1>4, <1>5, <2>2 DEF Known, Kept
  <2>3. QED
    BY <2>1, <2>2 DEF Known
<1>10. PrimaryListed'
  <2>1. ASSUME NEW c \in clients' PROVE First(c) \in clients'
    <3>1. CASE c \in clients /\ c.email # email
      <4>1. First(c) \in clients /\ First(c).email # email
        BY <3>1, InFirstIs DEF InFirst, First, Kept
      <4>2. QED
        BY <1>1, <4>1 DEF Synced
    <3>2. CASE c \in Entries(uuid, email, bundle)
      <4>1. First(c) \in Entries(uuid, email, bundle)
        BY <3>2, EntriesAre DEF First, Entries, ProfilesListPrimary
      <4>2. QED
        BY <1>1, <4>1 DEF Synced
    <3>3. QED
      BY <1>1, <2>1, <3>1, <3>2, EntriesAre DEF Synced
  <2>2. ASSUME NEW u \in Uuids, meta'[u] # NoMeta PROVE Primary \in meta'[u].protocols
    <3>1. CASE u = uuid
      <4> HIDE DEF row
      <4> QED BY <1>3, <1>4, <3>1 DEF ProfilesListPrimary
    <3>2. CASE u # uuid
      BY <1>4, <2>2, <3>2 DEF PrimaryListed, Kept
    <3>3. QED
      BY <3>1, <3>2
  <2>3. QED
    BY <2>1, <2>2 DEF PrimaryListed, First
<1>11. NoneRestoredBlocked
  BY <1>2, <1>4 DEF NoneRestoredBlocked
<1>12. QED
  BY <1>7, <1>8, <1>9, <1>10, <1>11 DEF Kept

LEMMA DeleteKeeps ==
  ASSUME TypeOK, Kept, NEW email \in Names, Delete(email)
  PROVE  Kept' /\ NoneRestoredBlocked
<1>1. PICK c \in Of(email) : SetMeta(c.uuid, NoMeta)
  BY DEF Delete
<1>2. c \in clients /\ c.email = email
  BY DEF Of
<1>3. QED
  BY <1>1, <1>2, ListedUuid, RemoveStep DEF Delete

LEMMA DisableKeeps ==
  ASSUME TypeOK, Kept, NEW email \in Names, Disable(email)
  PROVE  Kept' /\ NoneRestoredBlocked
<1>1. PICK c \in Of(email) : SetMeta(c.uuid, Disabled(RowOf(c.uuid), "manual"))
  BY DEF Disable
<1>2. c \in clients /\ c.email = email
  BY DEF Of
<1> DEFINE m == Disabled(RowOf(c.uuid), "manual")
<1>3. m \in Meta /\ m.disabled /\ m.protocols = RowOf(c.uuid).protocols
  BY <1>2, ListedUuid, RowOfType, DisabledType DEF TypeOK
<1>4. Primary \in RowOf(c.uuid).protocols
  BY <1>2, ListedUuid, RowOfType DEF TypeOK, PrimaryListed, Kept
<1>5. SetMeta(c.uuid, m)
  BY <1>1
<1>6. QED
  <2> HIDE DEF m
  <2> QED BY <1>2, <1>3, <1>4, <1>5, ListedUuid, RemoveStep DEF Disable

\* The uuid a key is re-enabled with.
LEMMA ResolvedOnly ==
  ASSUME TypeOK, Kept, NEW email, NEW uuid \in Resolve(email)
  PROVE  uuid \in Uuids /\ home[uuid] # NoMeta /\ Only(uuid, email)
<1>1. PICK c \in clients \cup backup : c.uuid = uuid /\ c.email = email
  BY DEF Resolve, Of
<1>2. QED
  BY <1>1, ClientType DEF TypeOK, Kept, Known, OneEmailPerUuid, Only

LEMMA EnableKeeps ==
  ASSUME TypeOK, Kept, NEW email \in Names, NEW lift \in BOOLEAN, NEW reset \in BOOLEAN,
         Enable(email, lift, reset)
  PROVE  Kept' /\ NoneRestoredBlocked
<1>1. PICK uuid \in Resolve(email) :
        LET blocked == Blocked(email, meta[uuid])
            row     == IF blocked /\ lift THEN [RowOf(uuid) EXCEPT !.limited = FALSE]
                       ELSE RowOf(uuid)
        IN
        /\ blocked => lift \/ reset
        /\ over' = IF blocked /\ reset THEN over \ {email} ELSE over
        /\ Write(Synced(clients, uuid, email, row.protocols))
        /\ SetMeta(uuid, Enabled(row))
  BY DEF Enable
<1> DEFINE blocked == Blocked(email, meta[uuid])
           row     == IF blocked /\ lift THEN [RowOf(uuid) EXCEPT !.limited = FALSE]
                      ELSE RowOf(uuid)
<1>2. uuid \in Uuids /\ home[uuid] # NoMeta /\ Only(uuid, email)
  BY ResolvedOnly
<1>3. /\ RowOf(uuid) \in Meta
      /\ meta[uuid] # NoMeta => RowOf(uuid) = meta[uuid]
      /\ Primary \in RowOf(uuid).protocols
  BY <1>2, RowOfType DEF TypeOK, PrimaryListed, Kept
<1>4. /\ row \in Meta /\ row.protocols = RowOf(uuid).protocols
      /\ blocked /\ lift => row.limited = FALSE
      /\ ~(blocked /\ lift) => row = RowOf(uuid)
  BY <1>3, LiftedType
<1>5. ~(row.limited /\ email \in over')
  <2>1. CASE blocked /\ lift
    BY <1>4, <2>1
  <2>2. CASE blocked /\ ~lift
    BY <1>1, <2>2
  <2>3. CASE ~blocked
    <3>1. over' = over /\ row = RowOf(uuid)
      BY <1>1, <1>4, <2>3
    <3>2. CASE meta[uuid] = NoMeta
      <4>1. RowOf(uuid).limited = FALSE
        BY <3>2 DEF RowOf
      <4>2. QED
        BY <3>1, <4>1
    <3>3. CASE meta[uuid] # NoMeta
      BY <1>3, <2>3, <3>1, <3>3 DEF Blocked
    <3>4. QED
      BY <3>2, <3>3
  <2>4. QED
    BY <2>1, <2>2, <2>3
<1> DEFINE m == Enabled(row)
<1>6. m \in Meta /\ m.protocols = row.protocols /\ m.limited = row.limited /\ ~m.disabled
  <2> HIDE DEF row
  <2> QED BY <1>4, EnabledType
<1>7. Write(Synced(clients, uuid, email, row.protocols)) /\ SetMeta(uuid, m)
  BY <1>1
<1>8. QED
  <2> HIDE DEF m, row
  <2>1. ~(m.limited /\ email \in over')
    BY <1>5, <1>6
  <2>2. Write(Synced(clients, uuid, email, m.protocols)) /\ Primary \in m.protocols
    BY <1>3, <1>4, <1>6, <1>7
  <2>3. QED
    BY <1>2, <1>6, <1>7, <2>1, <2>2, RestoreStep DEF Enable

LEMMA RotateKeeps ==
  ASSUME TypeOK, OneUuid(clients), Kept, NEW email \in Names, Rotate(email)
  PROVE  Kept' /\ NoneRestoredBlocked
<1>1. PICK c \in Of(email), uuid \in Fresh :
        /\ Write(Renewed(email, uuid))
        /\ meta' = [meta EXCEPT ![uuid] = meta[c.uuid], ![c.uuid] = NoMeta]
        /\ home' = [home EXCEPT ![uuid] = email]
  BY DEF Rotate, Renewed
<1>2. c \in clients /\ c.email = email
  BY DEF Of
<1>3. /\ uuid \in Uuids /\ home[uuid] = NoMeta /\ meta[uuid] = NoMeta
      /\ \A d \in clients \cup backup : d.uuid # uuid
  BY DEF Fresh, Known, Kept
<1>4. c.uuid \in Uuids /\ c.uuid # uuid
  BY <1>2, <1>3, ListedUuid
<1>5. /\ meta'[uuid] = meta[c.uuid] /\ meta'[c.uuid] = NoMeta
      /\ \A other \in Uuids \ {uuid, c.uuid} : meta'[other] = meta[other]
  BY <1>1, <1>3, <1>4 DEF TypeOK
<1>6. /\ home'[uuid] # NoMeta
      /\ \A other \in Uuids \ {uuid} : home'[other] = home[other]
  BY <1>1, <1>3, KeyConstants DEF TypeOK
<1>7. ASSUME NEW d \in Renewed(email, uuid)
      PROVE  \/ d \in clients /\ d.email # email
             \/ d.uuid = uuid /\ d.email = email
  <2>1. PICK d0 \in clients : d = IF d0.email = email THEN [d0 EXCEPT !.uuid = uuid] ELSE d0
    BY <1>7 DEF Renewed
  <2>2. d0 \in Client
    BY DEF TypeOK
  <2>3. QED
    BY <1>3, <2>1, <2>2, RenewedAre
<1>8. OneEmail(Renewed(email, uuid) \cup clients)
  <2>1. \A d, e \in clients : d.uuid = e.uuid => d.email = e.email
    BY DEF Kept, OneEmailPerUuid
  <2>2. QED
    BY <1>3, <1>7, <2>1 DEF OneEmail
<1>9. /\ OneEmailPerUuid' /\ clients' = Renewed(email, uuid)
      /\ backup' \subseteq clients \cup backup
  BY <1>1, <1>8, WriteKeeps DEF Kept
<1>10. DisabledIsOut'
  <2> SUFFICES ASSUME NEW u \in Uuids, meta'[u] # NoMeta, meta'[u].disabled, NEW d \in clients'
               PROVE  d.uuid # u
    BY DEF DisabledIsOut
  <2>1. u # uuid /\ u # c.uuid
    BY <1>2, <1>5, ListedUuid
  <2>2. meta[u] # NoMeta /\ meta[u].disabled
    BY <1>5, <2>1
  <2>3. QED
    BY <1>7, <1>9, <2>1, <2>2 DEF DisabledIsOut, Kept
<1>11. Known'
  <2>1. ASSUME NEW d \in clients' \cup backup' PROVE home'[d.uuid] # NoMeta
    <3>1. d \in clients \cup backup \/ d.uuid = uuid
      BY <1>7, <1>9
    <3>2. CASE d \in clients \cup backup
      <4>1. home[d.uuid] # NoMeta /\ d.uuid \in Uuids /\ d.uuid # uuid
        BY <1>3, <3>2, ClientType DEF TypeOK, Known, Kept
      <4>2. QED
        BY <1>6, <4>1
    <3>3. QED
      BY <1>6, <3>1, <3>2
  <2>2. ASSUME NEW u \in Uuids, meta'[u] # NoMeta PROVE home'[u] # NoMeta
    BY <1>5, <1>6, <2>2 DEF Known, Kept
  <2>3. QED
    BY <2>1, <2>2 DEF Known
<1>12. PrimaryListed'
  <2>1. ASSUME NEW d \in clients' PROVE First(d) \in clients'
    <3>1. PICK d0 \in clients : d = IF d0.email = email THEN [d0 EXCEPT !.uuid = uuid] ELSE d0
      BY <1>9 DEF Renewed
    <3>2. First(d0) \in clients /\ First(d0) \in Client /\ d0 \in Client
      BY InFirstIs DEF InFirst, Kept, TypeOK
    <3>3. First(d0).email = d0.email
      BY DEF First
    <3>4. CASE d0.email = email
      <4>1. First(d) = [First(d0) EXCEPT !.uuid = uuid]
        BY <3>1, <3>2, <3>4 DEF First, Client
      <4>2. QED
        BY <1>9, <3>2, <3>3, <3>4, <4>1 DEF Renewed
    <3>5. CASE d0.email # email
      BY <1>9, <3>1, <3>2, <3>3, <3>5 DEF Renewed
    <3>6. QED
      BY <3>4, <3>5
  <2>2. ASSUME NEW u \in Uuids, meta'[u] # NoMeta PROVE Primary \in meta'[u].protocols
    BY <1>4, <1>5, <2>2 DEF PrimaryListed, Kept
  <2>3. QED
    BY <2>1, <2>2 DEF PrimaryListed, First
<1>13. NoneRestoredBlocked
  BY <1>3, <1>5 DEF NoneRestoredBlocked
<1>14. QED
  BY <1>9, <1>10, <1>11, <1>12, <1>13 DEF Kept

\* A row edited with the config left alone, or synced with the row's new protocols.
LEMMA RowStep ==
  ASSUME TypeOK, Kept, NEW uuid \in Uuids, NEW m \in Meta, SetMeta(uuid, m),
         home[uuid] # NoMeta, m.disabled = RowOf(uuid).disabled, Primary \in m.protocols,
         UNCHANGED <<clients, backup, home>>
  PROVE  Kept' /\ NoneRestoredBlocked
<1>1. meta'[uuid] = m /\ \A other \in Uuids \ {uuid} : meta'[other] = meta[other]
  BY SetMetaType DEF TypeOK
<1>2. m.disabled => meta[uuid] # NoMeta /\ meta[uuid].disabled
  BY RowOfType DEF TypeOK, RowOf
<1>3. DisabledIsOut'
  BY <1>1, <1>2 DEF DisabledIsOut, Kept
<1>4. OneEmailPerUuid' /\ Known' /\ PrimaryListed'
  BY <1>1 DEF OneEmailPerUuid, Known, PrimaryListed, Kept
<1>5. NoneRestoredBlocked
  <2>1. meta[uuid] # NoMeta => m.disabled = meta[uuid].disabled
    BY RowOfType DEF TypeOK
  <2>2. QED
    BY <1>1, <2>1 DEF NoneRestoredBlocked
<1>6. QED
  BY <1>3, <1>4, <1>5 DEF Kept

LEMMA EditKeeps ==
  ASSUME TypeOK, Kept, NEW uuid \in Uuids, NEW name \in Emails, NEW limited \in BOOLEAN,
         Edit(uuid, name, limited)
  PROVE  Kept' /\ NoneRestoredBlocked
<1> DEFINE m == [RowOf(uuid) EXCEPT !.name = name, !.limited = limited]
<1>1. RowOf(uuid) \in Meta /\ Primary \in RowOf(uuid).protocols
  BY RowOfType DEF TypeOK, PrimaryListed, Kept
<1>2. m \in Meta /\ m.protocols = RowOf(uuid).protocols /\ m.disabled = RowOf(uuid).disabled
  BY <1>1, EditedType
<1>3. SetMeta(uuid, m)
  BY DEF Edit
<1>4. QED
  <2> HIDE DEF m
  <2> QED BY <1>1, <1>2, <1>3, RowStep DEF Edit

LEMMA EditProtocolsKeeps ==
  ASSUME TypeOK, Kept, ProfilesListPrimary,
         NEW uuid \in Uuids, NEW bundle \in Bundles, EditProtocols(uuid, bundle)
  PROVE  Kept' /\ NoneRestoredBlocked
<1> DEFINE m == [RowOf(uuid) EXCEPT !.protocols = bundle]
           listed == {c.email : c \in {d \in clients : d.uuid = uuid}}
           wanted == IF RowOf(uuid).disabled THEN {} ELSE bundle
<1>1. RowOf(uuid) \in Meta /\ home[uuid] # NoMeta /\ bundle \in SUBSET Inbounds
  BY KeyConstants, RowOfType DEF EditProtocols, TypeOK
<1>2. m \in Meta /\ m.protocols = bundle /\ m.disabled = RowOf(uuid).disabled
  BY <1>1, ReassignedType
<1>3. SetMeta(uuid, m) /\ Primary \in bundle /\ UNCHANGED home
  BY DEF EditProtocols, ProfilesListPrimary
<1>4. CASE listed = {}
  <2>1. UNCHANGED <<clients, backup>>
    BY <1>4 DEF EditProtocols
  <2> HIDE DEF m, listed
  <2>2. QED
    BY <1>1, <1>2, <1>3, <2>1, RowStep
<1>5. CASE listed # {}
  <2>1. PICK email \in listed : Write(Synced(clients, uuid, email, wanted))
    BY <1>5 DEF EditProtocols
  <2>2. PICK c \in clients : c.uuid = uuid /\ c.email = email
    OBVIOUS
  <2>3. /\ home[uuid] # NoMeta /\ Only(uuid, email) /\ ~RowOf(uuid).disabled
        /\ meta[uuid] # NoMeta => ~meta[uuid].disabled
    BY <1>1, <2>2, ListedUuid, RowOfType DEF TypeOK, RowOf
  <2>4. wanted = m.protocols /\ ~m.disabled
    BY <1>2, <2>3
  <2>5. QED
    <3> DEFINE new == Synced(clients, uuid, email, bundle)
    <3>1. /\ OneEmail(new \cup clients) /\ InFirst(new)
          /\ \A d \in new : d \in clients \/ (d.uuid = uuid /\ d.email = email)
      BY <1>3, <2>3, SyncedKeeps, InFirstIs DEF Kept
    <3>2. Write(new)
      BY <2>1, <2>3
    <3> HIDE DEF m, listed, wanted, new
    <3>3. OneEmailPerUuid' /\ clients' = new /\ backup' \subseteq clients \cup backup
      BY <3>1, <3>2, WriteKeeps DEF Kept
    <3>4. meta'[uuid] = m /\ \A other \in Uuids \ {uuid} : meta'[other] = meta[other]
      BY <1>2, <1>3, SetMetaType DEF TypeOK
    <3>5. DisabledIsOut'
      BY <2>4, <3>1, <3>3, <3>4 DEF DisabledIsOut, Kept
    <3>6. Known'
      BY <1>3, <2>3, <3>1, <3>3, <3>4 DEF Known, Kept
    <3>7. PrimaryListed'
      <4>1. \A d \in clients' : First(d) \in clients'
        BY <3>1, <3>3 DEF InFirst
      <4>2. \A u \in Uuids : meta'[u] # NoMeta => Primary \in meta'[u].protocols
        BY <1>2, <1>3, <3>4 DEF PrimaryListed, Kept
      <4>3. QED
        BY <4>1, <4>2 DEF PrimaryListed, First
    <3>8. NoneRestoredBlocked
      BY <2>3, <3>4 DEF NoneRestoredBlocked
    <3>9. QED
      BY <3>3, <3>5, <3>6, <3>7, <3>8 DEF Kept
<1>6. QED
  BY <1>4, <1>5

LEMMA OutsideKeeps ==
  ASSUME TypeOK, Kept,
         RewriteRoutes \/ NewMonth \/ (\E email \in Names : Exceed(email)) \/ UNCHANGED vars
  PROVE  Kept' /\ NoneRestoredBlocked
<1>1. /\ clients' = clients /\ meta' = meta /\ home' = home
      /\ backup' \subseteq clients \cup backup
  BY DEF RewriteRoutes, NewMonth, Exceed, vars
<1>2. QED
  BY <1>1 DEF Kept, DisabledIsOut, OneEmailPerUuid, Known, PrimaryListed, NoneRestoredBlocked

\* The email a row is acted under is the only one its uuid is listed under: the first
\* inbound lists every key, so a key it does not list is nowhere.
LEMMA ResolvedEmailOnly ==
  ASSUME TypeOK, Kept, NEW uuid \in Uuids, NEW email \in ResolvedEmails(uuid)
  PROVE  Only(uuid, email)
<1> DEFINE emails == {c.email : c \in {d \in Listed : d.uuid = uuid}}
<1>1. CASE emails # {}
  <2>1. PICK c \in clients : c.uuid = uuid /\ c.email = email
    BY <1>1 DEF ResolvedEmails, Listed
  <2>2. QED
    BY <2>1 DEF Kept, OneEmailPerUuid, Only
<1>2. CASE emails = {}
  <2>1. ASSUME NEW c \in clients, c.uuid = uuid PROVE FALSE
    <3>1. First(c) \in Listed /\ First(c).uuid = uuid
      BY <2>1, InFirstIs DEF InFirst, First, Listed, Kept
    <3>2. QED
      BY <1>2, <3>1
  <2>2. QED
    BY <2>1 DEF Only
<1>3. QED
  BY <1>1, <1>2

LEMMA ActKeeps ==
  ASSUME TypeOK, Kept, NEW row \in Row, NEW live, Act(row, live), UNCHANGED <<over, home>>
  PROVE  Kept' /\ NoneRestoredBlocked
<1> DEFINE uuid == row.uuid
<1>1. /\ uuid \in Uuids /\ meta[uuid] # NoMeta /\ meta[uuid] \in Meta
      /\ home[uuid] # NoMeta /\ Primary \in meta[uuid].protocols
  BY DEF Row, Act, TypeOK, Known, PrimaryListed, Kept
<1>2. PICK email \in ResolvedEmails(uuid) :
       \/ /\ MustDisable(row, live, email)
          /\ Write(Without(email))
          /\ SetMeta(uuid, Disabled(meta[uuid], "limit"))
       \/ /\ MustRestore(row, email)
          /\ Write(Synced(clients, uuid, email, meta[uuid].protocols))
          /\ SetMeta(uuid, Enabled(meta[uuid]))
  BY DEF Act
<1>3. Only(uuid, email)
  BY <1>1, ResolvedEmailOnly
<1>4. CASE Write(Without(email)) /\ SetMeta(uuid, Disabled(meta[uuid], "limit"))
  <2> DEFINE m == Disabled(meta[uuid], "limit")
  <2>1. m \in Meta /\ m.disabled /\ m.protocols = meta[uuid].protocols
    BY <1>1, DisabledType
  <2>2. SetMeta(uuid, m)
    BY <1>4
  <2> HIDE DEF m, uuid
  <2>3. QED
    BY <1>1, <1>3, <1>4, <2>1, <2>2, RemoveStep
<1>5. CASE /\ MustRestore(row, email)
           /\ Write(Synced(clients, uuid, email, meta[uuid].protocols))
           /\ SetMeta(uuid, Enabled(meta[uuid]))
  <2> DEFINE m == Enabled(meta[uuid])
  <2>1. /\ m \in Meta /\ ~m.disabled /\ m.protocols = meta[uuid].protocols
        /\ m.limited = meta[uuid].limited
    BY <1>1, EnabledType
  <2>2. SetMeta(uuid, m) /\ Write(Synced(clients, uuid, email, m.protocols))
    BY <1>5, <2>1
  <2>3. ~(m.limited /\ email \in over')
    BY <1>1, <1>5, <2>1 DEF MustRestore, Blocked
  <2> HIDE DEF m, uuid
  <2>4. QED
    BY <1>1, <1>3, <2>1, <2>2, <2>3, RestoreStep
<1>6. QED
  BY <1>2, <1>4, <1>5

LEMMA RunKeeps ==
  ASSUME TypeOK, Kept, NEW run \in Runs, Begin(run) \/ Proceed(run) \/ End(run)
  PROVE  Kept' /\ NoneRestoredBlocked
<1>1. ASSUME NEW rows \in SUBSET Row, NEW live, Advance(run, rows, live)
      PROVE  Kept' /\ NoneRestoredBlocked
  BY <1>1, ActKeeps DEF Advance
<1>2. CASE Begin(run)
  BY <1>1, <1>2, SnapshotType DEF Begin
<1>3. CASE Proceed(run)
  <2>1. runs[run] \in Run
    BY <1>3 DEF Proceed, TypeOK
  <2>2. runs[run].rows \subseteq Row
    BY <2>1 DEF Run
  <2>3. QED
    BY <1>1, <1>3, <2>2 DEF Proceed
<1>4. CASE End(run)
  BY <1>4 DEF End, Kept, DisabledIsOut, OneEmailPerUuid, Known, PrimaryListed,
     NoneRestoredBlocked
<1>5. QED
  BY <1>2, <1>3, <1>4

Invariant == TypeOK /\ OneUuid(clients) /\ Kept /\ ProfilesListPrimary

LEMMA KeptStep == Invariant /\ [Next]_vars => Kept' /\ NoneRestoredBlocked
<1> SUFFICES ASSUME Invariant, [Next]_vars PROVE Kept' /\ NoneRestoredBlocked
  OBVIOUS
<1> USE DEF Invariant
<1>1. CASE Operation
  BY <1>1, AddKeeps, DeleteKeeps, RotateKeeps, DisableKeeps, EnableKeeps, EditKeeps,
     EditProtocolsKeeps, OutsideKeeps DEF Operation
<1>2. CASE Enforcement
  BY <1>2, RunKeeps DEF Enforcement
<1>3. CASE UNCHANGED vars
  BY <1>3, OutsideKeeps
<1>4. QED
  BY <1>1, <1>2, <1>3 DEF Next

LEMMA InvariantHolds == ProfilesListPrimary /\ Spec => []Invariant
<1>1. Init /\ ProfilesListPrimary => Invariant
  BY DEF Init, Invariant, TypeOK, OneUuid, Kept, DisabledIsOut, OneEmailPerUuid, Known,
     PrimaryListed
<1>2. Invariant /\ [Next]_vars => Invariant'
  BY TypeStep, OneUuidStep, KeptStep DEF Invariant, ProfilesListPrimary
<1>3. QED
  BY <1>1, <1>2, PTL DEF Spec

\* When every profile in use contains the first inbound's protocol, the inductive
\* invariant of keys holds.
THEOREM KeysInvariant == ProfilesListPrimary /\ Spec => []KeyInvariant
<1>1. Invariant => KeyInvariant
  BY DEF Invariant, OneUuid, Kept, KeyInvariant, OneUuidPerEmail
<1>2. QED
  BY <1>1, InvariantHolds, PTL

\* Under the same condition, a disabled key is in no inbound, whatever handlers and
\* enforcement runs do in between.
THEOREM DisabledAlwaysOut == ProfilesListPrimary /\ Spec => []DisabledIsOut
<1>1. Invariant => DisabledIsOut
  BY DEF Invariant, Kept
<1>2. QED
  BY <1>1, InvariantHolds, PTL

\* Under the same condition, no step restores a key the limit still blocks.
THEOREM NeverRestoredBlocked == ProfilesListPrimary /\ Spec => RestoredNotBlocked
<1>1. Invariant /\ [Next]_vars => [NoneRestoredBlocked]_vars
  BY KeptStep
<1>2. QED
  BY <1>1, InvariantHolds, PTL DEF Spec, RestoredNotBlocked, NoneRestoredBlocked

----------------------------------------------------------------------------
(***************************************************************************)
(* Enforcement passes over no key.  What of LimitsEnforced is not about    *)
(* fairness: a run finds every key that is served although its limit       *)
(* blocks it, and takes it out when its row's turn comes.                  *)
(***************************************************************************)

\* The rows a run has yet to look at, and the clients that were listed when it began.
RowsOf(run) == IF runs[run] = Idle THEN Snapshot ELSE runs[run].rows
LiveOf(run) == IF runs[run] = Idle THEN Listed ELSE runs[run].live

HasRow(rows, uuid)  == \E row \in rows : row.uuid = uuid
Lists(config, uuid) == \E c \in config : c.uuid = uuid
StillToDo(run, uuid) == runs'[run] # Idle /\ HasRow(runs'[run].rows, uuid)

\* A run that begins has every such key before it.
ServedIsSeen ==
  \A uuid \in Uuids : Served(uuid) => HasRow(Snapshot, uuid) /\ Lists(Listed, uuid)

\* After a step of a run, such a key that was listed when the run began is no longer served,
\* or its row is still to do.
NonePassedOver ==
  \A run \in Runs : Begin(run) \/ Proceed(run) \/ End(run) =>
    \A uuid \in Uuids :
      Served(uuid) /\ HasRow(RowsOf(run), uuid) /\ Lists(LiveOf(run), uuid) =>
        ~Served(uuid)' \/ StillToDo(run, uuid)

\* However a served key is looked up, it is found blocked.
LEMMA ServedIsBlocked ==
  ASSUME TypeOK, Kept, NEW uuid \in Uuids, Served(uuid), NEW email \in ResolvedEmails(uuid)
  PROVE  meta[uuid] # NoMeta /\ Blocked(email, meta[uuid]) /\ Only(uuid, email)
<1>1. PICK c \in clients : c.uuid = uuid /\ Blocked(c.email, meta[uuid])
  BY DEF Served
<1>2. Only(uuid, email)
  BY ResolvedEmailOnly
<1>3. QED
  BY <1>1, <1>2 DEF Only, Blocked

LEMMA ServedSeen ==
  ASSUME TypeOK, Kept
  PROVE  ServedIsSeen
<1> SUFFICES ASSUME NEW uuid \in Uuids, Served(uuid)
             PROVE  HasRow(Snapshot, uuid) /\ Lists(Listed, uuid)
  BY DEF ServedIsSeen
<1>1. PICK c \in clients : c.uuid = uuid /\ Blocked(c.email, meta[uuid])
  BY DEF Served
<1>2. First(c) \in Listed /\ First(c).uuid = uuid
  BY <1>1, InFirstIs DEF InFirst, First, Listed, Kept
<1>3. meta[uuid] # NoMeta /\ meta[uuid].limited
  BY <1>1 DEF Blocked
<1> DEFINE row == [uuid |-> uuid, disabled |-> meta[uuid].disabled, reason |-> meta[uuid].reason]
<1>4. row \in Snapshot /\ row.uuid = uuid
  BY <1>3 DEF Snapshot
<1> HIDE DEF row
<1>5. QED
  BY <1>2, <1>4 DEF HasRow, Lists

LEMMA ServedNotSkipped ==
  ASSUME TypeOK, Kept, NEW row, row.uuid \in Uuids, Served(row.uuid), NEW live,
         Lists(live, row.uuid)
  PROVE  ~Skips(row, live)
<1>1. ASSUME NEW email \in ResolvedEmails(row.uuid)
      PROVE  MustDisable(row, live, email)
  BY <1>1, ServedIsBlocked DEF MustDisable, Lists
<1>2. meta[row.uuid] # NoMeta
  BY DEF Served, Blocked
<1>3. QED
  BY <1>1, <1>2 DEF Skips

\* Acting on the row of a served key takes the key out.
LEMMA ActTakesOut ==
  ASSUME TypeOK, Kept, NEW row, row.uuid \in Uuids, Served(row.uuid), NEW live, Act(row, live)
  PROVE  ~Served(row.uuid)'
<1>1. PICK email \in ResolvedEmails(row.uuid) :
        \/ Write(Without(email))
        \/ MustRestore(row, email)
  BY DEF Act
<1>2. Blocked(email, meta[row.uuid]) /\ Only(row.uuid, email)
  BY <1>1, ServedIsBlocked
<1>3. clients' = clients \ Of(email)
  BY <1>1, <1>2 DEF MustRestore, Write, Without
<1>4. \A c \in clients' : c.uuid # row.uuid
  BY <1>2, <1>3 DEF Only, Of
<1>5. QED
  BY <1>4 DEF Served

LEMMA AdvancePassesNone ==
  ASSUME TypeOK, Kept, NEW run \in Runs, NEW rows \in SUBSET Row, NEW live \in SUBSET Client,
         Advance(run, rows, live),
         NEW uuid \in Uuids, Served(uuid), HasRow(rows, uuid), Lists(live, uuid)
  PROVE  ~Served(uuid)' \/ StillToDo(run, uuid)
<1>0. PICK row \in rows :
        \E skipped \in SUBSET (rows \ {row}) :
          /\ \A s \in skipped : Skips(s, live)
          /\ Act(row, live)
          /\ runs' = [runs EXCEPT ![run] = [rows |-> rows \ (skipped \cup {row}), live |-> live]]
  BY DEF Advance
<1>1. PICK skipped \in SUBSET (rows \ {row}) :
        /\ \A s \in skipped : Skips(s, live)
        /\ Act(row, live)
        /\ runs' = [runs EXCEPT ![run] = [rows |-> rows \ (skipped \cup {row}), live |-> live]]
  BY <1>0
<1>2. PICK own \in rows : own.uuid = uuid
  BY DEF HasRow
<1>3. own \notin skipped
  BY <1>1, <1>2, ServedNotSkipped
<1>4. CASE own = row
  BY <1>1, <1>2, <1>4, ActTakesOut
<1>5. CASE own # row
  <2> DEFINE next == [rows |-> rows \ (skipped \cup {row}), live |-> live]
  <2>1. next \in Run /\ own \in next.rows
    BY <1>2, <1>3, <1>5 DEF Run
  <2>2. next # Idle
    BY <2>1, KeyConstants
  <2>3. runs'[run] = next
    BY <1>1 DEF TypeOK
  <2> HIDE DEF next
  <2>4. QED
    BY <1>2, <2>1, <2>2, <2>3 DEF StillToDo, HasRow
<1>6. QED
  BY <1>4, <1>5

LEMMA RunPassesNone == ASSUME TypeOK, Kept PROVE NonePassedOver
<1> SUFFICES ASSUME NEW run \in Runs, Begin(run) \/ Proceed(run) \/ End(run),
                    NEW uuid \in Uuids, Served(uuid),
                    HasRow(RowsOf(run), uuid), Lists(LiveOf(run), uuid)
             PROVE  ~Served(uuid)' \/ StillToDo(run, uuid)
  BY DEF NonePassedOver
<1>1. CASE Begin(run)
  <2>1. RowsOf(run) \in SUBSET Row /\ LiveOf(run) \in SUBSET Client
    BY <1>1, SnapshotType, ListedType DEF Begin, RowsOf, LiveOf
  <2>2. Advance(run, RowsOf(run), LiveOf(run))
    BY <1>1 DEF Begin, RowsOf, LiveOf
  <2>3. QED
    BY <2>1, <2>2, AdvancePassesNone
<1>2. CASE Proceed(run)
  <2>1. runs[run] \in Run
    BY <1>2 DEF Proceed, TypeOK
  <2>2. RowsOf(run) \in SUBSET Row /\ LiveOf(run) \in SUBSET Client
    BY <1>2, <2>1 DEF Proceed, RowsOf, LiveOf, Run
  <2>3. Advance(run, RowsOf(run), LiveOf(run))
    BY <1>2 DEF Proceed, RowsOf, LiveOf
  <2>4. QED
    BY <2>2, <2>3, AdvancePassesNone
<1>3. CASE End(run)
  <2>1. PICK own \in runs[run].rows : own.uuid = uuid
    BY <1>3 DEF End, RowsOf, HasRow
  <2>2. Skips(own, LiveOf(run))
    BY <1>3, <2>1 DEF End, LiveOf
  <2>3. QED
    BY <2>1, <2>2, ServedNotSkipped
<1>4. QED
  BY <1>1, <1>2, <1>3

\* Under the same condition, enforcement passes over no key its limit blocks (runEnforcement):
\* whoever changes keys meanwhile, and however stale the run's rows are, each step of a run
\* leaves such a key taken out or still to do, and a new run has all of them before it.  A
\* run's rows never grow, so that a key stays served only until some run has come to its row.
THEOREM NoKeyPassedOver ==
  ProfilesListPrimary /\ Spec => []ServedIsSeen /\ [][NonePassedOver]_vars
<1>1. Invariant => ServedIsSeen
  BY ServedSeen DEF Invariant
<1>2. Invariant /\ [Next]_vars => [NonePassedOver]_vars
  BY RunPassesNone DEF Invariant
<1>3. QED
  BY <1>1, <1>2, InvariantHolds, PTL DEF Spec

=============================================================================
