-------------------------- MODULE XrayConfigProofs --------------------------
(***************************************************************************)
(* Theorems about XrayConfig, for any keys, protocols, inbounds, pages and *)
(* restarts.                                                               *)
(***************************************************************************)
EXTENDS XrayConfig, SequenceTheorems, TLAPS

\* Every config.json there is, in its file, its backup or a copy.
WellFormed(cfg) ==
  /\ cfg \in Config
  /\ \A i, j \in DOMAIN cfg : cfg[i].tag = cfg[j].tag => i = j
  /\ \E i \in DOMAIN cfg : cfg[i] = System

ConfigsOK ==
  /\ WellFormed(config)
  /\ backup = None \/ WellFormed(backup)
  /\ copied = None \/ WellFormed(copied)
  /\ safe = None \/ WellFormed(safe)

\* An inbound with other clients.
Relist(b, c) == [b EXCEPT !.clients = c]

\* Whom a sync makes an inbound list.
Listed(b, e, kinds) == IF b.kind \in kinds THEN b.clients \cup {e} ELSE b.clients \ {e}

EditsOK == edits \in [Browsers -> Edit \cup {None}]

----------------------------------------------------------------------------
(* Inbounds and configs. *)

LEMMA SystemApart ==
  /\ System \notin Inbound
  /\ \A b \in Inbound : b.tag # "api" /\ b.tag \in Tags /\ b.kind \in Kinds /\ b.clients \subseteq Emails
  /\ System.tag = "api" /\ System.kind = "api" /\ System.clients = {} /\ System.kind \notin Kinds
  BY XrayConstants DEF System, Inbound

LEMMA ConfigShape ==
  ASSUME NEW cfg \in Config
  PROVE  /\ cfg \in Seq(Inbound \cup {System}) /\ Len(cfg) \in 0 .. MaxInbounds
         /\ DOMAIN cfg = 1 .. Len(cfg)
         /\ \A i \in DOMAIN cfg : cfg[i] \in Inbound \cup {System}
<1>1. PICK n \in 0 .. MaxInbounds : cfg \in [1 .. n -> Inbound \cup {System}]
  BY DEF Config
<1>2. QED
  BY <1>1, XrayConstants

LEMMA ShapeConfig ==
  ASSUME NEW n \in 0 .. MaxInbounds, NEW cfg \in [1 .. n -> Inbound \cup {System}]
  PROVE  cfg \in Config
  BY DEF Config

LEMMA Bound == MaxInbounds \in Nat
  BY XrayConstants

LEMMA SeqConfig ==
  ASSUME NEW cfg \in Seq(Inbound \cup {System}), Len(cfg) <= MaxInbounds
  PROVE  cfg \in Config
<1>1. Len(cfg) \in 0 .. MaxInbounds /\ cfg \in [1 .. Len(cfg) -> Inbound \cup {System}]
  BY Bound
<1>2. QED
  BY <1>1, ShapeConfig

\* Who an inbound lists.
LEMMA ClientsOnly ==
  ASSUME NEW b \in Inbound \cup {System}, NEW c \in SUBSET Emails, b = System => c = {},
         NEW new, new = Relist(b, c)
  PROVE  /\ new \in Inbound \cup {System} /\ new.tag = b.tag /\ new.kind = b.kind
         /\ new.clients = c /\ Relist(new, {}) = Relist(b, {})
         /\ (new = System) <=> (b = System)
<1>1. CASE b = System
  BY <1>1 DEF System, Relist
<1>2. CASE b \in Inbound
  <2>1. new \in Inbound
    BY <1>2 DEF Inbound, Relist
  <2>2. new.tag = b.tag /\ new.kind = b.kind /\ new.clients = c
    BY <1>2 DEF Inbound, Relist
  <2>3. Relist(new, {}) = Relist(b, {})
    BY <1>2 DEF Inbound, Relist
  <2>4. new # System /\ b # System
    BY <1>2, <2>1, SystemApart
  <2>5. QED
    BY <2>1, <2>2, <2>3, <2>4
<1>3. QED
  <2>1. b = System \/ b \in Inbound
    OBVIOUS
  <2>2. QED
    BY <2>1, <1>1, <1>2

\* A config in which other keys are listed is still one.
LEMMA Relisted ==
  ASSUME NEW cfg, WellFormed(cfg),
         NEW new \in [DOMAIN cfg -> Inbound \cup {System}],
         \A i \in DOMAIN cfg :
           \E c \in SUBSET Emails : /\ cfg[i] = System => c = {}
                                    /\ new[i] = Relist(cfg[i], c)
  PROVE  WellFormed(new) /\ Shape(new) = Shape(cfg)
<1>1. cfg \in Config
  BY DEF WellFormed
<1>2. \A i \in DOMAIN cfg :
        /\ new[i] \in Inbound \cup {System} /\ new[i].tag = cfg[i].tag
        /\ Relist(new[i], {}) = Relist(cfg[i], {})
        /\ (new[i] = System) <=> (cfg[i] = System)
  <2> TAKE i \in DOMAIN cfg
  <2>1. cfg[i] \in Inbound \cup {System}
    BY <1>1, ConfigShape
  <2>2. PICK c \in SUBSET Emails : /\ cfg[i] = System => c = {}
                                   /\ new[i] = Relist(cfg[i], c)
    OBVIOUS
  <2>3. QED
    BY <2>1, <2>2, ClientsOnly
<1>3. new \in Config
  <2>1. Len(cfg) \in 0 .. MaxInbounds /\ DOMAIN cfg = 1 .. Len(cfg)
    BY <1>1, ConfigShape
  <2>2. new \in [1 .. Len(cfg) -> Inbound \cup {System}]
    BY <2>1, <1>2
  <2>3. QED
    BY <2>1, <2>2, ShapeConfig
<1>4. Shape(new) = Shape(cfg)
  BY <1>2 DEF Shape, Relist
<1>5. \A i, j \in DOMAIN new : new[i].tag = new[j].tag => i = j
  BY <1>2 DEF WellFormed
<1>6. \E i \in DOMAIN new : new[i] = System
  BY <1>2 DEF WellFormed
<1>7. QED
  BY <1>3, <1>4, <1>5, <1>6 DEF WellFormed

\* What a sync makes of a config.
LEMMA SyncedOK ==
  ASSUME NEW cfg, WellFormed(cfg), NEW e \in Emails, NEW kinds \in SUBSET Kinds,
         NEW new, new = Synced(cfg, e, kinds)
  PROVE  /\ WellFormed(new) /\ DOMAIN new = DOMAIN cfg /\ Shape(new) = Shape(cfg)
         /\ \A i \in DOMAIN cfg : new[i].clients = Listed(cfg[i], e, kinds)
<1>1. \A i \in DOMAIN cfg : cfg[i] \in Inbound \cup {System}
  BY ConfigShape DEF WellFormed
<1>2. ASSUME NEW i \in DOMAIN cfg
      PROVE  /\ Listed(cfg[i], e, kinds) \in SUBSET Emails
             /\ cfg[i] = System => Listed(cfg[i], e, kinds) = {}
             /\ new[i] = Relist(cfg[i], Listed(cfg[i], e, kinds))
             /\ new[i] \in Inbound \cup {System}
             /\ new[i].clients = Listed(cfg[i], e, kinds)
  <2>1. new[i] = Relist(cfg[i], Listed(cfg[i], e, kinds))
    BY DEF Synced, Relist, Listed
  <2>2. Listed(cfg[i], e, kinds) \in SUBSET Emails /\ (cfg[i] = System => Listed(cfg[i], e, kinds) = {})
    BY <1>1, SystemApart DEF Listed
  <2>3. QED
    BY <1>1, <2>1, <2>2, ClientsOnly
<1>3. DOMAIN new = DOMAIN cfg /\ new \in [DOMAIN cfg -> Inbound \cup {System}]
  <2>1. new \in [DOMAIN cfg -> {new[i] : i \in DOMAIN cfg}]
    BY DEF Synced
  <2>2. QED
    BY <1>2, <2>1
<1>4. WellFormed(new) /\ Shape(new) = Shape(cfg)
  BY <1>2, <1>3, Relisted
<1>5. QED
  BY <1>2, <1>3, <1>4

LEMMA Unrelisted ==
  ASSUME NEW b \in Inbound \cup {System}
  PROVE  /\ b = Relist(b, b.clients) /\ b.clients \in SUBSET Emails
         /\ b = System => b.clients = {}
<1>1. b = Relist(b, b.clients)
  BY DEF Inbound, System, Relist
<1>2. QED
  BY <1>1, SystemApart

LEMMA Appended ==
  ASSUME NEW cfg, WellFormed(cfg), NEW b \in Inbound, ~TagTaken(cfg, b.tag, {}),
         Len(cfg) < MaxInbounds,
         NEW new, new = Append(cfg, b)
  PROVE  WellFormed(new)
<1>1. cfg \in Seq(Inbound \cup {System}) /\ Len(cfg) \in 0 .. MaxInbounds /\ DOMAIN cfg = 1 .. Len(cfg)
  BY ConfigShape DEF WellFormed
<1>2. /\ new \in Seq(Inbound \cup {System}) /\ Len(new) = Len(cfg) + 1
      /\ DOMAIN new = 1 .. Len(cfg) + 1
      /\ \A i \in 1 .. Len(cfg) : new[i] = cfg[i]
      /\ new[Len(cfg) + 1] = b
  BY <1>1, AppendProperties
<1>3. new \in Config
  <2>1. Len(new) <= MaxInbounds
    BY <1>1, <1>2, Bound
  <2>2. QED
    BY <1>2, <2>1, SeqConfig
<1>4. \A i \in DOMAIN cfg : cfg[i].tag # b.tag
  BY DEF TagTaken
<1>5. \A i, j \in DOMAIN new : new[i].tag = new[j].tag => i = j
  BY <1>1, <1>2, <1>4 DEF WellFormed
<1>6. \E i \in DOMAIN new : new[i] = System
  BY <1>1, <1>2 DEF WellFormed
<1>7. QED
  BY <1>3, <1>5, <1>6 DEF WellFormed

LEMMA Replaced ==
  ASSUME NEW cfg, WellFormed(cfg), NEW k \in DOMAIN cfg, cfg[k] # System,
         NEW b \in Inbound, ~TagTaken(cfg, b.tag, {k})
  PROVE  WellFormed([cfg EXCEPT ![k] = b])
<1>1. cfg \in [1 .. Len(cfg) -> Inbound \cup {System}] /\ Len(cfg) \in 0 .. MaxInbounds
  BY ConfigShape DEF WellFormed
<1>2. [cfg EXCEPT ![k] = b] \in Config
  BY <1>1, ShapeConfig
<1>3. \A i \in DOMAIN cfg \ {k} : cfg[i].tag # b.tag
  BY DEF TagTaken
<1>4. QED
  BY <1>1, <1>2, <1>3 DEF WellFormed

LEMMA Removed ==
  ASSUME NEW cfg, WellFormed(cfg), NEW k \in DOMAIN cfg, cfg[k] # System,
         NEW new, new = RemoveAt(cfg, k)
  PROVE  WellFormed(new)
<1>1. cfg \in Seq(Inbound \cup {System}) /\ Len(cfg) \in 1 .. MaxInbounds /\ k \in 1 .. Len(cfg)
        /\ DOMAIN cfg = 1 .. Len(cfg)
  BY ConfigShape DEF WellFormed
<1> DEFINE l == SubSeq(cfg, 1, k - 1)
           r == SubSeq(cfg, k + 1, Len(cfg))
<1>2. /\ l \in Seq(Inbound \cup {System}) /\ Len(l) = k - 1
      /\ \A i \in 1 .. k - 1 : l[i] = cfg[i]
  <2>1. \A i \in 1 .. k - 1 : i \in 1 .. Len(cfg)
    BY <1>1
  <2>2. QED
    BY <1>1, <2>1, SubSeqProperties
<1>3. /\ r \in Seq(Inbound \cup {System}) /\ Len(r) = Len(cfg) - k
      /\ \A i \in 1 .. Len(cfg) - k : r[i] = cfg[k + i]
  BY <1>1, SubSeqProperties
<1>4. new = l \o r
  BY DEF RemoveAt
<1> HIDE DEF l, r
<1>5. /\ new \in Seq(Inbound \cup {System}) /\ Len(new) = Len(cfg) - 1
      /\ \A i \in 1 .. Len(cfg) - 1 : new[i] = IF i < k THEN cfg[i] ELSE cfg[i + 1]
  <2>1. /\ new \in Seq(Inbound \cup {System}) /\ Len(new) = Len(l) + Len(r)
        /\ \A i \in 1 .. Len(l) + Len(r) : new[i] = IF i <= Len(l) THEN l[i] ELSE r[i - Len(l)]
    BY <1>2, <1>3, <1>4, ConcatProperties
  <2>2. ASSUME NEW i \in 1 .. Len(cfg) - 1
        PROVE  new[i] = IF i < k THEN cfg[i] ELSE cfg[i + 1]
    <3>1. CASE i < k
      <4>1. i \in 1 .. k - 1 /\ i <= Len(l)
        BY <1>1, <1>2, <3>1
      <4>2. QED
        BY <1>1, <1>2, <1>3, <2>1, <3>1, <4>1
    <3>2. CASE ~(i < k)
      <4>1. i - (k - 1) \in 1 .. Len(cfg) - k /\ k + (i - (k - 1)) = i + 1 /\ ~(i <= Len(l))
        BY <1>1, <1>2, <3>2
      <4>2. r[i - (k - 1)] = cfg[i + 1]
        BY <1>3, <4>1
      <4>3. new[i] = r[i - (k - 1)]
        BY <1>1, <1>2, <1>3, <2>1, <4>1
      <4>4. QED
        BY <3>2, <4>2, <4>3
    <3>3. QED
      BY <3>1, <3>2
  <2>3. QED
    BY <1>1, <1>2, <1>3, <2>1, <2>2
<1>6. new \in Config
  BY <1>1, <1>5, SeqConfig, Bound
<1>7. DOMAIN new = 1 .. Len(cfg) - 1
  BY <1>1, <1>5
<1>8. \A i, j \in DOMAIN new : new[i].tag = new[j].tag => i = j
  <2> DEFINE at(i) == IF i < k THEN i ELSE i + 1
  <2>1. \A i \in DOMAIN new : at(i) \in DOMAIN cfg /\ new[i] = cfg[at(i)]
    BY <1>1, <1>5, <1>7
  <2>2. \A i, j \in DOMAIN new : at(i) = at(j) => i = j
    BY <1>1, <1>7
  <2> HIDE DEF at
  <2>3. QED
    BY <2>1, <2>2 DEF WellFormed
<1>9. PICK s \in DOMAIN cfg : cfg[s] = System
  BY DEF WellFormed
<1>10. \E i \in DOMAIN new : new[i] = System
  <2>1. CASE s < k
    <3>1. s \in DOMAIN new /\ new[s] = System
      BY <1>1, <1>5, <1>7, <1>9, <2>1
    <3>2. QED
      BY <3>1
  <2>2. CASE ~(s < k)
    <3>1. s # k
      BY <1>9
    <3>2. s - 1 \in DOMAIN new /\ ~(s - 1 < k) /\ (s - 1) + 1 = s
      BY <1>1, <1>7, <1>9, <2>2, <3>1
    <3>3. QED
      BY <1>5, <1>7, <1>9, <3>2
  <2>3. QED
    BY <2>1, <2>2
<1>11. QED
  BY <1>6, <1>8, <1>10 DEF WellFormed

----------------------------------------------------------------------------
(* The system inbound stays. *)

LEMMA InitOK == Init => ConfigsOK /\ EditsOK
<1> SUFFICES ASSUME Init PROVE ConfigsOK /\ EditsOK
  OBVIOUS
<1>1. WellFormed(Initial)
  BY XrayConstants DEF WellFormed
<1>2. QED
  BY <1>1 DEF Init, ConfigsOK, EditsOK

LEMMA EditsStep == ConfigsOK /\ EditsOK /\ [Next]_vars => EditsOK'
<1> SUFFICES ASSUME ConfigsOK, EditsOK, [Next]_vars PROVE EditsOK'
  OBVIOUS
<1>1. /\ DOMAIN config \subseteq 1 .. MaxInbounds /\ 1 \in 1 .. MaxInbounds
      /\ \A i \in DOMAIN config : config[i] # System => config[i] \in Inbound
  BY ConfigShape, Bound DEF ConfigsOK, WellFormed
<1>2. ASSUME NEW b \in Browsers, OpenEdit(b) PROVE EditsOK'
  <2>1. PICK i \in {j \in DOMAIN config : config[j] # System}, verb \in {"update", "delete"},
             kind \in Kinds, good \in BOOLEAN :
          edits' = [edits EXCEPT ![b] = [verb |-> verb, index |-> i,
                     inbound |-> [config[i] EXCEPT !.kind = kind, !.good = good]]]
    BY <1>2 DEF OpenEdit
  <2>2. [config[i] EXCEPT !.kind = kind, !.good = good] \in Inbound
    BY <1>1 DEF Inbound
  <2>3. [verb |-> verb, index |-> i,
         inbound |-> [config[i] EXCEPT !.kind = kind, !.good = good]] \in Edit
    BY <1>1, <2>2 DEF Edit
  <2>4. QED
    BY <2>1, <2>3 DEF EditsOK
<1>3. ASSUME NEW b \in Browsers, OpenCreate(b) PROVE EditsOK'
  <2>1. PICK tag \in Tags, kind \in Kinds, good \in BOOLEAN :
          edits' = [edits EXCEPT ![b] = [verb |-> "create", index |-> 1,
                     inbound |-> [tag |-> tag, kind |-> kind, good |-> good, clients |-> {}]]]
    BY <1>3 DEF OpenCreate
  <2>2. [tag |-> tag, kind |-> kind, good |-> good, clients |-> {}] \in Inbound
    BY DEF Inbound
  <2>3. [verb |-> "create", index |-> 1,
         inbound |-> [tag |-> tag, kind |-> kind, good |-> good, clients |-> {}]] \in Edit
    BY <1>1, <2>2 DEF Edit
  <2>4. QED
    BY <2>1, <2>3 DEF EditsOK
<1>4. ASSUME NEW b \in Browsers, Save(b) PROVE EditsOK'
  BY <1>4 DEF Save, EditsOK
<1>5. ASSUME edits' = edits PROVE EditsOK'
  BY <1>5 DEF EditsOK
<1>6. CASE UNCHANGED vars
  BY <1>6, <1>5 DEF vars
<1>7. QED
  BY <1>2, <1>3, <1>4, <1>5, <1>6
     DEF Next, AddKey, RestoreKey, RemoveKey, EditProtocols, RotateKey, Sync, LoseCall, VpnApiRead,
         VpnApiWrite, TakeRequest, TestConfig, RestartXray, ApplierDies, SafeRestart, SafeRestartEnds

\* What the dashboard's writes of a key make of the config and its backup.
LEMMA Written ==
  ASSUME ConfigsOK, NEW e \in Emails, NEW kinds \in SUBSET Kinds,
         WriteCfgOnly(Synced(config, e, kinds)), UNCHANGED <<copied, safe>>
  PROVE  ConfigsOK' /\ Shape(config') = Shape(config)
  BY SyncedOK DEF WriteCfgOnly, ConfigsOK

\* The two writes of a new key.
LEMMA Pushed ==
  ASSUME NEW cfg, WellFormed(cfg), NEW e \in Emails, cfg # <<>>, cfg[1] # System,
         NEW pushed, pushed = [cfg EXCEPT ![1].clients = @ \cup {e}]
  PROVE  /\ WellFormed(pushed) /\ DOMAIN pushed = DOMAIN cfg /\ Shape(pushed) = Shape(cfg)
         /\ pushed[1].clients = cfg[1].clients \cup {e}
         /\ \A i \in DOMAIN cfg : i # 1 => pushed[i] = cfg[i]
<1>1. /\ \A i \in DOMAIN cfg : cfg[i] \in Inbound \cup {System}
      /\ 1 \in DOMAIN cfg /\ cfg \in [DOMAIN cfg -> Inbound \cup {System}]
  BY ConfigShape DEF WellFormed
<1>2. /\ DOMAIN pushed = DOMAIN cfg /\ pushed \in [DOMAIN cfg -> {pushed[i] : i \in DOMAIN cfg}]
      /\ pushed[1] = Relist(cfg[1], cfg[1].clients \cup {e})
      /\ \A i \in DOMAIN cfg : i # 1 => pushed[i] = cfg[i]
  BY <1>1 DEF Relist
<1>3. /\ cfg[1].clients \cup {e} \in SUBSET Emails
      /\ pushed[1] \in Inbound \cup {System} /\ pushed[1].clients = cfg[1].clients \cup {e}
  <2>1. cfg[1].clients \cup {e} \in SUBSET Emails
    BY <1>1, SystemApart
  <2>2. QED
    BY <1>1, <1>2, <2>1, ClientsOnly
<1>4. pushed \in [DOMAIN cfg -> Inbound \cup {System}]
  BY <1>1, <1>2, <1>3
<1>5. ASSUME NEW i \in DOMAIN cfg
      PROVE  \E c \in SUBSET Emails : /\ cfg[i] = System => c = {}
                                      /\ pushed[i] = Relist(cfg[i], c)
  BY <1>1, <1>2, <1>3, Unrelisted
<1>6. WellFormed(pushed) /\ Shape(pushed) = Shape(cfg)
  BY <1>4, <1>5, Relisted
<1>7. QED
  BY <1>2, <1>3, <1>6

LEMMA KeyAdded ==
  ASSUME ConfigsOK, NEW e \in Emails, AddKey(e)
  PROVE  Shape(config') = Shape(config)
<1>1. PICK pushed : pushed = [config EXCEPT ![1].clients = @ \cup {e}]
  OBVIOUS
<1>2. WellFormed(config) /\ config # <<>> /\ config[1] # System
  BY DEF AddKey, ConfigsOK
<1>3. WellFormed(pushed) /\ Shape(pushed) = Shape(config)
  BY <1>1, <1>2, Pushed
<1>4. PICK kinds \in (SUBSET Kinds) \ {{}} : config' = Synced(pushed, e, kinds)
  BY <1>1 DEF AddKey
<1>5. QED
  BY <1>3, <1>4, SyncedOK

\* The write of the vpn-api.
Turn(c, e) == IF e \in c THEN c \ {e} ELSE c \cup {e}

LEMMA Turned ==
  ASSUME NEW cfg, WellFormed(cfg), NEW e \in Emails, cfg # <<>>, cfg[1] # System,
         NEW new, new = [cfg EXCEPT ![1].clients = IF e \in @ THEN @ \ {e} ELSE @ \cup {e}]
  PROVE  WellFormed(new) /\ Shape(new) = Shape(cfg)
<1>1. /\ \A i \in DOMAIN cfg : cfg[i] \in Inbound \cup {System}
      /\ 1 \in DOMAIN cfg /\ cfg \in [DOMAIN cfg -> Inbound \cup {System}]
  BY ConfigShape DEF WellFormed
<1>2. /\ DOMAIN new = DOMAIN cfg /\ new \in [DOMAIN cfg -> {new[i] : i \in DOMAIN cfg}]
      /\ new[1] = Relist(cfg[1], Turn(cfg[1].clients, e))
      /\ \A i \in DOMAIN cfg : i # 1 => new[i] = cfg[i]
  BY <1>1 DEF Relist, Turn
<1>3. /\ Turn(cfg[1].clients, e) \in SUBSET Emails
      /\ new[1] \in Inbound \cup {System} /\ new[1].clients = Turn(cfg[1].clients, e)
  <2>1. Turn(cfg[1].clients, e) \in SUBSET Emails
    BY <1>1, SystemApart DEF Turn
  <2>2. PICK c \in SUBSET Emails : c = Turn(cfg[1].clients, e)
    BY <2>1
  <2>3. cfg[1] \in Inbound \cup {System} /\ new[1] = Relist(cfg[1], c)
    BY <1>1, <1>2, <2>2
  <2>4. new[1] \in Inbound \cup {System} /\ new[1].clients = c
    <3>1. PICK b \in Inbound \cup {System} : b = cfg[1] /\ b # System
      BY <2>3
    <3>2. PICK n : n = new[1]
      OBVIOUS
    <3>3. n = Relist(b, c)
      BY <2>3, <3>1, <3>2
    <3>4. n \in Inbound \cup {System} /\ n.clients = c
      BY ONLY <3>1, <3>3, c \in SUBSET Emails, ClientsOnly
    <3>5. QED
      BY <3>2, <3>4
  <2>5. QED
    BY <2>1, <2>2, <2>4
<1>4. new \in [DOMAIN cfg -> Inbound \cup {System}]
  BY <1>1, <1>2, <1>3
<1>5. ASSUME NEW i \in DOMAIN cfg
      PROVE  \E c \in SUBSET Emails : /\ cfg[i] = System => c = {}
                                      /\ new[i] = Relist(cfg[i], c)
  BY <1>1, <1>2, <1>3, Unrelisted
<1>6. WellFormed(new) /\ Shape(new) = Shape(cfg)
  BY <1>4, <1>5, Relisted
<1>7. QED
  BY <1>6

LEMMA ConfigsStep == ConfigsOK /\ EditsOK /\ [Next]_vars => ConfigsOK'
<1> SUFFICES ASSUME ConfigsOK, EditsOK, [Next]_vars PROVE ConfigsOK'
  OBVIOUS
<1>1. ASSUME NEW e \in Emails, AddKey(e) PROVE ConfigsOK'
  <2>1. PICK kinds \in (SUBSET Kinds) \ {{}} :
          LET pushed == [config EXCEPT ![1].clients = @ \cup {e}]
              new    == Synced(pushed, e, kinds)
          IN config' = new /\ backup' = IF new = pushed THEN config ELSE pushed
    BY <1>1 DEF AddKey
  <2> DEFINE pushed == [config EXCEPT ![1].clients = @ \cup {e}]
  <2>2. WellFormed(pushed)
    BY <1>1, Pushed DEF AddKey, ConfigsOK
  <2>3. WellFormed(Synced(pushed, e, kinds))
    BY <2>2, SyncedOK
  <2>4. /\ config' = Synced(pushed, e, kinds)
        /\ backup' = IF Synced(pushed, e, kinds) = pushed THEN config ELSE pushed
    BY <2>1
  <2> HIDE DEF pushed
  <2>5. QED
    BY <1>1, <2>2, <2>3, <2>4 DEF AddKey, ConfigsOK
<1>2. ASSUME NEW e \in Emails, RestoreKey(e) PROVE ConfigsOK'
  BY <1>2, Written DEF RestoreKey
<1>3. ASSUME NEW e \in Emails, RemoveKey(e) PROVE ConfigsOK'
  BY <1>3, Written DEF RemoveKey
<1>4. ASSUME NEW e \in Emails, EditProtocols(e) PROVE ConfigsOK'
  BY <1>4, Written DEF EditProtocols
<1>5. ASSUME NEW e \in Emails, RotateKey(e) PROVE ConfigsOK'
  BY <1>5 DEF RotateKey, WriteConfig, WriteCfgOnly, ConfigsOK
<1>6. CASE VpnApiWrite
  <2>1. CASE copied = <<>> \/ copied[1] = System
    BY <1>6, <2>1 DEF VpnApiWrite, ConfigsOK
  <2>2. CASE ~(copied = <<>> \/ copied[1] = System)
    <3>1. WellFormed(copied) /\ copied' = None /\ safe' = safe
      BY <1>6 DEF VpnApiWrite, ConfigsOK
    <3>2. PICK e \in Emails :
            WriteCfgOnly([copied EXCEPT ![1].clients = IF e \in @ THEN @ \ {e} ELSE @ \cup {e}])
      BY <1>6, <2>2 DEF VpnApiWrite
    <3>3. WellFormed(config') /\ backup' = config
      BY <2>2, <3>1, <3>2, Turned DEF WriteCfgOnly
    <3>4. QED
      BY <3>1, <3>3 DEF ConfigsOK
  <2>3. QED
    BY <2>1, <2>2
<1>7. ASSUME NEW b \in Browsers, Save(b) PROVE ConfigsOK'
  <2>1. edits[b] \in Edit /\ edits[b].inbound \in Inbound
    BY <1>7 DEF Save, EditsOK, Edit
  <2>2. WellFormed(config) /\ UNCHANGED <<copied, safe>>
    BY <1>7 DEF Save, ConfigsOK
  <2>3. CASE CreateInbound(edits[b])
    BY <2>1, <2>2, <2>3, Appended DEF CreateInbound, WriteConfig, WriteCfgOnly, ConfigsOK
  <2>4. CASE UpdateInbound(edits[b])
    BY <2>1, <2>2, <2>4, Replaced DEF UpdateInbound, WriteConfig, WriteCfgOnly, ConfigsOK
  <2>5. CASE DeleteInbound(edits[b])
    <3>1. WellFormed(RemoveAt(config, edits[b].index))
      <4>1. edits[b].index \in DOMAIN config /\ config[edits[b].index] # System
        BY <2>1, <2>5, SystemApart DEF DeleteInbound, Edit
      <4>2. QED
        BY <2>2, <4>1, Removed
    <3>2. QED
      BY <2>2, <2>5, <3>1 DEF DeleteInbound, WriteConfig, WriteCfgOnly, ConfigsOK
  <2>6. CASE UNCHANGED <<config, backup>>
    BY <2>2, <2>6 DEF ConfigsOK
  <2>7. QED
    BY <1>7, <2>3, <2>4, <2>5, <2>6 DEF Save
<1>8. CASE VpnApiRead \/ TestConfig \/ SafeRestart \/ SafeRestartEnds
  BY <1>8 DEF VpnApiRead, TestConfig, SafeRestart, SafeRestartEnds, ConfigsOK
<1>9. ASSUME UNCHANGED <<config, backup, copied, safe>> PROVE ConfigsOK'
  BY <1>9 DEF ConfigsOK
<1>10. CASE UNCHANGED vars
  BY <1>9, <1>10 DEF vars
<1>11. QED
  BY <1>1, <1>2, <1>3, <1>4, <1>5, <1>6, <1>7, <1>8, <1>9, <1>10
     DEF Next, Sync, LoseCall, OpenEdit, OpenCreate, TakeRequest, RestartXray, ApplierDies

LEMMA ConfigsKept == Spec => [](ConfigsOK /\ EditsOK)
<1>1. ConfigsOK /\ EditsOK /\ [Next]_vars => (ConfigsOK /\ EditsOK)'
  BY ConfigsStep, EditsStep
<1>2. QED
  BY <1>1, InitOK, PTL DEF Spec

\* However old the list an operator picked a position from, and whatever copy of the config
\* is put back, the inbound through which the vpn-api reaches Xray stays.
THEOREM SystemStays == Spec => []SystemInboundStays
<1>1. ConfigsOK /\ EditsOK => SystemInboundStays
  BY DEF ConfigsOK, WellFormed, SystemInboundStays
<1>2. QED
  BY <1>1, ConfigsKept, PTL

----------------------------------------------------------------------------
(* What the running Xray has. *)

RunningOK == running = None \/ WellFormed(running)

\* A call makes an inbound that is running serve the key if config.json lists it there.
LEMMA Enabled ==
  ASSUME ConfigsOK, RunningOK, Up, NEW e \in Emails, Enable(e)
  PROVE  /\ WellFormed(running') /\ Shape(running') = Shape(running)
         /\ DOMAIN running' = DOMAIN running
         /\ \A i \in DOMAIN running :
              \/ running'[i].clients = running[i].clients
              \/ /\ running'[i].clients = running[i].clients \cup {e}
                 /\ \E j \in Listing(config, e) : config[j].tag = running[i].tag
<1>1. WellFormed(running) /\ WellFormed(config)
  BY DEF RunningOK, ConfigsOK, Up
<1>2. /\ \A i \in DOMAIN running : running[i] \in Inbound \cup {System}
      /\ \A i \in DOMAIN config : config[i] \in Inbound \cup {System}
  BY <1>1, ConfigShape DEF WellFormed
<1> DEFINE In(i) == \E j \in Listing(config, e) : config[j].tag = running[i].tag
<1>3. \A i \in DOMAIN running : In(i) => running[i] \in Inbound
  <2> SUFFICES ASSUME NEW i \in DOMAIN running, NEW j \in Listing(config, e),
                      config[j].tag = running[i].tag
               PROVE  running[i] \in Inbound
    OBVIOUS
  <2>1. config[j] # System
    BY SystemApart DEF Listing
  <2>2. config[j].tag # "api"
    BY <1>2, <2>1, SystemApart DEF Listing
  <2>3. QED
    BY <1>2, <2>2, SystemApart
<1>4. /\ DOMAIN running' = DOMAIN running
      /\ \A i \in DOMAIN running :
           running'[i] = IF In(i) THEN Relist(running[i], running[i].clients \cup {e})
                         ELSE running[i]
      /\ running' \in [DOMAIN running -> {running'[i] : i \in DOMAIN running}]
  BY DEF Enable, Relist
<1> HIDE DEF In
<1>5. ASSUME NEW i \in DOMAIN running
      PROVE  /\ running'[i] \in Inbound \cup {System}
             /\ \E d \in SUBSET Emails : /\ running[i] = System => d = {}
                                         /\ running'[i] = Relist(running[i], d)
             /\ \/ running'[i].clients = running[i].clients
                \/ In(i) /\ running'[i].clients = running[i].clients \cup {e}
  <2>1. CASE In(i)
    <3>1. running'[i] = Relist(running[i], running[i].clients \cup {e}) /\ running[i] # System
      BY <1>3, <1>4, <2>1, SystemApart
    <3>2. running[i].clients \cup {e} \in SUBSET Emails
      BY <1>3, <2>1, SystemApart
    <3>3. QED
      BY <1>2, <2>1, <3>1, <3>2, ClientsOnly
  <2>2. CASE ~In(i)
    <3>1. running'[i] = running[i] /\ running[i].clients \in SUBSET Emails
          /\ (running[i] = System => running[i].clients = {})
      BY <1>2, <1>4, <2>2, SystemApart
    <3>2. running[i] = Relist(running[i], running[i].clients)
      BY <1>2 DEF Inbound, System, Relist
    <3>3. QED
      BY <1>2, <3>1, <3>2
  <2>3. QED
    BY <2>1, <2>2
<1>6. running' \in [DOMAIN running -> Inbound \cup {System}]
  BY <1>4, <1>5
<1>7. WellFormed(running') /\ Shape(running') = Shape(running)
  BY <1>1, <1>5, <1>6, Relisted
<1>8. QED
  BY <1>4, <1>5, <1>7 DEF In

\* A call makes an inbound that is running, and known to config.json, drop the key.
LEMMA Disabled ==
  ASSUME RunningOK, Up, NEW e \in Emails, Disable(e)
  PROVE  /\ WellFormed(running') /\ Shape(running') = Shape(running)
         /\ DOMAIN running' = DOMAIN running
         /\ \A i \in DOMAIN running :
              running'[i].clients =
                IF running[i].tag # "api" /\ \E j \in DOMAIN config : config[j].tag = running[i].tag
                THEN running[i].clients \ {e} ELSE running[i].clients
<1>1. WellFormed(running)
  BY DEF RunningOK, Up
<1>2. \A i \in DOMAIN running : running[i] \in Inbound \cup {System}
  BY <1>1, ConfigShape DEF WellFormed
<1> DEFINE Out(i) == running[i].tag # "api" /\ \E j \in DOMAIN config : config[j].tag = running[i].tag
<1>3. /\ DOMAIN running' = DOMAIN running
      /\ \A i \in DOMAIN running :
           running'[i] = IF Out(i) THEN Relist(running[i], running[i].clients \ {e})
                         ELSE running[i]
      /\ running' \in [DOMAIN running -> {running'[i] : i \in DOMAIN running}]
  BY DEF Disable, Relist
<1> HIDE DEF Out
<1>4. ASSUME NEW i \in DOMAIN running
      PROVE  /\ running'[i] \in Inbound \cup {System}
             /\ \E d \in SUBSET Emails : /\ running[i] = System => d = {}
                                         /\ running'[i] = Relist(running[i], d)
             /\ running'[i].clients =
                  IF Out(i) THEN running[i].clients \ {e} ELSE running[i].clients
  <2>1. /\ running[i].clients \in SUBSET Emails /\ running[i].clients \ {e} \in SUBSET Emails
        /\ (running[i] = System => running[i].clients = {})
    BY <1>2, SystemApart
  <2>2. CASE Out(i)
    <3>1. running'[i] = Relist(running[i], running[i].clients \ {e})
          /\ (running[i] = System => running[i].clients \ {e} = {})
      BY <1>3, <2>1, <2>2
    <3>2. QED
      BY <1>2, <2>1, <2>2, <3>1, ClientsOnly
  <2>3. CASE ~Out(i)
    <3>1. running'[i] = running[i]
      BY <1>3, <2>3
    <3>2. running[i] = Relist(running[i], running[i].clients)
      BY <1>2 DEF Inbound, System, Relist
    <3>3. QED
      BY <1>2, <2>1, <2>3, <3>1, <3>2
  <2>4. QED
    BY <2>2, <2>3
<1>5. running' \in [DOMAIN running -> Inbound \cup {System}]
  BY <1>3, <1>4
<1>6. WellFormed(running') /\ Shape(running') = Shape(running)
  BY <1>1, <1>4, <1>5, Relisted
<1>7. QED
  BY <1>3, <1>4, <1>6 DEF Out

CallsOK == calls \subseteq Call

LEMMA CallsStep == CallsOK /\ [Next]_vars => CallsOK'
<1> SUFFICES ASSUME CallsOK, [Next]_vars PROVE CallsOK'
  OBVIOUS
<1>1. ASSUME NEW e \in Emails, AddKey(e) \/ RestoreKey(e) \/ RemoveKey(e) PROVE CallsOK'
  BY <1>1 DEF AddKey, RestoreKey, RemoveKey, Told, CallsOK, Call
<1>2. CASE Sync \/ LoseCall
  BY <1>2 DEF Sync, LoseCall, CallsOK
<1>3. ASSUME UNCHANGED calls PROVE CallsOK'
  BY <1>3 DEF CallsOK
<1>4. CASE UNCHANGED vars
  BY <1>3, <1>4 DEF vars
<1>5. QED
  BY <1>1, <1>2, <1>3, <1>4
     DEF Next, EditProtocols, RotateKey, VpnApiRead, VpnApiWrite, OpenEdit, OpenCreate, Save,
         TakeRequest, TestConfig, RestartXray, ApplierDies, SafeRestart, SafeRestartEnds

LEMMA RunningStep == ConfigsOK /\ CallsOK /\ RunningOK /\ [Next]_vars => RunningOK'
<1> SUFFICES ASSUME ConfigsOK, CallsOK, RunningOK, [Next]_vars PROVE RunningOK'
  OBVIOUS
<1>1. CASE Sync
  <2>1. PICK c \in calls :
          \/ UNCHANGED running
          \/ Up /\ c.verb = "enable" /\ Enable(c.email)
          \/ Up /\ c.verb = "disable" /\ Disable(c.email)
    BY <1>1 DEF Sync
  <2>2. QED
    BY <2>1, Enabled, Disabled DEF RunningOK, CallsOK, Call
<1>2. CASE RestartXray \/ SafeRestart
  BY <1>2 DEF RestartXray, SafeRestart, Started, RunningOK, ConfigsOK
<1>3. ASSUME UNCHANGED running PROVE RunningOK'
  BY <1>3 DEF RunningOK
<1>4. CASE UNCHANGED vars
  BY <1>3, <1>4 DEF vars
<1>5. QED
  BY <1>1, <1>2, <1>3, <1>4
     DEF Next, AddKey, RestoreKey, RemoveKey, EditProtocols, RotateKey, LoseCall, VpnApiRead,
         VpnApiWrite, OpenEdit, OpenCreate, Save, TakeRequest, TestConfig, ApplierDies, SafeRestartEnds

\* Where no restart is due, the running Xray has the inbounds of config.json.
LEMMA LoadedStep == ConfigsOK /\ CallsOK /\ RunningOK /\ EditsAreLoaded /\ [Next]_vars => EditsAreLoaded'
<1> SUFFICES ASSUME ConfigsOK, CallsOK, RunningOK, EditsAreLoaded, [Next]_vars PROVE EditsAreLoaded'
  OBVIOUS
<1> USE DEF EditsAreLoaded, Quiet, Up
<1>1. ASSUME Shape(config') = Shape(config), UNCHANGED <<running, requested, applier>>,
             undone => undone'
      PROVE  EditsAreLoaded'
  BY <1>1
<1>2. ASSUME NEW e \in Emails, AddKey(e) PROVE EditsAreLoaded'
  BY <1>1, <1>2, KeyAdded DEF AddKey
<1>3. ASSUME NEW e \in Emails, RestoreKey(e) \/ RemoveKey(e) \/ EditProtocols(e)
      PROVE  EditsAreLoaded'
  <2>1. PICK kinds \in SUBSET Kinds : WriteCfgOnly(Synced(config, e, kinds))
    BY <1>3 DEF RestoreKey, RemoveKey, EditProtocols
  <2>2. Shape(config') = Shape(config)
    BY <1>3, <2>1, Written DEF RestoreKey, RemoveKey, EditProtocols
  <2>3. QED
    BY <1>1, <1>3, <2>2 DEF RestoreKey, RemoveKey, EditProtocols
<1>4. ASSUME NEW e \in Emails, RotateKey(e) PROVE EditsAreLoaded'
  BY <1>4 DEF RotateKey, WriteConfig
<1>5. CASE VpnApiWrite
  <2>1. CASE copied = <<>> \/ copied[1] = System
    BY <1>1, <1>5, <2>1 DEF VpnApiWrite
  <2>2. CASE undone'
    BY <2>2
  <2>3. CASE ~(copied = <<>> \/ copied[1] = System) /\ ~undone'
    <3>1. /\ WellFormed(copied) /\ Shape(copied) = Shape(config)
          /\ UNCHANGED <<running, requested, applier>> /\ ~undone
      BY <1>5, <2>3 DEF VpnApiWrite, ConfigsOK
    <3>2. PICK e \in Emails :
            WriteCfgOnly([copied EXCEPT ![1].clients = IF e \in @ THEN @ \ {e} ELSE @ \cup {e}])
      BY <1>5, <2>3 DEF VpnApiWrite
    <3>3. Shape(config') = Shape(copied)
      BY <2>3, <3>1, <3>2, Turned DEF WriteCfgOnly
    <3>4. QED
      BY <1>1, <3>1, <3>3
  <2>4. QED
    BY <2>1, <2>2, <2>3
<1>6. ASSUME NEW b \in Browsers, Save(b) PROVE EditsAreLoaded'
  BY <1>6 DEF Save, CreateInbound, UpdateInbound, DeleteInbound, WriteConfig
<1>7. CASE Sync
  <2>1. PICK c \in calls :
          \/ UNCHANGED running
          \/ Up /\ c.verb = "enable" /\ Enable(c.email)
          \/ Up /\ c.verb = "disable" /\ Disable(c.email)
    BY <1>7 DEF Sync
  <2>2. c.email \in Emails /\ UNCHANGED <<config, requested, applier, undone>>
    BY <1>7 DEF Sync, CallsOK, Call
  <2>3. UNCHANGED running \/ (Shape(running') = Shape(running) /\ Up)
    BY <2>1, <2>2, Enabled, Disabled
  <2>4. QED
    BY <2>2, <2>3
<1>8. CASE \/ TakeRequest \/ TestConfig \/ RestartXray \/ ApplierDies
          \/ SafeRestart \/ SafeRestartEnds
  BY <1>8 DEF TakeRequest, TestConfig, RestartXray, ApplierDies, SafeRestart, SafeRestartEnds, Started
<1>9. CASE UNCHANGED vars
  BY <1>1, <1>9 DEF vars
<1>10. QED
  BY <1>1, <1>2, <1>3, <1>4, <1>5, <1>6, <1>7, <1>8, <1>9
     DEF Next, LoseCall, VpnApiRead, OpenEdit, OpenCreate

LEMMA LoadedKept == Spec => [](ConfigsOK /\ EditsOK /\ CallsOK /\ RunningOK /\ EditsAreLoaded)
<1>1. Init => CallsOK /\ RunningOK /\ EditsAreLoaded
  BY InitOK DEF Init, CallsOK, RunningOK, ConfigsOK, EditsAreLoaded
<1>2. /\ ConfigsOK /\ EditsOK /\ CallsOK /\ RunningOK /\ EditsAreLoaded /\ [Next]_vars
      => CallsOK' /\ RunningOK' /\ EditsAreLoaded'
  BY CallsStep, RunningStep, LoadedStep
<1>3. QED
  BY <1>1, <1>2, InitOK, ConfigsStep, EditsStep, PTL DEF Spec

\* When no restart is asked for or under way, a running Xray has the inbounds of
\* config.json, unless an older config was put back.
THEOREM EditsLoaded == Spec => []EditsAreLoaded
  BY LoadedKept, PTL

----------------------------------------------------------------------------
(* Whom the running Xray serves. *)

\* The keys of which the vpn-api has yet to tell the running Xray that they are gone.
Leaving == {e \in Emails : [verb |-> "disable", email |-> e] \in calls}

\* ServesOnlyListed also while calls are under way.
Served ==
  Quiet /\ ~undone /\ ~failed =>
    \A i \in DOMAIN running :
      running[i].clients \subseteq config[i].clients \cup narrowed \cup Leaving

\* Inbound by inbound, the running Xray and config.json have the same tags.
LEMMA SameTags ==
  ASSUME ConfigsOK, RunningOK, EditsAreLoaded, Quiet, ~undone
  PROVE  /\ DOMAIN running = DOMAIN config
         /\ \A i \in DOMAIN running : /\ running[i].tag = config[i].tag
                                      /\ running[i] \in Inbound \cup {System}
<1>1. WellFormed(running) /\ WellFormed(config) /\ Shape(running) = Shape(config)
  BY DEF RunningOK, ConfigsOK, EditsAreLoaded, Quiet, Up
<1>2. /\ \A i \in DOMAIN running : running[i] \in Inbound \cup {System}
      /\ \A i \in DOMAIN config : config[i] \in Inbound \cup {System}
  BY <1>1, ConfigShape DEF WellFormed
<1>3. DOMAIN running = DOMAIN config
  BY <1>1 DEF Shape
<1>4. ASSUME NEW i \in DOMAIN running PROVE running[i].tag = config[i].tag
  <2>1. Relist(running[i], {}) = Relist(config[i], {})
    BY <1>1, <1>3 DEF Shape, Relist
  <2>2. Relist(running[i], {}).tag = running[i].tag /\ Relist(config[i], {}).tag = config[i].tag
    BY <1>2, <1>3, ClientsOnly
  <2>3. QED
    BY <2>1, <2>2
<1>5. QED
  BY <1>2, <1>3, <1>4

\* A write after which nothing but keys on record as lost or leaving is missed.
LEMMA ServedWrite ==
  ASSUME ConfigsOK, RunningOK, EditsAreLoaded, Served,
         UNCHANGED <<running, requested, applier, undone, failed>>,
         narrowed \subseteq narrowed', Leaving \subseteq Leaving',
         \A i \in DOMAIN config :
           config[i].clients \subseteq config'[i].clients \cup narrowed' \cup Leaving'
  PROVE  Served'
<1> SUFFICES ASSUME Quiet, ~undone, ~failed, NEW i \in DOMAIN running
             PROVE  running[i].clients \subseteq config'[i].clients \cup narrowed' \cup Leaving'
  BY DEF Served, Quiet, Up
<1>1. i \in DOMAIN config
  BY SameTags
<1>2. running[i].clients \subseteq config[i].clients \cup narrowed \cup Leaving
  BY DEF Served
<1>3. QED
  BY <1>1, <1>2

LEMMA ServedStep ==
  /\ ConfigsOK /\ CallsOK /\ RunningOK /\ EditsAreLoaded /\ Served /\ [Next]_vars
  => Served'
<1> SUFFICES ASSUME ConfigsOK, CallsOK, RunningOK, EditsAreLoaded, Served, [Next]_vars
             PROVE  Served'
  OBVIOUS
<1>1. WellFormed(config) /\ \A i \in DOMAIN config : config[i] \in Inbound \cup {System}
  BY ConfigShape DEF ConfigsOK, WellFormed
<1>2. \A i \in DOMAIN config : config[i].clients \subseteq Emails
  BY <1>1, SystemApart
\* What a write with a record of what is lost misses.
<1>3. ASSUME NEW new, DOMAIN new = DOMAIN config, config' = new,
             narrowed' = narrowed \cup Losing(new), calls \subseteq calls',
             UNCHANGED <<running, requested, applier, undone, failed>>
      PROVE  Served'
  <2>1. ASSUME NEW i \in DOMAIN config, NEW e \in config[i].clients, e \notin new[i].clients
        PROVE  e \in Losing(new)
    BY <1>2, <1>3, <2>1 DEF Losing, Listing
  <2>2. \A i \in DOMAIN config : config[i].clients \subseteq config'[i].clients \cup narrowed' \cup Leaving'
    BY <1>3, <2>1
  <2>3. narrowed \subseteq narrowed' /\ Leaving \subseteq Leaving'
    BY <1>3 DEF Leaving
  <2>4. QED
    BY <1>3, <2>2, <2>3, ServedWrite
<1>4. ASSUME NEW e \in Emails, AddKey(e) PROVE Served'
  <2>1. PICK kinds \in (SUBSET Kinds) \ {{}} :
          LET new == Synced([config EXCEPT ![1].clients = @ \cup {e}], e, kinds)
          IN config' = new /\ narrowed' = narrowed \cup Losing(new)
    BY <1>4 DEF AddKey
  <2>2. PICK pushed : pushed = [config EXCEPT ![1].clients = @ \cup {e}]
    OBVIOUS
  <2>3. WellFormed(pushed) /\ DOMAIN pushed = DOMAIN config
    BY <1>1, <1>4, <2>2, Pushed DEF AddKey
  <2>4. PICK new : new = Synced(pushed, e, kinds)
    OBVIOUS
  <2>5. DOMAIN new = DOMAIN config
    BY <2>3, <2>4 DEF Synced
  <2>6. config' = new /\ narrowed' = narrowed \cup Losing(new)
    BY <2>1, <2>2, <2>4
  <2>7. calls \subseteq calls' /\ UNCHANGED <<running, requested, applier, undone, failed>>
    BY <1>4 DEF AddKey, Told
  <2>8. QED
    BY <1>3, <2>5, <2>6, <2>7
<1>5. ASSUME NEW e \in Emails, EditProtocols(e) PROVE Served'
  <2>1. PICK kinds \in SUBSET Kinds :
          /\ WriteCfgOnly(Synced(config, e, kinds))
          /\ narrowed' = narrowed \cup Losing(Synced(config, e, kinds))
    BY <1>5 DEF EditProtocols
  <2>2. PICK new : new = Synced(config, e, kinds)
    OBVIOUS
  <2>3. DOMAIN new = DOMAIN config /\ config' = new /\ narrowed' = narrowed \cup Losing(new)
    BY <2>1, <2>2 DEF Synced, WriteCfgOnly
  <2>4. UNCHANGED <<running, calls, requested, applier, undone, failed>>
    BY <1>5 DEF EditProtocols
  <2>5. QED
    BY <1>3, <2>3, <2>4
<1>6. ASSUME NEW e \in Emails, RestoreKey(e) PROVE Served'
  <2>1. PICK kinds \in SUBSET Kinds : config' = Synced(config, e, kinds)
    BY <1>6 DEF RestoreKey, WriteCfgOnly
  <2>2. \A i \in DOMAIN config : config'[i].clients = Listed(config[i], e, kinds)
    BY <1>1, <2>1, SyncedOK
  <2>3. \A i \in DOMAIN config : config[i].clients \subseteq config'[i].clients
    BY <1>6, <2>2 DEF RestoreKey, Listing, Listed
  <2>4. /\ UNCHANGED <<running, requested, applier, undone, failed, narrowed>>
        /\ calls \subseteq calls'
    BY <1>6 DEF RestoreKey, Told
  <2>5. Leaving \subseteq Leaving'
    BY <2>4 DEF Leaving
  <2>6. QED
    BY <2>3, <2>4, <2>5, ServedWrite
<1>7. ASSUME NEW e \in Emails, RemoveKey(e) PROVE Served'
  <2>1. config' = Synced(config, e, {})
    BY <1>7 DEF RemoveKey, WriteCfgOnly
  <2>2. \A i \in DOMAIN config : config'[i].clients = Listed(config[i], e, {})
    BY <1>1, <2>1, SyncedOK
  <2>3. \A i \in DOMAIN config : config[i].clients \subseteq config'[i].clients \cup {e}
    BY <2>2 DEF Listed
  <2>4. /\ UNCHANGED <<running, requested, applier, undone, failed, narrowed>>
        /\ calls' = calls \cup {[verb |-> "disable", email |-> e]}
    BY <1>7 DEF RemoveKey, Told
  <2>5. Leaving \subseteq Leaving' /\ e \in Leaving'
    BY <2>4 DEF Leaving
  <2>6. QED
    BY <2>3, <2>4, <2>5, ServedWrite
<1>8. ASSUME UNCHANGED <<config, running, calls, narrowed>>,
             ~requested' => ~requested, applier' = "idle" => applier = "idle",
             undone => undone', failed => failed'
      PROVE  Served'
  BY <1>8 DEF Served, Quiet, Up, Leaving
<1>9. ASSUME requested' \/ undone' \/ failed' \/ applier' # "idle" \/ running' = None PROVE Served'
  BY <1>9 DEF Served, Quiet, Up
<1>10. ASSUME NEW e \in Emails, RotateKey(e) PROVE Served'
  BY <1>9, <1>10 DEF RotateKey, WriteConfig
<1>11. CASE Sync
  <2>1. PICK c \in calls :
          /\ calls' = calls \ {c}
          /\ \/ ~Up /\ failed' = TRUE
             \/ Up /\ c.verb = "enable" /\ Enable(c.email) /\ UNCHANGED <<narrowed, failed>>
             \/ /\ Up /\ c.verb = "disable" /\ Disable(c.email) /\ narrowed' = narrowed \ {c.email}
                /\ UNCHANGED failed
    BY <1>11 DEF Sync
  <2>2. /\ c.email \in Emails /\ c = [verb |-> c.verb, email |-> c.email]
        /\ UNCHANGED <<config, requested, applier, undone>>
    BY <1>11 DEF Sync, CallsOK, Call
  <2> PICK e \in Emails : e = c.email
    BY <2>2
  <2>3. CASE failed'
    BY <1>9, <2>3
  <2>4. ASSUME ~failed', Up, c.verb = "enable", Enable(e), UNCHANGED <<narrowed, failed>>
        PROVE  Served'
    <3> SUFFICES ASSUME Quiet, ~undone, NEW i \in DOMAIN running', NEW f \in running'[i].clients
                 PROVE  f \in config[i].clients \cup narrowed \cup Leaving'
      BY <2>2, <2>4 DEF Served, Quiet, Up
    <3>1. Leaving' = Leaving
      BY <2>1, <2>2, <2>4 DEF Leaving
    <3>2. /\ i \in DOMAIN running
          /\ \/ running'[i].clients = running[i].clients
             \/ /\ running'[i].clients = running[i].clients \cup {e}
                /\ \E j \in Listing(config, e) : config[j].tag = running[i].tag
      BY <2>4, Enabled
    <3>3. running[i].clients \subseteq config[i].clients \cup narrowed \cup Leaving
      BY <2>4, <3>2 DEF Served
    <3>4. ASSUME NEW j \in Listing(config, e), config[j].tag = running[i].tag
          PROVE  e \in config[i].clients
      BY <1>1, <3>2, <3>4, SameTags DEF WellFormed, Listing
    <3>5. QED
      BY <3>1, <3>2, <3>3, <3>4
  <2>5. ASSUME ~failed', Up, c.verb = "disable", Disable(e), narrowed' = narrowed \ {e},
               UNCHANGED failed
        PROVE  Served'
    <3> SUFFICES ASSUME Quiet, ~undone, NEW i \in DOMAIN running', NEW f \in running'[i].clients
                 PROVE  f \in config[i].clients \cup (narrowed \ {e}) \cup Leaving'
      BY <2>2, <2>5 DEF Served, Quiet, Up
    <3>1. Leaving \ {e} \subseteq Leaving'
      BY <2>1, <2>2, <2>5 DEF Leaving
    <3>2. /\ i \in DOMAIN running
          /\ running'[i].clients =
               IF running[i].tag # "api" /\ \E j \in DOMAIN config : config[j].tag = running[i].tag
               THEN running[i].clients \ {e} ELSE running[i].clients
      BY <2>5, Disabled
    <3>3. running[i].clients \subseteq config[i].clients \cup narrowed \cup Leaving
      BY <2>5, <3>2 DEF Served
    <3>4. /\ i \in DOMAIN config /\ running[i].tag = config[i].tag
          /\ running[i] \in Inbound \cup {System}
      BY <3>2, SameTags
    <3>5. running[i].tag = "api" => running[i].clients = {}
      BY <3>4, SystemApart
    <3>6. running'[i].clients = running[i].clients \ {e}
      BY <3>2, <3>4, <3>5
    <3>7. QED
      BY <3>1, <3>3, <3>6
  <2>6. QED
    BY <2>1, <2>3, <2>4, <2>5
<1>12. CASE LoseCall
  BY <1>9, <1>12 DEF LoseCall
<1>13. CASE VpnApiWrite
  BY <1>8, <1>9, <1>13 DEF VpnApiWrite
<1>14. ASSUME NEW b \in Browsers, Save(b) PROVE Served'
  BY <1>8, <1>9, <1>14 DEF Save, CreateInbound, UpdateInbound, DeleteInbound, WriteConfig
<1>15. CASE TakeRequest \/ TestConfig \/ ApplierDies \/ SafeRestart
  BY <1>9, <1>15 DEF TakeRequest, TestConfig, ApplierDies, SafeRestart
<1>16. CASE SafeRestartEnds
  <2>1. CASE ~Up
    BY <1>9, <1>16, <2>1 DEF SafeRestartEnds, Up
  <2>2. CASE UNCHANGED <<config, undone>>
    BY <1>8, <1>16, <2>2 DEF SafeRestartEnds
  <2>3. QED
    BY <1>16, <2>1, <2>2 DEF SafeRestartEnds
<1>17. CASE RestartXray
  <2>1. config' = config /\ (running' = None \/ running' = config)
    BY <1>17 DEF RestartXray, Started
  <2>2. QED
    BY <2>1 DEF Served, Quiet, Up
<1>18. CASE UNCHANGED vars
  BY <1>8, <1>18 DEF vars
<1>19. ASSUME NEW b \in Browsers, OpenEdit(b) \/ OpenCreate(b) PROVE Served'
  BY <1>8, <1>19 DEF OpenEdit, OpenCreate
<1>20. CASE VpnApiRead
  BY <1>8, <1>20 DEF VpnApiRead
<1>21. QED
  BY <1>4, <1>5, <1>6, <1>7, <1>10, <1>11, <1>12, <1>13, <1>14, <1>15, <1>16, <1>17, <1>18,
     <1>19, <1>20 DEF Next

\* When no call is under way and none failed either, whoever the running Xray serves is
\* listed in config.json, but for keys whose protocols were edited.
THEOREM OnlyListedServed == Spec => []ServesOnlyListed
<1>1. Init => Served
  BY DEF Init, Served
<1>2. Served => ServesOnlyListed
  BY DEF Served, ServesOnlyListed, Leaving
<1>3. QED
  BY <1>1, <1>2, LoadedKept, ServedStep, PTL DEF Spec

=============================================================================
