---------------------------- MODULE TablesProofs ----------------------------
(***************************************************************************)
(* Theorems about Protocols and Review, whose properties are about tables  *)
(* the source holds: of templates, links and apps, for any networks and    *)
(* securities an operator may type into an inbound; and of presets, for    *)
(* any keys, addresses and pages.                                          *)
(***************************************************************************)
EXTENDS Protocols, Review, FiniteSetTheorems, TLAPS

----------------------------------------------------------------------------
(***************************************************************************)
(* The tables.                                                             *)
(***************************************************************************)

LEMMA CatalogIs ==
  Range(CatalogKeys) =
       {"vless-reality", "vmess-ws-tls", "vmess-grpc-tls", "vless-ws-tls",
        "vless-grpc-tls", "trojan-tls", "trojan-ws-tls", "shadowsocks", "hysteria2", "wireguard",
        "vless-xhttp-tls", "vmess-xhttp-tls", "vless-httpupgrade", "vmess-httpupgrade",
        "vless-mkcp", "vmess-mkcp", "http", "socks", "dokodemo"}
<1>1. DOMAIN CatalogKeys = 1 .. 19
  BY DEF CatalogKeys
<1>2. 1 .. 19 = {1, 2, 3, 4, 5, 6, 7, 8, 9, 10, 11, 12, 13, 14, 15, 16, 17, 18, 19}
  OBVIOUS
<1>3. /\ CatalogKeys[1] = "vless-reality"     /\ CatalogKeys[2] = "vmess-ws-tls"
      /\ CatalogKeys[3] = "vmess-grpc-tls"    /\ CatalogKeys[4] = "vless-ws-tls"
      /\ CatalogKeys[5] = "vless-grpc-tls"    /\ CatalogKeys[6] = "trojan-tls"
      /\ CatalogKeys[7] = "trojan-ws-tls"     /\ CatalogKeys[8] = "shadowsocks"
      /\ CatalogKeys[9] = "hysteria2"         /\ CatalogKeys[10] = "wireguard"
      /\ CatalogKeys[11] = "vless-xhttp-tls"  /\ CatalogKeys[12] = "vmess-xhttp-tls"
      /\ CatalogKeys[13] = "vless-httpupgrade" /\ CatalogKeys[14] = "vmess-httpupgrade"
      /\ CatalogKeys[15] = "vless-mkcp"       /\ CatalogKeys[16] = "vmess-mkcp"
      /\ CatalogKeys[17] = "http"             /\ CatalogKeys[18] = "socks"
      /\ CatalogKeys[19] = "dokodemo"
  BY DEF CatalogKeys
<1>4. QED
  BY <1>1, <1>2, <1>3 DEF Range

\* Whatever an inbound of one of these protocols became by edits, what the Protocols page
\* takes it for is what the sync takes it for.
LEMMA VlessAgrees ==
  ASSUME NEW at, at.protocol = "vless", at.network # "mkcp", MatchCatalogKey(at) # None
  PROVE  InboundProtocolKey(at) = MatchCatalogKey(at)
  BY DEF MatchCatalogKey, InboundProtocolKey, NetworkFirst, ByNetwork, Otherwise,
     ClassifyTransport, Transport

LEMMA VmessAgrees ==
  ASSUME NEW at, at.protocol = "vmess", at.network # "mkcp", MatchCatalogKey(at) # None
  PROVE  InboundProtocolKey(at) = MatchCatalogKey(at)
  BY DEF MatchCatalogKey, InboundProtocolKey, NetworkFirst, ByNetwork, Otherwise,
     ClassifyTransport, Transport

LEMMA TrojanAgrees ==
  ASSUME NEW at, at.protocol = "trojan", MatchCatalogKey(at) # None
  PROVE  InboundProtocolKey(at) = MatchCatalogKey(at)
  BY DEF MatchCatalogKey, InboundProtocolKey, NetworkFirst, ByNetwork, Otherwise,
     ClassifyTransport, Transport

LEMMA ShadowsocksAgrees ==
  ASSUME NEW at, at.protocol = "shadowsocks"
  PROVE  InboundProtocolKey(at) = MatchCatalogKey(at)
  BY DEF MatchCatalogKey, InboundProtocolKey, NetworkFirst, ByNetwork, Otherwise,
     ClassifyTransport, Transport

LEMMA OthersHaveNoUsers ==
  ASSUME NEW at, at.protocol \notin {"vless", "vmess", "trojan", "shadowsocks"}
  PROVE  MatchCatalogKey(at) \in {"http", "socks", "dokodemo", None}
  BY DEF MatchCatalogKey, ClassifyTransport, Transport

LEMMA ClassifiersAgree ==
  ASSUME NEW at, at.network # "mkcp", MatchCatalogKey(at) \in PerUser
  PROVE  InboundProtocolKey(at) = MatchCatalogKey(at)
<1>1. MatchCatalogKey(at) # None /\ MatchCatalogKey(at) \notin Utilities
  BY NoneIsNoProtocol DEF PerUser
<1>2. at.protocol \in {"vless", "vmess", "trojan", "shadowsocks"}
  BY <1>1, OthersHaveNoUsers DEF Utilities
<1>3. QED
  BY <1>1, <1>2, VlessAgrees, VmessAgrees, TrojanAgrees, ShadowsocksAgrees

\* An inbound as its template made it is taken for the template's protocol, and dialled
\* where it is.
LEMMA TemplatesAgree ==
  ASSUME NEW k \in XrayKeys
  PROVE  IF k \in Utilities THEN InboundProtocolKey(Template(k)) = None
         ELSE InboundProtocolKey(Template(k)) = k /\ Link(k) = Template(k)
<1>1. k \in {"vless-reality", "vmess-ws-tls", "vmess-grpc-tls", "vless-ws-tls",
        "vless-grpc-tls", "trojan-tls", "trojan-ws-tls", "shadowsocks",
        "vless-xhttp-tls", "vmess-xhttp-tls", "vless-httpupgrade", "vmess-httpupgrade",
        "vless-mkcp", "vmess-mkcp", "http", "socks", "dokodemo"}
  BY CatalogIs DEF XrayKeys, Engine
<1>2. k \notin Utilities => Link(k) = Template(k)
  BY <1>1 DEF Template, Link, Cdn, Utilities
<1>3. CASE k \in {"vless-reality", "vless-ws-tls", "vless-grpc-tls", "vless-xhttp-tls",
                  "vless-httpupgrade", "vless-mkcp"}
  <2>1. InboundProtocolKey(Template(k)) = k
    BY <1>3 DEF Template, Address, OverTls,
       InboundProtocolKey, NetworkFirst, ByNetwork, Otherwise
  <2>2. QED
    BY <1>2, <1>3, <2>1 DEF Utilities
<1>4. CASE k \in {"vmess-ws-tls", "vmess-grpc-tls", "vmess-xhttp-tls", "vmess-httpupgrade",
                  "vmess-mkcp"}
  <2>1. InboundProtocolKey(Template(k)) = k
    BY <1>4 DEF Template, Address, OverTls,
       InboundProtocolKey, NetworkFirst, ByNetwork, Otherwise
  <2>2. QED
    BY <1>2, <1>4, <2>1 DEF Utilities
<1>5. CASE k \in {"trojan-tls", "trojan-ws-tls", "shadowsocks"}
  <2>1. InboundProtocolKey(Template(k)) = k
    BY <1>5 DEF Template, Address, OverTls, Plain,
       InboundProtocolKey, NetworkFirst, ByNetwork, Otherwise
  <2>2. QED
    BY <1>2, <1>5, <2>1 DEF Utilities
<1>6. CASE k \in {"http", "socks", "dokodemo"}
  <2>1. InboundProtocolKey(Template(k)) = None
    BY <1>6 DEF Template, Address, Plain,
       InboundProtocolKey, NetworkFirst, ByNetwork, Otherwise
  <2>2. QED
    BY <1>6, <2>1 DEF Utilities
<1>7. QED
  BY <1>1, <1>3, <1>4, <1>5, <1>6

----------------------------------------------------------------------------
(***************************************************************************)
(* Types.                                                                  *)
(***************************************************************************)

Catalogued == Range(CatalogKeys)

\* Protocols of the catalog, each once.
KeysOf(ks) == ks \in Seq(Catalogued) /\ IsInjective(ks)

LEMMA DraftedType == ASSUME NEW k \in XrayKeys PROVE Drafted(k) \in Drafts
<1>1. PICK p, n, s, port, sni, h, path : Template(k) = Address(p, n, s, port, sni, h, path)
  <2>1. k \in {"vless-reality", "vmess-ws-tls", "vmess-grpc-tls", "vless-ws-tls",
        "vless-grpc-tls", "trojan-tls", "trojan-ws-tls", "shadowsocks",
        "vless-xhttp-tls", "vmess-xhttp-tls", "vless-httpupgrade", "vmess-httpupgrade",
        "vless-mkcp", "vmess-mkcp", "http", "socks", "dokodemo"}
    BY CatalogIs DEF XrayKeys, Engine
  <2>2. QED
    BY <2>1 DEF Template, OverTls, Plain
<1>2. \A f \in {"protocol", "network", "security", "port", "sni", "host", "path"} :
        Template(k)[f] \in Written(f)
  BY DEF Written
<1>3. Template(k) \in Addresses
  BY <1>1, <1>2 DEF Address, Addresses
<1>4. QED
  BY <1>2, <1>3 DEF Drafted, Drafts

LEMMA EditedType ==
  ASSUME NEW d \in Drafts
  PROVE  /\ \A f \in QuickFields(d) : WriteQuickField(d, f, Other) \in Drafts
         /\ \A n \in Networks : [d EXCEPT !.at.network = n] \in Drafts
         /\ \A s \in Securities : [d EXCEPT !.at.security = s] \in Drafts
<1>1. d.at \in Addresses
  BY DEF Drafts
<1>2. ASSUME NEW a \in Addresses
      PROVE  [d EXCEPT !.at = a] \in Drafts
  BY DEF Drafts
<1>3. \A f \in {"port", "sni", "host", "path"} : [d.at EXCEPT ![f] = Other] \in Addresses
  BY <1>1 DEF Addresses
<1>4. \A n \in Networks : [d.at EXCEPT !.network = n] \in Addresses
  BY <1>1 DEF Addresses
<1>5. \A s \in Securities : [d.at EXCEPT !.security = s] \in Addresses
  BY <1>1 DEF Addresses
<1>6. \A f, v : [d EXCEPT !.at[f] = v] = [d EXCEPT !.at = [d.at EXCEPT ![f] = v]]
  BY DEF Drafts
<1>7. \A f \in QuickFields(d) : WriteQuickField(d, f, Other) \in Drafts
  <2>1. QuickFields(d) \subseteq {"port", "sni", "host", "path"}
    BY DEF QuickFields
  <2>2. QED
    BY <1>2, <1>3, <1>6, <2>1 DEF WriteQuickField
<1>8. QED
  BY <1>2, <1>4, <1>5, <1>6, <1>7

\* Ticking a protocol adds it, or takes it away, and leaves the others once each.
LEMMA ToggledType ==
  ASSUME NEW ks, KeysOf(ks), NEW k \in Catalogued
  PROVE  KeysOf(Toggled(ks, k))
<1>1. ks \in Seq(Catalogued) /\ \A i, j \in 1 .. Len(ks) : ks[i] = ks[j] => i = j
  BY DEF KeysOf, IsInjective
<1>2. CASE k \in Range(ks)
  <2> DEFINE i == CHOOSE i \in DOMAIN ks : ks[i] = k
  <2>1. \E j \in DOMAIN ks : ks[j] = k
    BY <1>2 DEF Range
  <2>2. i \in 1 .. Len(ks)
    BY <1>1, <2>1
  <2> DEFINE rest == RemoveAt(ks, i)
  <2>3. rest = Toggled(ks, k)
    BY <1>2 DEF Toggled
  <2> HIDE DEF i
  <2> DEFINE left  == SubSeq(ks, 1, i - 1)
             right == SubSeq(ks, i + 1, Len(ks))
  <2>a. /\ left \in Seq(Catalogued) /\ Len(left) = i - 1
        /\ \A j \in 1 .. i - 1 : left[j] = ks[j]
    BY <1>1, <2>2
  <2>b. /\ right \in Seq(Catalogued) /\ Len(right) = Len(ks) - i
        /\ \A j \in 1 .. Len(ks) - i : right[j] = ks[j + i]
    BY <1>1, <2>2
  <2>c. rest = left \o right
    BY DEF RemoveAt
  <2> HIDE DEF left, right
  <2>4. rest \in Seq(Catalogued) /\ Len(rest) = Len(ks) - 1
    BY <1>1, <2>2, <2>a, <2>b, <2>c
  <2>5. \A j \in 1 .. Len(rest) : rest[j] = IF j < i THEN ks[j] ELSE ks[j + 1]
    BY <1>1, <2>2, <2>4, <2>a, <2>b, <2>c
  <2> HIDE DEF rest
  <2>6. ASSUME NEW a \in 1 .. Len(rest), NEW b \in 1 .. Len(rest), rest[a] = rest[b]
        PROVE  a = b
    BY <1>1, <2>2, <2>4, <2>5, <2>6
  <2>7. QED
    BY <2>3, <2>4, <2>6 DEF KeysOf, IsInjective
<1>3. CASE k \notin Range(ks)
  <2> DEFINE more == Append(ks, k)
  <2>1. more = Toggled(ks, k)
    BY <1>3 DEF Toggled
  <2>2. /\ more \in Seq(Catalogued) /\ Len(more) = Len(ks) + 1
        /\ \A j \in 1 .. Len(more) : more[j] = IF j = Len(ks) + 1 THEN k ELSE ks[j]
    BY <1>1
  <2>3. \A j \in 1 .. Len(ks) : ks[j] # k
    BY <1>1, <1>3 DEF Range
  <2> HIDE DEF more
  <2>4. ASSUME NEW a \in 1 .. Len(more), NEW b \in 1 .. Len(more), more[a] = more[b]
        PROVE  a = b
    BY <1>1, <2>2, <2>3, <2>4
  <2>5. QED
    BY <2>1, <2>2, <2>4 DEF KeysOf, IsInjective
<1>4. QED
  BY <1>2, <1>3

LEMMA ProfilesType == \A id \in DOMAIN AccessProfiles : KeysOf(AccessProfiles[id])
<1>1. /\ DOMAIN AccessProfiles
            = {"standard", "compatible", "universal", "performance", "cdnSafe", "legacy"}
      /\ AccessProfiles["standard"]    = <<"vless-reality">>
      /\ AccessProfiles["compatible"]  = <<"vless-reality", "vmess-ws-tls">>
      /\ AccessProfiles["universal"]   = <<"vless-reality", "vmess-ws-tls", "trojan-tls">>
      /\ AccessProfiles["performance"] = <<"vless-reality", "hysteria2", "wireguard">>
      /\ AccessProfiles["cdnSafe"]     = <<"vless-ws-tls", "vless-grpc-tls">>
      /\ AccessProfiles["legacy"]      = <<"vmess-ws-tls", "vmess-grpc-tls", "shadowsocks">>
  BY DEF AccessProfiles
<1>2. \A a \in Catalogued : KeysOf(<<a>>)
  BY DEF KeysOf, IsInjective
<1>3. \A a, b \in Catalogued : a # b => KeysOf(<<a, b>>)
  BY DEF KeysOf, IsInjective
<1>4. \A a, b, c \in Catalogued : a # b /\ a # c /\ b # c => KeysOf(<<a, b, c>>)
  BY DEF KeysOf, IsInjective
<1>5. {"vless-reality", "vmess-ws-tls", "trojan-tls", "hysteria2", "wireguard", "vless-ws-tls",
       "vless-grpc-tls", "vmess-grpc-tls", "shadowsocks"} \subseteq Catalogued
  BY CatalogIs DEF Catalogued
<1> HIDE DEF KeysOf, Catalogued
<1>6. QED
  BY <1>1, <1>2, <1>3, <1>4, <1>5

----------------------------------------------------------------------------
(***************************************************************************)
(* The pages.                                                              *)
(***************************************************************************)

LEMMA TypesAre ==
  TypeOK <=>
    /\ draft \in Drafts \cup {None} /\ inbound \in Drafts \cup {None}
    /\ mode \in {"create", "edit"}
    /\ listed \in BOOLEAN /\ synced \in BOOLEAN /\ peer \in BOOLEAN
    /\ KeysOf(selected) /\ KeysOf(key)
    /\ changes \in Nat
  BY DEF TypeOK, KeysOf, Catalogued

LEMMA StandardType == KeysOf(<<"vless-reality">>) /\ KeysOf(<<>>)
<1>1. "vless-reality" \in Catalogued
  BY CatalogIs DEF Catalogued
<1>2. QED
  BY <1>1 DEF KeysOf, IsInjective

LEMMA InitTypes == Init => TypeOK
<1> SUFFICES ASSUME Init PROVE TypeOK
  OBVIOUS
<1>1. KeysOf(selected) /\ KeysOf(key)
  BY StandardType DEF Init
<1>2. /\ draft \in Drafts \cup {None} /\ inbound \in Drafts \cup {None}
      /\ mode \in {"create", "edit"}
      /\ listed \in BOOLEAN /\ synced \in BOOLEAN /\ peer \in BOOLEAN
      /\ changes \in Nat
  BY DEF Init
<1>3. QED
  BY <1>1, <1>2, TypesAre

LEMMA StepTypes == TypeOK /\ [Next]_vars => TypeOK'
<1> SUFFICES ASSUME TypeOK, [Next]_vars
             PROVE  TypeOK'
  OBVIOUS
<1>t. /\ draft \in Drafts \cup {None} /\ inbound \in Drafts \cup {None}
      /\ mode \in {"create", "edit"}
      /\ listed \in BOOLEAN /\ synced \in BOOLEAN /\ peer \in BOOLEAN
      /\ KeysOf(selected) /\ KeysOf(key)
      /\ changes \in Nat
  BY TypesAre
<1>u. SUFFICES /\ draft' \in Drafts \cup {None} /\ inbound' \in Drafts \cup {None}
               /\ mode' \in {"create", "edit"}
               /\ listed' \in BOOLEAN /\ synced' \in BOOLEAN /\ peer' \in BOOLEAN
               /\ KeysOf(selected') /\ KeysOf(key')
               /\ changes' \in Nat
  BY DEF TypeOK, KeysOf, Catalogued
<1> USE DEF unchangedKeys
<1>1. CASE OpenCreate
  BY <1>t, <1>1, DraftedType DEF OpenCreate
<1>2. CASE UpdateDraftProtocol
  BY <1>t, <1>2, DraftedType DEF UpdateDraftProtocol
<1>3. CASE OpenEdit
  BY <1>t, <1>3 DEF OpenEdit
<1>4. CASE EditDraft
  <2>1. draft' \in Drafts
    BY <1>t, <1>4, EditedType DEF EditDraft
  <2>2. QED
    BY <1>t, <1>4, <2>1 DEF EditDraft, Change
<1>5. CASE SaveInbound
  BY <1>t, <1>5 DEF SaveInbound
<1>6. CASE SelectPreset
  <2>1. KeysOf(selected')
    BY <1>6, ProfilesType, StandardType DEF SelectPreset
  <2>2. QED
    BY <1>t, <1>6, <2>1 DEF SelectPreset
<1>7. CASE ToggleProtocol
  <2>1. KeysOf(selected')
    BY <1>t, <1>7, ToggledType DEF ToggleProtocol, Catalogued
  <2>2. QED
    BY <1>t, <1>7, <2>1 DEF ToggleProtocol, Change
<1>8. CASE CreateKey
  BY <1>t, <1>8, StandardType DEF CreateKey, AddUser, Sync
<1>9. CASE EditKey
  <2>1. KeysOf(key') /\ changes' \in Nat
    BY <1>t, <1>9, ToggledType DEF EditKey, Change, Catalogued
  <2>2. QED
    BY <1>t, <1>9, <2>1 DEF EditKey, Sync
<1>10. CASE UNCHANGED vars
  BY <1>t, <1>10 DEF vars
<1>11. QED
  BY <1>1, <1>2, <1>3, <1>4, <1>5, <1>6, <1>7, <1>8, <1>9, <1>10 DEF Next

\* Every variable keeps its type; of a key's protocols, that each is in it once, however
\* often they are ticked and unticked.
THEOREM TypeCorrect == Spec => []TypeOK
<1>1. Init => TypeOK
  BY InitTypes
<1>2. TypeOK /\ [Next]_vars => TypeOK'
  BY StepTypes
<1>3. QED
  BY <1>1, <1>2, PTL DEF Spec

\* A sync leaves an inbound listing the key exactly if it is one of the key's protocols.
ListedIsTheSyncs ==
  synced /\ inbound # None => (listed <=> InboundProtocolKey(inbound.at) \in Range(key))

LEMMA StepListed == ListedIsTheSyncs /\ [Next]_vars => ListedIsTheSyncs'
<1> SUFFICES ASSUME ListedIsTheSyncs, [Next]_vars
             PROVE  ListedIsTheSyncs'
  OBVIOUS
<1> USE DEF ListedIsTheSyncs, unchangedKeys
<1>1. CASE OpenCreate \/ UpdateDraftProtocol \/ OpenEdit \/ EditDraft
  BY <1>1 DEF OpenCreate, UpdateDraftProtocol, OpenEdit, EditDraft
<1>2. CASE SaveInbound
  BY <1>2 DEF SaveInbound
<1>3. CASE SelectPreset \/ ToggleProtocol
  BY <1>3 DEF SelectPreset, ToggleProtocol
<1>4. CASE CreateKey
  BY <1>4 DEF CreateKey, AddUser, Sync
<1>5. CASE EditKey
  BY <1>5 DEF EditKey, Sync
<1>6. CASE UNCHANGED vars
  BY <1>6 DEF vars
<1>7. QED
  BY <1>1, <1>2, <1>3, <1>4, <1>5, <1>6 DEF Next

\* What the Protocols page shows an inbound as is what it serves: an inbound it shows as one
\* of the key's protocols lists the key once the key was synced, whatever network and security
\* an operator wrote into it but mKCP's other name, and however often.
THEOREM ShownAlwaysServed == Spec => []ShownIsServed
<1>1. Init => ListedIsTheSyncs
  BY DEF Init, ListedIsTheSyncs
<1>2. ListedIsTheSyncs /\ [Next]_vars => ListedIsTheSyncs'
  BY StepListed
<1>3. ListedIsTheSyncs => ShownIsServed
  BY ClassifiersAgree DEF ListedIsTheSyncs, ShownIsServed
<1>4. QED
  BY <1>1, <1>2, <1>3, PTL DEF Spec

\* The first half of a node is one of the key's protocols, the second its link, but for Clash.
LEMMA NodesAre ==
  ASSUME NEW format \in {"raw", "singbox", "clash"}, NEW n \in Nodes(key, format)
  PROVE  /\ n[1] \in Range(Assigned(key))
         /\ n[2] = IF format = "clash" THEN ClashNode(n[1]) ELSE Link(n[1])
  BY DEF Nodes, InBase64, ToClashYaml, ToSingBoxJson

\* As long as an inbound is what its template made it, every node a key is handed for its
\* protocol dials it: templates, links and nodes, written apart, agree on all protocols.
THEOREM NodesAlwaysDial == Spec => []NodesDialTheirInbound
<1>1. TypeOK => NodesDialTheirInbound
  <2> SUFFICES ASSUME KeysOf(key), NEW p \in XrayKeys, inbound = Drafted(p),
                      NEW format \in {"raw", "singbox", "clash"}, NEW n \in Nodes(key, format),
                      n[1] = InboundProtocolKey(inbound.at),
                      ~(format = "clash" /\ inbound.at.network = "ws")
               PROVE  n[2] = inbound.at
    BY TypesAre DEF NodesDialTheirInbound
  <2>1. inbound.at = Template(p)
    BY DEF Drafted
  <2>2. n[1] \in Catalogued
    BY NodesAre, StandardType DEF Assigned, KeysOf, Range
  <2>3. n[1] # None
    BY <2>2, NoneIsNoProtocol DEF Catalogued
  <2>4. n[1] = p /\ Link(p) = Template(p)
    BY <2>1, <2>3, TemplatesAgree
  <2>5. CASE format = "clash"
    BY <2>1, <2>4, <2>5, NodesAre DEF ClashNode
  <2>6. CASE format # "clash"
    BY <2>1, <2>4, <2>6, NodesAre
  <2>7. QED
    BY <2>5, <2>6
<1>2. QED
  BY <1>1, TypeCorrect, PTL

----------------------------------------------------------------------------
(***************************************************************************)
(* Visitors.                                                               *)
(***************************************************************************)

LEMMA BasicHasLink == \A k \in Basic : HasLink(k)
  BY DEF Basic, HasLink, Utilities

\* The matrix: Hiddify stands first; only the apps for WireGuard do not know the basic protocols.
LEMMA MatrixIs ==
  /\ DOMAIN ClientMatrix = 1 .. 12
  /\ ClientMatrix[1] = Hiddify
  /\ \A i \in 1 .. 12 :
       \/ ClientMatrix[i].imports \in {"subscription", "direct"} /\ Basic \subseteq ClientMatrix[i].protocols
       \/ ClientMatrix[i].imports = "wireguard" /\ ClientMatrix[i].protocols = Wg
  /\ \A i \in 1 .. 12 : ClientMatrix[i].recommended \in BOOLEAN
<1>1. DOMAIN ClientMatrix = 1 .. 12 /\ ClientMatrix[1] = Hiddify
  BY DEF ClientMatrix
<1>2. /\ Basic \subseteq ReallyAll \cup Wg /\ Basic \subseteq ReallyAll /\ Basic \subseteq Basic \cup Wg
      /\ Basic \subseteq (ReallyAll \ Xhttp) \cup Wg
  BY DEF Basic, ReallyAll, Xhttp
<1>3. 1 .. 12 = {1, 2, 3, 4, 5, 6, 7, 8, 9, 10, 11, 12}
  OBVIOUS
<1>4. /\ ClientMatrix[2] = AvoVpn        /\ ClientMatrix[3] = Amnezia
      /\ ClientMatrix[4] = AmneziaWg     /\ ClientMatrix[5] = V2rayN
      /\ ClientMatrix[6] = V2rayNg       /\ ClientMatrix[7] = SingBox
      /\ ClientMatrix[8] = ClashVerge    /\ ClientMatrix[9] = Shadowrocket
      /\ ClientMatrix[10] = Streisand    /\ ClientMatrix[11] = Nekoray
      /\ ClientMatrix[12] = WireGuard
  BY DEF ClientMatrix
<1> DEFINE Fits(c) == /\ \/ c.imports \in {"subscription", "direct"} /\ Basic \subseteq c.protocols
                         \/ c.imports = "wireguard" /\ c.protocols = Wg
                      /\ c.recommended \in BOOLEAN
<1>5. Fits(Hiddify) /\ Fits(AvoVpn) /\ Fits(Amnezia)
  BY <1>2 DEF Client, Hiddify, AvoVpn, Amnezia
<1>6. Fits(AmneziaWg) /\ Fits(WireGuard)
  BY DEF Client, AmneziaWg, WireGuard
<1>7. Fits(V2rayN) /\ Fits(V2rayNg) /\ Fits(SingBox)
  BY <1>2 DEF Client, V2rayN, V2rayNg, SingBox
<1>8. Fits(ClashVerge) /\ Fits(Shadowrocket)
  BY <1>2 DEF Client, ClashVerge, Shadowrocket
<1>9. Fits(Streisand) /\ Fits(Nekoray)
  BY <1>2 DEF Client, Streisand, Nekoray
<1>10. \A i \in 1 .. 12 : Fits(ClientMatrix[i])
  <2> HIDE DEF Fits
  <2>1. QED
    BY <1>1, <1>3, <1>4, <1>5, <1>6, <1>7, <1>8, <1>9
<1>11. QED
  BY <1>1, <1>10

\* Hiddify is recommended and runs everywhere: it is the first app, and always available.
LEMMA HiddifyFirst ==
  ASSUME NEW platform \in Platforms, NEW ks, Range(ks) \cap Basic # {}
  PROVE  /\ 1 \in AvailableClients(platform, ks)
         /\ \A i \in DOMAIN ClientMatrix \ {1} : Before(1, i) /\ ~Before(i, 1)
<1>1. /\ ClientMatrix[1].recommended = TRUE /\ ClientMatrix[1].platforms = Platforms
      /\ Basic \subseteq ClientMatrix[1].protocols
  BY MatrixIs DEF Hiddify, Client, Basic, ReallyAll
<1>2. 1 \in AvailableClients(platform, ks)
  BY <1>1, MatrixIs DEF AvailableClients, AvailableAnyProtocol, Range
<1>3. \A i \in DOMAIN ClientMatrix : ClientMatrix[i].recommended \in BOOLEAN
  BY MatrixIs
<1>4. ASSUME NEW i \in DOMAIN ClientMatrix \ {1}
      PROVE  Before(1, i) /\ ~Before(i, 1)
  BY <1>1, <1>3, MatrixIs DEF Before
<1>5. QED
  BY <1>2, <1>4

\* The page explains an app that is available.
LEMMA ActiveIsAvailable ==
  ASSUME NEW platform \in Platforms, NEW ks, Range(ks) \cap Basic # {},
         NEW requested \in DOMAIN ClientMatrix
  PROVE  ActiveClient(AvailableClients(platform, ks), requested) \in AvailableClients(platform, ks)
<1> DEFINE available == AvailableClients(platform, ks)
           First(i)  == \A j \in available \ {i} : Before(i, j)
<1>1. 1 \in available /\ available \subseteq DOMAIN ClientMatrix
  BY HiddifyFirst DEF AvailableClients, AvailableAnyProtocol
<1>2. First(1)
  BY <1>1, HiddifyFirst
<1>3. (CHOOSE i \in available : First(i)) \in available
  BY <1>1, <1>2
<1>4. QED
  BY <1>1, <1>3 DEF ActiveClient

\* A subscription has a node for each protocol that has a link.
LEMMA SubscriptionHas ==
  ASSUME NEW ks, ks # <<>>, NEW k \in Range(ks), HasLink(k)
  PROVE  k \in Subscription(ks)
  BY DEF Subscription, Assigned

\* What the route of the code encodes, and what the panel hands over, by the mode.
LEMMA EncodedIs ==
  ASSUME NEW ks
  PROVE  /\ Encoded("wireguard", ks) = WireguardConf
         /\ HasDirectLink(ks) => Encoded("direct", ks) = {DirectLink(ks)}
         /\ Encoded("subscription", ks) = Subscription(ks)
<1>1. Encoded("wireguard", ks) = WireguardConf
  BY DEF Encoded
<1>2. HasDirectLink(ks) => Encoded("direct", ks) = {DirectLink(ks)}
  BY DEF Encoded
<1>3. Encoded("subscription", ks) = Subscription(ks)
  BY DEF Encoded
<1>4. QED
  BY <1>1, <1>2, <1>3

LEMMA HandedOverIs ==
  ASSUME NEW c, NEW ks
  PROVE  /\ LinkMode(c, ks) = "wireguard" => HandedOver(c, ks) = WireguardConf
         /\ LinkMode(c, ks) = "direct" => HandedOver(c, ks) = {DirectLink(ks)}
         /\ LinkMode(c, ks) = "subscription" => HandedOver(c, ks) = Subscription(ks)
<1>1. LinkMode(c, ks) = "wireguard" => HandedOver(c, ks) = WireguardConf
  BY DEF HandedOver
<1>2. LinkMode(c, ks) = "direct" => HandedOver(c, ks) = {DirectLink(ks)}
  BY DEF HandedOver
<1>3. LinkMode(c, ks) = "subscription" => HandedOver(c, ks) = Subscription(ks)
  BY DEF HandedOver
<1>4. QED
  BY <1>1, <1>2, <1>3

\* The code and the panel, drawn by two routes, hold the same.
LEMMA CodeIsHandedOver ==
  ASSUME NEW c, NEW ks
  PROVE  QrBlock(c, ks) = HandedOver(c, ks)
<1>1. LinkMode(c, ks) = "direct" => HasDirectLink(ks)
  BY DEF LinkMode
<1>2. LinkMode(c, ks) \in {"wireguard", "direct", "subscription"}
  BY DEF LinkMode
<1>3. QED
  BY <1>1, <1>2, EncodedIs, HandedOverIs DEF QrBlock

\* What is handed over is of use, but for the exceptions.
LEMMA HandedOverIsOfUse ==
  ASSUME NEW i \in DOMAIN ClientMatrix, NEW ks, NEW k \in Basic, k \in Range(ks),
         ClientMatrix[i].protocols \cap Range(ks) # {},
         ClientMatrix[i].imports = "wireguard" => peer,
         ClientMatrix[i].imports = "direct" => 1 \in DOMAIN ks /\ ks[1] \in Basic,
         ks \in Seq(Catalogued)
  PROVE  HandedOver(ClientMatrix[i], ks) \cap ClientMatrix[i].protocols # {}
<1> DEFINE c == ClientMatrix[i]
<1>1. \/ c.imports \in {"subscription", "direct"} /\ Basic \subseteq c.protocols
      \/ c.imports = "wireguard" /\ c.protocols = Wg
  BY MatrixIs
<1> HIDE DEF c
<1>2. CASE c.imports = "wireguard"
  <2>1. "wireguard" \in Range(ks) /\ WireguardConf = Wg
    BY <1>1, <1>2 DEF c, Wg, WireguardConf
  <2>2. HandedOver(c, ks) = Wg
    BY <1>2, <2>1 DEF HandedOver, LinkMode, Wg
  <2>3. QED
    BY <1>1, <1>2, <2>2 DEF c, Wg
<1>3. CASE c.imports = "direct"
  <2>1. HasLink(ks[1]) /\ HasDirectLink(ks)
    BY <1>3, BasicHasLink DEF c, HasDirectLink
  <2>2. DirectLink(ks) = ks[1]
    <3> DEFINE First(m) == HasLink(ks[m]) /\ \A j \in 1 .. m - 1 : ~HasLink(ks[j])
    <3>1. 1 \in DOMAIN ks /\ First(1)
      BY <1>3, <2>1 DEF c
    <3>2. ASSUME NEW m \in DOMAIN ks, First(m)
          PROVE  m = 1
      BY <2>1, <3>2
    <3>3. (CHOOSE m \in DOMAIN ks : First(m)) = 1
      BY <3>1, <3>2
    <3>4. QED
      BY <3>3 DEF DirectLink
  <2>3. HandedOver(c, ks) = {ks[1]}
    BY <1>3, <2>1, <2>2 DEF HandedOver, LinkMode
  <2>4. QED
    BY <1>1, <1>3, <2>3 DEF c
<1>4. CASE c.imports = "subscription"
  <2>1. HandedOver(c, ks) = Subscription(ks)
    BY <1>4 DEF HandedOver, LinkMode
  <2>2. ks # <<>>
    BY DEF Range
  <2>3. k \in Subscription(ks)
    BY <2>2, SubscriptionHas, BasicHasLink
  <2>4. QED
    BY <1>1, <1>4, <2>1, <2>3 DEF c
<1>5. QED
  BY <1>1, <1>2, <1>3, <1>4

\* Whoever opens the invite page of a key that has a basic protocol is shown an app that runs on
\* their device and handed something it can use, but for WireGuard's apps without a peer, and apps
\* that import one link where the list of protocols begins with one that is not basic.
THEOREM VisitorsAreServed == Spec => []VisitorIsServed
<1>1. TypeOK => VisitorIsServed
  <2> SUFFICES ASSUME KeysOf(key), Range(key) \cap Basic # {},
                      NEW platform \in Platforms, NEW requested \in DOMAIN ClientMatrix,
                      NEW i, i = ActiveClient(AvailableClients(platform, key), requested)
               PROVE  LET c == ClientMatrix[i]  handed == HandedOver(c, key) IN
        /\ platform \in c.platforms
        /\ QrBlock(c, key) = handed
        /\ (c.imports = "wireguard" => peer) /\ (c.imports = "direct" => key[1] \in Basic) =>
             handed \cap c.protocols # {}
    BY TypesAre DEF VisitorIsServed
  <2>1. PICK k \in Basic : k \in Range(key)
    OBVIOUS
  <2>2. i \in AvailableClients(platform, key)
    BY ActiveIsAvailable
  <2>3. /\ i \in DOMAIN ClientMatrix /\ platform \in ClientMatrix[i].platforms
        /\ ClientMatrix[i].protocols \cap Range(key) # {}
    BY <2>2 DEF AvailableClients, AvailableAnyProtocol, Range
  <2>4. 1 \in DOMAIN key
    BY <2>1 DEF KeysOf, Range
  <2>5. ASSUME ClientMatrix[i].imports = "wireguard" => peer,
               ClientMatrix[i].imports = "direct" => key[1] \in Basic
        PROVE  HandedOver(ClientMatrix[i], key) \cap ClientMatrix[i].protocols # {}
    BY <2>1, <2>3, <2>4, <2>5, HandedOverIsOfUse DEF KeysOf
  <2>6. QED
    BY <2>3, <2>5, CodeIsHandedOver
<1>2. QED
  BY <1>1, TypeCorrect, PTL

----------------------------------------------------------------------------
(***************************************************************************)
(* Presets.                                                                *)
(***************************************************************************)

\* A set of violations at least as hard gives a state at least as bad.
LEMMA HarderIsWorse ==
  ASSUME NEW V, NEW W, \A v \in V : \E w \in W : v.hard => w.hard
  PROVE  Rank[StateOf(V)] <= Rank[StateOf(W)]
<1>1. StateOf(V) \in {"in", "review", "out"} /\ StateOf(W) \in {"in", "review", "out"}
  BY DEF StateOf
<1>2. /\ Rank["in"] = 0 /\ Rank["review"] = 1 /\ Rank["out"] = 2
  BY DEF Rank
<1>3. StateOf(V) = "out" => StateOf(W) = "out"
  BY DEF StateOf
<1>4. StateOf(V) = "review" => StateOf(W) # "in"
  BY DEF StateOf
<1>5. QED
  BY <1>1, <1>2, <1>3, <1>4

\* Live networks are no more than the addresses.
LEMMA FewNetworks ==
  ASSUME NEW s, s.live \subseteq IPs
  PROVE  /\ Cardinality(LiveNetworks(s)) \in Nat
         /\ Cardinality(LiveNetworks(s)) <= Cardinality(IPs)
         /\ Cardinality(IPs) \in Nat
<1>1. IsFiniteSet(IPs)
  BY ReviewAssumption
<1>2. IsFiniteSet(s.live) /\ Cardinality(s.live) <= Cardinality(IPs)
  BY <1>1, FS_Subset
<1>3. IsFiniteSet(LiveNetworks(s)) /\ Cardinality(LiveNetworks(s)) <= Cardinality(s.live)
  <2> DEFINE labelling == [ip \in s.live |-> Label(ip)]
  <2>1. labelling \in Surjection(s.live, LiveNetworks(s))
    BY DEF Surjection, LiveNetworks, Labels
  <2> HIDE DEF labelling
  <2>2. QED
    BY <1>2, <2>1, FS_Surjection
<1>4. /\ Cardinality(IPs) \in Nat /\ Cardinality(s.live) \in Nat
      /\ Cardinality(LiveNetworks(s)) \in Nat
  BY <1>1, <1>2, <1>3, FS_CardinalityType
<1>5. QED
  BY <1>2, <1>3, <1>4

\* The rules of a preset.
LEMMA RulesAre ==
  /\ /\ Rules["strict"].networks = 1 /\ Rules["strict"].overflow = "block"
     /\ Rules["strict"].geo = "home"
     /\ Rules["strict"].newIsp = "block" /\ Rules["strict"].datacenter = "block"
  /\ /\ Rules["balanced"].networks = 2 /\ Rules["balanced"].overflow = "warn"
     /\ Rules["balanced"].geo = "warn_new"
     /\ Rules["balanced"].newIsp = "warn" /\ Rules["balanced"].datacenter = "warn"
  /\ /\ Rules["open"].networks = Unlimited /\ Rules["open"].overflow = "allow"
     /\ Rules["open"].geo = "any"
     /\ Rules["open"].newIsp = "allow" /\ Rules["open"].datacenter = "allow"
  BY DEF Rules

\* What every preset holds against a key alike.
Always(k, s) == When(s.conflict, {Violation("conflict", NoIsp, TRUE)})
                \cup When(TravelsTooFast(s), {Violation("impossible_travel", NoIsp, TRUE)})
                \cup When(k \in OverCap, {Violation("traffic", NoIsp, FALSE)})

Abroad(s) == {n \in LiveNetworks(s) : ~KnownCountry(s, n)}

\* What a preset with such rules holds against a key.
LEMMA ViolationsAre ==
  ASSUME NEW preset, NEW k, NEW s, NEW v
  PROVE  v \in Violations(preset, k, s) <=>
           LET r == Rules[preset] IN
           \/ v \in Always(k, s)
           \/ /\ Cardinality(LiveNetworks(s)) > r.networks
              /\ r.overflow # "allow" \/ r.networks <= 1
              /\ v = Violation("max_networks", NoIsp, r.overflow = "block" \/ r.networks <= 1)
           \/ /\ r.datacenter # "allow"
              /\ \E n \in LiveNetworks(s) :
                   InDatacenter(s, n) /\ v = Violation("datacenter", n, r.datacenter = "block")
           \/ /\ r.newIsp # "allow"
              /\ \E n \in LiveNetworks(s) :
                   ~KnownIsp(s, n) /\ v = Violation("new_isp", n, r.newIsp = "block")
           \/ r.geo = "home" /\ \E n \in Abroad(s) : v = Violation("geo", n, TRUE)
           \/ /\ r.geo = "warn_new"
              /\ \E n \in Abroad(s) : KnownIsp(s, n) /\ v = Violation("geo", n, FALSE)
  BY DEF Violations, When, Always, Abroad

\* A key that open flags, balanced flags for the same reasons.
LEMMA BalancedIsHarder ==
  ASSUME NEW k, NEW s, s.live \subseteq IPs
  PROVE  Violations("open", k, s) \subseteq Violations("balanced", k, s)
<1>1. ~(Cardinality(LiveNetworks(s)) > Unlimited)
  BY FewNetworks DEF Unlimited
<1>2. ASSUME NEW v \in Violations("open", k, s)
      PROVE  v \in Always(k, s)
  BY <1>1, <1>2, RulesAre, ViolationsAre
<1>3. QED
  BY <1>2, ViolationsAre

\* Whatever balanced holds against a key, strict holds something as hard against it.
LEMMA StrictIsHarder ==
  ASSUME NEW k, NEW s, s.live \subseteq IPs, NEW v \in Violations("balanced", k, s)
  PROVE  \E w \in Violations("strict", k, s) : v.hard => w.hard
<1> DEFINE W == Violations("strict", k, s)
<1>1. CASE v \in Always(k, s)
  <2>1. v \in W
    BY <1>1, ViolationsAre
  <2>2. QED
    BY <2>1
<1>2. CASE Cardinality(LiveNetworks(s)) > 2
  <2>1. Cardinality(LiveNetworks(s)) > 1
    BY <1>2, FewNetworks
  <2>2. (Rules["strict"].overflow = "block" \/ Rules["strict"].networks <= 1) = TRUE
    BY RulesAre
  <2>3. Violation("max_networks", NoIsp,
                  Rules["strict"].overflow = "block" \/ Rules["strict"].networks <= 1) \in W
    BY <2>1, RulesAre, ViolationsAre
  <2>4. Violation("max_networks", NoIsp, TRUE) \in W
    BY <2>2, <2>3
  <2>5. QED
    BY <2>4 DEF Violation
<1>3. ASSUME NEW n \in LiveNetworks(s), InDatacenter(s, n)
      PROVE  \E w \in W : v.hard => w.hard
  <2>1. Violation("datacenter", n, TRUE) \in W
    BY <1>3, RulesAre, ViolationsAre
  <2>2. QED
    BY <2>1 DEF Violation
<1>4. ASSUME NEW n \in LiveNetworks(s), ~KnownIsp(s, n)
      PROVE  \E w \in W : v.hard => w.hard
  <2>1. Violation("new_isp", n, TRUE) \in W
    BY <1>4, RulesAre, ViolationsAre
  <2>2. QED
    BY <2>1 DEF Violation
<1>5. ASSUME NEW n \in Abroad(s)
      PROVE  \E w \in W : v.hard => w.hard
  <2>1. Violation("geo", n, TRUE) \in W
    BY <1>5, RulesAre, ViolationsAre
  <2>2. QED
    BY <2>1 DEF Violation
<1>6. \/ v \in Always(k, s)
      \/ Cardinality(LiveNetworks(s)) > 2
      \/ \E n \in LiveNetworks(s) : InDatacenter(s, n) \/ ~KnownIsp(s, n)
      \/ \E n \in Abroad(s) : TRUE
  BY RulesAre, ViolationsAre
<1>7. QED
  BY <1>1, <1>2, <1>3, <1>4, <1>5, <1>6

LEMMA PresetsOrderAKey ==
  ASSUME NEW k, NEW s, s.live \subseteq IPs
  PROVE  /\ Rank[StateOf(Violations("open", k, s))] <= Rank[StateOf(Violations("balanced", k, s))]
         /\ Rank[StateOf(Violations("balanced", k, s))] <= Rank[StateOf(Violations("strict", k, s))]
<1>1. \A v \in Violations("open", k, s) :
        \E w \in Violations("balanced", k, s) : v.hard => w.hard
  BY BalancedIsHarder
<1>2. \A v \in Violations("balanced", k, s) :
        \E w \in Violations("strict", k, s) : v.hard => w.hard
  BY StrictIsHarder
<1>3. QED
  BY <1>1, <1>2, HarderIsWorse

\* A page shows addresses as live, however old it is.
PagesShowAddresses ==
  /\ page = [o \in Pages |-> [stats |-> page[o].stats, store |-> page[o].store]]
  /\ \A o \in Pages, k \in Keys : page[o].stats[k].live \subseteq IPs

LEMMA StatShowsAddresses == \A k, p : StatOf(k, p).live \subseteq IPs
  BY DEF StatOf, Seen

LEMMA InitShows == ReviewInit => PagesShowAddresses
  BY StatShowsAddresses DEF ReviewInit, PagesShowAddresses

LEMMA StepShows == PagesShowAddresses /\ [ReviewNext]_reviewVars => PagesShowAddresses'
<1> SUFFICES ASSUME PagesShowAddresses, [ReviewNext]_reviewVars
             PROVE  PagesShowAddresses'
  OBVIOUS
<1>1. ASSUME NEW o \in Pages, FetchStats(o)
      PROVE  PagesShowAddresses'
  BY <1>1, StatShowsAddresses DEF PagesShowAddresses, FetchStats
<1>2. ASSUME NEW o \in Pages, FetchPosture(o)
      PROVE  PagesShowAddresses'
  BY <1>2 DEF PagesShowAddresses, FetchPosture
<1>3. CASE UNCHANGED page
  BY <1>3 DEF PagesShowAddresses
<1>4. ASSUME NEW k \in Keys, NEW ip \in Uses[k], Connect(k, ip) \/ Ageing(k, ip)
      PROVE  UNCHANGED page
  BY <1>4 DEF Connect, Ageing
<1>5. Administer => UNCHANGED page
  BY DEF Administer, SetKeyPreset, SetGroupPreset, RenameGroup, MoveKey, ClearDevice, Edit
<1>6. ASSUME NEW o \in Pages, Browse(o)
      PROVE  UNCHANGED page \/ FetchStats(o) \/ FetchPosture(o)
  BY <1>6 DEF Browse, Resolved, PressAny, Press, Handle, LoseCall, CallEnds
<1>7. UNCHANGED reviewVars => UNCHANGED page
  BY DEF reviewVars
<1>8. QED
  <2>1. CASE Environment
    BY <1>3, <1>4, <2>1 DEF Environment
  <2>2. CASE Administer
    BY <1>3, <1>5, <2>2
  <2>3. CASE \E o \in Pages : Browse(o)
    BY <1>1, <1>2, <1>3, <1>6, <2>3
  <2>4. QED
    BY <1>3, <1>7, <2>1, <2>2, <2>3 DEF ReviewNext

\* A stricter preset never judges a key more mildly, for any keys, addresses, providers, places
\* and caps, and whatever the page saw of the key and the operators chose.
THEOREM PresetsAlwaysOrdered == ReviewSpec => []PresetsAreOrdered
<1>1. PagesShowAddresses => PresetsAreOrdered
  BY PresetsOrderAKey DEF PagesShowAddresses, PresetsAreOrdered
<1>2. QED
  BY <1>1, InitShows, StepShows, PTL DEF ReviewSpec

=============================================================================
