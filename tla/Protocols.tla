----------------------------- MODULE Protocols -----------------------------
(***************************************************************************)
(* The protocols a key may have, as the dashboard knows them in many       *)
(* places: the catalog, the templates of inbounds and their two            *)
(* classifiers, the links and subscriptions keys are handed out with, and  *)
(* the table of client apps the invite page picks from.  An operator makes *)
(* an inbound from a template and edits it, makes a key from a preset, and *)
(* the key's holder opens the invite page on some device.                  *)
(*                                                                         *)
(* Abstracted: an inbound is what decides who can dial it.  A port, path,  *)
(* host or SNI is the one its protocol is given in the source ("std"       *)
(* stands for the server's own) or Other.  A draft is one JSON text.       *)
(***************************************************************************)
EXTENDS Naturals, Sequences, SequencesExt

CONSTANTS
  Networks,      \* what an operator may set a draft's network to
  Securities,    \* and its security
  Other,         \* a port, path, host or SNI an operator types in
  None,
  MaxChanges     \* of a draft's fields and of a key's protocols, together

ASSUME ProtocolsConstants == MaxChanges \in Nat

VARIABLES
  draft,      \* the inbound in the editor, or None
  mode,       \* "create" or "edit"
  inbound,    \* the inbound as saved, or None
  listed,     \* does it list the key
  synced,     \* has the key been synced since the inbound was saved
  selected,   \* the protocols selected for a new key
  key,        \* the key's protocols, or <<>> when it is not made
  peer,       \* has WireGuard a peer of the key's name
  changes     \* how often a draft or a key's protocols were changed by hand

vars == <<draft, mode, inbound, listed, synced, selected, key, peer, changes>>

----------------------------------------------------------------------------
(***************************************************************************)
(* The catalog and its templates.                                          *)
(***************************************************************************)

\* PROTOCOL_CATALOG: who runs a protocol.
Engine(k) == CASE k = "hysteria2" -> "hysteria2" [] k = "wireguard" -> "wireguard" [] OTHER -> "xray"

CatalogKeys == <<"vless-reality", "vmess-ws-tls", "vmess-grpc-tls", "vless-ws-tls",
  "vless-grpc-tls", "trojan-tls", "trojan-ws-tls", "shadowsocks", "hysteria2", "wireguard",
  "vless-xhttp-tls", "vmess-xhttp-tls", "vless-httpupgrade", "vmess-httpupgrade", "vless-mkcp",
  "vmess-mkcp", "http", "socks", "dokodemo">>

ASSUME NoneIsNoProtocol == None \notin Range(CatalogKeys)

Utilities == {"http", "socks", "dokodemo"}
PerUser   == {k \in Range(CatalogKeys) : Engine(k) = "xray"} \ Utilities

Address(protocol, network, security, port, sni, host, path) ==
  [protocol |-> protocol, network |-> network, security |-> security, port |-> port,
   sni |-> sni, host |-> host, path |-> path]

Plain(protocol, port)                    == Address(protocol, "tcp", "none", port, "", "", "")
OverTls(protocol, network, host, path)   == Address(protocol, network, "tls", "443", "std", host, path)

\* The address of inboundTemplate and of the page's own buildTemplate.
Template(k) ==
  CASE k = "vless-reality"     -> Address("vless", "tcp", "reality", "443", "decoy", "", "")
    [] k = "vless-ws-tls"      -> OverTls("vless", "ws", "std", "/vless-ws")
    [] k = "vless-grpc-tls"    -> OverTls("vless", "grpc", "", "vless-grpc")
    [] k = "vmess-ws-tls"      -> OverTls("vmess", "ws", "std", "/vmess-ws")
    [] k = "vmess-grpc-tls"    -> OverTls("vmess", "grpc", "", "vmess-grpc")
    [] k = "trojan-tls"        -> Address("trojan", "tcp", "tls", "2053", "std", "", "")
    [] k = "trojan-ws-tls"     -> OverTls("trojan", "ws", "std", "/trojan-ws")
    [] k = "shadowsocks"       -> Plain("shadowsocks", "8388")
    [] k = "vless-xhttp-tls"   -> OverTls("vless", "xhttp", "std", "/vless-xhttp")
    [] k = "vmess-xhttp-tls"   -> OverTls("vmess", "xhttp", "std", "/vmess-xhttp")
    [] k = "vless-httpupgrade" -> OverTls("vless", "httpupgrade", "std", "/vless-hu")
    [] k = "vmess-httpupgrade" -> OverTls("vmess", "httpupgrade", "std", "/vmess-hu")
    [] k = "vless-mkcp"        -> Address("vless", "kcp", "none", "4500", "", "", "")
    [] k = "vmess-mkcp"        -> Address("vmess", "kcp", "none", "4500", "", "", "")
    [] k = "http"              -> Plain("http", "8080")
    [] k = "socks"             -> Plain("socks", "1080")
    [] k = "dokodemo"          -> Plain("dokodemo-door", "12345")

\* The draft: an address, and for which network and security it has settings, which stay
\* when the JSON's network or security is changed.
Drafted(k) ==
  [at |-> Template(k), settings |-> {Template(k).network, Template(k).security}]

\* quickFieldsPresent, by the settings the draft has.
QuickFields(d) ==
  {"port"}
  \cup (IF d.settings \cap {"reality", "tls"} # {} THEN {"sni"} ELSE {})
  \cup (IF d.settings \cap {"ws", "xhttp", "httpupgrade"} # {} THEN {"host"} ELSE {})
  \cup (IF d.settings \cap {"ws", "xhttp", "httpupgrade", "grpc"} # {} THEN {"path"} ELSE {})

\* writeQuickField.
WriteQuickField(d, f, v) == [d EXCEPT !.at[f] = v]

\* classifyTransport, the same in inbounds.ts and in inbound-config.ts: the network, and
\* whether with TLS, or the name that stands for both.
Transport(name, tls) == [name |-> name, tls |-> tls]
ClassifyTransport(at) ==
  CASE at.security = "reality"          -> Transport("reality", FALSE)
    [] at.security # "reality" /\ at.network \in {"kcp", "mkcp"} -> Transport("mkcp", FALSE)
    [] OTHER                            -> Transport(at.network, at.security = "tls")

\* matchCatalogKey: what the Protocols page shows an inbound as, or None.
MatchCatalogKey(at) ==
  LET t == ClassifyTransport(at)
      WithTls == [vless  |-> [ws |-> "vless-ws-tls", grpc |-> "vless-grpc-tls"],
                  vmess  |-> [ws |-> "vmess-ws-tls", grpc |-> "vmess-grpc-tls"],
                  trojan |-> [ws |-> "trojan-ws-tls"]]
      Either  == [vless  |-> [reality |-> "vless-reality", xhttp |-> "vless-xhttp-tls",
                              httpupgrade |-> "vless-httpupgrade", mkcp |-> "vless-mkcp"],
                  vmess  |-> [xhttp |-> "vmess-xhttp-tls",
                              httpupgrade |-> "vmess-httpupgrade", mkcp |-> "vmess-mkcp"],
                  trojan |-> [tcp |-> "trojan-tls"]]
      p == at.protocol IN
  CASE p \in {"shadowsocks", "http", "socks"} -> p
    [] p = "dokodemo-door" -> "dokodemo"
    [] p \in DOMAIN Either /\ t.name \in DOMAIN Either[p] -> Either[p][t.name]
    [] p \in DOMAIN WithTls /\ t.tls /\ t.name \in DOMAIN WithTls[p] -> WithTls[p][t.name]
    [] OTHER -> None

ByNetwork ==
  [vless  |-> [ws |-> "vless-ws-tls", grpc |-> "vless-grpc-tls", xhttp |-> "vless-xhttp-tls",
               httpupgrade |-> "vless-httpupgrade", kcp |-> "vless-mkcp"],
   vmess  |-> [grpc |-> "vmess-grpc-tls", xhttp |-> "vmess-xhttp-tls",
               httpupgrade |-> "vmess-httpupgrade", kcp |-> "vmess-mkcp"],
   trojan |-> [ws |-> "trojan-ws-tls"]]
Otherwise == [vless |-> "vless-reality", vmess |-> "vmess-ws-tls", trojan |-> "trojan-tls",
              shadowsocks |-> "shadowsocks"]

\* inboundProtocolKey after its first test, for Reality: by the network.
NetworkFirst(at) ==
  LET p == at.protocol IN
  CASE p \in DOMAIN ByNetwork /\ at.network \in DOMAIN ByNetwork[p] -> ByNetwork[p][at.network]
    [] p \in DOMAIN Otherwise /\ (p \in DOMAIN ByNetwork => at.network \notin DOMAIN ByNetwork[p]) ->
         Otherwise[p]
    [] OTHER -> None

\* inboundProtocolKey: the protocol whose keys an inbound lists, or None.
InboundProtocolKey(at) ==
  IF at.protocol = "vless" /\ at.security = "reality" THEN "vless-reality" ELSE NetworkFirst(at)

----------------------------------------------------------------------------
(***************************************************************************)
(* Links and subscriptions: the node a client dials for a protocol, and    *)
(* the protocols a format has nodes for.                                   *)
(***************************************************************************)

Cdn(protocol, network, path) ==
  OverTls(protocol, network, IF network = "grpc" THEN "" ELSE "std", path)

\* protocolUri and the functions that build the links.
Link(k) ==
  CASE k = "vless-reality"     -> Address("vless", "tcp", "reality", "443", "decoy", "", "")
    [] k = "vmess-ws-tls"      -> Cdn("vmess", "ws", "/vmess-ws")
    [] k = "vmess-grpc-tls"    -> Cdn("vmess", "grpc", "vmess-grpc")
    [] k = "vless-ws-tls"      -> Cdn("vless", "ws", "/vless-ws")
    [] k = "vless-grpc-tls"    -> Cdn("vless", "grpc", "vless-grpc")
    [] k = "trojan-tls"        -> Address("trojan", "tcp", "tls", "2053", "std", "", "")
    [] k = "trojan-ws-tls"     -> Cdn("trojan", "ws", "/trojan-ws")
    [] k = "shadowsocks"       -> Plain("shadowsocks", "8388")
    [] k = "hysteria2"         -> Address("hysteria2", "udp", "tls", "2096", "std", "", "")
    [] k = "vless-xhttp-tls"   -> Cdn("vless", "xhttp", "/vless-xhttp")
    [] k = "vmess-xhttp-tls"   -> Cdn("vmess", "xhttp", "/vmess-xhttp")
    [] k = "vless-httpupgrade" -> Cdn("vless", "httpupgrade", "/vless-hu")
    [] k = "vmess-httpupgrade" -> Cdn("vmess", "httpupgrade", "/vmess-hu")
    [] k = "vless-mkcp"        -> Address("vless", "kcp", "none", "4500", "", "", "")
    [] k = "vmess-mkcp"        -> Address("vmess", "kcp", "none", "4500", "", "", "")
HasLink(k) == k \notin Utilities \cup {"wireguard"}

\* singboxOutbound: the same node as the link, but for mKCP.
HasSingbox(k) == HasLink(k) /\ k \notin {"vless-mkcp", "vmess-mkcp"}

\* clashProxy naming no network at all.
ClashNodeTcp(k) == [Link(k) EXCEPT !.network = "tcp"]

\* clashProxy: a node over WebSocket names no network, which a client takes for TCP.
HasClash(k) == HasSingbox(k) /\ k \notin {"vless-httpupgrade", "vmess-httpupgrade"}
ClashNode(k) == IF Link(k).network = "ws" THEN [Link(k) EXCEPT !.network = "tcp"] ELSE Link(k)

\* The nodes of a subscription (GET /api/sub/[token]); no protocols mean Reality.
Assigned(ks) == IF ks = <<>> THEN <<"vless-reality">> ELSE ks
InBase64(ks)      == {<<k, Link(k)>> : k \in {k \in Range(ks) : HasLink(k)}}
ToClashYaml(ks)   == {<<k, ClashNode(k)>> : k \in {k \in Range(ks) : HasClash(k)}}
ToSingBoxJson(ks) == {<<k, Link(k)>> : k \in {k \in Range(ks) : HasSingbox(k)}}
Nodes(ks, format) ==
  CASE format = "raw"     -> InBase64(Assigned(ks))
    [] format = "clash"   -> ToClashYaml(Assigned(ks))
    [] format = "singbox" -> ToSingBoxJson(Assigned(ks))

\* directLink: the first protocol with a link.
HasDirectLink(ks) == \E i \in DOMAIN ks : HasLink(ks[i])
DirectLink(ks) ==
  ks[CHOOSE i \in DOMAIN ks : HasLink(ks[i]) /\ \A j \in 1 .. i - 1 : ~HasLink(ks[j])]

----------------------------------------------------------------------------
(***************************************************************************)
(* Presets and the client apps.                                            *)
(***************************************************************************)

\* ACCESS_PROFILES, and the presets of both pages.
AccessProfiles ==
  [standard    |-> <<"vless-reality">>,
   compatible  |-> <<"vless-reality", "vmess-ws-tls">>,
   universal   |-> <<"vless-reality", "vmess-ws-tls", "trojan-tls">>,
   performance |-> <<"vless-reality", "hysteria2", "wireguard">>,
   cdnSafe     |-> <<"vless-ws-tls", "vless-grpc-tls">>,
   legacy      |-> <<"vmess-ws-tls", "vmess-grpc-tls", "shadowsocks">>]

\* CLIENT_MATRIX: what an app imports, where it runs, and the protocols it has at "full" or
\* "partial".
ReallyAll == {"vless-reality", "vmess-ws-tls", "vmess-grpc-tls", "vless-ws-tls", "vless-grpc-tls",
  "trojan-tls", "trojan-ws-tls", "shadowsocks", "hysteria2", "vless-xhttp-tls",
  "vmess-xhttp-tls", "vless-httpupgrade", "vmess-httpupgrade"}
Xhttp == {"vless-xhttp-tls", "vmess-xhttp-tls"}
Basic == {"vless-reality", "vmess-ws-tls", "vless-ws-tls", "vmess-grpc-tls", "vless-grpc-tls",
  "trojan-tls", "trojan-ws-tls", "shadowsocks"}
Wg    == {"wireguard"}
Platforms == {"ios", "android", "windows", "mac", "linux"}
Client(id, imports, recommended, platforms, protocols) ==
  [id |-> id, imports |-> imports, recommended |-> recommended, platforms |-> platforms,
   protocols |-> protocols]

Hiddify      == Client("hiddify", "subscription", TRUE, Platforms, ReallyAll \cup Wg)
AvoVpn       == Client("avovpn", "subscription", TRUE, {"ios"}, Basic)
Amnezia      == Client("amnezia", "direct", FALSE, Platforms, Basic \cup Wg)
AmneziaWg    == Client("amneziawg", "wireguard", FALSE, {"ios", "android"}, Wg)
V2rayN       == Client("v2rayn", "subscription", FALSE, {"windows", "mac", "linux"}, ReallyAll)
V2rayNg      == Client("v2rayng", "subscription", FALSE, {"android"}, ReallyAll)
SingBox      == Client("singbox", "subscription", FALSE, Platforms, ReallyAll \cup Wg)
ClashVerge   == Client("clashverge", "subscription", FALSE, {"windows", "mac", "linux"},
                  (ReallyAll \ Xhttp) \cup Wg)
Shadowrocket == Client("shadowrocket", "subscription", FALSE, {"ios", "mac"},
                  (ReallyAll \ Xhttp) \cup Wg)
Streisand    == Client("streisand", "subscription", FALSE, {"ios", "mac"}, ReallyAll)
Nekoray      == Client("nekoray", "subscription", FALSE, {"windows", "linux", "android"},
                  ReallyAll \cup Wg)
WireGuard    == Client("wireguard", "wireguard", FALSE, Platforms, Wg)

ClientMatrix == <<Hiddify, AvoVpn, Amnezia, AmneziaWg, V2rayN, V2rayNg, SingBox, ClashVerge,
  Shadowrocket, Streisand, Nekoray, WireGuard>>

\* clientSupportsAny not being asked: the positions of every app that runs on the platform.
AvailableAnyProtocol(platform, ks) ==
  {i \in DOMAIN ClientMatrix : platform \in ClientMatrix[i].platforms}

\* The positions of the invite page's apps for a platform.
AvailableClients(platform, ks) ==
  {i \in AvailableAnyProtocol(platform, ks) :
     \E j \in DOMAIN ks : ks[j] \in ClientMatrix[i].protocols}

\* Recommended apps come first, otherwise they keep the order of the matrix.
Before(i, j) ==
  LET first == ClientMatrix[i].recommended  second == ClientMatrix[j].recommended IN
  IF first = second THEN i < j ELSE first

\* The position of the app it explains: the one asked for if it is available or none is, else
\* the first that is.
ActiveClient(available, requested) ==
  IF requested \in available \/ available = {} THEN requested
  ELSE CHOOSE i \in available : \A j \in available \ {i} : Before(i, j)

\* wireguardConf: the file of the peer that has the key's name.
WireguardConf == IF peer THEN Wg ELSE {}

\* The protocols of the subscription's nodes, as an app that names no format gets it: InBase64.
Subscription(ks) == {k \in Range(Assigned(ks)) : HasLink(k)}

\* How the page gives a key to an app.
LinkMode(c, ks) ==
  CASE c.imports = "wireguard" /\ "wireguard" \in Range(ks) /\ WireguardConf # {} -> "wireguard"
    [] c.imports = "direct" /\ HasDirectLink(ks) -> "direct"
    [] OTHER -> "subscription"

\* What its setup panel hands over: a WireGuard file, the direct link, or the subscription.
HandedOver(c, ks) ==
  LET linkMode == LinkMode(c, ks) IN
  CASE linkMode = "wireguard"    -> WireguardConf
    [] linkMode = "direct"       -> {DirectLink(ks)}
    [] linkMode = "subscription" -> Subscription(ks)

\* What the route of the QR code encodes, asked for a mode: it does not ask for the key's
\* protocols, and without a peer it encodes the address of the invite page.
Encoded(asked, ks) ==
  CASE asked = "wireguard" -> WireguardConf
    [] asked = "direct" /\ HasDirectLink(ks) -> {DirectLink(ks)}
    [] OTHER -> Subscription(ks)

\* The QR code on the page.
QrBlock(c, ks) == Encoded(LinkMode(c, ks), ks)

----------------------------------------------------------------------------
(***************************************************************************)
(* The pages.                                                              *)
(***************************************************************************)

XrayKeys == {k \in Range(CatalogKeys) : Engine(k) = "xray"}

\* An address has what templates write and what an operator may.
Written(f) == {Template(k)[f] : k \in XrayKeys}
Addresses ==
  [protocol : Written("protocol"), network : Written("network") \cup Networks,
   security : Written("security") \cup Securities, port : Written("port") \cup {Other},
   sni : Written("sni") \cup {Other}, host : Written("host") \cup {Other},
   path : Written("path") \cup {Other}]
Drafts == [at : Addresses, settings : SUBSET (Written("network") \cup Written("security"))]

TypeOK ==
  /\ draft \in Drafts \cup {None} /\ inbound \in Drafts \cup {None}
  /\ mode \in {"create", "edit"}
  /\ listed \in BOOLEAN /\ synced \in BOOLEAN /\ peer \in BOOLEAN
  /\ \A ks \in {selected, key} : ks \in Seq(Range(CatalogKeys)) /\ IsInjective(ks)
  /\ changes \in Nat

Init ==
  /\ draft = None /\ mode = "create" /\ inbound = None
  /\ listed = FALSE /\ synced = FALSE
  /\ selected = <<"vless-reality">> /\ key = <<>>
  /\ peer \in BOOLEAN
  /\ changes = 0

unchangedKeys == <<selected, key, peer>>

\* Bounds what is changed by hand.
Change == changes < MaxChanges /\ changes' = changes + 1

\* openCreate, with any protocol then picked (updateDraftProtocol).
OpenCreate ==
  /\ draft = None /\ inbound = None
  /\ \E k \in XrayKeys : draft' = Drafted(k)
  /\ mode' = "create"
  /\ UNCHANGED <<inbound, listed, synced, changes, unchangedKeys>>

\* updateDraftProtocol: a new template, when it is not an edit.
UpdateDraftProtocol ==
  /\ draft # None /\ mode = "create"
  /\ \E k \in XrayKeys : draft' = Drafted(k)
  /\ UNCHANGED <<mode, inbound, listed, synced, changes, unchangedKeys>>

\* openEdit: the inbound's own JSON.
OpenEdit ==
  /\ draft = None /\ inbound # None
  /\ draft' = inbound /\ mode' = "edit"
  /\ UNCHANGED <<inbound, listed, synced, changes, unchangedKeys>>

\* updateQuickField, or the JSON edited by hand.
EditDraft ==
  /\ draft # None /\ Change
  /\ \/ \E f \in QuickFields(draft) : draft' = WriteQuickField(draft, f, Other)
     \/ \E n \in Networks : draft' = [draft EXCEPT !.at.network = n]
     \/ \E s \in Securities : draft' = [draft EXCEPT !.at.security = s]
  /\ UNCHANGED <<mode, inbound, listed, synced, unchangedKeys>>

\* saveInbound.  A new inbound has no clients, an edited one those it had.
SaveInbound ==
  /\ draft # None
  /\ inbound' = draft
  /\ draft' = None
  /\ synced' = FALSE
  /\ UNCHANGED <<mode, listed, changes, unchangedKeys>>

\* toggleProtocol, of either page: a protocol is selected once or not at all.
Toggled(ks, k) ==
  IF k \in Range(ks) THEN RemoveAt(ks, CHOOSE i \in DOMAIN ks : ks[i] = k) ELSE Append(ks, k)

\* A preset, or the empty choice of "custom".
SelectPreset ==
  /\ key = <<>>
  /\ selected' \in {AccessProfiles[id] : id \in DOMAIN AccessProfiles} \cup {<<>>}
  /\ UNCHANGED <<draft, mode, inbound, listed, synced, key, peer, changes>>

ToggleProtocol ==
  /\ key = <<>> /\ Change
  /\ \E k \in Range(CatalogKeys) : selected' = Toggled(selected, k)
  /\ UNCHANGED <<draft, mode, inbound, listed, synced, key, peer>>

\* syncUserAcrossInbounds, for the inbound in question.
Sync(ks) ==
  /\ synced' = TRUE
  /\ listed' = (inbound # None /\ InboundProtocolKey(inbound.at) \in Range(ks))

\* POST /api/users.
AddUser(ks) == key' = ks /\ Sync(ks)

\* create of the panel of new keys, which is then closed and starts afresh, and of the Protocols
\* page, which then clears its form: needs a protocol.
CreateKey ==
  /\ key = <<>> /\ selected # <<>>
  /\ AddUser(selected)
  /\ selected' = <<"vless-reality">>
  /\ UNCHANGED <<draft, mode, inbound, peer, changes>>

\* PUT /api/meta/[uuid] with the protocols of a key that is not disabled, unchanged or not.
EditKey ==
  /\ key # <<>>
  /\ \/ UNCHANGED <<key, changes>>
     \/ /\ Change
        /\ \E k \in Range(CatalogKeys) : key' = Toggled(key, k) /\ key' # <<>>
  /\ Sync(key')
  /\ UNCHANGED <<draft, mode, inbound, selected, peer>>

Next ==
  \/ OpenCreate \/ UpdateDraftProtocol \/ OpenEdit \/ EditDraft \/ SaveInbound
  \/ SelectPreset \/ ToggleProtocol \/ CreateKey \/ EditKey

Spec == Init /\ [][Next]_vars

----------------------------------------------------------------------------
(***************************************************************************)
(* Properties.                                                             *)
(***************************************************************************)

\* What the Protocols page shows an inbound as is what it serves: after a key was synced, an
\* inbound that is shown as one of the key's protocols lists the key, however the inbound was
\* edited, although the two classifiers were written apart.  The exception is Xray's other
\* name of the network of mKCP, which only one of them knows.
ShownIsServed ==
  synced /\ key # <<>> /\ inbound # None /\ inbound.at.network # "mkcp" =>
    (MatchCatalogKey(inbound.at) \in Range(key) \cap PerUser => listed)

\* Every node a key is handed, as a link, for sing-box or for Clash, dials the inbound that
\* serves its protocol: whenever an inbound is what its template made it, the hand-written
\* tables of templates, links and nodes agree on it.  Clash's WebSocket nodes do not.
NodesDialTheirInbound ==
  inbound # None /\ listed /\ (\E k \in XrayKeys : inbound = Drafted(k)) =>
    LET k == InboundProtocolKey(inbound.at) IN
    \A format \in {"raw", "singbox", "clash"} : \A n \in Nodes(key, format) :
      n[1] = k /\ ~(format = "clash" /\ inbound.at.network = "ws") => n[2] = inbound.at

\* Whoever opens the invite page of a key that has one of the basic protocols, as the keys of
\* every preset do, on any device and whatever app they or the operator ask for, is shown an app
\* that runs there, and handed something that app can use, the same in the setup panel and in
\* the QR code, which another route draws.  Two kinds of app are left out: WireGuard's where
\* the key's name has no peer, and those that import one link where the list of the key's
\* protocols does not begin with a basic one, because they are given the first that has a link.
VisitorIsServed ==
  Range(key) \cap Basic # {} =>
    \A platform \in Platforms :
      LET available == AvailableClients(platform, key) IN
      \A i \in {ActiveClient(available, requested) : requested \in DOMAIN ClientMatrix} :
        LET c == ClientMatrix[i]  handed == HandedOver(c, key) IN
        /\ platform \in c.platforms
        /\ QrBlock(c, key) = handed
        /\ (c.imports = "wireguard" => peer) /\ (c.imports = "direct" => key[1] \in Basic) =>
             handed \cap c.protocols # {}

=============================================================================
