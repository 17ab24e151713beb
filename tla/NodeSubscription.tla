-------------------------- MODULE NodeSubscription -------------------------
(***************************************************************************)
(* What a subscription's answer becomes (clash-core/src/config/            *)
(* profiles.rs): a profile in YAML is kept as it is; a list of node URIs,  *)
(* plain or in base64, is converted to a profile with one group over all   *)
(* its nodes; anything else is refused.                                    *)
(*                                                                         *)
(* A line is a record: the scheme and how it is written, whether the rest  *)
(* has the form its scheme asks for, which parts it has, its port, name    *)
(* and transport.  Lines that are no URI are skipped and not listed.  A    *)
(* body says whether it is YAML with nodes or providers, its lines, and    *)
(* the lines it has once decoded from base64, if it can be decoded.        *)
(***************************************************************************)
EXTENDS Lists

CONSTANTS NoText,       \* the body is not base64 of a text
          NoDocument,   \* the body is refused
          AsIs          \* the document is the body itself

TypeOf == [vmess |-> "vmess", ss |-> "ss", ssr |-> "ssr", trojan |-> "trojan", vless |-> "vless",
           hysteria2 |-> "hysteria2", hy2 |-> "hysteria2", hysteria |-> "hysteria", hy |-> "hysteria",
           tuic |-> "tuic", anytls |-> "anytls", http |-> "http", https |-> "http", socks |-> "socks5",
           socks5 |-> "socks5", wireguard |-> "wireguard", wg |-> "wireguard"]

\* A name is a list of words, the switches are on or off.
LineFits(l) ==
    Len(l.name) \in Nat /\ l.name = [i \in 1..Len(l.name) |-> l.name[i]] /\ {l.tls, l.sni, l.host} \subseteq BOOLEAN

\* The scheme is recognised in any case and with blanks behind it ...
CollectNodeLines(lines) == Retained(lines, {i \in DOMAIN lines : lines[i].scheme \in DOMAIN TypeOf})

\* ... but three parsers look for it in lower case, and none accepts the blanks.
ReadsScheme(l) ==
    \/ l.writing = "plain"
    \/ l.writing = "upper" /\ TypeOf[l.scheme] \notin {"vmess", "ss", "ssr"}

-----------------------------------------------------------------------------
(* One parser per type: what it needs, and the port it takes.              *)

Shared(l) == "server" \in l.parts
NeedsPort(l) == l.port \in {"good", "zero"}
DefaultsPort(l) == l.port # "bad"

ParsesVmess(l) == l.formed /\ Shared(l) /\ NeedsPort(l) /\ "user" \in l.parts
ParsesShadowsocks(l) == l.formed /\ Shared(l) /\ NeedsPort(l) /\ {"user", "password"} \subseteq l.parts
ParsesShadowsocksr(l) == l.formed /\ Shared(l) /\ NeedsPort(l)
ParsesTrojan(l) == l.formed /\ Shared(l) /\ DefaultsPort(l) /\ "user" \in l.parts
ParsesVless(l) == l.formed /\ Shared(l) /\ NeedsPort(l) /\ "user" \in l.parts
ParsesHysteria2(l) == l.formed /\ Shared(l) /\ DefaultsPort(l) /\ "user" \in l.parts
ParsesHysteria(l) == Shared(l)
ParsesTuic(l) == l.formed /\ Shared(l) /\ NeedsPort(l) /\ {"token", "user"} \cap l.parts # {}
ParsesHttp(l) == Shared(l)
ParsesSocks(l) == Shared(l)
ParsesWireguard(l) == Shared(l) /\ "user" \in l.parts
ParsesAnytls(l) == l.formed /\ Shared(l) /\ NeedsPort(l) /\ {"password", "user"} \cap l.parts # {}

ParseNodeUri(l) ==
    LET type == TypeOf[l.scheme]
    IN /\ ReadsScheme(l)
       /\ \/ type = "vmess" /\ ParsesVmess(l)
          \/ type = "ss" /\ ParsesShadowsocks(l)
          \/ type = "ssr" /\ ParsesShadowsocksr(l)
          \/ type = "trojan" /\ ParsesTrojan(l)
          \/ type = "vless" /\ ParsesVless(l)
          \/ type = "hysteria2" /\ ParsesHysteria2(l)
          \/ type = "hysteria" /\ ParsesHysteria(l)
          \/ type = "tuic" /\ ParsesTuic(l)
          \/ type = "http" /\ ParsesHttp(l)
          \/ type = "socks5" /\ ParsesSocks(l)
          \/ type = "wireguard" /\ ParsesWireguard(l)
          \/ type = "anytls" /\ ParsesAnytls(l)

\* Four parsers read the URI on their own and take no port they do not like.
PortOrDefault(l) == IF l.port = "good" THEN 8443 ELSE 443
PortOf(l) ==
    IF TypeOf[l.scheme] \in {"hysteria", "http", "socks5", "wireguard"} \/ l.port # "zero"
    THEN PortOrDefault(l) ELSE 0

\* A tuic node has a token, or a uuid and a password, or its user is the token.
TuicAuth(l) ==
    IF "token" \notin l.parts /\ {"user", "password"} \subseteq l.parts THEN "uuid" ELSE "token"

-----------------------------------------------------------------------------
(* Transports of vmess, vless and trojan nodes.                            *)

Networks == {"ws", "http", "grpc", "h2", "tcp"}
NormalizeTransport(net) ==
    [network |-> IF net \in {"websocket", "httpupgrade"} THEN "ws" ELSE IF net \in Networks THEN net ELSE "tcp",
     upgrade |-> net = "httpupgrade"]

\* For vless nodes "ws" asks for an upgrade, "websocket" does not.
VlessNetwork(l) ==
    IF l.header = "http" THEN [network |-> "http", upgrade |-> FALSE]
    ELSE IF l.net = "ws" THEN [network |-> "ws", upgrade |-> TRUE] ELSE NormalizeTransport(l.net)

TransportOf(l) ==
    CASE TypeOf[l.scheme] = "vless" -> VlessNetwork(l)
      [] TypeOf[l.scheme] = "vmess" -> NormalizeTransport(IF l.header = "http" THEN "http" ELSE l.net)
      [] TypeOf[l.scheme] = "trojan" -> NormalizeTransport(l.net)
      [] OTHER -> [network |-> "tcp", upgrade |-> FALSE]

\* The options of the transport keep its host, where it has a place for one.
TransportHost(l) == l.host /\ TransportOf(l).network \in {"ws", "http", "h2"}

\* A node over TLS that names no server gets the host of its transport.
FillServername(l) ==
    CASE TypeOf[l.scheme] = "vmess" -> l.sni \/ l.host \/ (l.tls /\ TransportHost(l))
      [] TypeOf[l.scheme] = "vless" -> l.sni \/ (l.tls /\ TransportHost(l))
      [] OTHER -> l.sni

-----------------------------------------------------------------------------
(* Names, and the profile.                                                 *)

Title == [vmess |-> "VMess", ss |-> "SS", ssr |-> "server", trojan |-> "Trojan", vless |-> "VLESS",
          hysteria2 |-> "Hysteria2", hysteria |-> "Hysteria", tuic |-> "TUIC", anytls |-> "AnyTLS",
          http |-> "HTTP", socks5 |-> "SOCKS5", wireguard |-> "WireGuard"]

\* A node without a name is called after its type, server and port (an ssr node after its server).
NameOf(l) ==
    LET type == TypeOf[l.scheme]
    IN IF l.name # <<>> THEN l.name
       ELSE IF type = "ssr" THEN <<Title[type]>> ELSE <<Title[type], "server", PortOf(l)>>

\* Mutant: the second node of a name gets its number without a look at the other names.
UniqueProxyNameOnce(base, used) == IF base \in used THEN Numbered(base, 2) ELSE base

UniqueProxyName(base, used) == FirstFree(base, used)

NodeOf(l, name) ==
    [name |-> name, type |-> TypeOf[l.scheme], port |-> PortOf(l), auth |-> TuicAuth(l),
     tls |-> l.tls, transport |-> [network |-> TransportOf(l).network, upgrade |-> TransportOf(l).upgrade, host |-> TransportHost(l)], servername |-> FillServername(l)]

Names(nodes) == {nodes[i].name : i \in DOMAIN nodes}
WithNode(nodes, l) == Append(nodes, NodeOf(l, UniqueProxyName(NameOf(l), Names(nodes))))
NodesOf(lines) ==
    LET f[n \in 0..Len(lines)] ==
            IF n = 0 THEN <<>>
            ELSE WithNode(f[n - 1], lines[n])
    IN f[Len(lines)]

\* The first of these names that no node has.
GroupNames == <<<<"Proxy">>, <<"Remote">>, <<"Subscription">>>>
SelectGroupName(nodes) ==
    LET free == {i \in DOMAIN GroupNames : GroupNames[i] \notin Names(nodes)}
    IN IF free = {} THEN <<"Subscription", "Select">> ELSE GroupNames[Min(free)]

BuildProfile(nodes) ==
    LET group == SelectGroupName(nodes)
    IN [proxies |-> nodes, group |-> group, members |-> [i \in DOMAIN nodes |-> nodes[i].name], matchTo |-> group]

\* Lines in the body itself count before any base64.  Bad lines are left out.
LinesOf(body) == IF body.lines # <<>> THEN body.lines ELSE IF body.decoded = NoText THEN <<>> ELSE body.decoded
Convert(body) ==
    LET uris == CollectNodeLines(LinesOf(body))
        parsed == Retained(uris, {i \in DOMAIN uris : ParseNodeUri(uris[i])})
    IN IF parsed = <<>> THEN NoDocument ELSE BuildProfile(NodesOf(parsed))

\* YAML counts when it has nodes or providers.
NormalizeRemoteProfile(body) == IF body.yaml THEN AsIs ELSE Convert(body)
=============================================================================
