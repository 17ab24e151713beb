-------------------------- MODULE RuntimeDocument --------------------------
(***************************************************************************)
(* What the runtime configuration generator writes for the core            *)
(* (clash-core/src/config/runtime.rs, enhance.rs, dns.rs, clash.rs): the    *)
(* profile, its merges and scripts, the base configuration, the DNS file   *)
(* and the settings are laid over one another, then names that the clean-  *)
(* up removes are pruned and a group to select from is made sure of.        *)
(*                                                                         *)
(* A document is a function from the keys it has to their values; a value  *)
(* of another shape than the code expects is IllShaped.  One key stands    *)
(* for those the code treats alike: "mode" for the plain ones and          *)
(* "socks-port" for the four ports with a switch.                           *)
(***************************************************************************)
EXTENDS Lists

CONSTANTS
    Inputs,      \* what generation may find: records of profile, merges, scripts, base, settings, dns
    Chains,      \* proxy chains, sequences of node names
    Trimmed,     \* name |-> the name without the blanks around it
    NoFile,      \* there is no such file, or no such entry in the catalog
    NoName,
    IllShaped    \* a value that is neither a sequence nor a mapping

\* The node that every core has.
DirectNode == <<"DIRECT">>

AnyName == DOMAIN Trimmed
NodeRecords == [name : AnyName, server : STRING, dialer : AnyName]
OwnGroupNames == {<<"Proxy">>} \cup ({"Proxy"} \X Nat)
GroupRecords ==
    [name : AnyName \cup OwnGroupNames, proxies : Seq(AnyName), use : Seq(STRING), all : BOOLEAN]
RuleRecords == [kind : {"MATCH"} \cup STRING, to : AnyName \cup OwnGroupNames]
TunSections == UNION {[keys -> BOOLEAN] : keys \in SUBSET {"enable", "route"}}

\* A section has the form the core reads, or no shape at all.
WellFormed(doc) ==
    /\ "proxies" \in DOMAIN doc => doc["proxies"] \in Seq(NodeRecords) \cup {IllShaped}
    /\ "proxy-groups" \in DOMAIN doc => doc["proxy-groups"] \in Seq(GroupRecords) \cup {IllShaped}
    /\ "rules" \in DOMAIN doc => doc["rules"] \in Seq(RuleRecords) \cup {IllShaped}
    /\ \A key \in {"tun", "TUN"} \cap DOMAIN doc : doc[key] \in TunSections \cup {IllShaped}
    /\ "proxy-providers" \in DOMAIN doc =>
          doc["proxy-providers"] = IllShaped
             \/ (IsFiniteSet(DOMAIN doc["proxy-providers"]) /\ DOMAIN doc["proxy-providers"] \subseteq STRING)

\* A value without shape is neither a list nor a mapping; a file that is read is a mapping (a
\* script may return something else), and chains are made of names.
ASSUME DocumentAssumption ==
    /\ IllShaped \notin Seq(NodeRecords) /\ IllShaped \notin Seq(GroupRecords) /\ IllShaped \notin Seq(RuleRecords)
    /\ IllShaped \notin TunSections
    /\ {DirectNode, NoName} \subseteq AnyName /\ Chains \subseteq Seq(AnyName)
    /\ \A in \in Inputs :
          /\ \A doc \in {in.profile, in.merge, in.ownMerge} \ {NoFile} : WellFormed(doc)
          /\ \A doc \in {in.script, in.ownScript} \ {NoFile, IllShaped} : WellFormed(doc)
          /\ WellFormed(in.base)

VARIABLES
    inputs,      \* the files that generation reads
    chain,       \* the proxy chain set in memory
    runtime,     \* the runtime configuration file
    cleaned      \* observer: the document that the clean-up of names was given

documentVars == <<inputs, chain, runtime, cleaned>>

-----------------------------------------------------------------------------
(* Documents.                                                              *)

\* Where both speak of a key, the first one counts.
Over(top, below) ==
    [k \in DOMAIN top \cup DOMAIN below |-> IF k \in DOMAIN top THEN top[k] ELSE below[k]]
Put(doc, key, value) == [k \in DOMAIN doc \cup {key} |-> IF k = key THEN value ELSE doc[k]]
Without(doc, keys) == [k \in DOMAIN doc \ keys |-> doc[k]]
Shaped(doc, key) == key \in DOMAIN doc /\ doc[key] # IllShaped
MapOf(doc, key) == IF Shaped(doc, key) THEN doc[key] ELSE <<>>
ListOf(doc, key) == IF Shaped(doc, key) THEN doc[key] ELSE <<>>

MapKeys == {"tun", "dns", "hosts", "rule-providers"}

\* Keys of the top level in lower case.
Lower(key) == IF key = "TUN" THEN "tun" ELSE key
UseLowercase(doc) ==
    [k \in {Lower(l) : l \in DOMAIN doc} |-> doc[CHOOSE l \in DOMAIN doc : Lower(l) = k]]

\* Mappings are merged, anything else is replaced.  (The mappings here hold no mapping.)
DeepMerge(doc, overlay) ==
    [k \in DOMAIN doc \cup DOMAIN overlay |->
        IF k \notin DOMAIN overlay THEN doc[k]
        ELSE IF k \in MapKeys /\ Shaped(doc, k) /\ Shaped(overlay, k) THEN Over(overlay[k], doc[k])
        ELSE overlay[k]]

UseMerge(doc, merge) == IF merge = NoFile THEN doc ELSE DeepMerge(doc, UseLowercase(merge))

\* A script is external code: it makes any document of the one it is given.
UseScript(doc, script) == IF script = NoFile THEN doc ELSE UseLowercase(script)

-----------------------------------------------------------------------------
(* The layers.                                                             *)

DefaultPort == 7898
DefaultTun == [enable |-> FALSE, route |-> TRUE]
DefaultBase == [mode |-> "rule", tun |-> DefaultTun]
OwnControllerKeys == {"external-controller", "external-controller-cors"}

GuardPort(base) ==
    IF "socks-port" \in DOMAIN base /\ base["socks-port"] \in 1..65535 THEN base["socks-port"] ELSE DefaultPort

\* The base configuration: its defaults where it is silent, no controller address, a port.
FromMapping(base) ==
    LET full == Without(Over(base, DefaultBase), OwnControllerKeys)
    IN Put(full, "socks-port", GuardPort(full))

ApplyProfileEnhancements(in) ==
    UseScript(UseMerge(UseScript(UseMerge(in.profile, in.merge), in.script), in.ownMerge), in.ownScript)

\* Mutant: the base configuration's tun section replaces the profile's.
MergeDefaultPlainly(doc, base) == Over(base, doc)

MergeDefaultConfig(doc, base) == Put(Over(base, doc), "tun", Over(MapOf(base, "tun"), MapOf(doc, "tun")))

\* The DNS file has its sections, or is one DNS section as a whole.
ApplyDnsConfig(doc, dns) ==
    LET hosts == IF Shaped(dns, "hosts") THEN Put(doc, "hosts", dns["hosts"]) ELSE doc
    IN IF "dns" \notin DOMAIN dns THEN Put(hosts, "dns", dns)
       ELSE IF Shaped(dns, "dns") THEN Put(hosts, "dns", dns["dns"]) ELSE hosts

MergeDns(doc, in) == IF in.settings.dns /\ in.dns # NoFile THEN ApplyDnsConfig(doc, in.dns) ELSE doc

\* A setting that was never made leaves the layer below.
ApplySettings(doc, settings) ==
    LET port == IF ~settings.socks THEN Without(doc, {"socks-port"})
                ELSE IF settings.port = 0 THEN doc ELSE Put(doc, "socks-port", settings.port)
    IN IF settings.tun = "unset" THEN port
       ELSE Put(port, "tun", Put(MapOf(port, "tun"), "enable", settings.tun = "on"))

\* Rule providers that download are told to do so directly.
ApplyDownloadProxy(doc, settings) ==
    IF ~settings.direct \/ ~Shaped(doc, "rule-providers") THEN doc
    ELSE [doc EXCEPT !["rule-providers"] =
             [p \in DOMAIN @ |-> IF @[p].type = "http" THEN [@[p] EXCEPT !.proxy = DirectNode] ELSE @[p]]]

\* The controller listens on the socket, and on a local port if the settings say so.
ApplyControllerBoundary(doc, settings) ==
    LET local == Put(Without(doc, OwnControllerKeys), "external-controller-unix", "socket")
    IN IF settings.controller THEN Put(local, "external-controller", "127.0.0.1") ELSE local

-----------------------------------------------------------------------------
(* Proxies, groups and the names that connect them.                         *)

NamedProxy(proxies, name) == SelectInSeq(proxies, LAMBDA p : p.name = name)

\* Each node of the chain is dialled through the one before it; nobody else is dialled so.
UpdateProxyChain(doc, links) ==
    IF links = <<>> \/ ~Shaped(doc, "proxies") THEN doc
    ELSE LET proxies == doc["proxies"]
             places(i) == {j \in 2..Len(links) : NamedProxy(proxies, links[j]) = i}
             via(i) == IF places(i) = {} THEN NoName ELSE links[Max(places(i)) - 1]
         IN [doc EXCEPT !["proxies"] = [i \in DOMAIN proxies |-> [proxies[i] EXCEPT !.dialer = via(i)]]]

\* Some subscriptions list notices as nodes, at a server that does not exist.
IsPlaceholder(p) == p.server = "placeholder"
RemovedNames(doc) ==
    {Trimmed[p.name] : p \in {q \in ToSet(ListOf(doc, "proxies")) : IsPlaceholder(q) /\ q.name # NoName}}
RemovePlaceholders(doc) ==
    IF ~Shaped(doc, "proxies") THEN doc
    ELSE [doc EXCEPT !["proxies"] = Retained(@, {i \in DOMAIN @ : ~IsPlaceholder(@[i])})]

\* A group that loses all its members gets DIRECT.
PruneGroup(g, removed) ==
    LET left == Retained(g.proxies, {i \in DOMAIN g.proxies : Trimmed[g.proxies[i]] \notin removed})
    IN [g EXCEPT !.proxies = IF @ # <<>> /\ left = <<>> THEN <<DirectNode>> ELSE left]
PruneGroups(doc, removed) ==
    IF ~Shaped(doc, "proxy-groups") THEN doc
    ELSE [doc EXCEPT !["proxy-groups"] = [i \in DOMAIN @ |-> PruneGroup(@[i], removed)]]

\* Mutant: a chain through a removed node stays.
PruneNoDialer(doc, removed) == doc

PruneDialers(doc, removed) ==
    IF ~Shaped(doc, "proxies") THEN doc
    ELSE [doc EXCEPT !["proxies"] =
             [i \in DOMAIN @ |-> IF @[i].dialer # NoName /\ Trimmed[@[i].dialer] \in removed
                                 THEN [@[i] EXCEPT !.dialer = NoName] ELSE @[i]]]

Sanitize(doc) ==
    LET removed == RemovedNames(doc)
        kept == RemovePlaceholders(doc)
    IN IF removed = {} THEN kept ELSE PruneDialers(PruneGroups(kept, removed), removed)

IsUsable(g) == g.proxies # <<>> \/ g.use # <<>> \/ g.all
HasUsableGroup(doc) == \E g \in ToSet(ListOf(doc, "proxy-groups")) : IsUsable(g)
ProxyNames(doc) == {p.name : p \in ToSet(ListOf(doc, "proxies"))} \ {NoName}
ProviderNames(doc) == DOMAIN MapOf(doc, "proxy-providers")

\* "Proxy", or the first numbered one that no group has.
UniqueGroupName(doc) ==
    FirstFree(<<"Proxy">>, {g.name : g \in ToSet(ListOf(doc, "proxy-groups"))})

EnsureMatchRule(doc, name) ==
    LET rule == [kind |-> "MATCH", to |-> name]
        rules == ListOf(doc, "rules")
    IN Put(doc, "rules", IF rule \in ToSet(rules) THEN rules ELSE Append(rules, rule))

\* Mutant: only nodes call for a group, and providers do not.
EnsureGroupOfNodes(doc) ==
    IF HasUsableGroup(doc) \/ ProxyNames(doc) = {} THEN doc
    ELSE LET name == UniqueGroupName(doc)
             group == [name |-> name, use |-> SetToSeq(ProviderNames(doc)), all |-> FALSE,
                       proxies |-> SetToSeq(ProxyNames(doc)) \o <<DirectNode>>]
         IN EnsureMatchRule(Put(doc, "proxy-groups", Append(ListOf(doc, "proxy-groups"), group)), name)

\* A group over every node and provider, when no group offers anything.
EnsureGroup(doc) ==
    IF HasUsableGroup(doc) \/ ProxyNames(doc) \cup ProviderNames(doc) = {} THEN doc
    ELSE LET name == UniqueGroupName(doc)
             direct == IF DirectNode \in ProxyNames(doc) THEN <<>> ELSE <<DirectNode>>
             group == [name |-> name, use |-> SetToSeq(ProviderNames(doc)), all |-> FALSE,
                       proxies |-> SetToSeq(ProxyNames(doc)) \o direct]
         IN EnsureMatchRule(Put(doc, "proxy-groups", Append(ListOf(doc, "proxy-groups"), group)), name)

-----------------------------------------------------------------------------
(* Generation reads the files, lays them over one another, and writes.      *)

Layered(in, links) ==
    LET base == FromMapping(in.base)
        profile == IF in.profile = NoFile THEN <<>> ELSE ApplyProfileEnhancements(in)
        set == ApplySettings(MergeDns(MergeDefaultConfig(profile, base), in), in.settings)
    IN UpdateProxyChain(ApplyControllerBoundary(ApplyDownloadProxy(set, in.settings), in.settings), links)

\* A script that throws, runs too long or returns no object fails the generation.
ScriptFails(in) == in.profile # NoFile /\ IllShaped \in {in.script, in.ownScript}

DocumentInit ==
    /\ inputs \in Inputs
    /\ chain = <<>> /\ runtime = <<>> /\ cleaned = <<>>

SetProxyChainConfig(links) == chain' = links /\ UNCHANGED <<inputs, runtime, cleaned>>

Generate ==
    /\ ~ScriptFails(inputs)
    /\ cleaned' = Layered(inputs, chain)
    /\ runtime' = EnsureGroup(Sanitize(cleaned'))
    /\ UNCHANGED <<inputs, chain>>

DocumentNext == Generate \/ \E links \in Chains : SetProxyChainConfig(links)

DocumentSpec == DocumentInit /\ [][DocumentNext]_documentVars

-----------------------------------------------------------------------------
(* Properties of the file that was generated.                              *)

\* Type invariant of the generator: a generated file has groups with members in the form the
\* core reads, and the inputs and chains are those it may find.
DocumentTypeOK ==
    /\ inputs \in Inputs /\ chain \in Chains \cup {<<>>}
    /\ \A g \in ToSet(ListOf(runtime, "proxy-groups")) : DOMAIN g = {"name", "proxies", "use", "all"}

\* The layers of the profile, lowest first; one that is not there says nothing.
ProfileLayers ==
    LET lower(d) == IF d = NoFile THEN <<>> ELSE UseLowercase(d)
    IN IF inputs.profile = NoFile THEN <<>>
       ELSE IF inputs.ownScript # NoFile THEN <<lower(inputs.ownScript)>>
       ELSE IF inputs.script # NoFile THEN <<lower(inputs.script), lower(inputs.ownMerge)>>
       ELSE <<inputs.profile, lower(inputs.merge), lower(inputs.ownMerge)>>

\* What the last of some layers that speaks of a key of the tun section says; a layer in which
\* the section has no shape takes back what those below it said.
LastTun(layers, key) ==
    LET speaking == {i \in DOMAIN layers : "tun" \in DOMAIN layers[i]}
        cut == {0} \cup {i \in speaking : layers[i]["tun"] = IllShaped}
        said == {i \in speaking : i > Max(cut) /\ key \in DOMAIN layers[i]["tun"]}
    IN IF said = {} THEN NoName ELSE layers[Max(said)]["tun"][key]

ExpectedTun(key) ==
    LET base == IF "tun" \notin DOMAIN inputs.base THEN DefaultTun ELSE MapOf(inputs.base, "tun")
    IN IF key = "enable" /\ inputs.settings.tun # "unset" THEN inputs.settings.tun = "on"
       ELSE IF key \in DOMAIN base THEN base[key] ELSE LastTun(ProfileLayers, key)

\* What the DNS file says of its own two sections, where it is used and says anything: a file
\* without a dns section is one as a whole, and a section without shape says nothing.
DnsSpeaks(section) ==
    /\ inputs.settings.dns /\ inputs.dns # NoFile
    /\ Shaped(inputs.dns, section) \/ (section = "dns" /\ "dns" \notin DOMAIN inputs.dns)
DnsSays(section) == IF section \in DOMAIN inputs.dns THEN inputs.dns[section] ELSE inputs.dns

\* A document has the sections of the DNS file as that file has them; of those on which it is
\* silent, what the base configuration says, and else there is one where a layer of the profile
\* has one.
DnsInOrder(doc) ==
    \A section \in {"dns", "hosts"} :
        IF DnsSpeaks(section) THEN section \in DOMAIN doc /\ doc[section] = DnsSays(section)
        ELSE IF section \in DOMAIN inputs.base THEN section \in DOMAIN doc /\ doc[section] = inputs.base[section]
        ELSE section \in DOMAIN doc <=> \E layer \in ToSet(ProfileLayers) : section \in DOMAIN layer

\* The base configuration wins over the profile with its merges and scripts, key by key in the
\* tun section; the DNS file over both, in its own two sections; and the settings over all of
\* them, in the port, the switch of the tun device and the address of the controller, of which
\* there is only what the settings allow, whatever any of these files says.
LayersInOrder ==
    runtime # <<>> =>
        /\ runtime["mode"] = IF "mode" \in DOMAIN inputs.base THEN inputs.base["mode"] ELSE "rule"
        /\ \A key \in {"enable", "route"} :
              LET tun == MapOf(runtime, "tun")
              IN (IF key \in DOMAIN tun THEN tun[key] ELSE NoName) = ExpectedTun(key)
        /\ DnsInOrder(runtime)
        /\ "socks-port" \in DOMAIN runtime <=> inputs.settings.socks
        /\ inputs.settings.socks /\ inputs.settings.port # 0 => runtime["socks-port"] = inputs.settings.port
        /\ "external-controller" \in DOMAIN runtime <=> inputs.settings.controller
        /\ "external-controller-cors" \notin DOMAIN runtime

NamesOf(doc) ==
    ProxyNames(doc) \cup {g.name : g \in ToSet(ListOf(doc, "proxy-groups"))} \cup {DirectNode}
NamedBy(doc) ==
    (UNION {ToSet(g.proxies) : g \in ToSet(ListOf(doc, "proxy-groups"))})
        \cup ({p.dialer : p \in ToSet(ListOf(doc, "proxies"))} \ {NoName})

RuleTargets(doc) == {r.to : r \in ToSet(ListOf(doc, "rules"))}

\* Cleaning up breaks no reference: a group's member, or the node another is dialled through,
\* that names something before the clean-up, through a chain set over the profile too, still
\* names something in the file, with names written with blanks around them or without.  Of the
\* rules the clean-up looks at none: one may go on naming a notice, or a node that is called
\* like one, and nothing else that it named.
NamesResolve ==
    /\ NamedBy(runtime) \cap NamesOf(cleaned) \subseteq NamesOf(runtime)
    /\ \A x \in RuleTargets(runtime) \cap NamesOf(cleaned) :
          x \in NamesOf(runtime) \/ Trimmed[x] \in RemovedNames(cleaned)

\* A file with nodes or providers can be steered: some group offers something; and a group that
\* generation adds offers every node and provider there is, has a name that no other has, and is
\* what a MATCH rule names (one of the file's own, before it, may still take the traffic).
CanBeSteered ==
    LET groups == ListOf(runtime, "proxy-groups")
        before == ListOf(cleaned, "proxy-groups")
        added == groups[Len(groups)]
    IN /\ ProxyNames(runtime) \cup ProviderNames(runtime) # {} => HasUsableGroup(runtime)
       /\ Len(groups) > Len(before) =>
              /\ ProxyNames(runtime) \cup {DirectNode} = ToSet(added.proxies)
              /\ ProviderNames(runtime) = ToSet(added.use)
              /\ [kind |-> "MATCH", to |-> added.name] \in ToSet(runtime["rules"])
              /\ \A i \in DOMAIN before : before[i].name # added.name
=============================================================================
