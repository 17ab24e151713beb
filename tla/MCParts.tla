------------------------------ MODULE MCParts ------------------------------
(***************************************************************************)
(* Ten parts of the program for TLC: the rows of the proxies, the          *)
(* windows and lists of the interface, the reader of its input, the        *)
(* generator of the runtime configuration, subscriptions, settings, the    *)
(* selections of nodes, requests to the controller, the metrics and the    *)
(* wait after an import.  `part` says which of them runs in a behaviour;   *)
(* they share no state, so the others stand still.                         *)
(***************************************************************************)
EXTENDS ProxyRows, Tui, InputReader, RuntimeDocument, Subscription, Settings, Selections, ControllerReader, Metrics, ProviderWait, TLC

CONSTANTS
    Parts,                            \* the parts that run
    grp, h, a, a2, b, uidP, uidQ,     \* groups, nodes (a2 is a with another icon) and profiles
    n1, n2, note, noteBlank,          \* names; noteBlank is note with blanks around it
    subU,                             \* a subscription
    third, pv, remoteNode, compatible \* a node that only the provider pv has, pv's placeholder, the core's own node

VARIABLE part

-----------------------------------------------------------------------------
(* Rows of the proxies.                                                    *)

Row(n, now, nodes) == [name |-> n, now |-> now, nodes |-> nodes, offline |-> FALSE]
Off(n, now, nodes) == [Row(n, now, nodes) EXCEPT !.offline = TRUE]
SomeGroups == {<<>>, <<Row(grp, a, <<a, b>>), Row(h, b, <<b>>)>>, <<Row(h, b, <<b, a2>>)>>}
RowPreview == <<Off(h, "-", <<b, a>>)>>
RowMeasures == {b :> [delay |-> "fast", alive |-> "yes"]}
PlainNames == [x \in {grp, h, a, a2, b} |-> IF x = a2 THEN a ELSE x] @@ (NoKey :> "-")
RowSearches == {{b}}

-----------------------------------------------------------------------------
(* Windows and lists.                                                      *)

PageListings == [Profiles |-> {<<n1>>, <<n2, n1>>}, Logs |-> {<<n1, n2>>}, Rules |-> {<<n1>>},
                 Connections |-> {<<n1, n2>>}, Jobs |-> {<<n1>>}]
ProviderListings == {<<>>, <<n1, n2>>}
PageFilters == {{n1}}
AllViews == {"Dashboard", "Profiles", "Proxies", "Logs", "Settings", "Rules", "Connections", "Jobs"}

-----------------------------------------------------------------------------
(* Bytes: three of these after one another, or a terminal that sends none.  *)

Tokens == {<<"esc", "[", "A">>, <<"esc", "[", "P">>, <<"esc", "[", "E">>, <<"x">>, <<"lead", "cont">>,
           <<"lead">>, <<"esc">>, <<"cr">>, <<"ctl">>, <<"del">>}
SomeStreams == {<<>>} \cup {s \o t \o v : s \in Tokens, t \in Tokens, v \in Tokens}

-----------------------------------------------------------------------------
(* Runtime documents.                                                      *)

TrimmedNames ==
    [n \in {n1, n2, note, noteBlank, NoName, DirectNode, <<"Proxy">>, <<"Manual">>} |->
        IF n = noteBlank THEN note ELSE n]
Node(n, server, dialer) == [name |-> n, server |-> server, dialer |-> dialer]
PolicyGroup(n, members, use) == [name |-> n, proxies |-> members, use |-> use, all |-> FALSE]
SomeNodes == <<Node(note, "placeholder", NoName), Node(n1, "real", note), Node(n2, "real", n1)>>
GroupsProfile ==
    [proxies |-> SomeNodes, mode |-> "global", tun |-> [enable |-> TRUE, route |-> FALSE]]
        @@ ("proxy-groups" :> <<PolicyGroup(<<"Manual">>, <<noteBlank, n1>>, <<>>), PolicyGroup(<<"Proxy">>, <<note>>, <<>>)>>)
        @@ ("external-controller" :> "any") @@ ("external-controller-cors" :> "any")
        @@ [dns |-> [enable |-> FALSE], hosts |-> [h |-> "2"]]
EmptyGroupProfile ==
    [proxies |-> SomeNodes, TUN |-> [enable |-> TRUE]] @@ ("proxy-groups" :> <<PolicyGroup(<<"Proxy">>, <<>>, <<>>)>>)
ProviderProfile ==
    ("proxy-providers" :> [remote |-> "http"]) @@ [rules |-> IllShaped, tun |-> IllShaped]
        @@ ("rule-providers" :> [r1 |-> [type |-> "http", proxy |-> <<"Proxy">>], r2 |-> [type |-> "file", proxy |-> <<"Proxy">>]])
NoticesProfile ==
    [proxies |-> <<Node(noteBlank, "placeholder", NoName), Node(note, "real", NoName), Node(NoName, "placeholder", NoName)>>]
        @@ ("proxy-groups" :> IllShaped) @@ [rules |-> <<[kind |-> "MATCH", to |-> noteBlank], [kind |-> "MATCH", to |-> note]>>]
RulesProfile == [proxies |-> IllShaped, rules |-> <<[kind |-> "MATCH", to |-> <<"Proxy">>]>>]
TunMerge == [TUN |-> [route |-> TRUE], mode |-> "direct"]
NodesMerge == [tun |-> IllShaped, hosts |-> [n |-> "3"], proxies |-> <<Node(n2, "real", note)>>]
NodesScript == [TUN |-> [enable |-> TRUE], proxies |-> <<Node(DirectNode, "real", NoName), Node(n1, "placeholder", NoName)>>]

Never == [socks |-> FALSE, port |-> 0, tun |-> "unset", dns |-> FALSE, direct |-> FALSE, controller |-> FALSE]
SomeInputs ==
    [profile : {NoFile, GroupsProfile, EmptyGroupProfile, ProviderProfile, NoticesProfile, RulesProfile},
     merge : {NoFile, TunMerge, NodesMerge}, ownMerge : {NoFile, NodesMerge},
     script : {NoFile, IllShaped, NodesScript}, ownScript : {NoFile, NodesScript},
     base : {<<>>, [mode |-> "direct", tun |-> [enable |-> TRUE], dns |-> IllShaped] @@ ("socks-port" :> 70000),
             [tun |-> IllShaped] @@ ("external-controller" :> "any")},
     settings : {Never,
                 [socks |-> TRUE, port |-> 0, tun |-> "on", dns |-> TRUE, direct |-> TRUE, controller |-> TRUE],
                 [socks |-> TRUE, port |-> 1080, tun |-> "off", dns |-> TRUE, direct |-> TRUE, controller |-> FALSE]},
     dns : {NoFile, [dns |-> [enable |-> TRUE], hosts |-> IllShaped], [dns |-> IllShaped, hosts |-> [h |-> "1"]], [enable |-> TRUE]}]
NoInputs == [profile |-> NoFile, merge |-> NoFile, ownMerge |-> NoFile, script |-> NoFile, ownScript |-> NoFile,
             base |-> <<>>, settings |-> Never, dns |-> NoFile]
SomeChains == {<<n1, n2>>, <<n2, n1, n2>>}

-----------------------------------------------------------------------------
(* Subscriptions.                                                          *)

Line(scheme, name) ==
    [scheme |-> scheme, writing |-> "plain", formed |-> TRUE, parts |-> {"server", "user", "password"}, port |-> "good",
     name |-> name, net |-> "tcp", header |-> "", tls |-> FALSE, sni |-> FALSE, host |-> FALSE]
Ws(scheme) == [Line(scheme, <<>>) EXCEPT !.net = "ws", !.tls = TRUE, !.host = TRUE]
ManyLines ==
    <<Line("ss", <<"a">>), Line("vless", <<"a", 2>>), Line("trojan", <<"Proxy">>), Line("snell", <<"a">>),
      [Line("vmess", <<"a">>) EXCEPT !.writing = "upper"], [Line("hy2", <<>>) EXCEPT !.port = "none"],
      [Line("tuic", <<"a">>) EXCEPT !.port = "none"], [Line("https", <<>>) EXCEPT !.parts = {"server"}, !.port = "bad"],
      [Line("anytls", <<>>) EXCEPT !.parts = {"server", "password"}, !.port = "zero"],
      [Line("wg", <<"a">>) EXCEPT !.parts = {"server"}],
      Ws("vless"), Ws("vmess"), [Ws("trojan") EXCEPT !.header = "http"], [Ws("vless") EXCEPT !.header = "http"],
      [Line("ssr", <<>>) EXCEPT !.formed = FALSE], Line("hysteria", <<>>), Line("socks", <<"a">>)>>
Called(names) == [i \in DOMAIN names |-> Line("ss", names[i])]
Body(yaml, lines, decoded) == [yaml |-> yaml, lines |-> lines, decoded |-> decoded]
SomeBodies ==
    {Body(TRUE, <<>>, NoText), Body(FALSE, <<Line("snell", <<"a">>)>>, NoText),
     Body(FALSE, <<>>, Reverse(ManyLines)),
     Body(FALSE, <<>>, Called(<<<<"a", 2>>, <<"a">>, <<"a">>>> \o GroupNames))}
SomeHeaders == {[file |-> "", hours |-> None], [file |-> "notes", hours |-> 1], [file |-> "segment", hours |-> 17477]}
Opt(interval, auto) == [interval |-> interval, auto |-> auto, withProxy |-> None, selfProxy |-> None]
SomeEntries ==
    {[name |-> "mine", updated |-> 0, option |-> Opt(60, FALSE)], [name |-> None, updated |-> None, option |-> None],
     [name |-> "Remote File", updated |-> 7200, option |-> Opt(None, None)],
     [name |-> "mine", updated |-> 0, option |-> Opt(20000, TRUE)],
     [name |-> "segment", updated |-> 3600, option |-> Opt(0, TRUE)]}
SomeRequests == {[name |-> None, option |-> DefaultOption], [name |-> "mine", option |-> Opt(60, FALSE)]}

-----------------------------------------------------------------------------
(* Settings: others' cores, that listen on a local port, or everywhere.    *)

ForeignCores == {[on |-> TRUE, port |-> 9090, safe |-> TRUE], [on |-> TRUE, port |-> 9097, safe |-> FALSE]}

-----------------------------------------------------------------------------
(* Selections: uidP has nodes, uidQ a provider's and a balancing group.    *)

Grouping(members, use, all, kind) == [members |-> members, use |-> use, all |-> all, kind |-> kind]
RuntimeP == [nodes |-> {a, b}, providers |-> {pv}, known |-> [x \in {pv} |-> {}],
             groups |-> (grp :> Grouping({a, b}, {}, "no", "selector"))]
RuntimeQ == [nodes |-> {}, providers |-> {pv}, known |-> [x \in {pv} |-> {third}],
             groups |-> (grp :> Grouping({a}, {pv}, "no", "selector")) @@ (h :> Grouping({}, {}, "all", "load-balance"))]
RuntimeNone == [nodes |-> {}, providers |-> {}, known |-> <<>>, groups |-> (grp :> Grouping({}, {}, "no", "selector"))]
SomeRuntimes == (uidP :> RuntimeP) @@ (uidQ :> RuntimeQ) @@ (NoOwner :> RuntimeNone)
SavedEarlier == {(uidP :> <<Pair(h, third), Pair(grp, a)>>) @@ (uidQ :> <<Pair(h, a)>>)}
ProviderLines == (pv :> remoteNode)
ProviderHas == (pv :> {a, third})

-----------------------------------------------------------------------------
(* Answers of the controller, broken off after each of their bytes.        *)

ChunkPart(doc, blanks) == [data |-> doc \o blanks, doc |-> doc]
Doc1 == <<"{", "\"", "}", "\"", "}">>
Doc2 == <<"{", "b", "}">>
Doc3 == <<"{", "\"", "\\", "\"", "}", "\"", "}">>
Chunked(good, parts, doc, ends) == [good |-> good, coding |-> "chunked", parts |-> parts, doc |-> doc, ends |-> ends]
InOnePiece(good, coding, all) == [good |-> good, coding |-> coding, parts |-> <<all>>, doc |-> all.doc, ends |-> "last"]
Half(bytes) == [data |-> bytes, doc |-> <<>>]
AnswersMade ==
    {Chunked(TRUE, <<>>, <<>>, "last"), Chunked(FALSE, <<ChunkPart(Doc2, <<>>)>>, Doc2, "last"),
     Chunked(TRUE, <<ChunkPart(Doc1, <<"lf">>)>>, Doc1, "last"), Chunked(TRUE, <<ChunkPart(Doc2, <<>>)>>, <<>>, "garbage"),
     Chunked(TRUE, <<ChunkPart(Doc2, <<>>), ChunkPart(Doc3, <<"sp">>), Half(<<"a", "lf">>)>>, <<>>, "never"),
     Chunked(TRUE, <<Half(<<"{", "b">>), Half(<<"}">>)>>, Doc2, "last"),
     Chunked(TRUE, <<[data |-> Doc2 \o Doc2, doc |-> Doc2], ChunkPart(Doc2, <<>>)>>, <<>>, "last")}
    \cup {InOnePiece(m[1], m[2], m[3]) : m \in BOOLEAN \X {"length", "open"} \X {ChunkPart(Doc3, <<"lf">>)}}
NoAnswer == [sent |-> 0, closes |-> TRUE] @@ Chunked(TRUE, <<>>, <<>>, "last")
SomeAnswers == UNION {{[sent |-> s, closes |-> end] @@ m : s \in 0..Len(Wire(m)), end \in BOOLEAN} : m \in AnswersMade}

-----------------------------------------------------------------------------
(* Metrics and the wait after an import.                                   *)

SomeFrames == {[up |-> 5, down |-> NotKnown], [up |-> 1, down |-> 2], [up |-> 0, down |-> 0], NoTraffic}

ProviderEntry(key, name, visible, nodes) == [key |-> key, name |-> name, visible |-> visible, nodes |-> nodes]
NoneProvided == [readable |-> FALSE, providers |-> <<>>, uses |-> <<>>, nameless |-> FALSE]
SomeSummaries ==
    {NoneProvided, [NoneProvided EXCEPT !.readable = TRUE, !.nameless = TRUE],
     [NoneProvided EXCEPT !.readable = TRUE, !.providers = <<n1, n2, pv>>, !.uses = <<pv>>]}
SomeProvided ==
    {<<ProviderEntry(remoteNode, pv, TRUE, 1), ProviderEntry(n1, n1, TRUE, 0), ProviderEntry(n2, n2, FALSE, 0)>>,
     <<ProviderEntry(n1, n1, TRUE, 1), ProviderEntry(n2, n2, TRUE, 0)>>}

-----------------------------------------------------------------------------
rowsRest == <<app, catalog, rowsOf, rowKeys>>
screenRest == <<ui, lists, providers, store, keys>>
readerRest == <<stream, read, pending, events, torn>>
documentRest == <<inputs, chain, runtime, cleaned>>
subscriptionRest == <<entries, files, clock, tasks, swept>>
selectionsRest == selectionVars
controllerRest == controllerVars
metricsRest == metricsVars
waitRest == waitVars
settingsRest == <<stored, generated, core, desktop, client, wish, changes>>

Init ==
    /\ part \in Parts
    /\ ReaderInit /\ (part = "reader" <=> stream # <<>>)
    /\ inputs \in IF part = "document" THEN SomeInputs ELSE {NoInputs}
    /\ entries \in IF part = "subscription" THEN [{subU} -> SomeEntries \cup {NoEntry}] ELSE {[s \in {subU} |-> NoEntry]}
    /\ clock \in IF part = "subscription" THEN Times ELSE {0}
    /\ owner \in IF part = "selections" THEN {uidP, uidQ, NoOwner} ELSE {NoOwner}
    /\ mihomo \in [at : IF part = "selections" THEN {"down", "up"} ELSE {"down"}, groups : CoreGroups(RuntimeOf[owner])]
    /\ RowsInit /\ ScreenInit /\ DocumentInit /\ SubscriptionInit /\ SettingsInit /\ SelectionsInit
    /\ \/ part = "controller" /\ ControllerInit
       \/ /\ part # "controller" /\ asked = "whole" /\ answer = NoAnswer
          /\ got = 0 /\ buffer = <<>> /\ phase = "head" /\ results = <<>> /\ frames = [count |-> 0, last |-> <<>>]
    /\ MetricsInit /\ WaitInit /\ (part # "wait" => summary = NoneProvided)
    /\ part = "rows" \/ catalog.current = NoUid

Next ==
    /\ UNCHANGED part
    /\ \/ /\ part = "rows" /\ RowsNext
          /\ UNCHANGED <<screenRest, readerRest, documentRest, subscriptionRest, settingsRest, selectionsRest, controllerRest, metricsRest, waitRest>>
       \/ /\ part = "screen" /\ ScreenNext
          /\ UNCHANGED <<rowsRest, readerRest, documentRest, subscriptionRest, settingsRest, selectionsRest, controllerRest, metricsRest, waitRest>>
       \/ /\ part = "reader" /\ ReaderNext
          /\ UNCHANGED <<rowsRest, screenRest, documentRest, subscriptionRest, settingsRest, selectionsRest, controllerRest, metricsRest, waitRest>>
       \/ /\ part = "document" /\ DocumentNext
          /\ UNCHANGED <<rowsRest, screenRest, readerRest, subscriptionRest, settingsRest, selectionsRest, controllerRest, metricsRest, waitRest>>
       \/ /\ part = "subscription" /\ SubscriptionNext
          /\ UNCHANGED <<rowsRest, screenRest, readerRest, documentRest, settingsRest, selectionsRest, controllerRest, metricsRest, waitRest>>
       \/ /\ part = "settings" /\ SettingsNext
          /\ UNCHANGED <<rowsRest, screenRest, readerRest, documentRest, subscriptionRest, selectionsRest, controllerRest, metricsRest, waitRest>>
       \/ /\ part = "selections" /\ SelectionsNext
          /\ UNCHANGED <<rowsRest, screenRest, readerRest, documentRest, subscriptionRest, settingsRest, controllerRest, metricsRest, waitRest>>
       \/ /\ part = "controller" /\ ControllerNext
          /\ UNCHANGED <<rowsRest, screenRest, readerRest, documentRest, subscriptionRest, settingsRest, selectionsRest, metricsRest, waitRest>>
       \/ /\ part = "metrics" /\ MetricsNext
          /\ UNCHANGED <<rowsRest, screenRest, readerRest, documentRest, subscriptionRest, settingsRest, selectionsRest, controllerRest, waitRest>>
       \/ /\ part = "wait" /\ WaitNext
          /\ UNCHANGED <<rowsRest, screenRest, readerRest, documentRest, subscriptionRest, settingsRest, selectionsRest, controllerRest, metricsRest>>

Spec == Init /\ [][Next]_<<part, rowsRest, screenRest, readerRest, documentRest, subscriptionRest, settingsRest, selectionsRest, controllerRest, metricsRest, waitRest>>

\* Type invariant: each part keeps the types of its state.
TypeOK ==
    /\ part \in Parts
    /\ RowsTypeOK /\ ScreenTypeOK /\ ReaderTypeOK /\ DocumentTypeOK /\ SubscriptionTypeOK /\ SettingsTypeOK
    /\ SelectionsTypeOK /\ ControllerTypeOK /\ MetricsTypeOK /\ WaitTypeOK
=============================================================================
