--------------------------- MODULE DocumentProofs ---------------------------
(***************************************************************************)
(* Theorems about documents: the runtime document that the generator       *)
(* writes for the core (RuntimeDocument), the profile file that the lines  *)
(* of a subscription become (Subscription), and the documents that a       *)
(* caller is given out of an answer of the core (ControllerReader).        *)
(***************************************************************************)
EXTENDS RuntimeDocument, Subscription, ControllerReader, ListProofs

-----------------------------------------------------------------------------
(* The sections of a document that the core reads lists from.              *)

ListKeys == {"proxies", "proxy-groups", "rules", "proxy-providers"}

\* The form of a section.
Fits(key, value) ==
    CASE key = "proxies" -> value \in Seq(NodeRecords) \cup {IllShaped}
      [] key = "proxy-groups" -> value \in Seq(GroupRecords) \cup {IllShaped}
      [] key = "rules" -> value \in Seq(RuleRecords) \cup {IllShaped}
      [] key = "proxy-providers" ->
            value = IllShaped \/ (IsFiniteSet(DOMAIN value) /\ DOMAIN value \subseteq STRING)

Sound(doc) == \A key \in ListKeys \cap DOMAIN doc : Fits(key, doc[key])

\* A file's sections have their form.
LEMMA FileSound ==
    ASSUME NEW doc, WellFormed(doc)
    PROVE  Sound(doc)
<1>1. ASSUME "proxies" \in DOMAIN doc PROVE Fits("proxies", doc["proxies"])
  BY <1>1 DEF WellFormed, Fits
<1>2. ASSUME "proxy-groups" \in DOMAIN doc PROVE Fits("proxy-groups", doc["proxy-groups"])
  BY <1>2 DEF WellFormed, Fits
<1>3. ASSUME "rules" \in DOMAIN doc PROVE Fits("rules", doc["rules"])
  BY <1>3 DEF WellFormed, Fits
<1>4. ASSUME "proxy-providers" \in DOMAIN doc PROVE Fits("proxy-providers", doc["proxy-providers"])
  BY <1>4 DEF WellFormed, Fits
<1> QED BY <1>1, <1>2, <1>3, <1>4, Zenon DEF Sound, ListKeys

\* The document without any key.
LEMMA EmptySound == Sound(<<>>) /\ DOMAIN <<>> = {}
BY DEF Sound

\* A document in which the lists are those of one of two others.
LEMMA SoundFromEither ==
    ASSUME NEW doc, NEW d, NEW e, Sound(d), Sound(e),
           \A k \in ListKeys \cap DOMAIN doc :
              (k \in DOMAIN d /\ doc[k] = d[k]) \/ (k \in DOMAIN e /\ doc[k] = e[k])
    PROVE  Sound(doc)
<1> SUFFICES ASSUME NEW k \in ListKeys \cap DOMAIN doc
             PROVE  Fits(k, doc[k])
  BY Zenon DEF Sound
<1>1. CASE k \in DOMAIN d /\ doc[k] = d[k]
  <2>1. Fits(k, d[k])
    BY <1>1, Zenon DEF Sound
  <2> QED BY <1>1, <2>1
<1>2. CASE k \in DOMAIN e /\ doc[k] = e[k]
  <2>1. Fits(k, e[k])
    BY <1>2, Zenon DEF Sound
  <2> QED BY <1>2, <2>1
<1> QED BY <1>1, <1>2

\* Operations that only touch other keys keep the lists.
LEMMA SoundOver ==
    ASSUME NEW top, NEW below, Sound(top), Sound(below)
    PROVE  Sound(Over(top, below))
<1>1. \A k \in ListKeys \cap DOMAIN Over(top, below) :
         (k \in DOMAIN top /\ Over(top, below)[k] = top[k]) \/ (k \in DOMAIN below /\ Over(top, below)[k] = below[k])
  BY DEF Over
<1> QED BY <1>1, SoundFromEither

\* A value put in a document has the form of its section, if it is one.
LEMMA SoundPut ==
    ASSUME NEW doc, NEW key, NEW value, Sound(doc), key \in ListKeys => Fits(key, value)
    PROVE  Sound(Put(doc, key, value))
<1>1. DOMAIN Put(doc, key, value) = DOMAIN doc \cup {key}
      /\ \A k \in DOMAIN doc \cup {key} : Put(doc, key, value)[k] = IF k = key THEN value ELSE doc[k]
  BY DEF Put
<1> SUFFICES ASSUME NEW k \in ListKeys, k \in DOMAIN doc \cup {key}
             PROVE  Fits(k, Put(doc, key, value)[k])
  BY <1>1, Zenon DEF Sound
<1>2. CASE k = key
  BY <1>1, <1>2
<1>3. CASE k # key
  <2>1. Fits(k, doc[k])
    BY <1>3, Zenon DEF Sound
  <2> QED BY <1>1, <1>3, <2>1
<1> QED BY <1>2, <1>3

\* Keys are taken out.
LEMMA SoundWithout ==
    ASSUME NEW doc, NEW keys, Sound(doc)
    PROVE  Sound(Without(doc, keys))
<1>1. \A k \in ListKeys \cap DOMAIN Without(doc, keys) : k \in DOMAIN doc /\ Without(doc, keys)[k] = doc[k]
  BY DEF Without
<1> QED BY <1>1, SoundFromEither

\* Lower case only changes the key of the tun section.
LEMMA SoundUseLowercase ==
    ASSUME NEW doc, Sound(doc)
    PROVE  Sound(UseLowercase(doc))
<1> DEFINE low == {Lower(l) : l \in DOMAIN doc}
           of(k) == CHOOSE l \in DOMAIN doc : Lower(l) = k
<1>1. DOMAIN UseLowercase(doc) = low /\ \A k \in low : UseLowercase(doc)[k] = doc[of(k)]
  BY Zenon DEF UseLowercase
<1>2. \A k \in low : of(k) \in DOMAIN doc /\ Lower(of(k)) = k
  <2> TAKE k \in low
  <2>1. \E l \in DOMAIN doc : Lower(l) = k
    BY Zenon
  <2> QED BY <2>1, Zenon
<1> HIDE DEF low, of
<1>3. \A k \in ListKeys : \A l : Lower(l) = k => l = k
  BY DEF Lower, ListKeys
<1>4. \A k \in ListKeys \cap DOMAIN UseLowercase(doc) : k \in DOMAIN doc /\ UseLowercase(doc)[k] = doc[k]
  BY <1>1, <1>2, <1>3, Zenon
<1> QED BY <1>4, SoundFromEither, Zenon

\* None of the lists is a mapping that merges.
LEMMA SoundDeepMerge ==
    ASSUME NEW doc, NEW overlay, Sound(doc), Sound(overlay)
    PROVE  Sound(DeepMerge(doc, overlay))
<1>1. ListKeys \cap MapKeys = {}
  BY DEF ListKeys, MapKeys
<1>2. DOMAIN DeepMerge(doc, overlay) = DOMAIN doc \cup DOMAIN overlay
  BY Zenon DEF DeepMerge
<1>3. \A k \in DOMAIN doc \cup DOMAIN overlay : k \notin MapKeys =>
        DeepMerge(doc, overlay)[k] = IF k \notin DOMAIN overlay THEN doc[k] ELSE overlay[k]
  BY DEF DeepMerge
<1>4. \A k \in ListKeys \cap DOMAIN DeepMerge(doc, overlay) :
         \/ k \in DOMAIN doc /\ DeepMerge(doc, overlay)[k] = doc[k]
         \/ k \in DOMAIN overlay /\ DeepMerge(doc, overlay)[k] = overlay[k]
  BY <1>1, <1>2, <1>3
<1> QED BY <1>4, SoundFromEither, Zenon

\* The lists of a document have their form; a list that is not there is empty.
LEMMA ListsFit ==
    ASSUME NEW doc, Sound(doc)
    PROVE  /\ ListOf(doc, "proxies") \in Seq(NodeRecords)
           /\ ListOf(doc, "proxy-groups") \in Seq(GroupRecords)
           /\ ListOf(doc, "rules") \in Seq(RuleRecords)
           /\ IsFiniteSet(ProviderNames(doc)) /\ ProviderNames(doc) \subseteq STRING
<1>0. \A X : <<>> \in Seq(X)
  OBVIOUS
<1>1. \A k \in ListKeys : Shaped(doc, k) => Fits(k, doc[k]) /\ doc[k] # IllShaped
  BY DEF Sound, Shaped
<1>2. \A k \in ListKeys : ~Shaped(doc, k) => ListOf(doc, k) = <<>> /\ MapOf(doc, k) = <<>>
  BY DEF ListOf, MapOf
<1>3. \A k \in ListKeys : Shaped(doc, k) => ListOf(doc, k) = doc[k] /\ MapOf(doc, k) = doc[k]
  BY DEF ListOf, MapOf
<1>4. {"proxies", "proxy-groups", "rules", "proxy-providers"} = ListKeys
  BY DEF ListKeys
<1>5. ListOf(doc, "proxies") \in Seq(NodeRecords)
  <2>1. CASE Shaped(doc, "proxies")
    <3>1. Fits("proxies", doc["proxies"]) /\ doc["proxies"] # IllShaped
      BY <1>1, <1>4, <2>1
    <3>2. doc["proxies"] \in Seq(NodeRecords)
      BY <3>1 DEF Fits
    <3> QED BY <1>3, <1>4, <2>1, <3>2
  <2>2. CASE ~Shaped(doc, "proxies")
    BY <1>0, <1>2, <1>4, <2>2
  <2> QED BY <2>1, <2>2
<1>6. ListOf(doc, "proxy-groups") \in Seq(GroupRecords)
  <2>1. CASE Shaped(doc, "proxy-groups")
    <3>1. Fits("proxy-groups", doc["proxy-groups"]) /\ doc["proxy-groups"] # IllShaped
      BY <1>1, <1>4, <2>1
    <3>2. doc["proxy-groups"] \in Seq(GroupRecords)
      BY <3>1 DEF Fits
    <3> QED BY <1>3, <1>4, <2>1, <3>2
  <2>2. CASE ~Shaped(doc, "proxy-groups")
    BY <1>0, <1>2, <1>4, <2>2
  <2> QED BY <2>1, <2>2
<1>7. ListOf(doc, "rules") \in Seq(RuleRecords)
  <2>1. CASE Shaped(doc, "rules")
    <3>1. Fits("rules", doc["rules"]) /\ doc["rules"] # IllShaped
      BY <1>1, <1>4, <2>1
    <3>2. doc["rules"] \in Seq(RuleRecords)
      BY <3>1 DEF Fits
    <3> QED BY <1>3, <1>4, <2>1, <3>2
  <2>2. CASE ~Shaped(doc, "rules")
    BY <1>0, <1>2, <1>4, <2>2
  <2> QED BY <2>1, <2>2
<1>8. IsFiniteSet(ProviderNames(doc)) /\ ProviderNames(doc) \subseteq STRING
  <2>1. CASE Shaped(doc, "proxy-providers")
    <3>1. Fits("proxy-providers", doc["proxy-providers"]) /\ doc["proxy-providers"] # IllShaped
      BY <1>1, <1>4, <2>1
    <3>2. IsFiniteSet(DOMAIN doc["proxy-providers"]) /\ DOMAIN doc["proxy-providers"] \subseteq STRING
      BY <3>1 DEF Fits
    <3> QED BY <1>3, <1>4, <2>1, <3>2 DEF ProviderNames
  <2>2. CASE ~Shaped(doc, "proxy-providers")
    <3>1. ProviderNames(doc) = {}
      BY <1>2, <1>4, <2>2 DEF ProviderNames
    <3> QED BY <3>1, FS_EmptySet
  <2> QED BY <2>1, <2>2
<1> QED BY <1>5, <1>6, <1>7, <1>8

-----------------------------------------------------------------------------
(* What the layers make.                                                   *)

\* The profile with its merges and scripts.
LEMMA SoundProfile ==
    ASSUME NEW in \in Inputs, in.profile # NoFile, ~ScriptFails(in)
    PROVE  Sound(ApplyProfileEnhancements(in))
<1>1. Sound(in.profile)
  BY FileSound, DocumentAssumption
<1>2. \A merge \in {in.merge, in.ownMerge} : merge # NoFile => Sound(merge)
  BY FileSound, DocumentAssumption
<1>3. \A script \in {in.script, in.ownScript} : script # NoFile => Sound(script)
  BY FileSound, DocumentAssumption DEF ScriptFails
<1>4. \A merge \in {in.merge, in.ownMerge} : \A doc : Sound(doc) => Sound(UseMerge(doc, merge))
  BY <1>2, SoundUseLowercase, SoundDeepMerge DEF UseMerge
<1>5. \A script \in {in.script, in.ownScript} : \A doc : Sound(doc) => Sound(UseScript(doc, script))
  BY <1>3, SoundUseLowercase DEF UseScript
<1> QED BY <1>1, <1>4, <1>5 DEF ApplyProfileEnhancements

\* The base configuration.
LEMMA SoundBase ==
    ASSUME NEW in \in Inputs
    PROVE  Sound(FromMapping(in.base))
<1>1. Sound(in.base)
  BY FileSound, DocumentAssumption
<1>2. Sound(DefaultBase)
  BY DEF Sound, DefaultBase, ListKeys
<1>3. "socks-port" \notin ListKeys
  BY DEF ListKeys
<1> QED BY <1>1, <1>2, <1>3, SoundOver, SoundWithout, SoundPut DEF FromMapping

\* The greatest of some numbers up to k.
LEMMA Greatest ==
    ASSUME NEW k \in Nat, NEW S \in SUBSET (0..k), S # {}
    PROVE  Max(S) \in S /\ \A y \in S : y <= Max(S)
<1> DEFINE T == {k - x : x \in S}
<1>1. T \in SUBSET Nat /\ T # {}
  <2>1. \A x \in S : k - x \in Nat
    OBVIOUS
  <2> QED BY <2>1, Zenon
<1>2. PICK t \in T : \A y \in T : t <= y
  BY <1>1, LeastExists
<1>3. PICK x \in S : t = k - x
  OBVIOUS
<1>4. \A y \in S : t <= k - y /\ y \in 0..k
  BY <1>2
<1>5. \A y \in S : x >= y
  BY <1>3, <1>4
<1>6. \E z \in S : \A y \in S : z >= y
  BY <1>5
<1>7. Max(S) \in S /\ \A y \in S : Max(S) >= y
  BY <1>6, Zenon DEF Max
<1> QED BY <1>7

\* A chain writes names of nodes, and nothing else.
LEMMA SoundChain ==
    ASSUME NEW doc, Sound(doc), NEW links \in Chains \cup {<<>>}
    PROVE  /\ Sound(UpdateProxyChain(doc, links))
           /\ DOMAIN UpdateProxyChain(doc, links) = DOMAIN doc
           /\ \A k \in DOMAIN doc \ {"proxies"} : UpdateProxyChain(doc, links)[k] = doc[k]
<1>1. CASE links = <<>> \/ ~Shaped(doc, "proxies")
  <2>1. UpdateProxyChain(doc, links) = doc
    BY <1>1 DEF UpdateProxyChain
  <2> QED BY <2>1
<1>2. CASE ~(links = <<>> \/ ~Shaped(doc, "proxies"))
  <2> DEFINE P == doc["proxies"]
             places(i) == {j \in 2..Len(links) : NamedProxy(P, links[j]) = i}
             via(i) == IF places(i) = {} THEN NoName ELSE links[Max(places(i)) - 1]
             Q == [i \in DOMAIN P |-> [P[i] EXCEPT !.dialer = via(i)]]
             R == [doc EXCEPT !["proxies"] = Q]
  <2>1. UpdateProxyChain(doc, links) = R
    BY <1>2, Zenon DEF UpdateProxyChain
  <2>2. links \in Seq(AnyName)
    BY <1>2, DocumentAssumption
  <2>3. \A i : via(i) \in AnyName
    <3> SUFFICES ASSUME NEW i, places(i) # {}
                 PROVE  links[Max(places(i)) - 1] \in AnyName
      BY DocumentAssumption
    <3>1. Len(links) \in Nat /\ places(i) \in SUBSET (2..Len(links)) /\ places(i) \in SUBSET (0..Len(links))
      BY <2>2
    <3> HIDE DEF places
    <3>2. Max(places(i)) \in places(i)
      BY <3>1, Greatest
    <3>3. Max(places(i)) - 1 \in 1..Len(links)
      BY <3>1, <3>2
    <3> QED BY <2>2, <3>3
  <2> HIDE DEF places, via
  <2>4. "proxies" \in DOMAIN doc /\ P \in Seq(NodeRecords)
    <3>1. Shaped(doc, "proxies") /\ ListOf(doc, "proxies") = P
      BY <1>2 DEF ListOf
    <3> QED BY <3>1, ListsFit DEF Shaped
  <2> HIDE DEF P
  <2>5. Q \in Seq(NodeRecords)
    <3>0. \A i \in DOMAIN P : P[i] \in NodeRecords
      BY <2>4
    <3>1. \A i \in DOMAIN P : [P[i] EXCEPT !.dialer = via(i)] \in NodeRecords
      BY <2>3, <3>0 DEF NodeRecords
    <3>2. Len(P) \in Nat /\ DOMAIN P = 1..Len(P)
      BY <2>4
    <3> QED BY <3>1, <3>2
  <2> HIDE DEF Q
  <2>6. DOMAIN R = DOMAIN doc /\ R["proxies"] = Q /\ \A k \in DOMAIN doc \ {"proxies"} : R[k] = doc[k]
    BY <2>4
  <2> HIDE DEF R
  <2>7. Fits("proxies", Q)
    BY <2>5 DEF Fits
  <2>8. Sound(R)
    BY <2>6, <2>7 DEF Sound
  <2> QED BY <2>1, <2>6, <2>8
<1> QED BY <1>1, <1>2

\* doc says of these keys what d says.
Agree(doc, d, keys) ==
    \A k \in keys : (k \in DOMAIN doc <=> k \in DOMAIN d) /\ (k \in DOMAIN d => doc[k] = d[k])

\* The keys that LayersInOrder is about.
OrderedKeys == {"mode", "tun", "dns", "hosts", "socks-port", "external-controller", "external-controller-cors"}

\* A section put in a document is there, and nothing else changes.
LEMMA PutSection ==
    ASSUME NEW doc, NEW key, NEW value
    PROVE  key \in DOMAIN Put(doc, key, value) /\ Put(doc, key, value)[key] = value
           /\ \A keys : key \notin keys => Agree(Put(doc, key, value), doc, keys)
BY DEF Put, Agree

\* The DNS file only says something of its own sections, and of those all that it has.
LEMMA DnsLayer ==
    ASSUME NEW doc, Sound(doc)
    PROVE  LET new == MergeDns(doc, inputs)
           IN /\ Sound(new) /\ Agree(new, doc, OrderedKeys \ {"dns", "hosts"})
              /\ \A section \in {"dns", "hosts"} :
                    IF DnsSpeaks(section) THEN section \in DOMAIN new /\ new[section] = DnsSays(section)
                    ELSE Agree(new, doc, {section})
<1> DEFINE new == MergeDns(doc, inputs)
           dns == inputs.dns
           others == OrderedKeys \ {"dns", "hosts"}
           used == inputs.settings.dns /\ dns # NoFile
           hosts == IF Shaped(dns, "hosts") THEN Put(doc, "hosts", dns["hosts"]) ELSE doc
           both == IF "dns" \notin DOMAIN dns THEN Put(hosts, "dns", dns)
                   ELSE IF Shaped(dns, "dns") THEN Put(hosts, "dns", dns["dns"]) ELSE hosts
<1>1. new = IF used THEN both ELSE doc
  BY Zenon DEF MergeDns, ApplyDnsConfig
<1>2. "dns" \notin ListKeys /\ "hosts" \notin ListKeys /\ "dns" # "hosts"
      /\ "dns" \notin others /\ "hosts" \notin others
  BY DEF ListKeys
<1>3. \A d, keys : Agree(d, d, keys)
  BY DEF Agree
<1>4. \A d, e, f, keys : Agree(d, e, keys) /\ Agree(e, f, keys) => Agree(d, f, keys)
  BY DEF Agree
<1>5. \A d, e, k : Agree(d, e, {k}) => (k \in DOMAIN d <=> k \in DOMAIN e) /\ (k \in DOMAIN e => d[k] = e[k])
  BY DEF Agree
<1>6. DnsSpeaks("hosts") <=> used /\ Shaped(dns, "hosts")
  BY DEF DnsSpeaks
<1>7. DnsSpeaks("dns") <=> used /\ (Shaped(dns, "dns") \/ "dns" \notin DOMAIN dns)
  BY DEF DnsSpeaks
<1>8. \A k : DnsSays(k) = IF k \in DOMAIN dns THEN dns[k] ELSE dns
  BY Zenon DEF DnsSays
<1>9. \A k : Shaped(dns, k) => k \in DOMAIN dns
  BY DEF Shaped
<1> HIDE DEF others
<1>10. /\ Sound(hosts) /\ Agree(hosts, doc, others) /\ Agree(hosts, doc, {"dns"})
       /\ IF Shaped(dns, "hosts") THEN "hosts" \in DOMAIN hosts /\ hosts["hosts"] = dns["hosts"]
          ELSE Agree(hosts, doc, {"hosts"})
  BY <1>2, <1>3, SoundPut, PutSection
<1> HIDE DEF hosts
<1>11. /\ Sound(both) /\ Agree(both, hosts, others) /\ Agree(both, hosts, {"hosts"})
       /\ IF Shaped(dns, "dns") \/ "dns" \notin DOMAIN dns
          THEN "dns" \in DOMAIN both /\ both["dns"] = IF "dns" \in DOMAIN dns THEN dns["dns"] ELSE dns
          ELSE Agree(both, hosts, {"dns"})
  <2>1. CASE "dns" \notin DOMAIN dns
    <3>1. both = Put(hosts, "dns", dns)
      BY <2>1
    <3> HIDE DEF both
    <3> QED BY <1>2, <1>10, <2>1, <3>1, SoundPut, PutSection
  <2>2. CASE Shaped(dns, "dns")
    <3>1. both = Put(hosts, "dns", dns["dns"]) /\ "dns" \in DOMAIN dns
      BY <1>9, <2>2
    <3> HIDE DEF both
    <3> QED BY <1>2, <1>10, <2>2, <3>1, SoundPut, PutSection
  <2>3. CASE "dns" \in DOMAIN dns /\ ~Shaped(dns, "dns")
    <3>1. both = hosts
      BY <2>3
    <3> HIDE DEF both
    <3> QED BY <1>3, <1>10, <2>3, <3>1
  <2> QED BY <2>1, <2>2, <2>3
<1> HIDE DEF both, new, used, dns
<1>12. CASE ~used
  BY <1>1, <1>3, <1>6, <1>7, <1>12 DEF new, others
<1>13. CASE used
  <2>1. Sound(new) /\ Agree(new, doc, others)
    BY <1>1, <1>4, <1>10, <1>11, <1>13
  <2>2. IF DnsSpeaks("hosts") THEN "hosts" \in DOMAIN new /\ new["hosts"] = DnsSays("hosts")
        ELSE Agree(new, doc, {"hosts"})
    <3>1. CASE Shaped(dns, "hosts")
      BY <1>1, <1>5, <1>6, <1>8, <1>9, <1>10, <1>11, <1>13, <3>1
    <3>2. CASE ~Shaped(dns, "hosts")
      BY <1>1, <1>4, <1>6, <1>10, <1>11, <1>13, <3>2
    <3> QED BY <3>1, <3>2
  <2>3. IF DnsSpeaks("dns") THEN "dns" \in DOMAIN new /\ new["dns"] = DnsSays("dns")
        ELSE Agree(new, doc, {"dns"})
    <3>1. CASE Shaped(dns, "dns") \/ "dns" \notin DOMAIN dns
      BY <1>1, <1>7, <1>8, <1>11, <1>13, <3>1
    <3>2. CASE ~(Shaped(dns, "dns") \/ "dns" \notin DOMAIN dns)
      BY <1>1, <1>4, <1>7, <1>10, <1>11, <1>13, <3>2
    <3> QED BY <3>1, <3>2
  <2> QED BY <2>1, <2>2, <2>3 DEF new, others
<1> QED BY <1>12, <1>13

\* A tun section.
LEMMA TunSection ==
    ASSUME NEW t \in TunSections
    PROVE  DOMAIN t \in SUBSET {"enable", "route"} /\ \A key \in DOMAIN t : t[key] \in BOOLEAN
<1>1. PICK keys \in SUBSET {"enable", "route"} : t \in [keys -> BOOLEAN]
  BY DEF TunSections
<1> QED BY <1>1

\* The settings decide the port and whether there is a tun device.
LEMMA SettingsLayer ==
    ASSUME NEW doc, NEW settings, Sound(doc), MapOf(doc, "tun") \in TunSections
    PROVE  LET set == ApplySettings(doc, settings)
               expected(key) == IF key = "enable" /\ settings.tun # "unset" THEN settings.tun = "on"
                                ELSE MapOf(doc, "tun")[key]
           IN /\ Sound(set)
              /\ Agree(set, doc, OrderedKeys \ {"tun", "socks-port"})
              /\ settings.socks /\ "socks-port" \in DOMAIN doc => "socks-port" \in DOMAIN set
              /\ settings.socks /\ settings.port # 0 => "socks-port" \in DOMAIN set /\ set["socks-port"] = settings.port
              /\ ~settings.socks => "socks-port" \notin DOMAIN set
              /\ MapOf(set, "tun") \in TunSections
              /\ DOMAIN MapOf(set, "tun") =
                    DOMAIN MapOf(doc, "tun") \cup (IF settings.tun = "unset" THEN {} ELSE {"enable"})
              /\ \A key \in DOMAIN MapOf(set, "tun") : MapOf(set, "tun")[key] = expected(key)
<1> DEFINE port == IF ~settings.socks THEN Without(doc, {"socks-port"})
                   ELSE IF settings.port = 0 THEN doc ELSE Put(doc, "socks-port", settings.port)
           tun == Put(MapOf(port, "tun"), "enable", settings.tun = "on")
           set == ApplySettings(doc, settings)
<1>1. "tun" \notin ListKeys /\ "socks-port" \notin ListKeys /\ "tun" # "socks-port"
  BY DEF ListKeys
<1>2. Sound(port)
  BY <1>1, SoundPut, SoundWithout
<1>3. Agree(port, doc, OrderedKeys \ {"socks-port"})
  BY DEF Agree, Put, Without
<1>4. MapOf(port, "tun") = MapOf(doc, "tun")
  BY <1>1, <1>3 DEF Agree, OrderedKeys, MapOf, Shaped
<1>5. /\ settings.socks /\ "socks-port" \in DOMAIN doc => "socks-port" \in DOMAIN port
      /\ settings.socks /\ settings.port # 0 => "socks-port" \in DOMAIN port /\ port["socks-port"] = settings.port
      /\ ~settings.socks => "socks-port" \notin DOMAIN port
  BY DEF Put, Without
<1>6. set = IF settings.tun = "unset" THEN port ELSE Put(port, "tun", tun)
  BY Zenon DEF ApplySettings
<1> HIDE DEF port, set
<1>7. CASE settings.tun = "unset"
  <2>1. set = port
    BY <1>6, <1>7
  <2>2. Agree(set, doc, OrderedKeys \ {"tun", "socks-port"})
    BY <1>3, <2>1 DEF Agree
  <2> QED BY <1>2, <1>4, <1>5, <1>7, <2>1, <2>2 DEF set
<1>8. CASE settings.tun # "unset"
  <2>1. set = Put(port, "tun", tun)
    BY <1>6, <1>8
  <2>2. /\ DOMAIN tun = DOMAIN MapOf(doc, "tun") \cup {"enable"}
        /\ \A key \in DOMAIN tun : tun[key] = IF key = "enable" THEN settings.tun = "on" ELSE MapOf(doc, "tun")[key]
    BY <1>4 DEF Put
  <2>3. tun \in TunSections
    <3>1. DOMAIN tun \in SUBSET {"enable", "route"}
      BY <2>2, TunSection
    <3>2. \A key \in DOMAIN tun : tun[key] \in BOOLEAN
      BY <2>2, TunSection
    <3>3. tun = [key \in DOMAIN tun |-> tun[key]]
      BY DEF Put
    <3> HIDE DEF tun
    <3>4. tun \in [DOMAIN tun -> BOOLEAN]
      BY <3>2, <3>3
    <3> QED BY <3>1, <3>4 DEF TunSections
  <2> HIDE DEF tun
  <2>4. DOMAIN set = DOMAIN port \cup {"tun"} /\ set["tun"] = tun /\ \A k \in DOMAIN port \ {"tun"} : set[k] = port[k]
    BY <2>1 DEF Put
  <2>5. MapOf(set, "tun") = tun
    BY <2>3, <2>4, DocumentAssumption DEF MapOf, Shaped
  <2>6. Sound(set)
    BY <1>1, <1>2, <2>1, SoundPut
  <2>7. Agree(set, doc, OrderedKeys \ {"tun", "socks-port"})
    BY <1>3, <2>4 DEF Agree
  <2>8. /\ "socks-port" \in DOMAIN set <=> "socks-port" \in DOMAIN port
        /\ "socks-port" \in DOMAIN port => set["socks-port"] = port["socks-port"]
    BY <1>1, <2>4
  <2> QED BY <1>5, <1>8, <2>2, <2>3, <2>5, <2>6, <2>7, <2>8 DEF set
<1> QED BY <1>7, <1>8

-----------------------------------------------------------------------------
(* The tun section, layer by layer.                                        *)

\* What a document says of a key of the tun section.
Says(doc, key) == IF key \in DOMAIN MapOf(doc, "tun") THEN MapOf(doc, "tun")[key] ELSE NoName

\* What a layer makes of what those below it said.
Adds(doc, key, below) ==
    IF "tun" \notin DOMAIN doc THEN below
    ELSE IF doc["tun"] = IllShaped THEN NoName
    ELSE IF key \in DOMAIN doc["tun"] THEN doc["tun"][key] ELSE below

\* Without layers nothing is said.
LEMMA LastTunOfNone ==
    ASSUME NEW key
    PROVE  LastTun(<<>>, key) = NoName
<1>1. DOMAIN <<>> = {}
  OBVIOUS
<1> QED BY <1>1, Zenon DEF LastTun

\* Each layer adds to those below it.
LEMMA LastTunOfMore ==
    ASSUME NEW X, NEW layers \in Seq(X), NEW doc \in X, NEW key
    PROVE  LastTun(Append(layers, doc), key) = Adds(doc, key, LastTun(layers, key))
<1> DEFINE n == Len(layers) + 1
           more == Append(layers, doc)
           speaking(l) == {i \in DOMAIN l : "tun" \in DOMAIN l[i]}
           cut(l) == {0} \cup {i \in speaking(l) : l[i]["tun"] = IllShaped}
           said(l) == {i \in speaking(l) : i > Max(cut(l)) /\ key \in DOMAIN l[i]["tun"]}
<1>1. \A l : LastTun(l, key) = IF said(l) = {} THEN NoName ELSE l[Max(said(l))]["tun"][key]
  BY Zenon DEF LastTun
<1>2. /\ n \in Nat /\ n - 1 \in Nat /\ DOMAIN layers = 1..(n - 1) /\ DOMAIN more = 1..n
      /\ more[n] = doc /\ \A i \in 1..(n - 1) : more[i] = layers[i]
  OBVIOUS
<1> HIDE DEF more, n
<1>3. speaking(more) = speaking(layers) \cup (IF "tun" \in DOMAIN doc THEN {n} ELSE {})
  <2>1. 1..n = 1..(n - 1) \cup {n} /\ n \notin 1..(n - 1)
    BY <1>2
  <2>2. \A i \in 1..(n - 1) : i \in speaking(more) <=> i \in speaking(layers)
    BY <1>2, <2>1
  <2>3. n \in speaking(more) <=> "tun" \in DOMAIN doc
    BY <1>2, <2>1
  <2>4. speaking(more) \subseteq 1..n /\ speaking(layers) \subseteq 1..(n - 1)
    BY <1>2
  <2> HIDE DEF speaking
  <2> QED BY <2>1, <2>2, <2>3, <2>4
<1>4. cut(more) = cut(layers) \cup (IF "tun" \in DOMAIN doc /\ doc["tun"] = IllShaped THEN {n} ELSE {})
  <2> HIDE DEF speaking
  <2>1. \A i \in speaking(layers) : more[i] = layers[i]
    BY <1>2 DEF speaking
  <2> QED BY <1>2, <1>3, <2>1
<1>5. cut(layers) \in SUBSET (0..(n - 1)) /\ n - 1 \in Nat /\ cut(layers) # {}
  <2>1. n - 1 \in Nat
    BY DEF n
  <2> QED BY <1>2, <2>1
<1>6. speaking(layers) \in SUBSET (1..(n - 1)) /\ \A i \in speaking(layers) : more[i] = layers[i]
  BY <1>2
<1> HIDE DEF speaking, cut
<1>7. Max(cut(layers)) \in 0..(n - 1)
  BY <1>5, Greatest
<1>8. CASE "tun" \notin DOMAIN doc
  <2>1. speaking(more) = speaking(layers) /\ cut(more) = cut(layers)
    BY <1>3, <1>4, <1>8
  <2>2. said(more) = said(layers)
    BY <1>6, <2>1
  <2>3. said(layers) \in SUBSET (0..(n - 1))
    BY <1>6
  <2>4. said(layers) # {} => more[Max(said(layers))] = layers[Max(said(layers))]
    <3>1. said(layers) # {} => Max(said(layers)) \in said(layers)
      <4> HIDE DEF said
      <4> QED BY <1>5, <2>3, Greatest
    <3> QED BY <1>6, <3>1
  <2> HIDE DEF said
  <2>5. LastTun(more, key) = LastTun(layers, key)
    BY <1>1, <2>2, <2>4
  <2> QED BY <1>8, <2>5 DEF Adds, more
<1>9. CASE "tun" \in DOMAIN doc /\ doc["tun"] = IllShaped
  <2>1. cut(more) = cut(layers) \cup {n} /\ n \in cut(more) /\ cut(more) \in SUBSET (0..n)
    BY <1>2, <1>4, <1>5, <1>9
  <2>2. Max(cut(more)) \in 0..n /\ n <= Max(cut(more))
    BY <1>2, <2>1, Greatest
  <2>3. speaking(more) \in SUBSET (0..n)
    BY <1>2, <1>3, <1>6
  <2>4. said(more) = {}
    BY <1>2, <2>2, <2>3
  <2>5. LastTun(more, key) = NoName
    BY <1>1, <2>4
  <2> QED BY <1>9, <2>5 DEF Adds, more
<1>10. CASE "tun" \in DOMAIN doc /\ doc["tun"] # IllShaped /\ key \in DOMAIN doc["tun"]
  <2>1. cut(more) = cut(layers) /\ speaking(more) = speaking(layers) \cup {n}
    BY <1>3, <1>4, <1>10
  <2>2. n \in said(more)
    BY <1>2, <1>7, <1>10, <2>1
  <2>3. said(more) \in SUBSET (0..n)
    BY <1>2, <1>6, <2>1
  <2>4. Max(said(more)) = n
    <3>1. Max(said(more)) \in 0..n /\ n <= Max(said(more))
      <4> HIDE DEF said
      <4> QED BY <1>2, <2>2, <2>3, Greatest
    <3> QED BY <1>2, <3>1
  <2> HIDE DEF said
  <2>5. LastTun(more, key) = doc["tun"][key]
    BY <1>1, <1>2, <2>2, <2>4
  <2> QED BY <1>10, <2>5 DEF Adds, more
<1>11. CASE "tun" \in DOMAIN doc /\ doc["tun"] # IllShaped /\ key \notin DOMAIN doc["tun"]
  <2>1. cut(more) = cut(layers) /\ speaking(more) = speaking(layers) \cup {n}
    BY <1>3, <1>4, <1>11
  <2>2. said(more) = said(layers)
    BY <1>2, <1>6, <1>11, <2>1
  <2>3. said(layers) \in SUBSET (0..(n - 1))
    BY <1>6
  <2>4. said(layers) # {} => more[Max(said(layers))] = layers[Max(said(layers))]
    <3>1. said(layers) # {} => Max(said(layers)) \in said(layers)
      <4> HIDE DEF said
      <4> QED BY <1>5, <2>3, Greatest
    <3> QED BY <1>6, <3>1
  <2> HIDE DEF said
  <2>5. LastTun(more, key) = LastTun(layers, key)
    BY <1>1, <2>2, <2>4
  <2> QED BY <1>11, <2>5 DEF Adds, more
<1> QED BY <1>8, <1>9, <1>10, <1>11

\* A tun section has its form, or has no shape.
TunFits(doc) == "tun" \in DOMAIN doc => doc["tun"] \in TunSections \cup {IllShaped}

\* The section that a document has, or an empty one.
LEMMA TunShape ==
    ASSUME NEW doc, TunFits(doc)
    PROVE  MapOf(doc, "tun") \in TunSections /\ \A key : Says(doc, key) = Adds(doc, key, NoName)
<1>1. <<>> \in TunSections /\ DOMAIN <<>> = {}
  <2>1. <<>> \in [{} -> BOOLEAN]
    OBVIOUS
  <2>2. {} \in SUBSET {"enable", "route"}
    OBVIOUS
  <2> QED BY <2>1, <2>2, Zenon DEF TunSections
<1>2. MapOf(doc, "tun") = IF "tun" \in DOMAIN doc /\ doc["tun"] # IllShaped THEN doc["tun"] ELSE <<>>
  BY DEF MapOf, Shaped
<1>3. MapOf(doc, "tun") \in TunSections
  BY <1>1, <1>2 DEF TunFits
<1>4. \A key : Says(doc, key) = Adds(doc, key, NoName)
  BY <1>1, <1>2 DEF Says, Adds
<1> QED BY <1>3, <1>4

\* A file's section, in lower case.
LEMMA TunLowercase ==
    ASSUME NEW doc, WellFormed(doc)
    PROVE  TunFits(doc) /\ TunFits(UseLowercase(doc))
<1>1. \A k \in {"tun", "TUN"} \cap DOMAIN doc : doc[k] \in TunSections \cup {IllShaped}
  BY DEF WellFormed
<1>2. ASSUME "tun" \in DOMAIN UseLowercase(doc)
      PROVE  UseLowercase(doc)["tun"] \in TunSections \cup {IllShaped}
  <2> DEFINE of == CHOOSE l \in DOMAIN doc : Lower(l) = "tun"
  <2>1. \E l \in DOMAIN doc : Lower(l) = "tun"
    BY <1>2, Zenon DEF UseLowercase
  <2>2. of \in DOMAIN doc /\ Lower(of) = "tun"
    BY <2>1, Zenon
  <2>3. UseLowercase(doc)["tun"] = doc[of]
    BY <1>2, Zenon DEF UseLowercase
  <2> HIDE DEF of
  <2>4. of \in {"tun", "TUN"}
    BY <2>2 DEF Lower
  <2> QED BY <1>1, <2>2, <2>3, <2>4
<1> QED BY <1>1, <1>2 DEF TunFits

\* One section over another is a section, that says what the upper one says where it speaks.
LEMMA TunOver ==
    ASSUME NEW top \in TunSections, NEW below \in TunSections
    PROVE  Over(top, below) \in TunSections
<1> DEFINE t == Over(top, below)
<1>1. DOMAIN t = DOMAIN top \cup DOMAIN below
      /\ \A k \in DOMAIN t : t[k] = IF k \in DOMAIN top THEN top[k] ELSE below[k]
  BY DEF Over
<1>2. t = [k \in DOMAIN t |-> t[k]]
  BY DEF Over
<1> HIDE DEF t
<1>3. DOMAIN t \in SUBSET {"enable", "route"} /\ \A k \in DOMAIN t : t[k] \in BOOLEAN
  BY <1>1, TunSection
<1>4. t \in [DOMAIN t -> BOOLEAN]
  BY <1>2, <1>3
<1>5. t \in TunSections
  BY <1>3, <1>4, Zenon DEF TunSections
<1> QED BY <1>5 DEF t

\* A merge adds to the section.
LEMMA TunDeepMerge ==
    ASSUME NEW doc, NEW overlay, TunFits(doc), TunFits(overlay)
    PROVE  /\ TunFits(DeepMerge(doc, overlay))
           /\ \A key : Says(DeepMerge(doc, overlay), key) = Adds(overlay, key, Says(doc, key))
<1> DEFINE merged == DeepMerge(doc, overlay)
<1>1. DOMAIN merged = DOMAIN doc \cup DOMAIN overlay
  BY Zenon DEF DeepMerge
<1>2. ASSUME "tun" \in DOMAIN merged
      PROVE  merged["tun"] = IF "tun" \notin DOMAIN overlay THEN doc["tun"]
                             ELSE IF Shaped(doc, "tun") /\ Shaped(overlay, "tun") THEN Over(overlay["tun"], doc["tun"])
                             ELSE overlay["tun"]
  <2>1. "tun" \in MapKeys
    BY DEF MapKeys
  <2> QED BY <1>1, <1>2, <2>1 DEF DeepMerge
<1> HIDE DEF merged
<1>3. \A d, key : TunFits(d) => Says(d, key) = Adds(d, key, NoName)
  BY TunShape, Zenon
<1>4. CASE "tun" \notin DOMAIN overlay
  <2>1. TunFits(merged)
    BY <1>1, <1>2, <1>4 DEF TunFits
  <2>2. \A key : Adds(merged, key, NoName) = Adds(doc, key, NoName)
    BY <1>1, <1>2, <1>4 DEF Adds
  <2>3. \A key : Adds(overlay, key, Says(doc, key)) = Says(doc, key)
    BY <1>4 DEF Adds
  <2> QED BY <1>3, <2>1, <2>2, <2>3 DEF merged
<1>5. CASE Shaped(doc, "tun") /\ Shaped(overlay, "tun")
  <2>1. "tun" \in DOMAIN merged /\ merged["tun"] = Over(overlay["tun"], doc["tun"])
    BY <1>1, <1>2, <1>5 DEF Shaped
  <2>2. overlay["tun"] \in TunSections /\ doc["tun"] \in TunSections
    BY <1>5 DEF TunFits, Shaped
  <2>3. merged["tun"] \in TunSections
    BY <2>1, <2>2, TunOver
  <2>4. DOMAIN merged["tun"] = DOMAIN overlay["tun"] \cup DOMAIN doc["tun"]
        /\ \A k \in DOMAIN merged["tun"] :
              merged["tun"][k] = IF k \in DOMAIN overlay["tun"] THEN overlay["tun"][k] ELSE doc["tun"][k]
    BY <2>1 DEF Over
  <2>5. \A key : Adds(merged, key, NoName) = Adds(overlay, key, Adds(doc, key, NoName))
    BY <1>5, <2>1, <2>3, <2>4, DocumentAssumption DEF Adds, Shaped
  <2>6. TunFits(merged)
    BY <2>3 DEF TunFits
  <2> QED BY <1>3, <2>5, <2>6 DEF merged
<1>6. CASE "tun" \in DOMAIN overlay /\ ~(Shaped(doc, "tun") /\ Shaped(overlay, "tun"))
  <2>1. "tun" \in DOMAIN merged /\ merged["tun"] = overlay["tun"]
    BY <1>1, <1>2, <1>6
  <2>2. TunFits(merged)
    BY <1>6, <2>1 DEF TunFits
  <2>3. \A key : Adds(merged, key, NoName) = Adds(overlay, key, Adds(doc, key, NoName))
    BY <1>6, <2>1 DEF Adds, Shaped
  <2> QED BY <1>3, <2>2, <2>3 DEF merged
<1> QED BY <1>4, <1>5, <1>6 DEF Shaped

\* What the profile with its merges and scripts says of the tun section is what the last of its
\* layers says.
LEMMA ProfileSays ==
    ASSUME inputs \in Inputs, inputs.profile # NoFile, ~ScriptFails(inputs)
    PROVE  /\ TunFits(ApplyProfileEnhancements(inputs))
           /\ \A key : Says(ApplyProfileEnhancements(inputs), key) = LastTun(ProfileLayers, key)
<1> DEFINE lower(d) == IF d = NoFile THEN <<>> ELSE UseLowercase(d)
           X == {inputs.profile, lower(inputs.merge), lower(inputs.ownMerge), lower(inputs.script), lower(inputs.ownScript)}
           Merged(doc, merge) == UseMerge(doc, merge)
<1>1. TunFits(inputs.profile)
  BY TunLowercase, DocumentAssumption
<1>2. TunFits(<<>>) /\ \A key, below : Adds(<<>>, key, below) = below
  <2>1. DOMAIN <<>> = {}
    OBVIOUS
  <2> QED BY <2>1 DEF TunFits, Adds
<1>3. \A d \in {inputs.merge, inputs.ownMerge} : TunFits(lower(d))
  BY <1>2, TunLowercase, DocumentAssumption
<1>4. \A d \in {inputs.script, inputs.ownScript} : TunFits(lower(d))
  BY <1>2, TunLowercase, DocumentAssumption DEF ScriptFails
<1>5. ASSUME NEW d \in {inputs.merge, inputs.ownMerge}, NEW doc, TunFits(doc)
      PROVE  TunFits(UseMerge(doc, d)) /\ \A key : Says(UseMerge(doc, d), key) = Adds(lower(d), key, Says(doc, key))
  <2>1. CASE d = NoFile
    BY <1>2, <1>5, <2>1 DEF UseMerge
  <2>2. CASE d # NoFile
    <3>1. UseMerge(doc, d) = DeepMerge(doc, lower(d)) /\ TunFits(lower(d))
      BY <1>3, <2>2 DEF UseMerge
    <3> HIDE DEF lower
    <3> QED BY <1>5, <3>1, TunDeepMerge
  <2> QED BY <2>1, <2>2
<1>6. \A l, d, key : l \in Seq(X) /\ d \in X => LastTun(Append(l, d), key) = Adds(d, key, LastTun(l, key))
  <2> HIDE DEF X
  <2> QED BY LastTunOfMore
<1>7. \A d, e, f : <<d>> = Append(<<>>, d) /\ <<d, e>> = Append(<<d>>, e) /\ <<d, e, f>> = Append(<<d, e>>, f)
  OBVIOUS
<1>8. \A d \in X : <<d>> \in Seq(X) /\ \A e \in X : <<d, e>> \in Seq(X)
  <2> HIDE DEF X
  <2> QED OBVIOUS
<1>9. <<>> \in Seq(X)
  OBVIOUS
<1>10. /\ inputs.profile \in X /\ lower(inputs.merge) \in X /\ lower(inputs.ownMerge) \in X
       /\ lower(inputs.script) \in X /\ lower(inputs.ownScript) \in X
  OBVIOUS
<1>11. ProfileLayers = IF inputs.ownScript # NoFile THEN <<lower(inputs.ownScript)>>
                       ELSE IF inputs.script # NoFile THEN <<lower(inputs.script), lower(inputs.ownMerge)>>
                       ELSE <<inputs.profile, lower(inputs.merge), lower(inputs.ownMerge)>>
  BY Zenon DEF ProfileLayers
<1> DEFINE first == UseScript(UseMerge(inputs.profile, inputs.merge), inputs.script)
           second == UseMerge(first, inputs.ownMerge)
<1>12. ApplyProfileEnhancements(inputs) = UseScript(second, inputs.ownScript)
  BY DEF ApplyProfileEnhancements
<1>13. \A d, script : UseScript(d, script) = IF script = NoFile THEN d ELSE lower(script)
  BY DEF UseScript
<1>14. \A key : LastTun(<<>>, key) = NoName
  BY LastTunOfNone
<1>15. \A d, key : TunFits(d) => Says(d, key) = Adds(d, key, NoName)
  BY TunShape, Zenon
<1> HIDE DEF X, lower
<1>16. \A d \in X : \A key : LastTun(<<d>>, key) = Adds(d, key, NoName)
  <2> TAKE d \in X
  <2> TAKE key
  <2>1. LastTun(Append(<<>>, d), key) = Adds(d, key, LastTun(<<>>, key))
    BY <1>6, <1>9
  <2>2. <<d>> = Append(<<>>, d)
    BY <1>7
  <2> QED BY <1>14, <2>1, <2>2, Zenon
<1>17. \A d, e \in X : \A key : LastTun(<<d, e>>, key) = Adds(e, key, Adds(d, key, NoName))
  <2> TAKE d, e \in X
  <2> TAKE key
  <2>1. LastTun(Append(<<d>>, e), key) = Adds(e, key, LastTun(<<d>>, key))
    BY <1>6, <1>8, Zenon
  <2>2. <<d, e>> = Append(<<d>>, e)
    BY <1>7
  <2> QED BY <1>16, <2>1, <2>2, Zenon
<1>18. \A d, e, f \in X : \A key : LastTun(<<d, e, f>>, key) = Adds(f, key, Adds(e, key, Adds(d, key, NoName)))
  <2> TAKE d, e, f \in X
  <2> TAKE key
  <2>1. LastTun(Append(<<d, e>>, f), key) = Adds(f, key, LastTun(<<d, e>>, key))
    BY <1>6, <1>8, Zenon
  <2>2. <<d, e, f>> = Append(<<d, e>>, f)
    BY <1>7
  <2> QED BY <1>17, <2>1, <2>2, Zenon
<1>19. CASE inputs.ownScript # NoFile
  <2>1. ApplyProfileEnhancements(inputs) = lower(inputs.ownScript) /\ ProfileLayers = <<lower(inputs.ownScript)>>
    BY <1>11, <1>12, <1>13, <1>19
  <2> QED BY <1>4, <1>10, <1>15, <1>16, <2>1
<1>20. CASE inputs.ownScript = NoFile /\ inputs.script # NoFile
  <2>1. first = lower(inputs.script) /\ ApplyProfileEnhancements(inputs) = second
    BY <1>12, <1>13, <1>20
  <2>2. ProfileLayers = <<lower(inputs.script), lower(inputs.ownMerge)>>
    BY <1>11, <1>20
  <2> HIDE DEF first
  <2>3. TunFits(first) /\ \A key : Says(first, key) = Adds(lower(inputs.script), key, NoName)
    BY <1>4, <1>15, <2>1
  <2>4. TunFits(second) /\ \A key : Says(second, key) = Adds(lower(inputs.ownMerge), key, Says(first, key))
    BY <1>5, <2>3
  <2> QED BY <1>10, <1>17, <2>1, <2>2, <2>3, <2>4
<1>21. CASE inputs.ownScript = NoFile /\ inputs.script = NoFile
  <2> DEFINE lowest == UseMerge(inputs.profile, inputs.merge)
  <2>1. first = lowest /\ ApplyProfileEnhancements(inputs) = second
    BY <1>12, <1>13, <1>21
  <2>2. ProfileLayers = <<inputs.profile, lower(inputs.merge), lower(inputs.ownMerge)>>
    BY <1>11, <1>21
  <2>3. TunFits(lowest) /\ \A key : Says(lowest, key) = Adds(lower(inputs.merge), key, Adds(inputs.profile, key, NoName))
    BY <1>1, <1>5, <1>15
  <2> HIDE DEF first, lowest
  <2>4. TunFits(second) /\ \A key : Says(second, key) = Adds(lower(inputs.ownMerge), key, Says(first, key))
    BY <1>5, <2>1, <2>3
  <2> QED BY <1>10, <1>18, <2>1, <2>2, <2>3, <2>4
<1> QED BY <1>19, <1>20, <1>21

-----------------------------------------------------------------------------
(* The document that the clean-up of names is given.                       *)

\* The profile with its merges and scripts has the keys that some of its layers has.
LEMMA ProfileHas ==
    ASSUME inputs.profile # NoFile, NEW key
    PROVE  key \in DOMAIN ApplyProfileEnhancements(inputs) <=> \E layer \in ToSet(ProfileLayers) : key \in DOMAIN layer
<1> DEFINE lower(d) == IF d = NoFile THEN <<>> ELSE UseLowercase(d)
           first == UseScript(UseMerge(inputs.profile, inputs.merge), inputs.script)
           second == UseMerge(first, inputs.ownMerge)
           new == ApplyProfileEnhancements(inputs)
<1>1. \A d, merge : DOMAIN UseMerge(d, merge) = DOMAIN d \cup DOMAIN lower(merge)
  <2>1. DOMAIN <<>> = {} /\ \A d, e : DOMAIN DeepMerge(d, e) = DOMAIN d \cup DOMAIN e
    BY DEF DeepMerge
  <2> QED BY <2>1 DEF UseMerge
<1>2. \A d, script : UseScript(d, script) = IF script = NoFile THEN d ELSE lower(script)
  BY DEF UseScript
<1>3. new = UseScript(second, inputs.ownScript)
  BY DEF ApplyProfileEnhancements
<1>4. ProfileLayers = IF inputs.ownScript # NoFile THEN <<lower(inputs.ownScript)>>
                      ELSE IF inputs.script # NoFile THEN <<lower(inputs.script), lower(inputs.ownMerge)>>
                      ELSE <<inputs.profile, lower(inputs.merge), lower(inputs.ownMerge)>>
  BY Zenon DEF ProfileLayers
<1>5. \A d, e, f : ToSet(<<d>>) = {d} /\ ToSet(<<d, e>>) = {d, e} /\ ToSet(<<d, e, f>>) = {d, e, f}
  BY DEF ToSet
<1> HIDE DEF lower, new
<1>6. CASE inputs.ownScript # NoFile
  <2>1. new = lower(inputs.ownScript) /\ ToSet(ProfileLayers) = {lower(inputs.ownScript)}
    BY <1>2, <1>3, <1>4, <1>5, <1>6
  <2> QED BY <2>1 DEF new
<1>7. CASE inputs.ownScript = NoFile /\ inputs.script # NoFile
  <2>1. first = lower(inputs.script) /\ new = second
    BY <1>2, <1>3, <1>7
  <2>2. ToSet(ProfileLayers) = {lower(inputs.script), lower(inputs.ownMerge)}
    BY <1>4, <1>5, <1>7
  <2> HIDE DEF first
  <2>3. DOMAIN new = DOMAIN lower(inputs.script) \cup DOMAIN lower(inputs.ownMerge)
    BY <1>1, <2>1
  <2> QED BY <2>2, <2>3 DEF new
<1>8. CASE inputs.ownScript = NoFile /\ inputs.script = NoFile
  <2>1. first = UseMerge(inputs.profile, inputs.merge) /\ new = second
    BY <1>2, <1>3, <1>8
  <2>2. ToSet(ProfileLayers) = {inputs.profile, lower(inputs.merge), lower(inputs.ownMerge)}
    BY <1>4, <1>5, <1>8
  <2> HIDE DEF first
  <2>3. DOMAIN new = DOMAIN inputs.profile \cup DOMAIN lower(inputs.merge) \cup DOMAIN lower(inputs.ownMerge)
    BY <1>1, <2>1
  <2> QED BY <2>2, <2>3 DEF new
<1> QED BY <1>6, <1>7, <1>8

\* The mode and the tun section of the base configuration, its port, and its sections of the DNS
\* file.
LEMMA BaseSays ==
    ASSUME NEW in \in Inputs
    PROVE  LET base == FromMapping(in.base)
           IN /\ {"mode", "tun", "socks-port"} \subseteq DOMAIN base
              /\ base["mode"] = IF "mode" \in DOMAIN in.base THEN in.base["mode"] ELSE "rule"
              /\ MapOf(base, "tun") = IF "tun" \notin DOMAIN in.base THEN DefaultTun ELSE MapOf(in.base, "tun")
              /\ MapOf(base, "tun") \in TunSections
              /\ Agree(base, in.base, {"dns", "hosts"})
<1> DEFINE over == Over(in.base, DefaultBase)
           full == Without(over, OwnControllerKeys)
           base == FromMapping(in.base)
<1>1. DOMAIN DefaultBase = {"mode", "tun"} /\ DefaultBase["mode"] = "rule" /\ DefaultBase["tun"] = DefaultTun
  BY DEF DefaultBase
<1>2. DOMAIN over = DOMAIN in.base \cup {"mode", "tun"}
      /\ \A k \in DOMAIN over : over[k] = IF k \in DOMAIN in.base THEN in.base[k] ELSE DefaultBase[k]
  BY <1>1 DEF Over
<1> HIDE DEF over
<1>3. DOMAIN full = DOMAIN over \ OwnControllerKeys /\ \A k \in DOMAIN full : full[k] = over[k]
  BY DEF Without
<1>4. base = Put(full, "socks-port", GuardPort(full))
  BY Zenon DEF FromMapping, over
<1> HIDE DEF full
<1>5. DOMAIN base = DOMAIN full \cup {"socks-port"} /\ \A k \in DOMAIN full \ {"socks-port"} : base[k] = full[k]
  BY <1>4 DEF Put
<1> HIDE DEF base
<1>6. {"mode", "tun"} \cap OwnControllerKeys = {} /\ "socks-port" \notin {"mode", "tun"}
  BY DEF OwnControllerKeys
<1>7. {"mode", "tun", "socks-port"} \subseteq DOMAIN base
  BY <1>2, <1>3, <1>5, <1>6
<1>8. \A k \in {"mode", "tun"} : base[k] = IF k \in DOMAIN in.base THEN in.base[k] ELSE DefaultBase[k]
  BY <1>2, <1>3, <1>5, <1>6
<1>9. DefaultTun \in TunSections
  <2>1. DOMAIN DefaultTun = {"enable", "route"} /\ \A key \in {"enable", "route"} : DefaultTun[key] \in BOOLEAN
    BY DEF DefaultTun
  <2>2. DefaultTun = [key \in {"enable", "route"} |-> DefaultTun[key]]
    BY DEF DefaultTun
  <2>3. DefaultTun \in [{"enable", "route"} -> BOOLEAN]
    BY <2>1, <2>2
  <2> QED BY <2>3, Zenon DEF TunSections
<1>10. TunFits(in.base)
  BY TunLowercase, DocumentAssumption
<1>11. MapOf(base, "tun") = IF "tun" \notin DOMAIN in.base THEN DefaultTun ELSE MapOf(in.base, "tun")
  BY <1>1, <1>7, <1>8, <1>9, DocumentAssumption DEF MapOf, Shaped
<1>12. MapOf(base, "tun") \in TunSections
  BY <1>9, <1>10, <1>11, TunShape
<1>13. Agree(base, in.base, {"dns", "hosts"})
  <2> SUFFICES ASSUME NEW k \in {"dns", "hosts"}
               PROVE  (k \in DOMAIN base <=> k \in DOMAIN in.base) /\ (k \in DOMAIN in.base => base[k] = in.base[k])
    BY Zenon DEF Agree
  <2>1. k \notin OwnControllerKeys /\ k \notin {"mode", "tun", "socks-port"}
    BY DEF OwnControllerKeys
  <2> QED BY <1>2, <1>3, <1>5, <2>1
<1> QED BY <1>1, <1>7, <1>8, <1>11, <1>12, <1>13 DEF base

\* Every setting in its layer.
InOrder(doc) ==
    /\ "mode" \in DOMAIN doc
    /\ doc["mode"] = IF "mode" \in DOMAIN inputs.base THEN inputs.base["mode"] ELSE "rule"
    /\ \A key \in {"enable", "route"} : Says(doc, key) = ExpectedTun(key)
    /\ DnsInOrder(doc)
    /\ "socks-port" \in DOMAIN doc <=> inputs.settings.socks
    /\ inputs.settings.socks /\ inputs.settings.port # 0 => doc["socks-port"] = inputs.settings.port
    /\ "external-controller" \in DOMAIN doc <=> inputs.settings.controller
    /\ "external-controller-cors" \notin DOMAIN doc

\* That only depends on the keys it is about.
LEMMA InOrderAgrees ==
    ASSUME NEW doc, NEW d, InOrder(d), Agree(doc, d, OrderedKeys)
    PROVE  InOrder(doc)
<1>1. \A k \in OrderedKeys : (k \in DOMAIN doc <=> k \in DOMAIN d) /\ (k \in DOMAIN d => doc[k] = d[k])
  BY DEF Agree
<1>2. MapOf(doc, "tun") = MapOf(d, "tun")
  BY <1>1 DEF MapOf, Shaped, OrderedKeys
<1>3. \A key : Says(doc, key) = Says(d, key)
  BY <1>2, Zenon DEF Says
<1>4. \A section \in {"dns", "hosts"} :
         (section \in DOMAIN doc <=> section \in DOMAIN d) /\ (section \in DOMAIN d => doc[section] = d[section])
  BY <1>1 DEF OrderedKeys
<1>5. DnsInOrder(doc)
  <2>1. DnsInOrder(d)
    BY DEF InOrder
  <2> QED BY <1>4, <2>1 DEF DnsInOrder
<1> QED BY <1>1, <1>3, <1>5 DEF InOrder, OrderedKeys

\* The profile and the base configuration: the lists have their form, and the base wins.
LEMMA DefaultLayer ==
    ASSUME inputs \in Inputs, ~ScriptFails(inputs)
    PROVE  LET profile == IF inputs.profile = NoFile THEN <<>> ELSE ApplyProfileEnhancements(inputs)
               base == FromMapping(inputs.base)
               merged == MergeDefaultConfig(profile, base)
           IN /\ Sound(merged)
              /\ {"mode", "tun", "socks-port"} \subseteq DOMAIN merged
              /\ merged["mode"] = IF "mode" \in DOMAIN inputs.base THEN inputs.base["mode"] ELSE "rule"
              /\ MapOf(merged, "tun") \in TunSections
              /\ \A key : Says(merged, key) = IF key \in DOMAIN MapOf(base, "tun") THEN MapOf(base, "tun")[key]
                                              ELSE LastTun(ProfileLayers, key)
              /\ \A section \in {"dns", "hosts"} :
                    IF section \in DOMAIN inputs.base
                    THEN section \in DOMAIN merged /\ merged[section] = inputs.base[section]
                    ELSE section \in DOMAIN merged <=> \E layer \in ToSet(ProfileLayers) : section \in DOMAIN layer
<1> DEFINE profile == IF inputs.profile = NoFile THEN <<>> ELSE ApplyProfileEnhancements(inputs)
           base == FromMapping(inputs.base)
           merged == MergeDefaultConfig(profile, base)
           tun == Over(MapOf(base, "tun"), MapOf(profile, "tun"))
<1>1. Sound(profile) /\ TunFits(profile) /\ \A key : Says(profile, key) = LastTun(ProfileLayers, key)
  <2>1. CASE inputs.profile = NoFile
    <3>1. ProfileLayers = <<>> /\ profile = <<>> /\ DOMAIN <<>> = {}
      BY <2>1 DEF ProfileLayers
    <3>2. TunFits(<<>>) /\ \A key : Adds(<<>>, key, NoName) = NoName
      BY <3>1 DEF TunFits, Adds
    <3> HIDE DEF profile
    <3> QED BY <3>1, <3>2, EmptySound, LastTunOfNone, TunShape
  <2>2. CASE inputs.profile # NoFile
    BY <2>2, ProfileSays, SoundProfile
  <2> QED BY <2>1, <2>2
<1>2. /\ {"mode", "tun", "socks-port"} \subseteq DOMAIN base
      /\ base["mode"] = IF "mode" \in DOMAIN inputs.base THEN inputs.base["mode"] ELSE "rule"
      /\ MapOf(base, "tun") \in TunSections /\ Sound(base) /\ Agree(base, inputs.base, {"dns", "hosts"})
  BY BaseSays, SoundBase
<1>3. \A key : key \in DOMAIN profile <=> \E layer \in ToSet(ProfileLayers) : key \in DOMAIN layer
  <2>1. CASE inputs.profile = NoFile
    <3>1. ProfileLayers = <<>> /\ profile = <<>> /\ DOMAIN <<>> = {}
      BY <2>1 DEF ProfileLayers
    <3>2. ToSet(<<>>) = {}
      BY <3>1 DEF ToSet
    <3> HIDE DEF profile
    <3> QED BY <3>1, <3>2
  <2>2. CASE inputs.profile # NoFile
    BY <2>2, ProfileHas
  <2> QED BY <2>1, <2>2
<1> HIDE DEF profile, base
<1>4. tun \in TunSections
  BY <1>1, <1>2, TunOver, TunShape
<1>5. /\ DOMAIN tun = DOMAIN MapOf(base, "tun") \cup DOMAIN MapOf(profile, "tun")
      /\ \A k \in DOMAIN tun :
            tun[k] = IF k \in DOMAIN MapOf(base, "tun") THEN MapOf(base, "tun")[k] ELSE MapOf(profile, "tun")[k]
  BY DEF Over
<1>6. merged = Put(Over(base, profile), "tun", tun)
  BY Zenon DEF MergeDefaultConfig
<1> HIDE DEF tun, merged
<1>7. DOMAIN merged = DOMAIN base \cup DOMAIN profile \cup {"tun"} /\ merged["tun"] = tun
      /\ \A k \in DOMAIN base \ {"tun"} : merged[k] = base[k]
  BY <1>6 DEF Put, Over
<1>8. Sound(merged)
  <2>1. "tun" \notin ListKeys
    BY DEF ListKeys
  <2> QED BY <1>1, <1>2, <1>6, <2>1, SoundOver, SoundPut
<1>9. MapOf(merged, "tun") = tun
  BY <1>4, <1>7, DocumentAssumption DEF MapOf, Shaped
<1>10. \A key : Says(merged, key) = IF key \in DOMAIN MapOf(base, "tun") THEN MapOf(base, "tun")[key] ELSE Says(profile, key)
  BY <1>5, <1>9 DEF Says
<1>11. merged["mode"] = base["mode"]
  BY <1>2, <1>7
<1>12. \A section \in {"dns", "hosts"} :
          IF section \in DOMAIN inputs.base
          THEN section \in DOMAIN merged /\ merged[section] = inputs.base[section]
          ELSE section \in DOMAIN merged <=> \E layer \in ToSet(ProfileLayers) : section \in DOMAIN layer
  <2> TAKE section \in {"dns", "hosts"}
  <2>1. section # "tun"
    OBVIOUS
  <2>2. (section \in DOMAIN base <=> section \in DOMAIN inputs.base)
        /\ (section \in DOMAIN inputs.base => base[section] = inputs.base[section])
    BY <1>2 DEF Agree
  <2>3. CASE section \in DOMAIN inputs.base
    BY <1>7, <2>1, <2>2, <2>3
  <2>4. CASE section \notin DOMAIN inputs.base
    <3>1. section \in DOMAIN merged <=> section \in DOMAIN profile
      BY <1>7, <2>1, <2>2, <2>4
    <3> QED BY <1>3, <2>4, <3>1, Zenon
  <2> QED BY <2>3, <2>4
<1> QED BY <1>1, <1>2, <1>4, <1>7, <1>8, <1>9, <1>10, <1>11, <1>12 DEF merged, base, profile

\* Where rule providers are downloaded through is no matter of the lists, nor of the order.
LEMMA DownloadLayer ==
    ASSUME NEW doc, NEW settings, Sound(doc)
    PROVE  Sound(ApplyDownloadProxy(doc, settings)) /\ Agree(ApplyDownloadProxy(doc, settings), doc, OrderedKeys)
<1> DEFINE new == ApplyDownloadProxy(doc, settings)
<1>1. DOMAIN new = DOMAIN doc /\ \A k \in DOMAIN doc \ {"rule-providers"} : new[k] = doc[k]
  <2>1. CASE ~settings.direct \/ ~Shaped(doc, "rule-providers")
    BY <2>1 DEF ApplyDownloadProxy
  <2>2. CASE ~(~settings.direct \/ ~Shaped(doc, "rule-providers"))
    <3>1. PICK v : new = [doc EXCEPT !["rule-providers"] = v]
      BY <2>2, Zenon DEF ApplyDownloadProxy
    <3> QED BY <3>1
  <2> QED BY <2>1, <2>2
<1> HIDE DEF new
<1>2. "rule-providers" \notin ListKeys /\ "rule-providers" \notin OrderedKeys
  BY DEF ListKeys, OrderedKeys
<1>3. Sound(new)
  BY <1>1, <1>2 DEF Sound
<1>4. Agree(new, doc, OrderedKeys)
  BY <1>1, <1>2 DEF Agree
<1> QED BY <1>3, <1>4 DEF new

\* The address of the controller is what the settings make it, whatever was there.
LEMMA BoundaryLayer ==
    ASSUME NEW doc, NEW settings, Sound(doc)
    PROVE  LET new == ApplyControllerBoundary(doc, settings)
           IN /\ Sound(new) /\ Agree(new, doc, {"mode", "tun", "dns", "hosts", "socks-port"})
              /\ "external-controller" \in DOMAIN new <=> settings.controller
              /\ "external-controller-cors" \notin DOMAIN new
<1> DEFINE local == Put(Without(doc, OwnControllerKeys), "external-controller-unix", "socket")
           new == ApplyControllerBoundary(doc, settings)
<1>1. "external-controller-unix" \notin ListKeys /\ "external-controller" \notin ListKeys
  BY DEF ListKeys
<1>2. Sound(local)
  BY <1>1, SoundPut, SoundWithout
<1>3. DOMAIN local = (DOMAIN doc \ OwnControllerKeys) \cup {"external-controller-unix"}
      /\ \A k \in DOMAIN doc \ OwnControllerKeys : k # "external-controller-unix" => local[k] = doc[k]
  BY DEF Put, Without
<1>4. new = IF settings.controller THEN Put(local, "external-controller", "127.0.0.1") ELSE local
  BY Zenon DEF ApplyControllerBoundary
<1> HIDE DEF local, new
<1>5. Sound(new)
  BY <1>1, <1>2, <1>4, SoundPut
<1>6. /\ DOMAIN new = DOMAIN local \cup (IF settings.controller THEN {"external-controller"} ELSE {})
      /\ \A k \in DOMAIN local \ {"external-controller"} : new[k] = local[k]
  BY <1>4 DEF Put
<1>7. Agree(new, doc, {"mode", "tun", "dns", "hosts", "socks-port"})
  BY <1>3, <1>6 DEF Agree, OwnControllerKeys
<1>8. "external-controller" \in DOMAIN new <=> settings.controller
  BY <1>3, <1>6 DEF OwnControllerKeys
<1>9. "external-controller-cors" \notin DOMAIN new
  BY <1>3, <1>6 DEF OwnControllerKeys
<1> QED BY <1>5, <1>7, <1>8, <1>9 DEF new

\* What the clean-up is given has lists in their form, and every setting in its layer.
LEMMA LayeredInOrder ==
    ASSUME inputs \in Inputs, ~ScriptFails(inputs), NEW links \in Chains \cup {<<>>}
    PROVE  Sound(Layered(inputs, links)) /\ InOrder(Layered(inputs, links))
<1> DEFINE profile == IF inputs.profile = NoFile THEN <<>> ELSE ApplyProfileEnhancements(inputs)
           base == FromMapping(inputs.base)
           s == inputs.settings
           merged == MergeDefaultConfig(profile, base)
           named == MergeDns(merged, inputs)
           set == ApplySettings(named, s)
           download == ApplyDownloadProxy(set, s)
           bound == ApplyControllerBoundary(download, s)
<1>1. /\ Sound(merged)
      /\ {"mode", "tun", "socks-port"} \subseteq DOMAIN merged
      /\ merged["mode"] = IF "mode" \in DOMAIN inputs.base THEN inputs.base["mode"] ELSE "rule"
      /\ MapOf(merged, "tun") \in TunSections
      /\ \A key : Says(merged, key) = IF key \in DOMAIN MapOf(base, "tun") THEN MapOf(base, "tun")[key]
                                      ELSE LastTun(ProfileLayers, key)
      /\ \A section \in {"dns", "hosts"} :
            IF section \in DOMAIN inputs.base
            THEN section \in DOMAIN merged /\ merged[section] = inputs.base[section]
            ELSE section \in DOMAIN merged <=> \E layer \in ToSet(ProfileLayers) : section \in DOMAIN layer
  BY DefaultLayer
<1>2. Layered(inputs, links) = UpdateProxyChain(bound, links)
  BY Zenon DEF Layered
<1>3. MapOf(base, "tun") = IF "tun" \notin DOMAIN inputs.base THEN DefaultTun ELSE MapOf(inputs.base, "tun")
  BY BaseSays
<1>4. \A key : ExpectedTun(key) = IF key = "enable" /\ s.tun # "unset" THEN s.tun = "on"
                                  ELSE IF key \in DOMAIN MapOf(base, "tun") THEN MapOf(base, "tun")[key]
                                  ELSE LastTun(ProfileLayers, key)
  BY <1>3, Zenon DEF ExpectedTun
<1> HIDE DEF profile, base, merged
<1>5. /\ Sound(named) /\ Agree(named, merged, OrderedKeys \ {"dns", "hosts"})
      /\ \A section \in {"dns", "hosts"} :
            IF DnsSpeaks(section) THEN section \in DOMAIN named /\ named[section] = DnsSays(section)
            ELSE Agree(named, merged, {section})
  BY <1>1, DnsLayer
<1> HIDE DEF named
<1>6. MapOf(named, "tun") = MapOf(merged, "tun")
  BY <1>5 DEF Agree, OrderedKeys, MapOf, Shaped
<1>7. /\ "mode" \in DOMAIN named /\ named["mode"] = merged["mode"] /\ "socks-port" \in DOMAIN named
      /\ MapOf(named, "tun") \in TunSections
      /\ \A key : Says(named, key) = Says(merged, key)
  BY <1>1, <1>5, <1>6 DEF Agree, OrderedKeys, Says
<1>8. DnsInOrder(named)
  <2> SUFFICES ASSUME NEW section \in {"dns", "hosts"}, ~DnsSpeaks(section)
               PROVE  IF section \in DOMAIN inputs.base
                      THEN section \in DOMAIN named /\ named[section] = inputs.base[section]
                      ELSE section \in DOMAIN named <=> \E layer \in ToSet(ProfileLayers) : section \in DOMAIN layer
    BY <1>5, Zenon DEF DnsInOrder
  <2>1. (section \in DOMAIN named <=> section \in DOMAIN merged) /\ (section \in DOMAIN merged => named[section] = merged[section])
    BY <1>5 DEF Agree
  <2> QED BY <1>1, <2>1, Zenon
<1>9. /\ Sound(set)
      /\ Agree(set, named, OrderedKeys \ {"tun", "socks-port"})
      /\ s.socks /\ "socks-port" \in DOMAIN named => "socks-port" \in DOMAIN set
      /\ s.socks /\ s.port # 0 => "socks-port" \in DOMAIN set /\ set["socks-port"] = s.port
      /\ ~s.socks => "socks-port" \notin DOMAIN set
      /\ DOMAIN MapOf(set, "tun") = DOMAIN MapOf(named, "tun") \cup (IF s.tun = "unset" THEN {} ELSE {"enable"})
      /\ \A key \in DOMAIN MapOf(set, "tun") :
            MapOf(set, "tun")[key] = IF key = "enable" /\ s.tun # "unset" THEN s.tun = "on" ELSE MapOf(named, "tun")[key]
  <2> HIDE DEF s
  <2> QED BY <1>5, <1>7, SettingsLayer, Zenon
<1> HIDE DEF set
<1>10. \A key : Says(set, key) = ExpectedTun(key)
  BY <1>1, <1>4, <1>7, <1>9 DEF Says
<1>11. "mode" \in DOMAIN set /\ set["mode"] = IF "mode" \in DOMAIN inputs.base THEN inputs.base["mode"] ELSE "rule"
  BY <1>1, <1>7, <1>9 DEF Agree, OrderedKeys
<1>12. Sound(download) /\ Agree(download, set, OrderedKeys)
  BY <1>9, DownloadLayer
<1> HIDE DEF download
<1>13. /\ Sound(bound) /\ Agree(bound, download, {"mode", "tun", "dns", "hosts", "socks-port"})
       /\ "external-controller" \in DOMAIN bound <=> s.controller
       /\ "external-controller-cors" \notin DOMAIN bound
  <2> HIDE DEF s
  <2> QED BY <1>12, BoundaryLayer
<1> HIDE DEF bound
<1>14. Agree(bound, set, {"mode", "tun", "dns", "hosts", "socks-port"})
  BY <1>12, <1>13 DEF Agree, OrderedKeys
<1>15. MapOf(bound, "tun") = MapOf(set, "tun")
  BY <1>14 DEF Agree, MapOf, Shaped
<1>16. \A key : Says(bound, key) = Says(set, key)
  BY <1>15, Zenon DEF Says
<1>17. DnsInOrder(bound)
  <2>1. \A section \in {"dns", "hosts"} :
           (section \in DOMAIN bound <=> section \in DOMAIN named) /\ (section \in DOMAIN named => bound[section] = named[section])
    BY <1>9, <1>14 DEF Agree, OrderedKeys
  <2> QED BY <1>8, <2>1 DEF DnsInOrder
<1>18. InOrder(bound)
  BY <1>7, <1>9, <1>10, <1>11, <1>13, <1>14, <1>16, <1>17 DEF InOrder, Agree
<1>19. Sound(UpdateProxyChain(bound, links)) /\ Agree(UpdateProxyChain(bound, links), bound, OrderedKeys)
  BY <1>13, SoundChain DEF Agree, OrderedKeys
<1> QED BY <1>2, <1>18, <1>19, InOrderAgrees

-----------------------------------------------------------------------------
(* The clean-up of names.                                                  *)

\* A list of the document is replaced by another one of its form.
LEMMA ListReplaced ==
    ASSUME NEW doc, NEW key \in {"proxies", "proxy-groups"}, NEW list, Sound(doc), Shaped(doc, key),
           Fits(key, list), list # IllShaped, NEW new,
           DOMAIN new = DOMAIN doc, new[key] = list, \A k \in DOMAIN doc \ {key} : new[k] = doc[k]
    PROVE  /\ Sound(new) /\ Agree(new, doc, OrderedKeys) /\ ListOf(new, key) = list
           /\ \A k \in ListKeys \ {key} : ListOf(new, k) = ListOf(doc, k) /\ MapOf(new, k) = MapOf(doc, k)
<1>1. key \in DOMAIN doc /\ key \notin OrderedKeys
  BY DEF Shaped, OrderedKeys
<1>2. DOMAIN new = DOMAIN doc /\ new[key] = list /\ \A k \in DOMAIN doc \ {key} : new[k] = doc[k]
  BY <1>1
<1>3. Sound(new)
  <2> SUFFICES ASSUME NEW k \in ListKeys, k \in DOMAIN doc
               PROVE  Fits(k, new[k])
    BY <1>2, Zenon DEF Sound
  <2>1. Fits(k, doc[k])
    BY Zenon DEF Sound
  <2>2. CASE k = key
    BY <1>2, <2>2
  <2>3. CASE k # key
    BY <1>2, <2>1, <2>3
  <2> QED BY <2>2, <2>3
<1>4. Agree(new, doc, OrderedKeys)
  BY <1>1, <1>2 DEF Agree
<1>5. ListOf(new, key) = list
  BY <1>1, <1>2 DEF ListOf, Shaped
<1>6. \A k \in ListKeys \ {key} : ListOf(new, k) = ListOf(doc, k) /\ MapOf(new, k) = MapOf(doc, k)
  BY <1>2 DEF ListOf, MapOf, Shaped
<1> QED BY <1>3, <1>4, <1>5, <1>6

\* The nodes that stay are those that are no notices.
LEMMA PlaceholdersRemoved ==
    ASSUME NEW doc, Sound(doc)
    PROVE  LET new == RemovePlaceholders(doc)
           IN /\ Sound(new) /\ Agree(new, doc, OrderedKeys)
              /\ ToSet(ListOf(new, "proxies")) = {p \in ToSet(ListOf(doc, "proxies")) : ~IsPlaceholder(p)}
              /\ \A k \in ListKeys \ {"proxies"} : ListOf(new, k) = ListOf(doc, k) /\ MapOf(new, k) = MapOf(doc, k)
<1> DEFINE new == RemovePlaceholders(doc)
           P == ListOf(doc, "proxies")
           places == {i \in DOMAIN P : ~IsPlaceholder(P[i])}
<1>1. CASE ~Shaped(doc, "proxies")
  <2>1. new = doc /\ P = <<>>
    BY <1>1 DEF RemovePlaceholders, ListOf
  <2>2. ToSet(P) = {}
    BY <2>1 DEF ToSet
  <2>3. Agree(new, doc, OrderedKeys)
    BY <2>1 DEF Agree
  <2> QED BY <2>1, <2>2, <2>3
<1>2. CASE Shaped(doc, "proxies")
  <2>1. P = doc["proxies"] /\ P \in Seq(NodeRecords) /\ "proxies" \in DOMAIN doc
    BY <1>2, ListsFit DEF ListOf, Shaped
  <2>2. new = [doc EXCEPT !["proxies"] = Retained(P, places)]
    BY <1>2, <2>1, Zenon DEF RemovePlaceholders
  <2>3. Retained(P, places) \in Seq(NodeRecords) /\ ToSet(Retained(P, places)) = {P[i] : i \in places \cap DOMAIN P}
    <3> HIDE DEF P, places
    <3> QED BY <2>1, RetainedIs
  <2>4. {P[i] : i \in places \cap DOMAIN P} = {p \in ToSet(P) : ~IsPlaceholder(p)}
    <3> HIDE DEF P
    <3> QED BY DEF ToSet
  <2>5. Fits("proxies", Retained(P, places)) /\ Retained(P, places) # IllShaped
    BY <2>3, DocumentAssumption DEF Fits
  <2> HIDE DEF new, P, places
  <2>6. /\ Sound(new) /\ Agree(new, doc, OrderedKeys) /\ ListOf(new, "proxies") = Retained(P, places)
        /\ \A k \in ListKeys \ {"proxies"} : ListOf(new, k) = ListOf(doc, k) /\ MapOf(new, k) = MapOf(doc, k)
    <3>1. DOMAIN new = DOMAIN doc /\ new["proxies"] = Retained(P, places) /\ \A k \in DOMAIN doc \ {"proxies"} : new[k] = doc[k]
      BY <2>1, <2>2
    <3> QED BY <1>2, <2>5, <3>1, ListReplaced
  <2> QED BY <2>3, <2>4, <2>6 DEF new, P
<1> QED BY <1>1, <1>2

\* A group that is pruned keeps its name, and only members that are not removed, or DIRECT.
LEMMA GroupPruned ==
    ASSUME NEW g \in GroupRecords, NEW removed
    PROVE  /\ PruneGroup(g, removed) \in GroupRecords /\ PruneGroup(g, removed).name = g.name
           /\ \A x \in ToSet(PruneGroup(g, removed).proxies) :
                 x = DirectNode \/ (x \in ToSet(g.proxies) /\ Trimmed[x] \notin removed)
<1> DEFINE places == {i \in DOMAIN g.proxies : Trimmed[g.proxies[i]] \notin removed}
           left == Retained(g.proxies, places)
           members == IF g.proxies # <<>> /\ left = <<>> THEN <<DirectNode>> ELSE left
<1>1. g.proxies \in Seq(AnyName)
  BY DEF GroupRecords
<1>2. left \in Seq(AnyName) /\ ToSet(left) = {g.proxies[i] : i \in places \cap DOMAIN g.proxies}
  <2> HIDE DEF places
  <2> QED BY <1>1, RetainedIs
<1>3. PruneGroup(g, removed) = [g EXCEPT !.proxies = members]
  BY Zenon DEF PruneGroup
<1>4. \A x \in ToSet(left) : x \in ToSet(g.proxies) /\ Trimmed[x] \notin removed
  BY <1>2 DEF ToSet
<1> HIDE DEF left, places
<1>5. <<DirectNode>> \in Seq(AnyName) /\ ToSet(<<DirectNode>>) = {DirectNode}
  <2>1. DirectNode \in AnyName
    BY DocumentAssumption
  <2>2. DOMAIN <<DirectNode>> = {1} /\ <<DirectNode>>[1] = DirectNode
    OBVIOUS
  <2> QED BY <2>1, <2>2 DEF ToSet
<1>6. members \in Seq(AnyName) /\ \A x \in ToSet(members) : x = DirectNode \/ (x \in ToSet(g.proxies) /\ Trimmed[x] \notin removed)
  BY <1>2, <1>4, <1>5
<1> HIDE DEF members
<1>7. [g EXCEPT !.proxies = members] \in GroupRecords /\ [g EXCEPT !.proxies = members].name = g.name
      /\ [g EXCEPT !.proxies = members].proxies = members
  BY <1>6 DEF GroupRecords
<1> QED BY <1>3, <1>6, <1>7

\* Pruning the groups of a document.
LEMMA GroupsPruned ==
    ASSUME NEW doc, NEW removed, Sound(doc)
    PROVE  LET new == PruneGroups(doc, removed)
               groups == ListOf(doc, "proxy-groups")
               pruned == ListOf(new, "proxy-groups")
           IN /\ Sound(new) /\ Agree(new, doc, OrderedKeys)
              /\ \A k \in ListKeys \ {"proxy-groups"} : ListOf(new, k) = ListOf(doc, k) /\ MapOf(new, k) = MapOf(doc, k)
              /\ Len(pruned) = Len(groups)
              /\ \A i \in DOMAIN groups :
                    /\ pruned[i].name = groups[i].name
                    /\ \A x \in ToSet(pruned[i].proxies) : x = DirectNode \/ Trimmed[x] \notin removed
<1> DEFINE new == PruneGroups(doc, removed)
           G == ListOf(doc, "proxy-groups")
           Q == [i \in DOMAIN G |-> PruneGroup(G[i], removed)]
<1>1. CASE ~Shaped(doc, "proxy-groups")
  <2>1. new = doc /\ G = <<>> /\ DOMAIN G = {}
    BY <1>1 DEF PruneGroups, ListOf
  <2>2. Agree(new, doc, OrderedKeys)
    BY <2>1 DEF Agree
  <2> HIDE DEF G, new
  <2>3. /\ Sound(new) /\ ListOf(new, "proxy-groups") = G
        /\ \A k \in ListKeys \ {"proxy-groups"} : ListOf(new, k) = ListOf(doc, k) /\ MapOf(new, k) = MapOf(doc, k)
    BY <2>1 DEF G
  <2> QED BY <2>1, <2>2, <2>3 DEF G, new
<1>2. CASE Shaped(doc, "proxy-groups")
  <2>1. G = doc["proxy-groups"] /\ G \in Seq(GroupRecords) /\ "proxy-groups" \in DOMAIN doc
    BY <1>2, ListsFit DEF ListOf, Shaped
  <2>2. new = [doc EXCEPT !["proxy-groups"] = Q]
    BY <1>2, <2>1, Zenon DEF PruneGroups
  <2> HIDE DEF G, new
  <2>3. \A i \in DOMAIN G : G[i] \in GroupRecords
    BY <2>1
  <2>4. \A i \in DOMAIN G : Q[i] \in GroupRecords /\ Q[i].name = G[i].name
          /\ \A x \in ToSet(Q[i].proxies) : x = DirectNode \/ Trimmed[x] \notin removed
    BY <2>3, GroupPruned
  <2>5. Len(G) \in Nat /\ DOMAIN G = 1..Len(G) /\ DOMAIN Q = DOMAIN G
    BY <2>1
  <2> HIDE DEF Q
  <2>6. Q \in Seq(GroupRecords) /\ Len(Q) = Len(G)
    <3>1. Q = [i \in 1..Len(G) |-> Q[i]]
      BY <2>5 DEF Q
    <3> QED BY <2>4, <2>5, <3>1
  <2>7. Fits("proxy-groups", Q) /\ Q # IllShaped
    BY <2>6, DocumentAssumption DEF Fits
  <2>8. /\ Sound(new) /\ Agree(new, doc, OrderedKeys) /\ ListOf(new, "proxy-groups") = Q
        /\ \A k \in ListKeys \ {"proxy-groups"} : ListOf(new, k) = ListOf(doc, k) /\ MapOf(new, k) = MapOf(doc, k)
    <3>1. DOMAIN new = DOMAIN doc /\ new["proxy-groups"] = Q /\ \A k \in DOMAIN doc \ {"proxy-groups"} : new[k] = doc[k]
      BY <2>1, <2>2
    <3> QED BY <1>2, <2>7, <3>1, ListReplaced
  <2> QED BY <2>4, <2>6, <2>8 DEF G, new
<1> QED BY <1>1, <1>2

\* Pruning the dialers: every node keeps its name.
LEMMA DialersPruned ==
    ASSUME NEW doc, NEW removed, Sound(doc)
    PROVE  LET new == PruneDialers(doc, removed)
           IN /\ Sound(new) /\ Agree(new, doc, OrderedKeys)
              /\ \A k \in ListKeys \ {"proxies"} : ListOf(new, k) = ListOf(doc, k) /\ MapOf(new, k) = MapOf(doc, k)
              /\ ProxyNames(new) = ProxyNames(doc)
              /\ \A p \in ToSet(ListOf(new, "proxies")) : p.dialer = NoName \/ Trimmed[p.dialer] \notin removed
<1> DEFINE new == PruneDialers(doc, removed)
           P == ListOf(doc, "proxies")
           Q == [i \in DOMAIN P |-> IF P[i].dialer # NoName /\ Trimmed[P[i].dialer] \in removed
                                    THEN [P[i] EXCEPT !.dialer = NoName] ELSE P[i]]
<1>1. CASE ~Shaped(doc, "proxies")
  <2>1. new = doc /\ P = <<>>
    BY <1>1 DEF PruneDialers, ListOf
  <2>2. ToSet(P) = {}
    BY <2>1 DEF ToSet
  <2>3. Agree(new, doc, OrderedKeys)
    BY <2>1 DEF Agree
  <2> QED BY <2>1, <2>2, <2>3
<1>2. CASE Shaped(doc, "proxies")
  <2>1. P = doc["proxies"] /\ P \in Seq(NodeRecords) /\ "proxies" \in DOMAIN doc
    BY <1>2, ListsFit DEF ListOf, Shaped
  <2>2. new = [doc EXCEPT !["proxies"] = Q]
    BY <1>2, <2>1, Zenon DEF PruneDialers
  <2> HIDE DEF P, new
  <2>3. Len(P) \in Nat /\ DOMAIN P = 1..Len(P) /\ \A i \in DOMAIN P : P[i] \in NodeRecords
    BY <2>1
  <2>4. \A p \in NodeRecords : /\ [p EXCEPT !.dialer = NoName] \in NodeRecords
                               /\ [p EXCEPT !.dialer = NoName].name = p.name
                               /\ [p EXCEPT !.dialer = NoName].dialer = NoName
    BY DocumentAssumption DEF NodeRecords
  <2>5. \A i \in DOMAIN P : Q[i] \in NodeRecords /\ Q[i].name = P[i].name
                            /\ (Q[i].dialer = NoName \/ Trimmed[Q[i].dialer] \notin removed)
    BY <2>3, <2>4
  <2>6. Q = [i \in 1..Len(P) |-> Q[i]] /\ DOMAIN Q = DOMAIN P
    BY <2>3
  <2> HIDE DEF Q
  <2>7. Q \in Seq(NodeRecords)
    BY <2>3, <2>5, <2>6
  <2>8. Fits("proxies", Q) /\ Q # IllShaped
    BY <2>7, DocumentAssumption DEF Fits
  <2>9. /\ Sound(new) /\ Agree(new, doc, OrderedKeys) /\ ListOf(new, "proxies") = Q
        /\ \A k \in ListKeys \ {"proxies"} : ListOf(new, k) = ListOf(doc, k) /\ MapOf(new, k) = MapOf(doc, k)
    <3>1. DOMAIN new = DOMAIN doc /\ new["proxies"] = Q /\ \A k \in DOMAIN doc \ {"proxies"} : new[k] = doc[k]
      BY <2>1, <2>2
    <3> QED BY <1>2, <2>8, <3>1, ListReplaced
  <2>10. {p.name : p \in ToSet(Q)} = {p.name : p \in ToSet(P)}
    <3>1. {p.name : p \in ToSet(Q)} = {Q[i].name : i \in DOMAIN P}
      BY <2>6 DEF ToSet
    <3>2. {p.name : p \in ToSet(P)} = {P[i].name : i \in DOMAIN P}
      BY DEF ToSet
    <3>3. \A i \in DOMAIN P : Q[i].name = P[i].name
      BY <2>5
    <3>4. {Q[i].name : i \in DOMAIN P} = {P[i].name : i \in DOMAIN P}
      BY <3>3
    <3> QED BY <3>1, <3>2, <3>4
  <2>11. ProxyNames(new) = ProxyNames(doc)
    BY <2>9, <2>10, Zenon DEF ProxyNames, P
  <2>12. \A p \in ToSet(Q) : p.dialer = NoName \/ Trimmed[p.dialer] \notin removed
    BY <2>5, <2>6 DEF ToSet
  <2> QED BY <2>9, <2>11, <2>12 DEF new
<1> QED BY <1>1, <1>2

\* What the clean-up leaves: the groups with their names, the nodes that are no notices, and
\* nobody who names a removed node.
LEMMA Sanitized ==
    ASSUME NEW doc, Sound(doc)
    PROVE  LET new == Sanitize(doc)
               removed == RemovedNames(doc)
               groups == ListOf(doc, "proxy-groups")
               pruned == ListOf(new, "proxy-groups")
           IN /\ Sound(new) /\ Agree(new, doc, OrderedKeys)
              /\ ProviderNames(new) = ProviderNames(doc)
              /\ Len(pruned) = Len(groups) /\ \A i \in DOMAIN groups : pruned[i].name = groups[i].name
              /\ \A i \in DOMAIN groups : \A x \in ToSet(pruned[i].proxies) : x = DirectNode \/ Trimmed[x] \notin removed
              /\ ProxyNames(new) = {p.name : p \in {q \in ToSet(ListOf(doc, "proxies")) : ~IsPlaceholder(q)}} \ {NoName}
              /\ \A p \in ToSet(ListOf(new, "proxies")) : p.dialer = NoName \/ Trimmed[p.dialer] \notin removed
<1> DEFINE removed == RemovedNames(doc)
           kept == RemovePlaceholders(doc)
           groups == PruneGroups(kept, removed)
           dialers == PruneDialers(groups, removed)
           new == Sanitize(doc)
           G == ListOf(doc, "proxy-groups")
           names == {p.name : p \in {q \in ToSet(ListOf(doc, "proxies")) : ~IsPlaceholder(q)}} \ {NoName}
<1>1. new = IF removed = {} THEN kept ELSE dialers
  BY Zenon DEF Sanitize
<1>2. {"proxy-groups", "rules", "proxy-providers"} = ListKeys \ {"proxies"}
      /\ {"proxies", "rules", "proxy-providers"} = ListKeys \ {"proxy-groups"}
  BY DEF ListKeys
<1> HIDE DEF removed, new
<1>3. /\ Sound(kept) /\ Agree(kept, doc, OrderedKeys)
      /\ ToSet(ListOf(kept, "proxies")) = {p \in ToSet(ListOf(doc, "proxies")) : ~IsPlaceholder(p)}
      /\ \A k \in ListKeys \ {"proxies"} : ListOf(kept, k) = ListOf(doc, k) /\ MapOf(kept, k) = MapOf(doc, k)
  BY PlaceholdersRemoved
<1>4. ListOf(kept, "proxy-groups") = G /\ ProviderNames(kept) = ProviderNames(doc)
  BY <1>2, <1>3 DEF ProviderNames
<1>5. ProxyNames(kept) = names
  BY <1>3, Zenon DEF ProxyNames
<1> HIDE DEF kept
<1>6. CASE removed = {}
  <2>1. new = kept
    BY <1>1, <1>6
  <2> QED BY <1>3, <1>4, <1>5, <1>6, <2>1 DEF new, removed
<1>7. CASE removed # {}
  <2>1. new = dialers
    BY <1>1, <1>7
  <2>2. /\ Sound(groups) /\ Agree(groups, kept, OrderedKeys)
        /\ \A k \in ListKeys \ {"proxy-groups"} : ListOf(groups, k) = ListOf(kept, k) /\ MapOf(groups, k) = MapOf(kept, k)
        /\ Len(ListOf(groups, "proxy-groups")) = Len(G)
        /\ \A i \in DOMAIN G :
              /\ ListOf(groups, "proxy-groups")[i].name = G[i].name
              /\ \A x \in ToSet(ListOf(groups, "proxy-groups")[i].proxies) : x = DirectNode \/ Trimmed[x] \notin removed
    BY <1>3, <1>4, GroupsPruned
  <2>3. ProxyNames(groups) = names /\ ProviderNames(groups) = ProviderNames(doc)
    BY <1>2, <1>4, <1>5, <2>2 DEF ProviderNames, ProxyNames
  <2> HIDE DEF groups, G, names
  <2>4. /\ Sound(dialers) /\ Agree(dialers, groups, OrderedKeys)
        /\ \A k \in ListKeys \ {"proxies"} :
              ListOf(dialers, k) = ListOf(groups, k) /\ MapOf(dialers, k) = MapOf(groups, k)
        /\ ProxyNames(dialers) = ProxyNames(groups)
        /\ \A p \in ToSet(ListOf(dialers, "proxies")) : p.dialer = NoName \/ Trimmed[p.dialer] \notin removed
    BY <2>2, DialersPruned
  <2> HIDE DEF dialers
  <2>5. ListOf(dialers, "proxy-groups") = ListOf(groups, "proxy-groups") /\ ProviderNames(dialers) = ProviderNames(doc)
    BY <1>2, <2>3, <2>4 DEF ProviderNames
  <2>6. Agree(dialers, doc, OrderedKeys)
    BY <1>3, <2>2, <2>4 DEF Agree
  <2> QED BY <2>1, <2>2, <2>3, <2>4, <2>5, <2>6 DEF new, removed, G, names
<1> QED BY <1>6, <1>7

-----------------------------------------------------------------------------
(* The group that generation adds.                                         *)

\* What a list's elements have in one field is finitely many things.
LEMMA FieldsFinite ==
    ASSUME NEW X, NEW s \in Seq(X)
    PROVE  IsFiniteSet({p.name : p \in ToSet(s)})
<1> DEFINE k == Len(s)
           f == [i \in 1..k |-> s[i].name]
<1>1. k \in Nat /\ DOMAIN s = 1..k
  OBVIOUS
<1>2. {p.name : p \in ToSet(s)} = {f[i] : i \in 1..k}
  BY <1>1 DEF ToSet
<1> HIDE DEF k, f
<1>3. IsFiniteSet({f[i] : i \in 1..k})
  BY <1>1, FiniteValues
<1> QED BY <1>2, <1>3

\* The new group's name is one of those that generation makes, and free.
LEMMA GroupNameFree ==
    ASSUME NEW doc, Sound(doc)
    PROVE  UniqueGroupName(doc) \in OwnGroupNames
           /\ \A g \in ToSet(ListOf(doc, "proxy-groups")) : g.name # UniqueGroupName(doc)
<1> DEFINE used == {g.name : g \in ToSet(ListOf(doc, "proxy-groups"))}
           word == "Proxy"
           base == <<word>>
<1>1. IsFiniteSet(used)
  BY ListsFit, FieldsFinite
<1>2. base \in Seq({word})
  <2> HIDE DEF word
  <2> QED OBVIOUS
<1>3. UniqueGroupName(doc) = FirstFree(base, used)
  BY Zenon DEF UniqueGroupName
<1> HIDE DEF used
<1>4. FirstFree(base, used) \notin used /\ \E n \in Nat \ {0} : FirstFree(base, used) = Numbered(base, n)
  <2> HIDE DEF base
  <2> QED BY <1>1, <1>2, FreeIsFree
<1>5. ASSUME NEW n \in Nat PROVE Numbered(base, n) \in OwnGroupNames
  <2>1. OwnGroupNames = {<<word>>} \cup ({word} \X Nat)
    BY DEF OwnGroupNames
  <2> HIDE DEF word
  <2>2. Append(<<word>>, n) = <<word, n>>
    BY Tuples, Zenon
  <2>3. <<word, n>> \in {word} \X Nat
    OBVIOUS
  <2> QED BY <2>1, <2>2, <2>3 DEF Numbered
<1>6. UniqueGroupName(doc) \in OwnGroupNames /\ UniqueGroupName(doc) \notin used
  BY <1>3, <1>4, <1>5
<1> QED BY <1>6 DEF used

\* A rule is added where it is not there yet.
LEMMA RuleEnsured ==
    ASSUME NEW doc, Sound(doc), NEW name \in OwnGroupNames
    PROVE  LET new == EnsureMatchRule(doc, name)
           IN /\ [kind |-> "MATCH", to |-> name] \in ToSet(new["rules"])
              /\ DOMAIN new = DOMAIN doc \cup {"rules"} /\ \A k \in DOMAIN doc \ {"rules"} : new[k] = doc[k]
              /\ Sound(new)
<1> DEFINE rule == [kind |-> "MATCH", to |-> name]
           rules == ListOf(doc, "rules")
           value == IF rule \in ToSet(rules) THEN rules ELSE Append(rules, rule)
           new == EnsureMatchRule(doc, name)
<1>1. rules \in Seq(RuleRecords)
  BY ListsFit
<1>2. rule \in RuleRecords
  <2> DEFINE kind == "MATCH"
             kinds == {kind} \cup STRING
  <2>1. RuleRecords = [kind : kinds, to : AnyName \cup OwnGroupNames] /\ kind \in kinds
    BY DEF RuleRecords
  <2> HIDE DEF kind, kinds
  <2>2. [kind |-> kind, to |-> name] \in RuleRecords
    BY <2>1
  <2> QED BY <2>2 DEF kind
<1>3. new = Put(doc, "rules", value)
  BY Zenon DEF EnsureMatchRule
<1> HIDE DEF rules, rule, new
<1>4. value \in Seq(RuleRecords) /\ rule \in ToSet(value)
  BY <1>1, <1>2, AppendAdds
<1>5. Fits("rules", value)
  BY <1>4 DEF Fits
<1> HIDE DEF value
<1>6. Sound(new)
  BY <1>3, <1>5, SoundPut
<1>7. DOMAIN new = DOMAIN doc \cup {"rules"} /\ new["rules"] = value /\ \A k \in DOMAIN doc \ {"rules"} : new[k] = doc[k]
  BY <1>3 DEF Put
<1>8. rule \in ToSet(new["rules"])
  BY <1>4, <1>7
<1> QED BY <1>6, <1>7, <1>8 DEF new, rule

\* When no group offers anything, and there are nodes or providers, generation adds a group that
\* offers them all, and a rule that leads to it.
LEMMA GroupEnsured ==
    ASSUME NEW doc, Sound(doc)
    PROVE  LET new == EnsureGroup(doc)
               groups == ListOf(doc, "proxy-groups")
           IN /\ Sound(new) /\ Agree(new, doc, OrderedKeys)
              /\ ListOf(new, "proxies") = ListOf(doc, "proxies") /\ ProviderNames(new) = ProviderNames(doc)
              /\ \/ /\ HasUsableGroup(doc) \/ ProxyNames(doc) \cup ProviderNames(doc) = {}
                    /\ ListOf(new, "proxy-groups") = groups
                 \/ \E group \in GroupRecords :
                       /\ ListOf(new, "proxy-groups") = Append(groups, group)
                       /\ ToSet(group.proxies) = ProxyNames(doc) \cup {DirectNode}
                       /\ ToSet(group.use) = ProviderNames(doc)
                       /\ [kind |-> "MATCH", to |-> group.name] \in ToSet(new["rules"])
                       /\ \A g \in ToSet(groups) : g.name # group.name
<1> DEFINE name == UniqueGroupName(doc)
           direct == IF DirectNode \in ProxyNames(doc) THEN <<>> ELSE <<DirectNode>>
           use == SetToSeq(ProviderNames(doc))
           members == SetToSeq(ProxyNames(doc)) \o direct
           group == [name |-> name, use |-> use, all |-> FALSE, proxies |-> members]
           groups == ListOf(doc, "proxy-groups")
           wider == Put(doc, "proxy-groups", Append(groups, group))
           new == EnsureGroup(doc)
<1>1. CASE HasUsableGroup(doc) \/ ProxyNames(doc) \cup ProviderNames(doc) = {}
  <2>1. new = doc
    BY <1>1, Zenon DEF EnsureGroup
  <2>2. Agree(new, doc, OrderedKeys)
    BY <2>1 DEF Agree
  <2> HIDE DEF new
  <2> QED BY <1>1, <2>1, <2>2 DEF new
<1>2. CASE ~(HasUsableGroup(doc) \/ ProxyNames(doc) \cup ProviderNames(doc) = {})
  <2>1. new = EnsureMatchRule(wider, name)
    BY <1>2, Zenon DEF EnsureGroup
  <2>2. name \in OwnGroupNames /\ \A g \in ToSet(groups) : g.name # name
    BY GroupNameFree
  <2>3. /\ ListOf(doc, "proxies") \in Seq(NodeRecords) /\ groups \in Seq(GroupRecords)
        /\ IsFiniteSet(ProviderNames(doc)) /\ ProviderNames(doc) \subseteq STRING
    BY ListsFit
  <2>4. IsFiniteSet(ProxyNames(doc)) /\ ProxyNames(doc) \subseteq AnyName
    <3> DEFINE N == {p.name : p \in ToSet(ListOf(doc, "proxies"))}
    <3>1. IsFiniteSet(N)
      BY <2>3, FieldsFinite
    <3>2. \A p \in ToSet(ListOf(doc, "proxies")) : p \in NodeRecords
      BY <2>3 DEF ToSet
    <3>3. N \subseteq AnyName
      BY <3>2 DEF NodeRecords
    <3> HIDE DEF N
    <3>4. IsFiniteSet(N \ {NoName}) /\ ProxyNames(doc) = N \ {NoName}
      BY <3>1, FS_Subset DEF ProxyNames, N
    <3> QED BY <3>3, <3>4
  <2>5. use \in Seq(STRING) /\ ToSet(use) = ProviderNames(doc)
    <3>1. use \in Seq(ProviderNames(doc)) /\ ToSet(use) = ProviderNames(doc)
      BY <2>3, SetListed
    <3> HIDE DEF use
    <3> QED BY <2>3, <3>1, SeqMonotonic
  <2>6. members \in Seq(AnyName) /\ ToSet(members) = ProxyNames(doc) \cup {DirectNode}
    <3> DEFINE first == SetToSeq(ProxyNames(doc))
    <3>1. first \in Seq(ProxyNames(doc)) /\ ToSet(first) = ProxyNames(doc)
      BY <2>4, SetListed
    <3> HIDE DEF first
    <3>2. first \in Seq(AnyName)
      BY <2>4, <3>1, SeqMonotonic
    <3>3. direct \in Seq(AnyName) /\ ToSet(direct) = IF DirectNode \in ProxyNames(doc) THEN {} ELSE {DirectNode}
      <4>1. DirectNode \in AnyName
        BY DocumentAssumption
      <4>2. DOMAIN <<DirectNode>> = {1} /\ <<DirectNode>>[1] = DirectNode /\ DOMAIN <<>> = {}
        OBVIOUS
      <4> QED BY <4>1, <4>2 DEF ToSet
    <3> HIDE DEF direct
    <3>4. first \o direct \in Seq(AnyName) /\ ToSet(first \o direct) = ToSet(first) \cup ToSet(direct)
      BY <3>2, <3>3, ConcatAdds
    <3> QED BY <3>1, <3>3, <3>4 DEF first
  <2> HIDE DEF name, use, members, groups
  <2>7. group \in GroupRecords /\ group.name = name /\ group.use = use /\ group.proxies = members
    BY <2>2, <2>5, <2>6 DEF GroupRecords
  <2> HIDE DEF group
  <2>8. Append(groups, group) \in Seq(GroupRecords) /\ Append(groups, group) # IllShaped
    BY <2>3, <2>7, DocumentAssumption
  <2>9. Fits("proxy-groups", Append(groups, group))
    BY <2>8 DEF Fits
  <2>10. Sound(wider)
    BY <2>9, SoundPut
  <2>11. /\ DOMAIN wider = DOMAIN doc \cup {"proxy-groups"} /\ wider["proxy-groups"] = Append(groups, group)
         /\ \A k \in DOMAIN doc \ {"proxy-groups"} : wider[k] = doc[k]
    BY DEF Put
  <2> HIDE DEF wider, new
  <2>12. /\ [kind |-> "MATCH", to |-> name] \in ToSet(new["rules"])
         /\ DOMAIN new = DOMAIN wider \cup {"rules"} /\ \A k \in DOMAIN wider \ {"rules"} : new[k] = wider[k]
         /\ Sound(new)
    BY <2>1, <2>2, <2>10, RuleEnsured
  <2>13. Agree(new, doc, OrderedKeys)
    BY <2>11, <2>12 DEF Agree, OrderedKeys
  <2>14. ListOf(new, "proxies") = ListOf(doc, "proxies") /\ ProviderNames(new) = ProviderNames(doc)
    BY <2>11, <2>12 DEF ListOf, MapOf, ProviderNames, Shaped
  <2>15. ListOf(new, "proxy-groups") = Append(groups, group)
    BY <2>8, <2>11, <2>12 DEF ListOf, Shaped
  <2>16. \E g \in GroupRecords :
            /\ ListOf(new, "proxy-groups") = Append(groups, g)
            /\ ToSet(g.proxies) = ProxyNames(doc) \cup {DirectNode}
            /\ ToSet(g.use) = ProviderNames(doc)
            /\ [kind |-> "MATCH", to |-> g.name] \in ToSet(new["rules"])
            /\ \A x \in ToSet(groups) : x.name # g.name
    <3>1. /\ ListOf(new, "proxy-groups") = Append(groups, group)
          /\ ToSet(group.proxies) = ProxyNames(doc) \cup {DirectNode}
          /\ ToSet(group.use) = ProviderNames(doc)
          /\ [kind |-> "MATCH", to |-> group.name] \in ToSet(new["rules"])
          /\ \A x \in ToSet(groups) : x.name # group.name
      BY <2>2, <2>5, <2>6, <2>7, <2>12, <2>15
    <3> QED BY <2>7, <3>1, Zenon
  <2> QED BY <2>12, <2>13, <2>14, <2>16 DEF new, groups
<1> QED BY <1>1, <1>2

-----------------------------------------------------------------------------
(* The invariant, and what follows from it.                                *)

\* A file that was generated was generated from the inputs, with a chain that was set.
DocumentInv ==
    /\ inputs \in Inputs /\ chain \in Chains \cup {<<>>}
    /\ \/ runtime = <<>> /\ cleaned = <<>>
       \/ /\ ~ScriptFails(inputs)
          /\ \E links \in Chains \cup {<<>>} : cleaned = Layered(inputs, links)
          /\ runtime = EnsureGroup(Sanitize(cleaned))

\* DocumentInv holds in every state.
THEOREM DocumentInvariant == DocumentSpec => []DocumentInv
<1>1. DocumentInit => DocumentInv
  BY Zenon DEF DocumentInit, DocumentInv
<1>2. DocumentInv /\ [DocumentNext]_documentVars => DocumentInv'
  <2> SUFFICES ASSUME DocumentInv, [DocumentNext]_documentVars
               PROVE  DocumentInv'
    OBVIOUS
  <2>1. CASE Generate
    <3>1. /\ ~ScriptFails(inputs) /\ cleaned' = Layered(inputs, chain) /\ runtime' = EnsureGroup(Sanitize(cleaned'))
          /\ inputs' = inputs /\ chain' = chain
      BY <2>1, Zenon DEF Generate
    <3>2. ScriptFails(inputs') = ScriptFails(inputs)
      BY <3>1
    <3>3. inputs' \in Inputs /\ chain' \in Chains \cup {<<>>} /\ chain \in Chains \cup {<<>>}
      BY <3>1, Zenon DEF DocumentInv
    <3>4. \E links \in Chains \cup {<<>>} : cleaned' = Layered(inputs', links)
      BY <3>1, <3>3, Zenon
    <3> QED BY <3>1, <3>2, <3>3, <3>4, Zenon DEF DocumentInv
  <2>2. ASSUME NEW links \in Chains, SetProxyChainConfig(links)
        PROVE  DocumentInv'
    <3>1. inputs' = inputs /\ chain' = links /\ runtime' = runtime /\ cleaned' = cleaned
      BY <2>2, Zenon DEF SetProxyChainConfig
    <3> QED BY <3>1 DEF DocumentInv
  <2>3. CASE UNCHANGED documentVars
    <3>1. inputs' = inputs /\ chain' = chain /\ runtime' = runtime /\ cleaned' = cleaned
      BY <2>3 DEF documentVars
    <3> QED BY <3>1 DEF DocumentInv
  <2> QED BY <2>1, <2>2, <2>3 DEF DocumentNext
<1> QED BY <1>1, <1>2, PTL DEF DocumentSpec

\* A state in which nothing was generated yet, or in which the file comes from a sound document.
LEMMA Generated ==
    ASSUME DocumentInv
    PROVE  \/ runtime = <<>> /\ cleaned = <<>>
           \/ Sound(cleaned) /\ InOrder(cleaned) /\ runtime = EnsureGroup(Sanitize(cleaned))
BY LayeredInOrder DEF DocumentInv

\* A document without keys lists nothing.
LEMMA NothingListed ==
    \A key : /\ ~Shaped(<<>>, key) /\ ListOf(<<>>, key) = <<>> /\ MapOf(<<>>, key) = <<>>
             /\ ToSet(ListOf(<<>>, key)) = {} /\ Len(ListOf(<<>>, key)) = 0
<1>1. DOMAIN <<>> = {} /\ Len(<<>>) = 0
  OBVIOUS
<1>2. ToSet(<<>>) = {}
  BY <1>1 DEF ToSet
<1> QED BY <1>1, <1>2, Zenon DEF Shaped, ListOf, MapOf

\* The type invariant of the generator: its files have groups in the form that the core reads.
THEOREM DocumentTypeCorrect == DocumentSpec => []DocumentTypeOK
<1>1. DocumentInv => DocumentTypeOK
  <2> SUFFICES ASSUME DocumentInv
               PROVE  \A g \in ToSet(ListOf(runtime, "proxy-groups")) : DOMAIN g = {"name", "proxies", "use", "all"}
    BY DEF DocumentInv, DocumentTypeOK
  <2>1. CASE runtime = <<>>
    BY <2>1, NothingListed
  <2>2. CASE Sound(cleaned) /\ runtime = EnsureGroup(Sanitize(cleaned))
    <3>1. Sound(runtime)
      BY <2>2, Sanitized, GroupEnsured
    <3>2. \A g \in ToSet(ListOf(runtime, "proxy-groups")) : g \in GroupRecords
      BY <3>1, ListsFit DEF ToSet
    <3> QED BY <3>2 DEF GroupRecords
  <2> QED BY <2>1, <2>2, Generated
<1> QED BY <1>1, DocumentInvariant, PTL

\* The settings win over the DNS file, that over the base configuration, and that over the
\* profile with its merges and scripts; the controller's address is what the settings say.
THEOREM LayersKeepTheirOrder == DocumentSpec => []LayersInOrder
<1>1. DocumentInv => LayersInOrder
  <2> SUFFICES ASSUME DocumentInv, runtime # <<>>
               PROVE  InOrder(runtime)
    BY DEF LayersInOrder, InOrder, Says
  <2>1. Sound(cleaned) /\ InOrder(cleaned) /\ runtime = EnsureGroup(Sanitize(cleaned))
    BY Generated
  <2>2. Sound(Sanitize(cleaned)) /\ Agree(Sanitize(cleaned), cleaned, OrderedKeys)
    BY <2>1, Sanitized
  <2>3. Agree(runtime, Sanitize(cleaned), OrderedKeys)
    BY <2>1, <2>2, GroupEnsured
  <2> QED BY <2>1, <2>2, <2>3, InOrderAgrees
<1> QED BY <1>1, DocumentInvariant, PTL

\* What is named is a member of a group, or what a node is dialled through.
LEMMA NamedSomewhere ==
    ASSUME NEW doc, NEW x \in NamedBy(doc)
    PROVE  \/ \E g \in ToSet(ListOf(doc, "proxy-groups")) : x \in ToSet(g.proxies)
           \/ \E p \in ToSet(ListOf(doc, "proxies")) : x = p.dialer
<1> DEFINE A == UNION {ToSet(g.proxies) : g \in ToSet(ListOf(doc, "proxy-groups"))}
           B == {p.dialer : p \in ToSet(ListOf(doc, "proxies"))}
<1>1. NamedBy(doc) = A \cup (B \ {NoName})
  BY Zenon DEF NamedBy
<1>2. \A y \in A : \E g \in ToSet(ListOf(doc, "proxy-groups")) : y \in ToSet(g.proxies)
  OBVIOUS
<1>3. \A y \in B : \E p \in ToSet(ListOf(doc, "proxies")) : y = p.dialer
  OBVIOUS
<1> HIDE DEF A, B
<1> QED BY <1>1, <1>2, <1>3

\* Cleaning up breaks no reference: a member of a group, or the node another is dialled through,
\* that named something before still names something; and a rule that named something does, or
\* names what is called like a notice that was taken out.
THEOREM NamesStillResolve == DocumentSpec => []NamesResolve
<1>1. DocumentInv => NamesResolve
  <2> SUFFICES ASSUME DocumentInv
               PROVE  NamesResolve
    OBVIOUS
  <2>1. CASE runtime = <<>>
    <3>1. NamedBy(runtime) = {} /\ RuleTargets(runtime) = {}
      BY <2>1, NothingListed DEF NamedBy, RuleTargets
    <3> QED BY <3>1 DEF NamesResolve
  <2>2. CASE Sound(cleaned) /\ runtime = EnsureGroup(Sanitize(cleaned))
    <3> DEFINE S == Sanitize(cleaned)
               removed == RemovedNames(cleaned)
               P == ListOf(cleaned, "proxies")
               G == ListOf(cleaned, "proxy-groups")
               H == ListOf(S, "proxy-groups")
               R == ListOf(runtime, "proxy-groups")
               SP == ListOf(S, "proxies")
    <3>1. /\ Sound(S) /\ Len(H) = Len(G) /\ \A i \in DOMAIN G : H[i].name = G[i].name
          /\ \A i \in DOMAIN G : \A y \in ToSet(H[i].proxies) : y = DirectNode \/ Trimmed[y] \notin removed
          /\ ProxyNames(S) = {p.name : p \in {q \in ToSet(P) : ~IsPlaceholder(q)}} \ {NoName}
          /\ \A p \in ToSet(SP) : p.dialer = NoName \/ Trimmed[p.dialer] \notin removed
      BY <2>2, Sanitized
    <3>2. G \in Seq(GroupRecords) /\ H \in Seq(GroupRecords)
      BY <2>2, <3>1, ListsFit
    <3> HIDE DEF S, P, G, H, removed, SP
    <3>3. /\ ListOf(runtime, "proxies") = SP
          /\ \/ R = H
             \/ \E group \in GroupRecords : R = Append(H, group) /\ ToSet(group.proxies) = ProxyNames(S) \cup {DirectNode}
      BY <2>2, <3>1, GroupEnsured DEF S, H, SP
    <3> HIDE DEF R
    <3>4. ProxyNames(runtime) = ProxyNames(S)
      BY <3>3 DEF ProxyNames, SP
    <3>5. ToSet(H) \subseteq ToSet(R)
          /\ \A g \in ToSet(R) : g \in ToSet(H) \/ ToSet(g.proxies) = ProxyNames(S) \cup {DirectNode}
      <4>1. CASE R = H
        BY <4>1
      <4>2. ASSUME NEW group \in GroupRecords, R = Append(H, group), ToSet(group.proxies) = ProxyNames(S) \cup {DirectNode}
            PROVE  /\ ToSet(H) \subseteq ToSet(R)
                   /\ \A g \in ToSet(R) : g \in ToSet(H) \/ ToSet(g.proxies) = ProxyNames(S) \cup {DirectNode}
        <5>1. ToSet(R) = ToSet(H) \cup {group}
          BY <3>2, <4>2, AppendAdds
        <5> QED BY <4>2, <5>1
      <4> QED BY <3>3, <4>1, <4>2
    <3>6. DOMAIN H = DOMAIN G /\ {g.name : g \in ToSet(H)} = {g.name : g \in ToSet(G)}
      <4>1. DOMAIN H = DOMAIN G
        BY <3>1, <3>2
      <4>2. {g.name : g \in ToSet(H)} = {H[i].name : i \in DOMAIN G} /\ {g.name : g \in ToSet(G)} = {G[i].name : i \in DOMAIN G}
        BY <4>1 DEF ToSet
      <4>3. {H[i].name : i \in DOMAIN G} = {G[i].name : i \in DOMAIN G}
        BY <3>1
      <4> QED BY <4>1, <4>2, <4>3
    <3>7. NamesOf(runtime) = ProxyNames(S) \cup {g.name : g \in ToSet(R)} \cup {DirectNode}
      BY <3>4, Zenon DEF NamesOf, R
    <3>8. {g.name : g \in ToSet(G)} \subseteq {g.name : g \in ToSet(R)}
      <4>1. \A g \in ToSet(H) : g.name \in {h.name : h \in ToSet(R)}
        BY <3>5
      <4>2. {g.name : g \in ToSet(H)} \subseteq {g.name : g \in ToSet(R)}
        BY <4>1
      <4> QED BY <3>6, <4>2
    <3>9. ASSUME NEW x \in NamesOf(cleaned)
          PROVE  x \in NamesOf(runtime) \/ (x # DirectNode /\ x # NoName /\ Trimmed[x] \in removed)
      <4>1. CASE x = DirectNode \/ x \in {g.name : g \in ToSet(G)}
        BY <3>7, <3>8, <4>1
      <4>2. CASE x # DirectNode /\ x \in ProxyNames(cleaned)
        <5>1. PICK p \in ToSet(P) : x = p.name /\ x # NoName
          BY <4>2 DEF ProxyNames, P
        <5>2. CASE ~IsPlaceholder(p)
          BY <3>1, <3>7, <5>1, <5>2
        <5>3. CASE IsPlaceholder(p)
          BY <4>2, <5>1, <5>3 DEF RemovedNames, removed, P
        <5> QED BY <5>2, <5>3
      <4> QED BY <3>9, <4>1, <4>2, Zenon DEF NamesOf, G
    <3>10. ASSUME NEW x \in NamedBy(runtime), x # DirectNode, x # NoName, Trimmed[x] \in removed
           PROVE  x \in NamesOf(runtime)
      <4>1. ASSUME NEW g \in ToSet(R), x \in ToSet(g.proxies)
            PROVE  x \in NamesOf(runtime)
        <5>1. CASE g \in ToSet(H)
          <6>1. PICK i \in DOMAIN G : g = H[i]
            BY <3>6, <5>1 DEF ToSet
          <6>2. Trimmed[x] \notin removed
            BY <3>1, <3>10, <4>1, <6>1
          <6> QED BY <3>10, <6>2
        <5>2. CASE ToSet(g.proxies) = ProxyNames(S) \cup {DirectNode}
          BY <3>7, <4>1, <5>2
        <5> QED BY <3>5, <5>1, <5>2
      <4>2. ASSUME NEW q \in ToSet(SP), x = q.dialer
            PROVE  FALSE
        BY <3>1, <3>10, <4>2
      <4>3. (\E g \in ToSet(R) : x \in ToSet(g.proxies)) \/ \E q \in ToSet(SP) : x = q.dialer
        BY <3>3, NamedSomewhere, Zenon DEF R
      <4> QED BY <4>1, <4>2, <4>3, Zenon
    <3> QED BY <3>9, <3>10, Zenon DEF NamesResolve, removed
  <2> QED BY <2>1, <2>2, Generated
<1> QED BY <1>1, DocumentInvariant, PTL

\* A file with nodes or providers has a group that offers something; and a group that generation
\* adds offers all of them, has a name of its own, and is what a MATCH rule names.
THEOREM FilesCanBeSteered == DocumentSpec => []CanBeSteered
<1>1. DocumentInv => CanBeSteered
  <2> DEFINE groups == ListOf(runtime, "proxy-groups")
             before == ListOf(cleaned, "proxy-groups")
             S == Sanitize(cleaned)
             H == ListOf(S, "proxy-groups")
             added == groups[Len(groups)]
  <2> SUFFICES ASSUME DocumentInv
               PROVE  /\ ProxyNames(runtime) \cup ProviderNames(runtime) # {} => HasUsableGroup(runtime)
                      /\ Len(groups) > Len(before) =>
                            /\ ProxyNames(runtime) \cup {DirectNode} = ToSet(added.proxies)
                            /\ ProviderNames(runtime) = ToSet(added.use)
                            /\ [kind |-> "MATCH", to |-> added.name] \in ToSet(runtime["rules"])
                            /\ \A i \in DOMAIN before : before[i].name # added.name
    BY DEF CanBeSteered
  <2>1. CASE runtime = <<>> /\ cleaned = <<>>
    <3>1. ProxyNames(runtime) = {} /\ ProviderNames(runtime) = {}
      BY <2>1, NothingListed DEF ProxyNames, ProviderNames
    <3>2. Len(groups) = 0 /\ Len(before) = 0
      BY <2>1, NothingListed
    <3> QED BY <3>1, <3>2
  <2>2. CASE Sound(cleaned) /\ runtime = EnsureGroup(S)
    <3>1. Sound(S) /\ Len(H) = Len(before) /\ \A i \in DOMAIN before : H[i].name = before[i].name
      BY <2>2, Sanitized
    <3>2. before \in Seq(GroupRecords) /\ H \in Seq(GroupRecords)
      BY <2>2, <3>1, ListsFit
    <3> HIDE DEF S
    <3>3. /\ ListOf(runtime, "proxies") = ListOf(S, "proxies") /\ ProviderNames(runtime) = ProviderNames(S)
          /\ \/ /\ HasUsableGroup(S) \/ ProxyNames(S) \cup ProviderNames(S) = {}
                /\ groups = H
             \/ \E group \in GroupRecords :
                   /\ groups = Append(H, group)
                   /\ ToSet(group.proxies) = ProxyNames(S) \cup {DirectNode}
                   /\ ToSet(group.use) = ProviderNames(S)
                   /\ [kind |-> "MATCH", to |-> group.name] \in ToSet(runtime["rules"])
                   /\ \A g \in ToSet(H) : g.name # group.name
      BY <2>2, <3>1, GroupEnsured
    <3>4. ProxyNames(runtime) = ProxyNames(S)
      BY <3>3 DEF ProxyNames
    <3>5. CASE (HasUsableGroup(S) \/ ProxyNames(S) \cup ProviderNames(S) = {}) /\ groups = H
      <4>1. HasUsableGroup(S) => HasUsableGroup(runtime)
        BY <3>5 DEF HasUsableGroup
      <4>2. Len(groups) = Len(before) /\ Len(before) \in Nat
        BY <3>1, <3>2, <3>5
      <4> HIDE DEF groups, before
      <4> QED BY <3>3, <3>4, <3>5, <4>1, <4>2
    <3>6. ASSUME NEW group \in GroupRecords,
                 groups = Append(H, group),
                 ToSet(group.proxies) = ProxyNames(S) \cup {DirectNode},
                 ToSet(group.use) = ProviderNames(S),
                 [kind |-> "MATCH", to |-> group.name] \in ToSet(runtime["rules"]),
                 \A g \in ToSet(H) : g.name # group.name
          PROVE  /\ HasUsableGroup(runtime)
                 /\ ProxyNames(runtime) \cup {DirectNode} = ToSet(added.proxies)
                 /\ ProviderNames(runtime) = ToSet(added.use)
                 /\ [kind |-> "MATCH", to |-> added.name] \in ToSet(runtime["rules"])
                 /\ \A i \in DOMAIN before : before[i].name # added.name
      <4> HIDE DEF H
      <4>1. Len(groups) = Len(H) + 1 /\ groups[Len(H) + 1] = group
        BY <3>2, <3>6
      <4>2. ToSet(groups) = ToSet(H) \cup {group}
        <5>1. ToSet(Append(H, group)) = ToSet(H) \cup {group}
          BY <3>2, AppendAdds
        <5> HIDE DEF groups
        <5> QED BY <3>6, <5>1
      <4>3. IsUsable(group)
        <5>1. group.proxies # <<>>
          <6>1. DOMAIN <<>> = {} /\ DirectNode \in ToSet(group.proxies)
            BY <3>6
          <6> QED BY <6>1 DEF ToSet
        <5> QED BY <5>1 DEF IsUsable
      <4>4. HasUsableGroup(runtime)
        BY <4>2, <4>3 DEF HasUsableGroup
      <4>5. \A i \in DOMAIN before : H[i] \in ToSet(H) /\ H[i].name = before[i].name
        <5>1. DOMAIN H = DOMAIN before
          BY <3>1, <3>2 DEF H
        <5> QED BY <3>1, <5>1 DEF ToSet, H
      <4>6. added = group
        BY <4>1
      <4> QED BY <3>3, <3>4, <3>6, <4>4, <4>5, <4>6
    <3> QED BY <3>3, <3>5, <3>6
  <2> QED BY <2>1, <2>2, Generated
<1> QED BY <1>1, DocumentInvariant, PTL

-----------------------------------------------------------------------------
(* The nodes that the lines of a subscription become.                      *)

\* The name that a line asks for is a list of words.
LEMMA NameIsList ==
    ASSUME NEW l, LineFits(l)
    PROVE  \E X : NameOf(l) \in Seq(X)
<1>1. l.name \in Seq({l.name[i] : i \in 1..Len(l.name)})
  <2> DEFINE X == {l.name[i] : i \in 1..Len(l.name)}
  <2>1. Len(l.name) \in Nat /\ l.name = [i \in 1..Len(l.name) |-> l.name[i]] /\ \A i \in 1..Len(l.name) : l.name[i] \in X
    BY DEF LineFits
  <2> HIDE DEF X
  <2>2. l.name \in [1..Len(l.name) -> X]
    BY <2>1
  <2>3. l.name \in Seq(X)
    BY <2>1, <2>2
  <2> QED BY <2>3 DEF X
<1>2. \A v, w, x : <<v>> \in Seq({v, w, x}) /\ <<v, w, x>> \in Seq({v, w, x})
  OBVIOUS
<1>3. NameOf(l) = l.name \/ \E v, w, x : NameOf(l) = <<v>> \/ NameOf(l) = <<v, w, x>>
  BY Zenon DEF NameOf
<1>4. CASE NameOf(l) = l.name
  BY <1>1, <1>4
<1>5. ASSUME NEW v, NEW w, NEW x, NameOf(l) = <<v>> \/ NameOf(l) = <<v, w, x>>
      PROVE  NameOf(l) \in Seq({v, w, x})
  BY <1>2, <1>5
<1> QED BY <1>3, <1>4, <1>5

\* All the nodes that a line may become.
NodesFrom(lines) ==
    {NodeOf(lines[i], Numbered(NameOf(lines[i]), n)) : i \in DOMAIN lines, n \in Nat \ {0}}

\* A node after the others has a name that none of them has.
LEMMA OneMoreNode ==
    ASSUME NEW X, NEW lines \in Seq(X), \A i \in DOMAIN lines : LineFits(lines[i]),
           NEW nodes \in Seq(NodesFrom(lines)), NEW i \in DOMAIN lines
    PROVE  \E name : /\ WithNode(nodes, lines[i]) = Append(nodes, NodeOf(lines[i], name))
                     /\ NodeOf(lines[i], name) \in NodesFrom(lines) /\ name \notin Names(nodes)
<1> DEFINE name == UniqueProxyName(NameOf(lines[i]), Names(nodes))
           k == Len(nodes)
           f == [j \in 1..k |-> nodes[j].name]
<1>1. k \in Nat /\ DOMAIN nodes = 1..k
  OBVIOUS
<1>2. Names(nodes) = {f[j] : j \in 1..k}
  BY <1>1 DEF Names
<1> HIDE DEF f, k
<1>3. IsFiniteSet(Names(nodes))
  BY <1>1, <1>2, FiniteValues
<1>4. PICK Y : NameOf(lines[i]) \in Seq(Y)
  BY NameIsList
<1>5. FirstFree(NameOf(lines[i]), Names(nodes)) \notin Names(nodes)
      /\ \E n \in Nat \ {0} : FirstFree(NameOf(lines[i]), Names(nodes)) = Numbered(NameOf(lines[i]), n)
  BY <1>3, <1>4, FreeIsFree
<1>6. name \notin Names(nodes) /\ \E n \in Nat \ {0} : name = Numbered(NameOf(lines[i]), n)
  BY <1>5, Zenon DEF UniqueProxyName
<1>7. WithNode(nodes, lines[i]) = Append(nodes, NodeOf(lines[i], name))
  BY Zenon DEF WithNode
<1> HIDE DEF name
<1>8. NodeOf(lines[i], name) \in NodesFrom(lines)
  <2>1. PICK n \in Nat \ {0} : name = Numbered(NameOf(lines[i]), n)
    BY <1>6
  <2> QED BY <2>1 DEF NodesFrom
<1> QED BY <1>6, <1>7, <1>8

\* f converts, of the first n lines for every n, each into a node.
Converts(f, lines) ==
    f = [n \in 0..Len(lines) |-> IF n = 0 THEN <<>> ELSE WithNode(f[n - 1], lines[n])]

\* There is such a function.
LEMMA ConvertsExists ==
    ASSUME NEW X, NEW lines \in Seq(X), \A i \in DOMAIN lines : LineFits(lines[i])
    PROVE  \E f \in [0..Len(lines) -> Seq(NodesFrom(lines))] : Converts(f, lines)
<1> DEFINE k == Len(lines)
           Y == NodesFrom(lines)
           step == [n \in 1..k |-> [nodes \in Seq(Y) |-> WithNode(nodes, lines[n])]]
<1>1. k \in Nat /\ DOMAIN lines = 1..k
  OBVIOUS
<1> HIDE DEF k, Y
<1>2. \A n \in 1..k, nodes \in Seq(Y) : WithNode(nodes, lines[n]) \in Seq(Y)
  <2> SUFFICES ASSUME NEW n \in 1..k, NEW nodes \in Seq(Y)
               PROVE  WithNode(nodes, lines[n]) \in Seq(Y)
    OBVIOUS
  <2>1. PICK name : WithNode(nodes, lines[n]) = Append(nodes, NodeOf(lines[n], name)) /\ NodeOf(lines[n], name) \in Y
    BY <1>1, OneMoreNode DEF Y
  <2> QED BY <2>1
<1>3. step \in [1..k -> [Seq(Y) -> Seq(Y)]]
  BY <1>2
<1>4. \A n \in 1..k, nodes \in Seq(Y) : step[n][nodes] = WithNode(nodes, lines[n])
  OBVIOUS
<1> HIDE DEF step
<1>5. PICK f \in [0..k -> Seq(Y)] : Follows(f, <<>>, step, k)
  <2>1. <<>> \in Seq(Y)
    OBVIOUS
  <2> QED BY <1>1, <1>3, <2>1, Recursion
<1>6. \A n \in 0..k : f[n] = IF n = 0 THEN <<>> ELSE WithNode(f[n - 1], lines[n])
  <2> SUFFICES ASSUME NEW n \in 0..k
               PROVE  f[n] = IF n = 0 THEN <<>> ELSE WithNode(f[n - 1], lines[n])
    OBVIOUS
  <2>1. CASE n = 0
    BY <1>5, <2>1 DEF Follows
  <2>2. CASE n # 0
    <3>1. n \in 1..k /\ n - 1 \in 0..k
      BY <1>1, <2>2
    <3>2. f[n] = step[n][f[n - 1]] /\ f[n - 1] \in Seq(Y)
      BY <1>5, <3>1 DEF Follows
    <3> QED BY <1>4, <2>2, <3>1, <3>2
  <2> QED BY <2>1, <2>2
<1>7. Converts(f, lines)
  BY <1>6 DEF Converts, k
<1> QED BY <1>7 DEF k, Y

\* Every line becomes a node, in its place, and no two nodes have one name.
LEMMA NodesAre ==
    ASSUME NEW X, NEW lines \in Seq(X), \A i \in DOMAIN lines : LineFits(lines[i])
    PROVE  /\ NodesOf(lines) \in Seq(NodesFrom(lines)) /\ Len(NodesOf(lines)) = Len(lines)
           /\ \A i \in DOMAIN lines : \E name : NodesOf(lines)[i] = NodeOf(lines[i], name)
           /\ \A i, j \in DOMAIN lines : i # j => NodesOf(lines)[i].name # NodesOf(lines)[j].name
<1> DEFINE k == Len(lines)
           Y == NodesFrom(lines)
           f == CHOOSE f : Converts(f, lines)
<1>1. k \in Nat /\ Converts(f, lines) /\ DOMAIN lines = 1..k
  <2>1. \E g : Converts(g, lines)
    BY ConvertsExists
  <2>2. Converts(f, lines)
    BY <2>1, Zenon
  <2> QED BY <2>2
<1>2. NodesOf(lines) = f[k]
  BY Zenon DEF NodesOf, Converts
<1> HIDE DEF f
<1>3. \A n \in 0..k : f[n] = IF n = 0 THEN <<>> ELSE WithNode(f[n - 1], lines[n])
  BY <1>1 DEF Converts
<1> DEFINE Good(n) == /\ f[n] \in Seq(Y) /\ Len(f[n]) = n
                      /\ \A i \in 1..n : \E name : f[n][i] = NodeOf(lines[i], name)
                      /\ \A i, j \in 1..n : i # j => f[n][i].name # f[n][j].name
           good == {n \in 0..k : Good(n)}
<1> HIDE DEF k, Y
<1>4. 0 \in good
  <2>1. f[0] = <<>> /\ 0 \in 0..k
    BY <1>1, <1>3
  <2>2. <<>> \in Seq(Y) /\ Len(<<>>) = 0 /\ 1..0 = {}
    OBVIOUS
  <2> QED BY <2>1, <2>2
<1>5. ASSUME NEW n \in 1..k, n - 1 \in good
      PROVE  n \in good
  <2> DEFINE nodes == f[n - 1]
  <2>1. n \in 0..k /\ n # 0 /\ n \in DOMAIN lines /\ Good(n - 1)
    BY <1>1, <1>5
  <2>2. f[n] = WithNode(nodes, lines[n]) /\ nodes \in Seq(Y)
    BY <1>3, <2>1
  <2>3. Len(nodes) = n - 1
        /\ (\A i \in 1..(n - 1) : \E name : nodes[i] = NodeOf(lines[i], name))
        /\ (\A i, j \in 1..(n - 1) : i # j => nodes[i].name # nodes[j].name)
    BY <2>1
  <2> HIDE DEF nodes
  <2>4. PICK name : /\ f[n] = Append(nodes, NodeOf(lines[n], name)) /\ NodeOf(lines[n], name) \in Y
                    /\ name \notin Names(nodes)
    BY <2>1, <2>2, OneMoreNode DEF Y
  <2>5. /\ f[n] \in Seq(Y) /\ Len(f[n]) = n /\ f[n][n] = NodeOf(lines[n], name)
        /\ \A i \in 1..(n - 1) : f[n][i] = nodes[i]
    BY <2>2, <2>3, <2>4
  <2>6. \A i \in 1..n : i = n \/ i \in 1..(n - 1)
    OBVIOUS
  <2>7. f[n][n].name = name
    BY <2>5 DEF NodeOf
  <2>8. \A i \in 1..(n - 1) : nodes[i].name \in Names(nodes)
    BY <2>2, <2>3 DEF Names
  <2>9. \A i \in 1..n : \E x : f[n][i] = NodeOf(lines[i], x)
    BY <2>3, <2>5, <2>6
  <2>10. \A i \in 1..(n - 1) : f[n][i].name # f[n][n].name
    BY <2>4, <2>5, <2>7, <2>8
  <2>11. \A i, j \in 1..n : i # j => f[n][i].name # f[n][j].name
    BY <2>3, <2>5, <2>6, <2>10
  <2> QED BY <2>1, <2>5, <2>9, <2>11
<1> HIDE DEF good
<1>6. k \in good
  <2>1. \A n \in 0..k : n \in good
    BY <1>1, <1>4, <1>5, AllUpTo
  <2> QED BY <1>1, <2>1
<1>7. Good(k)
  BY <1>6 DEF good
<1> QED BY <1>1, <1>2, <1>7 DEF k, Y

\* So many nodes, so many names.
LEMMA NamesCounted ==
    ASSUME NEW X, NEW nodes \in Seq(X),
           \A i, j \in DOMAIN nodes : i # j => nodes[i].name # nodes[j].name
    PROVE  Cardinality(Names(nodes)) = Len(nodes)
<1> DEFINE k == Len(nodes)
           f == [i \in 1..k |-> nodes[i].name]
           T == Names(nodes)
<1>1. k \in Nat /\ DOMAIN nodes = 1..k
  OBVIOUS
<1>2. f \in [1..k -> T] /\ \A t \in T : \E i \in 1..k : f[i] = t
  BY <1>1 DEF Names
<1>3. \A i, j \in 1..k : f[i] = f[j] => i = j
  BY <1>1
<1> HIDE DEF f, k, T
<1>4. f \in Injection(1..k, T) /\ f \in Surjection(1..k, T)
  BY <1>2, <1>3 DEF Injection, Surjection, IsInjective
<1>5. ExistsBijection(1..k, T)
  BY <1>4, Zenon DEF ExistsBijection, Bijection
<1>6. Cardinality(T) = k
  BY <1>1, <1>5, FS_CountingElements
<1> QED BY <1>6 DEF k, T

\* The group is not called like a node, while one of its names is free.
LEMMA GroupIsNoNode ==
    ASSUME NEW nodes, Names(nodes) \cap ToSet(GroupNames) # ToSet(GroupNames)
    PROVE  SelectGroupName(nodes) \notin Names(nodes)
<1> DEFINE free == {i \in DOMAIN GroupNames : GroupNames[i] \notin Names(nodes)}
<1>1. DOMAIN GroupNames = 1..3
  BY DEF GroupNames
<1>2. free # {} /\ free \in SUBSET Nat
  BY <1>1 DEF ToSet
<1>3. Min(free) \in free
  <2> HIDE DEF free
  <2> QED BY <1>2, Least
<1>4. SelectGroupName(nodes) = GroupNames[Min(free)]
  BY <1>2, Zenon DEF SelectGroupName
<1>5. \A i \in free : GroupNames[i] \notin Names(nodes)
  OBVIOUS
<1> HIDE DEF free
<1> QED BY <1>3, <1>4, <1>5

\* What FilesAreUsable asks of a profile that was converted.
Usable(doc) ==
    LET nodes == doc.proxies
    IN /\ nodes # <<>>
       /\ Cardinality(Names(nodes)) = Len(nodes)
       /\ doc.members = [i \in DOMAIN nodes |-> nodes[i].name]
       /\ doc.matchTo = doc.group
       /\ Names(nodes) \cap ToSet(GroupNames) # ToSet(GroupNames)
             => doc.group \notin Names(nodes)
       /\ \A i \in DOMAIN nodes :
             nodes[i].type \in {"vmess", "vless"} /\ nodes[i].tls /\ nodes[i].transport.host => nodes[i].servername

\* A vmess or vless node over TLS whose transport has a host names a server.
LEMMA ServerIsNamed ==
    ASSUME NEW l, LineFits(l), NEW name
    PROVE  LET node == NodeOf(l, name)
           IN node.type \in {"vmess", "vless"} /\ node.tls /\ node.transport.host => node.servername
<1> DEFINE node == NodeOf(l, name)
<1>1. node.type = TypeOf[l.scheme] /\ node.tls = l.tls /\ node.transport.host = TransportHost(l)
      /\ node.servername = FillServername(l)
  BY DEF NodeOf
<1> HIDE DEF node
<1> SUFFICES ASSUME TypeOf[l.scheme] \in {"vmess", "vless"}, l.tls, TransportHost(l)
             PROVE  FillServername(l)
  BY <1>1 DEF node
<1>2. CASE TypeOf[l.scheme] = "vmess"
  BY <1>2 DEF FillServername
<1>3. CASE TypeOf[l.scheme] = "vless"
  BY <1>3 DEF FillServername
<1> QED BY <1>2, <1>3

\* A body that is converted becomes a usable profile.
LEMMA ConvertedIsUsable ==
    ASSUME NEW body \in Bodies, Convert(body) # NoDocument
    PROVE  Usable(Convert(body))
<1> DEFINE lines == LinesOf(body)
           X == ToSet(lines)
           uris == CollectNodeLines(lines)
           parsed == Retained(uris, {i \in DOMAIN uris : ParseNodeUri(uris[i])})
           nodes == NodesOf(parsed)
           doc == BuildProfile(nodes)
<1>1. lines \in Seq(X) /\ \A l \in X : LineFits(l)
  BY SubscriptionAssumption
<1> HIDE DEF lines, X
<1>2. uris \in Seq(X)
  BY <1>1, RetainedIs DEF CollectNodeLines
<1> HIDE DEF uris
<1>3. parsed \in Seq(X)
  BY <1>2, RetainedIs
<1>4. Convert(body) = IF parsed = <<>> THEN NoDocument ELSE doc
  BY Zenon DEF Convert, lines, uris
<1> HIDE DEF parsed
<1>5. parsed # <<>> /\ Convert(body) = doc
  BY <1>4
<1>6. Len(parsed) \in Nat \ {0} /\ DOMAIN parsed = 1..Len(parsed) /\ \A i \in DOMAIN parsed : LineFits(parsed[i])
  BY <1>1, <1>3, <1>5
<1>7. /\ nodes \in Seq(NodesFrom(parsed)) /\ Len(nodes) = Len(parsed)
      /\ \A i \in DOMAIN parsed : \E name : nodes[i] = NodeOf(parsed[i], name)
      /\ \A i, j \in DOMAIN parsed : i # j => nodes[i].name # nodes[j].name
  BY <1>3, <1>6, NodesAre
<1> HIDE DEF nodes
<1>8. nodes # <<>> /\ DOMAIN nodes = DOMAIN parsed
  BY <1>6, <1>7
<1>9. Cardinality(Names(nodes)) = Len(nodes)
  BY <1>7, <1>8, NamesCounted
<1>10. /\ doc.proxies = nodes /\ doc.group = SelectGroupName(nodes) /\ doc.matchTo = SelectGroupName(nodes)
       /\ doc.members = [i \in DOMAIN nodes |-> nodes[i].name]
  BY DEF BuildProfile
<1> HIDE DEF doc
<1>11. ASSUME NEW i \in DOMAIN nodes
       PROVE  nodes[i].type \in {"vmess", "vless"} /\ nodes[i].tls /\ nodes[i].transport.host => nodes[i].servername
  <2>1. PICK name : nodes[i] = NodeOf(parsed[i], name)
    BY <1>7, <1>8
  <2>2. LineFits(parsed[i])
    BY <1>6, <1>8
  <2> QED BY <2>1, <2>2, ServerIsNamed
<1>12. Names(nodes) \cap ToSet(GroupNames) # ToSet(GroupNames) => SelectGroupName(nodes) \notin Names(nodes)
  BY GroupIsNoNode
<1>13. Usable(doc)
  BY <1>8, <1>9, <1>10, <1>11, <1>12 DEF Usable
<1> QED BY <1>5, <1>13

\* What a file may hold, and a download bring.
GoodDocuments == {AsIs} \cup ({NormalizeRemoteProfile(body) : body \in Bodies} \ {NoDocument})

\* A good document is the answer itself, or usable.
LEMMA GoodIsUsable ==
    ASSUME NEW doc \in GoodDocuments, doc # AsIs
    PROVE  Usable(doc)
<1>1. PICK body \in Bodies : doc = NormalizeRemoteProfile(body) /\ doc # NoDocument
  BY DEF GoodDocuments
<1>2. doc = Convert(body)
  BY <1>1 DEF NormalizeRemoteProfile
<1> QED BY <1>1, <1>2, ConvertedIsUsable

\* Every file holds a good document or none, and so does every download that waits for its commit.
FilesInv ==
    /\ files = [u \in Subscriptions |-> files[u]] /\ tasks = [u \in Subscriptions |-> tasks[u]]
    /\ \A u \in Subscriptions :
          /\ files[u] \in GoodDocuments \cup {NoDocument}
          /\ tasks[u].phase \in {"commit", "append"} => tasks[u].remote.document \in GoodDocuments

\* A step of one task that leaves the files alone.
LEMMA TaskStepKeeps ==
    ASSUME FilesInv, NEW u \in Subscriptions, NEW next,
           tasks' = [tasks EXCEPT ![u] = next], UNCHANGED files,
           next.phase \in {"commit", "append"} => next.remote.document \in GoodDocuments
    PROVE  FilesInv'
BY DEF FilesInv

\* Tasks that begin have downloaded nothing.
LEMMA TasksBegin ==
    ASSUME FilesInv, NEW us, tasks' = Started(us), UNCHANGED files
    PROVE  FilesInv'
<1>1. tasks' = [u \in Subscriptions |-> tasks'[u]]
      /\ \A u \in Subscriptions : tasks'[u] = tasks[u] \/ tasks'[u] = [phase |-> "update", attempt |-> 1]
  BY DEF Started
<1> QED BY <1>1 DEF FilesInv

\* A commit writes what was downloaded, or nothing.
LEMMA CommitWrites ==
    ASSUME FilesInv, NEW u \in Subscriptions, tasks[u].phase \in {"commit", "append"},
           (\E old : Save(u, old)) \/ UNCHANGED files, tasks' = [tasks EXCEPT ![u] = Idle]
    PROVE  FilesInv'
<1>1. files' = [files EXCEPT ![u] = tasks[u].remote.document] \/ files' = files
  BY DEF Save
<1>2. tasks[u].remote.document \in GoodDocuments
  BY DEF FilesInv
<1> QED BY <1>1, <1>2 DEF FilesInv, Idle

\* FilesInv holds initially.
LEMMA FilesStart == SubscriptionInit => FilesInv
<1> SUFFICES ASSUME SubscriptionInit
             PROVE  FilesInv
  OBVIOUS
<1>1. files = [u \in Subscriptions |-> IF entries[u] = NoEntry THEN NoDocument ELSE AsIs]
      /\ tasks = [u \in Subscriptions |-> Idle]
  BY DEF SubscriptionInit
<1>2. AsIs \in GoodDocuments
  BY SubscriptionAssumption DEF GoodDocuments
<1> QED BY <1>1, <1>2 DEF FilesInv, Idle

\* Every step keeps FilesInv.
LEMMA FilesStep == FilesInv /\ [SubscriptionNext]_subscriptionVars => FilesInv'
<1> SUFFICES ASSUME FilesInv, [SubscriptionNext]_subscriptionVars
             PROVE  FilesInv'
  OBVIOUS
<1>1. CASE EnqueueDue
  BY <1>1, TasksBegin DEF EnqueueDue
<1>2. CASE EnqueueAll
  BY <1>2, TasksBegin DEF EnqueueAll
<1>3. CASE Restart
  BY <1>3 DEF Restart, FilesInv, Idle
<1>4. ASSUME NEW t \in Times, TickTo(t) PROVE FilesInv'
  BY <1>4 DEF TickTo, FilesInv
<1>5. ASSUME NEW u \in Subscriptions, StartUpdate(u) PROVE FilesInv'
  BY <1>5, TasksBegin DEF StartUpdate
<1>6. ASSUME NEW u \in Subscriptions, Delete(u) PROVE FilesInv'
  BY <1>6 DEF Delete, FilesInv
<1>7. ASSUME NEW u \in Subscriptions, NEW request \in Requests, StartImport(u, request) PROVE FilesInv'
  BY <1>7, TaskStepKeeps DEF StartImport
<1>8. ASSUME NEW u \in Subscriptions, Plan(u) PROVE FilesInv'
  <2> DEFINE next == IF entries[u] = NoEntry THEN Idle
                     ELSE [phase |-> "asking", attempt |-> tasks[u].attempt,
                           request |-> [name |-> NameOverride(entries[u]),
                                        option |-> WithProxyOption(OrElse(entries[u].option, DefaultOption),
                                                                   tasks[u].attempt)]]
  <2>1. tasks' = [tasks EXCEPT ![u] = next] /\ UNCHANGED files
    BY <1>8 DEF Plan
  <2>2. next.phase \notin {"commit", "append"}
    BY DEF Idle
  <2> HIDE DEF next
  <2> QED BY <2>1, <2>2, TaskStepKeeps
<1>9. ASSUME NEW u \in Subscriptions, AttemptFails(u) PROVE FilesInv'
  <2> DEFINE next == IF tasks[u].attempt = Len(Attempts) THEN Idle
                     ELSE IF tasks[u].phase = "asking"
                          THEN [phase |-> "update", attempt |-> tasks[u].attempt + 1]
                          ELSE [phase |-> "import", attempt |-> tasks[u].attempt + 1,
                                request |-> tasks[u].request]
  <2>1. tasks' = [tasks EXCEPT ![u] = next] /\ UNCHANGED files
    BY <1>9 DEF AttemptFails
  <2>2. next.phase \notin {"commit", "append"}
    BY DEF Idle
  <2> HIDE DEF next
  <2> QED BY <2>1, <2>2, TaskStepKeeps
<1>10. ASSUME NEW body \in Bodies, NormalizeRemoteProfile(body) # NoDocument, NEW request, NEW header
       PROVE  DownloadRemoteProfile(request, body, header).document \in GoodDocuments
  BY <1>10 DEF DownloadRemoteProfile, GoodDocuments
<1>11. ASSUME NEW u \in Subscriptions, NEW body \in Bodies, NEW header \in Headers,
              Download(u, body, header) \/ DownloadImport(u, body, header)
       PROVE  FilesInv'
  <2>1. PICK next, option, request :
           tasks' = [tasks EXCEPT ![u] = [phase |-> next, option |-> option,
                                          remote |-> DownloadRemoteProfile(request, body, header)]]
    BY <1>11, Zenon DEF Download, DownloadImport
  <2>2. DownloadRemoteProfile(request, body, header).document \in GoodDocuments
    BY <1>10, <1>11 DEF Download, DownloadImport
  <2> QED BY <1>11, <2>1, <2>2, TaskStepKeeps DEF Download, DownloadImport
<1>12. ASSUME NEW u \in Subscriptions, Commit(u) \/ CommitImport(u) PROVE FilesInv'
  BY <1>12, CommitWrites DEF Commit, CommitImport
<1>13. CASE UNCHANGED subscriptionVars
  BY <1>13 DEF subscriptionVars, FilesInv
<1> QED BY <1>1, <1>2, <1>3, <1>4, <1>5, <1>6, <1>7, <1>8, <1>9, <1>11, <1>12, <1>13 DEF SubscriptionNext, OfTask

\* A profile's file is always the answer itself or a profile with nodes under names of their own,
\* whose group lists them all and is where the rule leads: no refused answer replaces a good file.
THEOREM SubscriptionFilesUsable == SubscriptionSpec => []FilesAreUsable
<1>1. FilesInv => FilesAreUsable
  <2> SUFFICES ASSUME FilesInv, NEW u \in Subscriptions, files[u] \notin {NoDocument, AsIs}
               PROVE  Usable(files[u])
    BY DEF FilesAreUsable, Usable
  <2> QED BY GoodIsUsable DEF FilesInv
<1> QED BY <1>1, FilesStart, FilesStep, PTL DEF SubscriptionSpec

-----------------------------------------------------------------------------
(* Lists of lists, one after another.                                      *)

\* Two functions that go the same way from the same value are the same up to k.
LEMMA FollowsOnce ==
    ASSUME NEW k \in Nat, NEW f, NEW g, NEW base, NEW step, Follows(f, base, step, k), Follows(g, base, step, k)
    PROVE  \A n \in 0..k : f[n] = g[n]
<1> DEFINE good == {n \in 0..k : f[n] = g[n]}
<1>1. 0 \in good
  BY DEF Follows
<1>2. \A n \in 1..k : n - 1 \in good => n \in good
  BY DEF Follows
<1> HIDE DEF good
<1>3. \A n \in 0..k : n \in good
  BY <1>1, <1>2, AllUpTo
<1> QED BY <1>3 DEF good

\* f has, for every n, the first n of the lists one after another.
Joins(f, seqs) == f[0] = <<>> /\ \A n \in 1..Len(seqs) : f[n] = f[n - 1] \o seqs[n]

\* There is such a function, and FlattenSeq is its last value.
LEMMA FlattenIs ==
    ASSUME NEW X, NEW seqs \in Seq(Seq(X))
    PROVE  \E f \in [0..Len(seqs) -> Seq(X)] : Joins(f, seqs) /\ FlattenSeq(seqs) = f[Len(seqs)]
<1> DEFINE k == Len(seqs)
           step == [n \in 1..k |-> [l \in Seq(X) |-> l \o seqs[n]]]
<1>1. k \in Nat /\ \A n \in 1..k : seqs[n] \in Seq(X)
  OBVIOUS
<1>2. \A n \in 1..k : [l \in Seq(X) |-> l \o seqs[n]] \in [Seq(X) -> Seq(X)]
  BY <1>1
<1>3. step \in [1..k -> [Seq(X) -> Seq(X)]] /\ \A n \in 1..k, l \in Seq(X) : step[n][l] = l \o seqs[n]
  BY <1>2
<1> HIDE DEF step
<1>4. PICK f \in [0..k -> Seq(X)] : Follows(f, <<>>, step, k)
  <2>1. <<>> \in Seq(X)
    OBVIOUS
  <2> QED BY <1>1, <1>3, <2>1, Recursion
<1>5. Joins(f, seqs)
  <2> SUFFICES ASSUME NEW n \in 1..k
               PROVE  f[n] = f[n - 1] \o seqs[n]
    BY <1>4 DEF Joins, Follows
  <2>1. n - 1 \in 0..k
    BY <1>1
  <2>2. f[n - 1] \in Seq(X) /\ f[n] = step[n][f[n - 1]]
    BY <1>4, <2>1 DEF Follows
  <2> QED BY <1>3, <2>2
<1>6. CASE k = 0
  <2>1. seqs = <<>>
    BY <1>6
  <2> QED BY <1>4, <1>5, <1>6, <2>1 DEF FlattenSeq, Joins
<1>7. CASE k # 0
  <2> DEFINE Flattens(g) == g = [i \in 1..k |-> IF i = 1 THEN seqs[i] ELSE g[i - 1] \o seqs[i]]
             h == CHOOSE g : Flattens(g)
  <2>1. FlattenSeq(seqs) = h[k]
    BY <1>7, Zenon DEF FlattenSeq
  <2>2. \E g : Flattens(g)
    <3> DEFINE g == [i \in 1..k |-> f[i]]
    <3>1. \A i \in 1..k : g[i] = IF i = 1 THEN seqs[i] ELSE g[i - 1] \o seqs[i]
      <4> SUFFICES ASSUME NEW i \in 1..k
                   PROVE  f[i] = IF i = 1 THEN seqs[i] ELSE g[i - 1] \o seqs[i]
        OBVIOUS
      <4>1. f[i] = f[i - 1] \o seqs[i] /\ f[0] = <<>> /\ seqs[i] \in Seq(X)
        BY <1>1, <1>5 DEF Joins
      <4>2. CASE i = 1
        <5>1. f[1 - 1] = <<>> /\ <<>> \o seqs[i] = seqs[i]
          BY <4>1
        <5> QED BY <4>1, <4>2, <5>1
      <4>3. CASE i # 1
        <5>1. i - 1 \in 1..k
          BY <1>1, <4>3
        <5> QED BY <4>1, <4>3, <5>1
      <4> QED BY <4>2, <4>3
    <3>2. Flattens(g)
      BY <3>1
    <3> QED BY <3>2
  <2>3. Flattens(h)
    BY <2>2, Zenon
  <2> HIDE DEF h
  <2>4. \A i \in 1..k : h[i] = IF i = 1 THEN seqs[i] ELSE h[i - 1] \o seqs[i]
    BY <2>3
  <2> HIDE DEF Flattens
  <2> DEFINE good == {n \in 0..k : n = 0 \/ h[n] = f[n]}
  <2>5. 0 \in good
    BY <1>1
  <2>6. ASSUME NEW n \in 1..k, n - 1 \in good
        PROVE  n \in good
    <3>1. f[n] = f[n - 1] \o seqs[n] /\ f[0] = <<>>
      BY <1>5 DEF Joins
    <3>0. n \in 0..k /\ n # 0 /\ seqs[n] \in Seq(X)
      BY <1>1
    <3>2. h[n] = IF n = 1 THEN seqs[n] ELSE h[n - 1] \o seqs[n]
      BY <2>4
    <3>3. CASE n = 1
      <4>1. f[1 - 1] = <<>> /\ <<>> \o seqs[n] = seqs[n]
        BY <3>0, <3>1
      <4>2. h[n] = f[n]
        BY <3>1, <3>2, <3>3, <4>1
      <4> QED BY <3>0, <4>2
    <3>4. CASE n # 1
      <4>1. n - 1 # 0 /\ (n - 1 = 0 \/ h[n - 1] = f[n - 1])
        BY <1>1, <2>6, <3>4
      <4> QED BY <3>0, <3>1, <3>2, <3>4, <4>1
    <3> QED BY <3>3, <3>4
  <2> HIDE DEF good
  <2>7. \A n \in 0..k : n \in good
    BY <1>1, <2>5, <2>6, AllUpTo
  <2>8. h[k] = f[k]
    BY <1>1, <1>7, <2>7 DEF good
  <2> QED BY <1>4, <1>5, <2>1, <2>8
<1> QED BY <1>6, <1>7

\* One more list.
LEMMA FlattenMore ==
    ASSUME NEW X, NEW seqs \in Seq(Seq(X)), NEW n \in 1..Len(seqs)
    PROVE  /\ FlattenSeq([i \in 1..n |-> seqs[i]]) = FlattenSeq([i \in 1..(n - 1) |-> seqs[i]]) \o seqs[n]
           /\ FlattenSeq([i \in 1..n |-> seqs[i]]) \in Seq(X)
           /\ FlattenSeq([i \in 1..(n - 1) |-> seqs[i]]) \in Seq(X)
<1> DEFINE t == [i \in 1..n |-> seqs[i]]
           u == [i \in 1..(n - 1) |-> seqs[i]]
<1>1. n \in Nat /\ n - 1 \in Nat /\ n - 1 \in 0..n
  OBVIOUS
<1>2. t \in Seq(Seq(X)) /\ Len(t) = n /\ u \in Seq(Seq(X)) /\ Len(u) = n - 1
  <2>1. \A i \in 1..n : seqs[i] \in Seq(X)
    OBVIOUS
  <2> QED BY <1>1, <2>1
<1>3. t[n] = seqs[n] /\ \A i \in 1..(n - 1) : t[i] = u[i]
  OBVIOUS
<1> HIDE DEF t, u
<1>4. PICK f \in [0..n -> Seq(X)] : Joins(f, t) /\ FlattenSeq(t) = f[n]
  BY <1>2, FlattenIs
<1>5. PICK g \in [0..(n - 1) -> Seq(X)] : Joins(g, u) /\ FlattenSeq(u) = g[n - 1]
  BY <1>2, FlattenIs
<1> DEFINE good == {m \in 0..(n - 1) : f[m] = g[m]}
<1>6. 0 \in good
  BY <1>1, <1>4, <1>5 DEF Joins
<1>7. ASSUME NEW m \in 1..(n - 1), m - 1 \in good
      PROVE  m \in good
  <2>1. m \in 1..n /\ f[m - 1] = g[m - 1]
    BY <1>7
  <2>2. f[m] = f[m - 1] \o t[m] /\ g[m] = g[m - 1] \o u[m]
    BY <1>2, <1>4, <1>5, <2>1 DEF Joins
  <2>3. m \in 0..(n - 1) /\ t[m] = u[m]
    BY <1>3
  <2>4. f[m] = g[m]
    BY <2>1, <2>2, <2>3
  <2> QED BY <2>3, <2>4
<1> HIDE DEF good
<1>8. \A m \in 0..(n - 1) : m \in good
  BY <1>1, <1>6, <1>7, AllUpTo
<1>9. f[n - 1] = g[n - 1]
  BY <1>1, <1>8 DEF good
<1>10. f[n] = f[n - 1] \o t[n]
  <2>1. n \in 1..Len(t)
    BY <1>1, <1>2
  <2> QED BY <1>4, <2>1, Zenon DEF Joins
<1>11. f[n] \in Seq(X) /\ g[n - 1] \in Seq(X)
  BY <1>1, <1>4, <1>5
<1>12. FlattenSeq(t) = FlattenSeq(u) \o seqs[n] /\ FlattenSeq(t) \in Seq(X) /\ FlattenSeq(u) \in Seq(X)
  BY <1>3, <1>4, <1>5, <1>9, <1>10, <1>11
<1> QED BY <1>12 DEF t, u

\* No list at all.
LEMMA FlattenNone == FlattenSeq([i \in 1..0 |-> <<>>]) = <<>>
<1>1. [i \in 1..0 |-> <<>>] = <<>>
  OBVIOUS
<1> QED BY <1>1 DEF FlattenSeq

-----------------------------------------------------------------------------
(* Bytes.                                                                  *)

\* The bytes, those of the frame of an answer among them.
Byte == STRING \cup {"cr", "lf", "0", "x", "200", "500"} \cup {Digits[n] : n \in 1..9}

\* Every byte that a frame is made of is one of them.
LEMMA BytesAre ==
    /\ "cr" \in Byte /\ "lf" \in Byte /\ "0" \in Byte /\ "x" \in Byte /\ "200" \in Byte /\ "500" \in Byte
    /\ \A n \in 1..9 : Digits[n] \in Byte
    /\ STRING \subseteq Byte
<1>1. {"cr", "lf", "0", "x", "200", "500"} \subseteq Byte /\ {Digits[n] : n \in 1..9} \subseteq Byte /\ STRING \subseteq Byte
  BY Zenon DEF Byte
<1> QED BY <1>1, Zenon

\* Two and more bytes.
LEMMA SmallLists ==
    ASSUME NEW X, NEW b \in X, NEW c \in X
    PROVE  /\ <<b>> \in Seq(X) /\ Len(<<b>>) = 1 /\ <<b>>[1] = b
           /\ <<b, c>> \in Seq(X) /\ Len(<<b, c>>) = 2 /\ <<b, c>>[1] = b /\ <<b, c>>[2] = c
OBVIOUS

\* Lists after one another, element by element.
LEMMA ConcatIs ==
    ASSUME NEW X, NEW s \in Seq(X), NEW t \in Seq(X)
    PROVE  /\ s \o t \in Seq(X) /\ Len(s \o t) = Len(s) + Len(t)
           /\ \A i \in 1..Len(s) : (s \o t)[i] = s[i]
           /\ \A i \in 1..Len(t) : (s \o t)[Len(s) + i] = t[i]
OBVIOUS

\* The two bytes of a line end.
LEMMA LineEndIs == LineEnd \in Seq(Byte) /\ Len(LineEnd) = 2 /\ LineEnd[1] = "cr" /\ LineEnd[2] = "lf"
BY BytesAre, SmallLists DEF LineEnd

\* The four bytes that end a head.
LEMMA HeadEndIs ==
    /\ HeadEnd \in Seq(Byte) /\ Len(HeadEnd) = 4
    /\ HeadEnd[1] = "cr" /\ HeadEnd[2] = "lf" /\ HeadEnd[3] = "cr" /\ HeadEnd[4] = "lf"
<1>1. LineEnd \in Seq(Byte)
  BY LineEndIs
<1>2. /\ HeadEnd \in Seq(Byte) /\ Len(HeadEnd) = Len(LineEnd) + Len(LineEnd)
      /\ \A i \in 1..Len(LineEnd) : HeadEnd[i] = LineEnd[i]
      /\ \A i \in 1..Len(LineEnd) : HeadEnd[Len(LineEnd) + i] = LineEnd[i]
  BY <1>1, ConcatIs DEF HeadEnd
<1> QED BY <1>2, LineEndIs

\* A piece of a sequence.
LEMMA Piece ==
    ASSUME NEW w \in Seq(Byte), NEW p \in Nat, NEW m \in Nat, p <= m, m <= Len(w)
    PROVE  /\ SubSeq(w, p + 1, m) \in Seq(Byte) /\ Len(SubSeq(w, p + 1, m)) = m - p
           /\ \A j \in 1..(m - p) : SubSeq(w, p + 1, m)[j] = w[p + j]
OBVIOUS

\* Sequences with the same bytes are the same.
LEMMA SameBytes ==
    ASSUME NEW s \in Seq(Byte), NEW t \in Seq(Byte), Len(s) = Len(t), \A i \in 1..Len(s) : s[i] = t[i]
    PROVE  s = t
OBVIOUS

\* What it means that something stands at a place.
LEMMA StandsAt ==
    ASSUME NEW s \in Seq(Byte), NEW what \in Seq(Byte), NEW i \in 1..Len(s)
    PROVE  IsPrefix(what, Dropped(s, i - 1))
             <=> (i - 1 + Len(what) <= Len(s) /\ \A j \in 1..Len(what) : s[i - 1 + j] = what[j])
<1> DEFINE p == i - 1
           t == Dropped(s, p)
           n == Len(what)
           c == SubSeq(t, 1, n)
<1>1. p \in Nat /\ n \in Nat /\ Len(s) \in Nat /\ p <= Len(s)
  OBVIOUS
<1>2. t \in Seq(Byte) /\ Len(t) = Len(s) - p /\ \A j \in 1..(Len(s) - p) : t[j] = s[p + j]
  BY <1>1, Piece DEF Dropped
<1>3. SubSeq(what, 1, n) = what
  OBVIOUS
<1>4. IsPrefix(what, t) <=> n <= Len(s) - p /\ what = c
  BY <1>2, <1>3 DEF IsPrefix
<1>5. n <= Len(s) - p => c \in Seq(Byte) /\ Len(c) = n /\ \A j \in 1..n : c[j] = s[p + j]
  <2> SUFFICES ASSUME n <= Len(s) - p
               PROVE  c \in Seq(Byte) /\ Len(c) = n /\ \A j \in 1..n : c[j] = s[p + j]
    OBVIOUS
  <2> HIDE DEF p, t, n
  <2>1. t \in Seq(Byte) /\ n \in Nat /\ n <= Len(t)
    BY <1>1, <1>2
  <2>2. c \in Seq(Byte) /\ Len(c) = n /\ \A j \in 1..n : c[j] = t[j]
    BY <2>1
  <2>3. \A j \in 1..n : j \in 1..(Len(s) - p)
    BY <1>1
  <2> HIDE DEF c
  <2> QED BY <1>2, <2>2, <2>3
<1> HIDE DEF p, t, n, c
<1>6. n <= Len(s) - p => (what = c <=> \A j \in 1..n : s[p + j] = what[j])
  <2> SUFFICES ASSUME n <= Len(s) - p
               PROVE  what = c <=> \A j \in 1..n : s[p + j] = what[j]
    OBVIOUS
  <2>1. c \in Seq(Byte) /\ Len(c) = n /\ \A j \in 1..n : c[j] = s[p + j]
    BY <1>5
  <2>2. ASSUME \A j \in 1..n : s[p + j] = what[j]
        PROVE  what = c
    <3>1. Len(what) = Len(c) /\ \A j \in 1..Len(what) : what[j] = c[j]
      BY <2>1, <2>2 DEF n
    <3> QED BY <2>1, <3>1, SameBytes
  <2> QED BY <2>1, <2>2
<1>7. n <= Len(s) - p <=> p + n <= Len(s)
  BY <1>1
<1>8. IsPrefix(what, t) <=> (p + n <= Len(s) /\ \A j \in 1..n : s[p + j] = what[j])
  BY <1>4, <1>6, <1>7
<1> QED BY <1>8 DEF p, t, n

\* FindIn is the first place.
LEMMA FoundAt ==
    ASSUME NEW s \in Seq(Byte), NEW what, NEW n \in 1..Len(s), IsPrefix(what, Dropped(s, n - 1)),
           \A i \in 1..Len(s) : i < n => ~IsPrefix(what, Dropped(s, i - 1))
    PROVE  FindIn(s, what) = n
<1> DEFINE at == {i \in DOMAIN s : IsPrefix(what, Dropped(s, i - 1))}
           c == CHOOSE i \in at : \A j \in at : i <= j
<1>1. at \subseteq 1..Len(s) /\ n \in at /\ \A j \in at : n <= j
  OBVIOUS
<1>2. FindIn(s, what) = c
  BY <1>1, Zenon DEF FindIn
<1> HIDE DEF at
<1>3. c \in at /\ \A j \in at : c <= j
  BY <1>1, Zenon
<1> HIDE DEF c
<1>4. c = n
  BY <1>1, <1>3
<1> QED BY <1>2, <1>4

\* There is none.
LEMMA FoundNowhere ==
    ASSUME NEW s \in Seq(Byte), NEW what, \A i \in 1..Len(s) : ~IsPrefix(what, Dropped(s, i - 1))
    PROVE  FindIn(s, what) = 0
<1>1. {i \in DOMAIN s : IsPrefix(what, Dropped(s, i - 1))} = {}
  OBVIOUS
<1> QED BY <1>1, Zenon DEF FindIn

\* Otherwise it stands there.
LEMMA FoundIs ==
    ASSUME NEW s \in Seq(Byte), NEW what, FindIn(s, what) # 0
    PROVE  FindIn(s, what) \in 1..Len(s) /\ IsPrefix(what, Dropped(s, FindIn(s, what) - 1))
<1> DEFINE at == {i \in DOMAIN s : IsPrefix(what, Dropped(s, i - 1))}
           c == CHOOSE i \in at : \A j \in at : i <= j
<1>1. at # {} /\ FindIn(s, what) = c
  BY Zenon DEF FindIn
<1>2. at \in SUBSET Nat
  OBVIOUS
<1> HIDE DEF at
<1>3. \E i \in at : \A j \in at : i <= j
  BY <1>1, <1>2, LeastExists
<1>4. c \in at
  BY <1>3, Zenon
<1> HIDE DEF c
<1>5. c \in 1..Len(s) /\ IsPrefix(what, Dropped(s, c - 1))
  BY <1>4 DEF at
<1> QED BY <1>1, <1>5

\* A line end.
LEMMA LineEndAt ==
    ASSUME NEW s \in Seq(Byte), NEW i \in 1..Len(s)
    PROVE  IsPrefix(LineEnd, Dropped(s, i - 1)) <=> (i + 1 <= Len(s) /\ s[i] = "cr" /\ s[i + 1] = "lf")
<1>1. LineEnd \in Seq(Byte) /\ Len(LineEnd) = 2 /\ LineEnd[1] = "cr" /\ LineEnd[2] = "lf"
  BY LineEndIs
<1>2. IsPrefix(LineEnd, Dropped(s, i - 1))
        <=> (i - 1 + Len(LineEnd) <= Len(s) /\ \A j \in 1..Len(LineEnd) : s[i - 1 + j] = LineEnd[j])
  BY <1>1, StandsAt
<1>3. i - 1 + 1 = i /\ i - 1 + 2 = i + 1 /\ 1..2 = {1, 2}
  OBVIOUS
<1> QED BY <1>1, <1>2, <1>3

\* A line that begins with a byte, and its end behind it.
LEMMA ShortLine ==
    ASSUME NEW s \in Seq(Byte), Len(s) >= 1 => s[1] # "cr", Len(s) >= 2 => s[2] = "cr", Len(s) >= 3 => s[3] = "lf"
    PROVE  /\ Len(s) < 3 => FindIn(s, LineEnd) = 0
           /\ Len(s) >= 3 => FindIn(s, LineEnd) = 2
<1>1. ASSUME Len(s) < 3 PROVE FindIn(s, LineEnd) = 0
  <2>1. \A i \in 1..Len(s) : ~IsPrefix(LineEnd, Dropped(s, i - 1))
    <3> SUFFICES ASSUME NEW i \in 1..Len(s)
                 PROVE  ~(i + 1 <= Len(s) /\ s[i] = "cr" /\ s[i + 1] = "lf")
      BY LineEndAt
    <3>1. i + 1 <= Len(s) => i = 1 /\ Len(s) >= 1
      BY <1>1
    <3> QED BY <3>1
  <2> QED BY <2>1, FoundNowhere
<1>2. ASSUME Len(s) >= 3 PROVE FindIn(s, LineEnd) = 2
  <2>1. 2 \in 1..Len(s) /\ 1 \in 1..Len(s) /\ 2 + 1 <= Len(s) /\ s[2] = "cr" /\ s[2 + 1] = "lf" /\ s[1] # "cr"
    BY <1>2
  <2>2. IsPrefix(LineEnd, Dropped(s, 2 - 1))
    BY <2>1, LineEndAt
  <2>3. \A i \in 1..Len(s) : i < 2 => ~IsPrefix(LineEnd, Dropped(s, i - 1))
    <3> SUFFICES ASSUME NEW i \in 1..Len(s), i < 2
                 PROVE  ~(i + 1 <= Len(s) /\ s[i] = "cr" /\ s[i + 1] = "lf")
      BY LineEndAt
    <3>1. i = 1
      OBVIOUS
    <3> QED BY <2>1, <3>1
  <2> QED BY <2>1, <2>2, <2>3, FoundAt
<1>3. Len(s) \in Nat
  OBVIOUS
<1> QED BY <1>1, <1>2

\* The head of an answer: five bytes.
LEMMA HeadSeen ==
    ASSUME NEW s \in Seq(Byte), Len(s) >= 1 => s[1] # "cr", Len(s) >= 2 => s[2] = "cr", Len(s) >= 3 => s[3] = "lf",
           Len(s) >= 4 => s[4] = "cr", Len(s) >= 5 => s[5] = "lf"
    PROVE  /\ Len(s) < 5 => FindIn(s, HeadEnd) = 0
           /\ Len(s) >= 5 => FindIn(s, HeadEnd) = 2
<1>1. /\ HeadEnd \in Seq(Byte) /\ Len(HeadEnd) = 4
      /\ HeadEnd[1] = "cr" /\ HeadEnd[2] = "lf" /\ HeadEnd[3] = "cr" /\ HeadEnd[4] = "lf"
  BY HeadEndIs
<1>2. ASSUME NEW i \in 1..Len(s)
      PROVE  IsPrefix(HeadEnd, Dropped(s, i - 1))
               <=> (i - 1 + 4 <= Len(s) /\ \A j \in 1..4 : s[i - 1 + j] = HeadEnd[j])
  BY <1>1, StandsAt
<1>3. ASSUME Len(s) < 5 PROVE FindIn(s, HeadEnd) = 0
  <2>1. \A i \in 1..Len(s) : ~IsPrefix(HeadEnd, Dropped(s, i - 1))
    <3> SUFFICES ASSUME NEW i \in 1..Len(s), i - 1 + 4 <= Len(s), \A j \in 1..4 : s[i - 1 + j] = HeadEnd[j]
                 PROVE  FALSE
      BY <1>2
    <3>1. i = 1 /\ 1 \in 1..4 /\ i - 1 + 1 = 1
      BY <1>3
    <3>2. s[1] = "cr"
      BY <1>1, <3>1
    <3> QED BY <3>2
  <2> QED BY <2>1, FoundNowhere
<1>4. ASSUME Len(s) >= 5 PROVE FindIn(s, HeadEnd) = 2
  <2>1. 2 \in 1..Len(s) /\ 1 \in 1..Len(s) /\ 2 - 1 + 4 <= Len(s) /\ s[1] # "cr"
    BY <1>4
  <2>2. \A j \in 1..4 : s[2 - 1 + j] = HeadEnd[j]
    <3> SUFFICES ASSUME NEW j \in 1..4 PROVE s[2 - 1 + j] = HeadEnd[j]
      OBVIOUS
    <3>1. CASE j = 1
      BY <1>1, <1>4, <3>1
    <3>2. CASE j = 2
      BY <1>1, <1>4, <3>2
    <3>3. CASE j = 3
      BY <1>1, <1>4, <3>3
    <3>4. CASE j = 4
      BY <1>1, <1>4, <3>4
    <3> QED BY <3>1, <3>2, <3>3, <3>4
  <2>3. IsPrefix(HeadEnd, Dropped(s, 2 - 1))
    BY <1>2, <2>1, <2>2
  <2>4. \A i \in 1..Len(s) : i < 2 => ~IsPrefix(HeadEnd, Dropped(s, i - 1))
    <3> SUFFICES ASSUME NEW i \in 1..Len(s), i < 2, \A j \in 1..4 : s[i - 1 + j] = HeadEnd[j]
                 PROVE  FALSE
      BY <1>2
    <3>1. i = 1 /\ 1 \in 1..4 /\ i - 1 + 1 = 1
      OBVIOUS
    <3>2. s[1] = "cr"
      BY <1>1, <3>1
    <3> QED BY <2>1, <3>2
  <2> QED BY <2>1, <2>3, <2>4, FoundAt
<1>5. Len(s) \in Nat
  OBVIOUS
<1> QED BY <1>3, <1>4, <1>5

\* The digits are nine different bytes.
LEMMA DigitsAre ==
    ASSUME NEW n \in 1..9
    PROVE  Digits[n] \in Byte /\ Digits[n] \notin {"cr", "0"} /\ SizeOf(Digits[n]) = n
<1>1. DOMAIN Digits = 1..9
  BY DEF Digits
<1>2. Digits[n] \in Byte /\ Digits[n] \notin {"cr", "0"}
  <2>1. Digits[n] \notin {"cr", "0"}
    BY DEF Digits
  <2> QED BY <2>1, BytesAre
<1>3. \A m \in 1..9 : Digits[m] = Digits[n] => m = n
  BY DEF Digits
<1>4. Digits[n] \in ToSet(Digits)
  BY <1>1 DEF ToSet
<1> DEFINE c == CHOOSE m \in DOMAIN Digits : Digits[m] = Digits[n]
<1>5. c \in DOMAIN Digits /\ Digits[c] = Digits[n]
  BY <1>1, Zenon
<1>6. SizeOf(Digits[n]) = c
  BY <1>4, Zenon DEF SizeOf
<1> HIDE DEF c
<1>7. c = n
  BY <1>1, <1>3, <1>5
<1> QED BY <1>2, <1>6, <1>7

\* Other bytes are no size.
LEMMA NoDigits == SizeOf("x") = 0
<1>1. DOMAIN Digits = 1..9 /\ \A n \in 1..9 : Digits[n] # "x"
  BY DEF Digits
<1>2. "x" \notin ToSet(Digits)
  BY <1>1 DEF ToSet
<1> QED BY <1>2 DEF SizeOf

\* The bytes of a chunk.
LEMMA ChunkIs ==
    ASSUME NEW part, part.data \in Seq(Byte), Len(part.data) \in 1..9
    PROVE  LET cb == ChunkBytes(part)
               n == Len(part.data)
           IN /\ cb \in Seq(Byte) /\ Len(cb) = n + 5
              /\ cb[1] = Digits[n] /\ cb[2] = "cr" /\ cb[3] = "lf" /\ cb[n + 4] = "cr" /\ cb[n + 5] = "lf"
              /\ \A j \in 1..n : cb[j + 3] = part.data[j]
<1> DEFINE d == part.data
           n == Len(d)
           size == <<Digits[n]>>
           u == size \o LineEnd
           v == u \o d
           cb == v \o LineEnd
<1>1. d \in Seq(Byte) /\ n \in 1..9 /\ n = Len(d)
  OBVIOUS
<1>2. size \in Seq(Byte) /\ Len(size) = 1 /\ size[1] = Digits[n]
  BY DigitsAre, SmallLists
<1>3. ChunkBytes(part) = cb
  BY DEF ChunkBytes
<1> HIDE DEF size, n, d
<1>0. LineEnd \in Seq(Byte) /\ size \in Seq(Byte)
  BY <1>2, LineEndIs
<1>4. /\ u \in Seq(Byte) /\ Len(u) = Len(size) + Len(LineEnd)
      /\ (\A i \in 1..Len(size) : u[i] = size[i]) /\ \A i \in 1..Len(LineEnd) : u[Len(size) + i] = LineEnd[i]
  BY <1>0, ConcatIs
<1> HIDE DEF u
<1>5. u \in Seq(Byte) /\ Len(u) = 3 /\ u[1] = Digits[n] /\ u[2] = "cr" /\ u[3] = "lf"
  BY <1>2, <1>4, LineEndIs
<1>6. /\ v \in Seq(Byte) /\ Len(v) = Len(u) + Len(d)
      /\ (\A i \in 1..Len(u) : v[i] = u[i]) /\ \A i \in 1..Len(d) : v[Len(u) + i] = d[i]
  <2>1. u \in Seq(Byte) /\ d \in Seq(Byte)
    BY <1>1, <1>5
  <2> QED BY <2>1, ConcatIs
<1> HIDE DEF v
<1>61. v \in Seq(Byte) /\ Len(v) = 3 + n /\ (\A i \in 1..3 : v[i] = u[i]) /\ \A i \in 1..n : v[3 + i] = d[i]
  BY <1>1, <1>5, <1>6
<1>62. /\ cb \in Seq(Byte) /\ Len(cb) = Len(v) + Len(LineEnd)
       /\ (\A i \in 1..Len(v) : cb[i] = v[i]) /\ \A i \in 1..Len(LineEnd) : cb[Len(v) + i] = LineEnd[i]
  <2>1. v \in Seq(Byte)
    BY <1>6
  <2> QED BY <1>0, <2>1, ConcatIs
<1> HIDE DEF cb
<1>7. /\ cb \in Seq(Byte) /\ Len(cb) = (3 + n) + 2
      /\ (\A i \in 1..(3 + n) : cb[i] = v[i]) /\ \A i \in 1..2 : cb[(3 + n) + i] = LineEnd[i]
  BY <1>61, <1>62, LineEndIs
<1>8. cb[n + 4] = "cr" /\ cb[n + 5] = "lf"
  <2>1. cb[(3 + n) + 1] = LineEnd[1] /\ cb[(3 + n) + 2] = LineEnd[2]
    BY <1>7
  <2>2. (3 + n) + 1 = n + 4 /\ (3 + n) + 2 = n + 5
    BY <1>1
  <2> QED BY <2>1, <2>2, LineEndIs
<1>9. cb[1] = Digits[n] /\ cb[2] = "cr" /\ cb[3] = "lf" /\ \A j \in 1..n : cb[j + 3] = d[j]
  <2>1. cb[1] = v[1] /\ cb[2] = v[2] /\ cb[3] = v[3] /\ \A j \in 1..n : cb[j + 3] = v[3 + j]
    BY <1>1, <1>7
  <2> QED BY <1>5, <1>61, <2>1
<1>10. Len(cb) = n + 5
  BY <1>1, <1>7
<1> QED BY <1>3, <1>7, <1>8, <1>9, <1>10 DEF n, d

-----------------------------------------------------------------------------
(* What is sent.                                                           *)

\* The form of an answer.
LEMMA AnswerIs ==
    ASSUME NEW w \in Answers
    PROVE  /\ w.good \in BOOLEAN /\ w.closes \in BOOLEAN /\ w.coding \in {"chunked", "length", "open"}
           /\ w.ends \in {"last", "garbage", "never"} /\ w.sent \in 0..Len(Wire(w))
           /\ Len(w.parts) \in Nat /\ DOMAIN w.parts = 1..Len(w.parts)
           /\ \A i \in 1..Len(w.parts) : w.parts[i].data \in Seq(Byte) /\ w.parts[i].doc \in Seq(Byte)
           /\ w.coding = "chunked" => MadeInChunks(w) /\ \A i \in 1..Len(w.parts) : Len(w.parts[i].data) \in 1..9
           /\ w.coding # "chunked" => MadeInOnePiece(w) /\ Len(w.parts) = 1
<1>1. /\ w.good \in BOOLEAN /\ w.closes \in BOOLEAN /\ w.coding \in {"chunked", "length", "open"}
      /\ w.ends \in {"last", "garbage", "never"} /\ w.sent \in 0..Len(Wire(w))
      /\ w.parts \in Seq([data : Seq(STRING), doc : Seq(STRING)])
      /\ w.coding = "chunked" => MadeInChunks(w)
      /\ w.coding # "chunked" => MadeInOnePiece(w)
  BY ControllerAssumption, Zenon
<1>2. Seq(STRING) \subseteq Seq(Byte)
  <2>1. STRING \subseteq Byte
    BY BytesAre
  <2> HIDE DEF Byte
  <2> QED BY <2>1, SeqMonotonic
<1> DEFINE Strings == Seq(STRING)
<1> HIDE DEF Strings
<1>3. w.parts \in Seq([data : Strings, doc : Strings])
  BY <1>1 DEF Strings
<1>4. /\ Len(w.parts) \in Nat /\ DOMAIN w.parts = 1..Len(w.parts)
      /\ \A i \in 1..Len(w.parts) : w.parts[i].data \in Strings /\ w.parts[i].doc \in Strings
  <2> DEFINE Parts == [data : Strings, doc : Strings]
  <2>1. \A r \in Parts : r.data \in Strings /\ r.doc \in Strings
    OBVIOUS
  <2>2. w.parts \in Seq(Parts)
    BY <1>3
  <2> HIDE DEF Parts
  <2>3. /\ Len(w.parts) \in Nat /\ DOMAIN w.parts = 1..Len(w.parts)
        /\ \A i \in 1..Len(w.parts) : w.parts[i] \in Parts
    BY <2>2
  <2> QED BY <2>1, <2>3
<1>5. Strings \subseteq Seq(Byte)
  BY <1>2 DEF Strings
<1>6. \A i \in 1..Len(w.parts) : w.parts[i].data \in Seq(Byte) /\ w.parts[i].doc \in Seq(Byte)
  BY <1>4, <1>5
<1>7. w.coding = "chunked" => \A i \in 1..Len(w.parts) : Len(w.parts[i].data) \in 1..9
  <2>1. DOMAIN Digits = 1..9
    BY DEF Digits
  <2> QED BY <1>1, <1>4, <2>1, Zenon DEF MadeInChunks
<1>8. w.coding # "chunked" => Len(w.parts) = 1
  BY <1>1 DEF MadeInOnePiece
<1> QED BY <1>1, <1>4, <1>6, <1>7, <1>8

\* The chunks, one by one.
LEMMA ChunksGrow ==
    ASSUME NEW w \in Answers, w.coding = "chunked", NEW n \in 1..Len(w.parts)
    PROVE  /\ Chunks(w, n) = Chunks(w, n - 1) \o ChunkBytes(w.parts[n])
           /\ Chunks(w, n) \in Seq(Byte) /\ Chunks(w, n - 1) \in Seq(Byte)
           /\ ChunkBytes(w.parts[n]) \in Seq(Byte) /\ Len(ChunkBytes(w.parts[n])) = Len(w.parts[n].data) + 5
           /\ Len(w.parts[n].data) \in 1..9
<1> DEFINE k == Len(w.parts)
           all == [i \in 1..k |-> ChunkBytes(w.parts[i])]
<1>1. k \in Nat /\ \A i \in 1..k : w.parts[i].data \in Seq(Byte) /\ Len(w.parts[i].data) \in 1..9
  BY AnswerIs
<1>2. \A i \in 1..k : ChunkBytes(w.parts[i]) \in Seq(Byte) /\ Len(ChunkBytes(w.parts[i])) = Len(w.parts[i].data) + 5
  BY <1>1, ChunkIs
<1> HIDE DEF k
<1>3. all \in Seq(Seq(Byte)) /\ Len(all) = k /\ \A i \in 1..k : all[i] = ChunkBytes(w.parts[i])
  BY <1>1, <1>2
<1>4. n \in 1..k
  BY DEF k
<1>5. [i \in 1..n |-> ChunkBytes(w.parts[i])] = [i \in 1..n |-> all[i]]
  BY <1>1, <1>4
<1>6. [i \in 1..(n - 1) |-> ChunkBytes(w.parts[i])] = [i \in 1..(n - 1) |-> all[i]]
  BY <1>1, <1>4
<1> HIDE DEF all
<1>7. /\ FlattenSeq([i \in 1..n |-> all[i]]) = FlattenSeq([i \in 1..(n - 1) |-> all[i]]) \o all[n]
      /\ FlattenSeq([i \in 1..n |-> all[i]]) \in Seq(Byte)
      /\ FlattenSeq([i \in 1..(n - 1) |-> all[i]]) \in Seq(Byte)
  <2>1. n \in 1..Len(all)
    BY <1>3, <1>4
  <2> QED BY <1>3, <2>1, FlattenMore
<1>8. Chunks(w, n) = FlattenSeq([i \in 1..n |-> all[i]]) /\ Chunks(w, n - 1) = FlattenSeq([i \in 1..(n - 1) |-> all[i]])
  BY <1>5, <1>6, Zenon DEF Chunks
<1>9. all[n] = ChunkBytes(w.parts[n])
  BY <1>3, <1>4
<1> QED BY <1>1, <1>2, <1>4, <1>7, <1>8, <1>9

\* No chunk yet.
LEMMA NoChunks ==
    ASSUME NEW w
    PROVE  Chunks(w, 0) = <<>> /\ Len(Chunks(w, 0)) = 0 /\ Chunks(w, 0) \in Seq(Byte)
<1>1. [i \in 1..0 |-> ChunkBytes(w.parts[i])] = <<>>
  OBVIOUS
<1>2. Chunks(w, 0) = <<>>
  <2>1. Chunks(w, 0) = FlattenSeq(<<>>)
    BY <1>1, Zenon DEF Chunks
  <2>2. FlattenSeq(<<>>) = <<>>
    BY DEF FlattenSeq
  <2> QED BY <2>1, <2>2
<1>3. <<>> \in Seq(Byte) /\ Len(<<>>) = 0
  OBVIOUS
<1> QED BY <1>2, <1>3, Zenon

\* All of them are lists of bytes.
LEMMA ChunksAre ==
    ASSUME NEW w \in Answers, w.coding = "chunked", NEW n \in 0..Len(w.parts)
    PROVE  Chunks(w, n) \in Seq(Byte) /\ Len(Chunks(w, n)) \in Nat
<1>1. CASE n = 0
  BY <1>1, NoChunks
<1>2. CASE n # 0
  <2>1. n \in 1..Len(w.parts)
    BY <1>2, AnswerIs
  <2>2. Chunks(w, n) \in Seq(Byte)
    BY <2>1, ChunksGrow
  <2> QED BY <2>2
<1> QED BY <1>1, <1>2

\* The first chunks stand in front of more of them.
LEMMA ChunksStand ==
    ASSUME NEW w \in Answers, w.coding = "chunked", NEW n \in 0..Len(w.parts), NEW m \in n..Len(w.parts)
    PROVE  /\ Len(Chunks(w, n)) + 6 * (m - n) <= Len(Chunks(w, m))
           /\ \A j \in 1..Len(Chunks(w, n)) : Chunks(w, m)[j] = Chunks(w, n)[j]
<1> DEFINE k == Len(w.parts)
           Good(i) == /\ Len(Chunks(w, n)) + 6 * (i - n) <= Len(Chunks(w, i))
                      /\ \A j \in 1..Len(Chunks(w, n)) : Chunks(w, i)[j] = Chunks(w, n)[j]
           good == {i \in 0..k : n <= i => Good(i)}
<1>1. k \in Nat /\ n \in Nat /\ Len(Chunks(w, n)) \in Nat
  BY AnswerIs, ChunksAre
<1>2. Good(n)
  BY <1>1
<1>3. 0 \in good
  <2>1. n <= 0 => n = 0
    BY <1>1
  <2>2. n = 0 => Good(0)
    BY <1>2
  <2> HIDE DEF Good
  <2> QED BY <1>1, <2>1, <2>2
<1>4. ASSUME NEW i \in 1..k, i - 1 \in good
      PROVE  i \in good
  <2>1. i \in 0..k
    BY <1>1
  <2>2. CASE n <= i - 1
    <3> DEFINE s == Chunks(w, i - 1)
               t == ChunkBytes(w.parts[i])
               l == Len(Chunks(w, n))
    <3>1. Good(i - 1)
      BY <1>4, <2>2
    <3>2. Chunks(w, i) = s \o t /\ s \in Seq(Byte) /\ t \in Seq(Byte) /\ Len(t) >= 6
      <4>1. /\ Chunks(w, i) = s \o t /\ s \in Seq(Byte) /\ t \in Seq(Byte)
            /\ Len(t) = Len(w.parts[i].data) + 5 /\ Len(w.parts[i].data) \in 1..9
        BY ChunksGrow, Zenon
      <4>2. \A x \in 1..9 : x + 5 >= 6
        OBVIOUS
      <4>3. Len(ChunkBytes(w.parts[i])) >= 6
        BY <4>1, <4>2, Zenon
      <4> QED BY <4>1, <4>3, Zenon
    <3>3. Len(s \o t) = Len(s) + Len(t) /\ \A j \in 1..Len(s) : (s \o t)[j] = s[j]
      BY <3>2, ConcatIs
    <3>4. l + 6 * ((i - 1) - n) <= Len(s) /\ \A j \in 1..l : s[j] = Chunks(w, n)[j]
      BY <3>1
    <3>5. Len(s) \in Nat /\ Len(t) \in Nat /\ l \in Nat
      BY <1>1, <3>2
    <3> HIDE DEF s, t, l
    <3>6. l + 6 * (i - n) <= Len(s) + Len(t)
      BY <1>1, <3>2, <3>4, <3>5
    <3>7. l <= Len(s)
      BY <1>1, <2>2, <3>4, <3>5
    <3>8. \A j \in 1..l : (s \o t)[j] = Chunks(w, n)[j]
      BY <3>3, <3>4, <3>5, <3>7
    <3>9. Good(i)
      BY <3>2, <3>3, <3>6, <3>8 DEF l
    <3> HIDE DEF Good
    <3> QED BY <2>1, <3>9
  <2>3. CASE ~(n <= i - 1)
    <3>1. n <= i => n = i
      BY <1>1, <2>3
    <3> HIDE DEF Good
    <3> QED BY <1>2, <2>1, <3>1
  <2> HIDE DEF good
  <2> QED BY <2>2, <2>3
<1> HIDE DEF good
<1>5. \A i \in 0..k : i \in good
  BY <1>1, <1>3, <1>4, AllUpTo
<1>6. m \in 0..k /\ n <= m
  BY <1>1
<1> QED BY <1>5, <1>6 DEF good

\* The end of the chunks.
LEMMA EndIs ==
    ASSUME NEW ends \in {"last", "garbage", "never"}
    PROVE  LET t == AfterChunks(ends)
           IN /\ t \in Seq(Byte)
              /\ ends = "last" => Len(t) = 5 /\ t[1] = "0" /\ t[2] = "cr" /\ t[3] = "lf"
              /\ ends = "garbage" => Len(t) = 3 /\ t[1] = "x" /\ t[2] = "cr" /\ t[3] = "lf"
              /\ ends = "never" => Len(t) = 0
<1>1. ASSUME NEW b \in Byte
      PROVE  LET t == <<b>> \o LineEnd IN t \in Seq(Byte) /\ Len(t) = 3 /\ t[1] = b /\ t[2] = "cr" /\ t[3] = "lf"
  <2> DEFINE one == <<b>>
             t == one \o LineEnd
  <2>1. one \in Seq(Byte) /\ LineEnd \in Seq(Byte)
    BY SmallLists, LineEndIs
  <2>2. Len(one) = 1 /\ one[1] = b
    OBVIOUS
  <2> HIDE DEF one
  <2>3. /\ t \in Seq(Byte) /\ Len(t) = Len(one) + Len(LineEnd)
        /\ (\A i \in 1..Len(one) : t[i] = one[i]) /\ \A i \in 1..Len(LineEnd) : t[Len(one) + i] = LineEnd[i]
    BY <2>1, ConcatIs
  <2> HIDE DEF t
  <2>4. t \in Seq(Byte) /\ Len(t) = 3 /\ t[1] = b /\ t[2] = "cr" /\ t[3] = "lf"
    BY <2>2, <2>3, LineEndIs
  <2> QED BY <2>4 DEF t, one
<1>2. CASE ends = "last"
  <2> DEFINE t == LastChunk
             u == t \o LineEnd
  <2>1. t \in Seq(Byte) /\ Len(t) = 3 /\ t[1] = "0" /\ t[2] = "cr" /\ t[3] = "lf"
    BY <1>1, BytesAre DEF LastChunk
  <2> HIDE DEF t
  <2>2. t \in Seq(Byte) /\ LineEnd \in Seq(Byte)
    BY <2>1, LineEndIs
  <2>3. u \in Seq(Byte) /\ Len(u) = Len(t) + Len(LineEnd) /\ \A i \in 1..Len(t) : u[i] = t[i]
    BY <2>2, ConcatIs
  <2> HIDE DEF u
  <2>4. u \in Seq(Byte) /\ Len(u) = 5 /\ u[1] = "0" /\ u[2] = "cr" /\ u[3] = "lf"
    BY <2>1, <2>3, LineEndIs
  <2>5. AfterChunks(ends) = u
    BY <1>2 DEF AfterChunks, u, t
  <2> QED BY <1>2, <2>4, <2>5
<1>3. CASE ends = "garbage"
  <2>1. AfterChunks(ends) = Garbage
    BY <1>3 DEF AfterChunks
  <2>2. LET t == Garbage IN t \in Seq(Byte) /\ Len(t) = 3 /\ t[1] = "x" /\ t[2] = "cr" /\ t[3] = "lf"
    BY <1>1, BytesAre, Zenon DEF Garbage
  <2> QED BY <1>3, <2>1, <2>2
<1>4. CASE ends = "never"
  <2>1. AfterChunks(ends) = <<>>
    BY <1>4 DEF AfterChunks
  <2>2. <<>> \in Seq(Byte) /\ Len(<<>>) = 0
    OBVIOUS
  <2> QED BY <1>4, <2>1, <2>2
<1> QED BY <1>2, <1>3, <1>4

\* Where the chunks of an answer end.
EndOf(w, n) == 5 + Len(Chunks(w, n))

\* The bytes of an answer: its head, and behind it the body.
BodyOf(w) == IF w.coding = "chunked" THEN Chunks(w, Len(w.parts)) \o AfterChunks(w.ends) ELSE w.parts[1].data

\* An answer is a head of five bytes, a status and two line ends, and the body.
LEMMA WireIs ==
    ASSUME NEW w \in Answers
    PROVE  /\ Wire(w) \in Seq(Byte) /\ BodyOf(w) \in Seq(Byte) /\ Len(Wire(w)) = 5 + Len(BodyOf(w))
           /\ Wire(w)[1] # "cr" /\ Wire(w)[2] = "cr" /\ Wire(w)[3] = "lf" /\ Wire(w)[4] = "cr" /\ Wire(w)[5] = "lf"
           /\ \A j \in 1..Len(BodyOf(w)) : Wire(w)[5 + j] = BodyOf(w)[j]
<1> DEFINE status == IF w.good THEN "200" ELSE "500"
           one == <<status>>
           head == one \o HeadEnd
           body == BodyOf(w)
<1>1. status \in Byte /\ status # "cr"
  BY BytesAre
<1> HIDE DEF status
<1>2. one \in Seq(Byte) /\ HeadEnd \in Seq(Byte)
  BY <1>1, SmallLists, HeadEndIs
<1>3. Len(one) = 1 /\ one[1] = status
  OBVIOUS
<1> HIDE DEF one
<1>4. /\ head \in Seq(Byte) /\ Len(head) = Len(one) + Len(HeadEnd)
      /\ (\A i \in 1..Len(one) : head[i] = one[i]) /\ \A i \in 1..Len(HeadEnd) : head[Len(one) + i] = HeadEnd[i]
  BY <1>2, ConcatIs
<1> HIDE DEF head
<1>5. /\ head \in Seq(Byte) /\ Len(head) = 5
      /\ head[1] # "cr" /\ head[2] = "cr" /\ head[3] = "lf" /\ head[4] = "cr" /\ head[5] = "lf"
  BY <1>1, <1>3, <1>4, HeadEndIs
<1>6. body \in Seq(Byte)
  <2>1. CASE w.coding = "chunked"
    <3>1. Len(w.parts) \in 0..Len(w.parts) /\ w.ends \in {"last", "garbage", "never"}
      BY AnswerIs
    <3>2. Chunks(w, Len(w.parts)) \in Seq(Byte)
      BY <2>1, <3>1, ChunksAre
    <3>3. AfterChunks(w.ends) \in Seq(Byte)
      BY <3>1, EndIs
    <3>4. Chunks(w, Len(w.parts)) \o AfterChunks(w.ends) \in Seq(Byte)
      BY <3>2, <3>3, ConcatIs
    <3> QED BY <2>1, <3>4 DEF BodyOf
  <2>2. CASE w.coding # "chunked"
    <3>0. Len(w.parts) = 1
      BY <2>2, AnswerIs, Zenon
    <3>1. 1 \in 1..Len(w.parts)
      BY <3>0
    <3>2. w.parts[1].data \in Seq(Byte)
      BY <3>1, AnswerIs
    <3> QED BY <2>2, <3>2 DEF BodyOf
  <2> QED BY <2>1, <2>2
<1>7. Wire(w) = head \o body
  BY Zenon DEF Wire, BodyOf, head, one, status
<1> HIDE DEF body
<1>8. /\ head \o body \in Seq(Byte) /\ Len(head \o body) = Len(head) + Len(body)
      /\ \A i \in 1..Len(head) : (head \o body)[i] = head[i]
      /\ \A i \in 1..Len(body) : (head \o body)[Len(head) + i] = body[i]
  <2>1. head \in Seq(Byte) /\ body \in Seq(Byte)
    BY <1>5, <1>6
  <2> QED BY <2>1, ConcatIs
<1> DEFINE u == head \o body
<1> HIDE DEF u
<1>9. /\ u \in Seq(Byte) /\ Len(u) = 5 + Len(body)
      /\ u[1] # "cr" /\ u[2] = "cr" /\ u[3] = "lf" /\ u[4] = "cr" /\ u[5] = "lf"
      /\ \A i \in 1..Len(body) : u[5 + i] = body[i]
  BY <1>5, <1>8 DEF u
<1> QED BY <1>6, <1>7, <1>9 DEF u, body

\* Where the parts of a chunked body stand.
LEMMA ChunkedIs ==
    ASSUME NEW w \in Answers, w.coding = "chunked"
    PROVE  LET k == Len(w.parts)
               t == AfterChunks(w.ends)
           IN /\ Len(Wire(w)) = EndOf(w, k) + Len(t) /\ EndOf(w, k) \in Nat
              /\ \A j \in 1..Len(Chunks(w, k)) : Wire(w)[5 + j] = Chunks(w, k)[j]
              /\ \A j \in 1..Len(t) : Wire(w)[EndOf(w, k) + j] = t[j]
<1> DEFINE k == Len(w.parts)
           t == AfterChunks(w.ends)
           c == Chunks(w, k)
           u == Wire(w)
<1>1. k \in 0..k /\ w.ends \in {"last", "garbage", "never"}
  BY AnswerIs
<1>2. c \in Seq(Byte) /\ Len(c) \in Nat
  BY <1>1, ChunksAre
<1>3. t \in Seq(Byte)
  BY <1>1, EndIs
<1>4. BodyOf(w) = c \o t
  BY DEF BodyOf
<1>5. Len(u) = 5 + Len(c \o t) /\ \A j \in 1..Len(c \o t) : u[5 + j] = (c \o t)[j]
  BY <1>4, WireIs
<1>6. EndOf(w, k) = 5 + Len(c)
  BY DEF EndOf
<1> HIDE DEF k, t, c, u
<1>7. /\ Len(c \o t) = Len(c) + Len(t)
      /\ \A i \in 1..Len(c) : (c \o t)[i] = c[i]
      /\ \A i \in 1..Len(t) : (c \o t)[Len(c) + i] = t[i]
  BY <1>2, <1>3, ConcatIs
<1>8. Len(t) \in Nat
  BY <1>3
<1>9. Len(u) = EndOf(w, k) + Len(t) /\ EndOf(w, k) \in Nat
  BY <1>2, <1>5, <1>6, <1>7, <1>8
<1>10. \A j \in 1..Len(c) : u[5 + j] = c[j]
  BY <1>2, <1>5, <1>7, <1>8
<1>11. ASSUME NEW j \in 1..Len(t) PROVE u[EndOf(w, k) + j] = t[j]
  <2> DEFINE a == Len(c)
             b == Len(t)
             l == Len(c \o t)
             e == EndOf(w, k)
  <2>0. a \in Nat /\ b \in Nat /\ l = a + b /\ e = 5 + a /\ j \in 1..b
    BY <1>2, <1>6, <1>7, <1>8, Zenon
  <2> HIDE DEF a, b, l, e
  <2>1. Len(c) + j \in 1..Len(c \o t) /\ 5 + (Len(c) + j) = EndOf(w, k) + j
    <3>1. a + j \in 1..l /\ 5 + (a + j) = e + j
      BY <2>0
    <3> QED BY <3>1 DEF a, l, e
  <2>2. u[5 + (Len(c) + j)] = (c \o t)[Len(c) + j]
    BY <1>5, <2>1, Zenon
  <2> QED BY <1>7, <2>1, <2>2
<1> QED BY <1>9, <1>10, <1>11 DEF k, t, c, u

\* Where a chunk stands.
LEMMA ChunkStands ==
    ASSUME NEW w \in Answers, w.coding = "chunked", NEW n \in 1..Len(w.parts)
    PROVE  /\ EndOf(w, n) = EndOf(w, n - 1) + Len(w.parts[n].data) + 5 /\ EndOf(w, n) <= EndOf(w, Len(w.parts))
           /\ EndOf(w, n) <= Len(Wire(w)) /\ EndOf(w, n - 1) \in Nat /\ Len(w.parts[n].data) \in 1..9
           /\ \A j \in 1..(Len(w.parts[n].data) + 5) : Wire(w)[EndOf(w, n - 1) + j] = ChunkBytes(w.parts[n])[j]
<1> DEFINE k == Len(w.parts)
           u == Wire(w)
           c == Chunks(w, k)
           d == Chunks(w, n)
           e == Chunks(w, n - 1)
           t == ChunkBytes(w.parts[n])
           l == Len(w.parts[n].data)
<1>1. d = e \o t /\ d \in Seq(Byte) /\ e \in Seq(Byte) /\ t \in Seq(Byte) /\ Len(t) = l + 5 /\ l \in 1..9
  BY ChunksGrow, Zenon
<1>2. k \in Nat /\ n \in 0..k /\ k \in n..k
  BY AnswerIs
<1>3. Len(d) + 6 * (k - n) <= Len(c) /\ \A j \in 1..Len(d) : c[j] = d[j]
  BY <1>2, ChunksStand, Zenon
<1>4. /\ Len(u) = EndOf(w, k) + Len(AfterChunks(w.ends)) /\ EndOf(w, k) \in Nat
      /\ \A j \in 1..Len(c) : u[5 + j] = c[j]
  BY ChunkedIs
<1>5. Len(AfterChunks(w.ends)) \in Nat
  <2>1. AfterChunks(w.ends) \in Seq(Byte)
    BY AnswerIs, EndIs
  <2> QED BY <2>1
<1>6. EndOf(w, k) = 5 + Len(c) /\ EndOf(w, n) = 5 + Len(d) /\ EndOf(w, n - 1) = 5 + Len(e)
  BY DEF EndOf
<1>7. Len(c) \in Nat
  <2>1. k \in 0..k
    BY <1>2
  <2> QED BY <2>1, ChunksAre
<1>8. n \in 1..k
  OBVIOUS
<1> HIDE DEF u, c, d, e, t, l, k
<1>9. Len(e \o t) = Len(e) + Len(t) /\ \A j \in 1..Len(t) : (e \o t)[Len(e) + j] = t[j]
  BY <1>1, ConcatIs
<1>10. Len(d) = Len(e) + l + 5 /\ Len(d) \in Nat /\ Len(e) \in Nat /\ l \in Nat /\ Len(d) <= Len(c)
  <2>1. Len(d) = Len(e) + (l + 5) /\ Len(e) \in Nat /\ l \in Nat
    BY <1>1, <1>9
  <2>2. Len(d) \in Nat
    BY <2>1
  <2> QED BY <1>2, <1>3, <1>7, <2>1, <2>2
<1>11. ASSUME NEW j \in 1..(l + 5) PROVE u[EndOf(w, n - 1) + j] = t[j]
  <2>1. Len(e) + j \in 1..Len(d) /\ Len(e) + j \in 1..Len(c) /\ 5 + (Len(e) + j) = EndOf(w, n - 1) + j
    BY <1>6, <1>7, <1>10
  <2>2. u[5 + (Len(e) + j)] = c[Len(e) + j]
    BY <1>4, <2>1, Zenon
  <2>3. c[Len(e) + j] = d[Len(e) + j]
    BY <1>3, <2>1, Zenon
  <2>4. (e \o t)[Len(e) + j] = t[j]
    BY <1>1, <1>9
  <2> QED BY <1>1, <2>1, <2>2, <2>3, <2>4
<1>12. /\ EndOf(w, n) = EndOf(w, n - 1) + l + 5 /\ EndOf(w, n) <= EndOf(w, k)
       /\ EndOf(w, n) <= Len(u) /\ EndOf(w, n - 1) \in Nat /\ l \in 1..9
  BY <1>1, <1>4, <1>5, <1>6, <1>7, <1>10
<1> QED BY <1>11, <1>12 DEF u, t, l, k

-----------------------------------------------------------------------------
(* What the reader sees of it.                                             *)

\* A chunk that has come in part, or as a whole.
LEMMA ChunkComes ==
    ASSUME NEW part, part.data \in Seq(Byte), Len(part.data) \in 1..9, NEW s \in Seq(Byte),
           \A j \in 1..Len(s) : j <= Len(part.data) + 5 => s[j] = ChunkBytes(part)[j]
    PROVE  /\ Len(s) < Len(part.data) + 5 => NextChunk(s).is = "more"
           /\ Len(s) >= Len(part.data) + 5 => NextChunk(s) = Seen("chunk", part.data, Dropped(s, Len(part.data) + 5))
<1> DEFINE d == part.data
           n == Len(d)
           t == ChunkBytes(part)
           l == Len(s)
<1>1. /\ t \in Seq(Byte) /\ Len(t) = n + 5 /\ t[1] = Digits[n] /\ t[2] = "cr" /\ t[3] = "lf"
      /\ t[n + 4] = "cr" /\ t[n + 5] = "lf" /\ \A j \in 1..n : t[j + 3] = d[j]
  BY ChunkIs
<1>2. n \in 1..9 /\ l \in Nat /\ \A j \in 1..l : j <= n + 5 => s[j] = t[j]
  OBVIOUS
<1>3. Digits[n] # "cr" /\ Digits[n] # "0" /\ SizeOf(Digits[n]) = n
  BY DigitsAre
<1>4. d \in Seq(Byte)
  OBVIOUS
<1> HIDE DEF t, l, n, d
<1>5. /\ l >= 1 => s[1] = Digits[n]
      /\ l >= 2 => s[2] = "cr"
      /\ l >= 3 => s[3] = "lf"
  BY <1>1, <1>2
<1>6. /\ l < 3 => FindIn(s, LineEnd) = 0
      /\ l >= 3 => FindIn(s, LineEnd) = 2
  BY <1>3, <1>5, ShortLine DEF l
<1>7. l < 3 => NextChunk(s) = Seen("more", <<>>, s)
  BY <1>6 DEF NextChunk
<1>8. ASSUME l >= 3 PROVE SizeOf(s[1]) = n /\ FindIn(s, LineEnd) = 2 /\ s[1] # "0" /\ n # 0
  BY <1>2, <1>3, <1>5, <1>6, <1>8
<1>9. ASSUME l >= 3, l < n + 5 PROVE NextChunk(s) = Seen("more", <<>>, s)
  <2>1. ~(2 = 0) /\ Len(s) < (2 + 1) + n + 2
    BY <1>2, <1>9 DEF l
  <2> QED BY <1>8, <1>9, <2>1 DEF NextChunk
<1>10. ASSUME l >= n + 5 PROVE NextChunk(s) = Seen("chunk", d, Dropped(s, n + 5))
  <2>1. ~(2 = 0) /\ ~(Len(s) < (2 + 1) + n + 2) /\ l >= 3
    BY <1>2, <1>10 DEF l
  <2>2. IsPrefix(LineEnd, Dropped(s, (2 + 1) + n))
    <3>1. n + 4 \in 1..Len(s) /\ (n + 4) + 1 = n + 5 /\ n + 5 \in 1..l /\ n + 4 \in 1..l /\ (n + 4) - 1 = (2 + 1) + n
      BY <1>2, <1>10 DEF l
    <3>2. s[n + 4] = "cr" /\ s[n + 5] = "lf"
      BY <1>1, <1>2, <3>1
    <3>3. IsPrefix(LineEnd, Dropped(s, (n + 4) - 1))
      BY <1>10, <3>1, <3>2, LineEndAt DEF l
    <3> QED BY <3>1, <3>3
  <2>3. SubSeq(s, (2 + 1) + 1, (2 + 1) + n) = d
    <3> DEFINE v == SubSeq(s, 3 + 1, 3 + n)
    <3>1. 3 \in Nat /\ 3 + n \in Nat /\ 3 <= 3 + n /\ 3 + n <= Len(s) /\ (3 + n) - 3 = n
      BY <1>2, <1>10 DEF l
    <3>2. v \in Seq(Byte) /\ Len(v) = (3 + n) - 3 /\ \A j \in 1..((3 + n) - 3) : v[j] = s[3 + j]
      BY <3>1, Piece
    <3> HIDE DEF v
    <3>3. \A j \in 1..n : s[3 + j] = d[j]
      <4> SUFFICES ASSUME NEW j \in 1..n PROVE s[3 + j] = d[j]
        OBVIOUS
      <4>1. 3 + j \in 1..l /\ 3 + j <= n + 5 /\ 3 + j = j + 3
        BY <1>2, <1>10
      <4> QED BY <1>1, <1>2, <4>1
    <3>4. Len(v) = Len(d) /\ \A j \in 1..Len(v) : v[j] = d[j]
      BY <3>1, <3>2, <3>3 DEF n
    <3>5. v = d
      BY <1>4, <3>2, <3>4, SameBytes
    <3> QED BY <3>5 DEF v
  <2>4. (2 + 1) + n + 2 = n + 5
    BY <1>2
  <2>5. /\ SizeOf(s[1]) = n /\ FindIn(s, LineEnd) = 2 /\ s[1] # "0" /\ n # 0
    BY <1>8, <2>1
  <2>6. NextChunk(s) = Seen("chunk", SubSeq(s, (2 + 1) + 1, (2 + 1) + n), Dropped(s, (2 + 1) + n + 2))
    BY <2>1, <2>2, <2>5, Zenon DEF NextChunk
  <2> QED BY <2>3, <2>4, <2>6
<1>11. ASSUME l < n + 5 PROVE NextChunk(s).is = "more"
  <2>1. NextChunk(s) = Seen("more", <<>>, s)
    BY <1>2, <1>7, <1>9, <1>11
  <2> QED BY <2>1 DEF Seen
<1> QED BY <1>10, <1>11 DEF l, n, d

\* The end of the chunks that has come in part, or as a whole.
LEMMA EndComes ==
    ASSUME NEW ends \in {"last", "garbage", "never"}, NEW s \in Seq(Byte), Len(s) <= Len(AfterChunks(ends)),
           \A j \in 1..Len(s) : s[j] = AfterChunks(ends)[j]
    PROVE  /\ (ends = "never" \/ Len(s) < 3) => NextChunk(s).is = "more"
           /\ (ends # "never" /\ Len(s) >= 3) =>
                NextChunk(s).is = (IF ends = "last" THEN "last" ELSE "bad") /\ NextChunk(s).data = <<>>
<1> DEFINE t == AfterChunks(ends)
           l == Len(s)
<1>1. /\ t \in Seq(Byte)
      /\ ends = "last" => Len(t) = 5 /\ t[1] = "0" /\ t[2] = "cr" /\ t[3] = "lf"
      /\ ends = "garbage" => Len(t) = 3 /\ t[1] = "x" /\ t[2] = "cr" /\ t[3] = "lf"
      /\ ends = "never" => Len(t) = 0
  BY EndIs
<1>2. l \in Nat /\ l <= Len(t) /\ \A j \in 1..l : s[j] = t[j]
  OBVIOUS
<1> HIDE DEF t, l
<1>3. /\ l >= 1 => s[1] # "cr" /\ s[1] = IF ends = "last" THEN "0" ELSE "x"
      /\ l >= 2 => s[2] = "cr"
      /\ l >= 3 => s[3] = "lf"
      /\ ends = "never" => l < 3
  <2>1. CASE ends = "never"
    BY <1>1, <1>2, <2>1
  <2>2. CASE ends # "never"
    <3>1. t[1] = (IF ends = "last" THEN "0" ELSE "x") /\ t[2] = "cr" /\ t[3] = "lf"
      BY <1>1, <2>2
    <3>2. l >= 1 => s[1] = t[1]
      BY <1>2
    <3>3. l >= 2 => s[2] = t[2]
      BY <1>2
    <3>4. l >= 3 => s[3] = t[3]
      BY <1>2
    <3> QED BY <2>2, <3>1, <3>2, <3>3, <3>4
  <2> QED BY <2>1, <2>2
<1>4. /\ l < 3 => FindIn(s, LineEnd) = 0
      /\ l >= 3 => FindIn(s, LineEnd) = 2
  BY <1>3, ShortLine DEF l
<1>5. ASSUME l < 3 PROVE NextChunk(s).is = "more"
  <2>1. NextChunk(s) = Seen("more", <<>>, s)
    BY <1>4, <1>5 DEF NextChunk
  <2> QED BY <2>1 DEF Seen
<1>6. ASSUME l >= 3 PROVE NextChunk(s).is = (IF ends = "last" THEN "last" ELSE "bad") /\ NextChunk(s).data = <<>>
  <2>1. FindIn(s, LineEnd) = 2 /\ s[1] = (IF ends = "last" THEN "0" ELSE "x")
    <3>1. l >= 1
      BY <1>2, <1>6
    <3> QED BY <1>3, <1>4, <1>6, <3>1
  <2>2. CASE ends = "last"
    <3>1. NextChunk(s) = Seen("last", <<>>, Dropped(s, 2 + 1))
      BY <2>1, <2>2 DEF NextChunk
    <3> QED BY <2>2, <3>1 DEF Seen
  <2>3. CASE ends # "last"
    <3>1. SizeOf(s[1]) = 0
      BY <2>1, <2>3, NoDigits
    <3>2. NextChunk(s) = Seen("bad", <<>>, s)
      BY <2>1, <2>3, <3>1 DEF NextChunk
    <3> QED BY <2>3, <3>2 DEF Seen
  <2> QED BY <2>2, <2>3
<1> QED BY <1>2, <1>3, <1>5, <1>6 DEF l

\* The bytes that have been read and not used, when n chunks were used and m bytes read.
Left(w, n, m) == SubSeq(Wire(w), EndOf(w, n) + 1, m)

\* After n chunks, the next one or the end is seen when all of it has come.
LEMMA ChunkSeen ==
    ASSUME NEW w \in Answers, w.coding = "chunked", NEW n \in 0..Len(w.parts), NEW m \in EndOf(w, n)..Len(Wire(w))
    PROVE  LET s == Left(w, n, m)
               k == Len(w.parts)
           IN /\ s \in Seq(Byte) /\ Len(s) = m - EndOf(w, n)
              /\ (n < k /\ m < EndOf(w, n + 1)) => NextChunk(s).is = "more"
              /\ (n < k /\ m >= EndOf(w, n + 1)) => NextChunk(s) = Seen("chunk", w.parts[n + 1].data, Left(w, n + 1, m))
              /\ (n = k /\ (w.ends = "never" \/ m < EndOf(w, k) + 3)) => NextChunk(s).is = "more"
              /\ (n = k /\ w.ends # "never" /\ m >= EndOf(w, k) + 3) =>
                   NextChunk(s).is = (IF w.ends = "last" THEN "last" ELSE "bad") /\ NextChunk(s).data = <<>>
<1> DEFINE u == Wire(w)
           k == Len(w.parts)
           p == EndOf(w, n)
           s == SubSeq(u, p + 1, m)
<1>1. u \in Seq(Byte) /\ Len(u) \in Nat /\ k \in Nat /\ w.ends \in {"last", "garbage", "never"}
  <2>1. u \in Seq(Byte)
    BY WireIs
  <2> QED BY <2>1, AnswerIs
<1>2. p \in Nat
  <2>1. Len(Chunks(w, n)) \in Nat
    BY ChunksAre
  <2> QED BY <2>1 DEF EndOf
<1>3. m \in Nat /\ p <= m /\ m <= Len(u) /\ n \in 0..k
  <2> HIDE DEF p, u, k
  <2>1. m \in p..Len(u) /\ n \in 0..k
    BY DEF p, u, k
  <2> QED BY <1>1, <1>2, <2>1
<1>4. s \in Seq(Byte) /\ Len(s) = m - p /\ \A j \in 1..(m - p) : s[j] = u[p + j]
  BY <1>1, <1>2, <1>3, Piece
<1>5. Left(w, n, m) = s
  BY DEF Left
<1> HIDE DEF u, s, p, k
<1>6. CASE n < k
  <2> DEFINE part == w.parts[n + 1]
             l == Len(part.data)
             t == ChunkBytes(part)
  <2>1. n + 1 \in 1..k /\ (n + 1) - 1 = n
    BY <1>1, <1>3, <1>6
  <2>2. /\ EndOf(w, n + 1) = p + l + 5 /\ EndOf(w, n + 1) <= Len(u) /\ l \in 1..9
        /\ \A j \in 1..(l + 5) : u[p + j] = t[j]
    <3>1. n + 1 \in 1..Len(w.parts)
      BY <2>1 DEF k
    <3>2. /\ EndOf(w, n + 1) = EndOf(w, (n + 1) - 1) + l + 5 /\ EndOf(w, n + 1) <= Len(u) /\ l \in 1..9
          /\ \A j \in 1..(l + 5) : u[EndOf(w, (n + 1) - 1) + j] = t[j]
      BY <3>1, ChunkStands, Zenon DEF u
    <3> QED BY <2>1, <3>2 DEF p
  <2>3. part.data \in Seq(Byte)
    BY <2>1, AnswerIs DEF k
  <2> DEFINE q == EndOf(w, n + 1)
  <2>20. q = p + l + 5 /\ q <= Len(u) /\ l \in 1..9
    BY <2>2, Zenon
  <2> HIDE DEF t, l, q
  <2>21. l \in Nat /\ l + 5 \in Nat /\ q \in Nat /\ Len(s) \in Nat /\ q = p + (l + 5) /\ Len(s) = m - p
    BY <1>2, <1>3, <1>4, <2>20
  <2>4. \A j \in 1..Len(s) : j <= l + 5 => s[j] = t[j]
    <3> SUFFICES ASSUME NEW j \in 1..Len(s), j <= l + 5 PROVE s[j] = t[j]
      OBVIOUS
    <3>1. j \in 1..(l + 5) /\ j \in 1..(m - p)
      BY <1>2, <1>3, <1>4, <2>2
    <3> QED BY <1>4, <2>2, <3>1
  <2>5. /\ Len(s) < l + 5 => NextChunk(s).is = "more"
        /\ Len(s) >= l + 5 => NextChunk(s) = Seen("chunk", part.data, Dropped(s, l + 5))
    BY <1>4, <2>2, <2>3, <2>4, ChunkComes, Zenon DEF t, l
  <2>6. ASSUME Len(s) >= l + 5 PROVE Dropped(s, l + 5) = Left(w, n + 1, m)
    <3> DEFINE v == SubSeq(s, (l + 5) + 1, Len(s))
               x == SubSeq(u, EndOf(w, n + 1) + 1, m)
    <3>1. l + 5 <= Len(s) /\ q <= m /\ Len(s) <= Len(s)
      BY <1>2, <1>3, <2>6, <2>21
    <3>2. v \in Seq(Byte) /\ Len(v) = Len(s) - (l + 5) /\ \A j \in 1..(Len(s) - (l + 5)) : v[j] = s[(l + 5) + j]
      BY <1>4, <2>21, <3>1, Piece
    <3>3. x \in Seq(Byte) /\ Len(x) = m - q /\ \A j \in 1..(m - q) : x[j] = u[q + j]
      BY <1>1, <1>3, <2>21, <3>1, Piece DEF q
    <3> HIDE DEF v, x
    <3>4. Len(s) - (l + 5) = m - q
      BY <1>2, <1>3, <2>21
    <3>5. Len(v) = Len(x) /\ \A j \in 1..Len(v) : v[j] = x[j]
      <4>1. Len(v) = Len(x) /\ Len(v) = m - q
        BY <3>2, <3>3, <3>4
      <4>2. ASSUME NEW j \in 1..Len(v) PROVE v[j] = x[j]
        <5>1. j \in 1..(m - q) /\ (l + 5) + j \in 1..(m - p) /\ p + ((l + 5) + j) = q + j
          BY <1>2, <1>3, <2>21, <3>1, <4>1
        <5>2. v[j] = s[(l + 5) + j] /\ x[j] = u[q + j]
          BY <3>2, <3>3, <3>4, <5>1
        <5>3. s[(l + 5) + j] = u[p + ((l + 5) + j)]
          BY <1>4, <5>1, Zenon
        <5> QED BY <5>1, <5>2, <5>3
      <4> QED BY <4>1, <4>2
    <3>6. v = x
      BY <3>2, <3>3, <3>5, SameBytes
    <3> QED BY <3>6 DEF v, x, Dropped, Left, u, q
  <2>7. /\ m < EndOf(w, n + 1) => Len(s) < l + 5
        /\ m >= EndOf(w, n + 1) => Len(s) >= l + 5
    <3>1. m < q <=> Len(s) < l + 5
      BY <1>2, <1>3, <2>21
    <3>2. m >= q <=> Len(s) >= l + 5
      BY <1>2, <1>3, <2>21
    <3> QED BY <3>1, <3>2 DEF q
  <2>8. n # k
    BY <1>1, <1>3, <1>6
  <2>9. /\ m < EndOf(w, n + 1) => NextChunk(s).is = "more"
        /\ m >= EndOf(w, n + 1) => NextChunk(s) = Seen("chunk", part.data, Left(w, n + 1, m))
    BY <2>5, <2>6, <2>7, Zenon
  <2> QED BY <1>4, <1>5, <2>8, <2>9, Zenon DEF k, p
<1>7. CASE ~(n < k)
  <2> DEFINE t == AfterChunks(w.ends)
  <2>1. n = k
    BY <1>1, <1>3, <1>7
  <2>2. Len(u) = p + Len(t) /\ \A j \in 1..Len(t) : u[p + j] = t[j]
    <3>1. Len(u) = EndOf(w, k) + Len(t) /\ \A j \in 1..Len(t) : u[EndOf(w, k) + j] = t[j]
      BY ChunkedIs DEF u, k
    <3> QED BY <2>1, <3>1 DEF p
  <2>3. Len(t) \in Nat
    <3>1. t \in Seq(Byte)
      BY <1>1, EndIs
    <3> QED BY <3>1
  <2> HIDE DEF t
  <2>4. Len(s) <= Len(t) /\ \A j \in 1..Len(s) : s[j] = t[j]
    <3>1. m - p <= Len(t)
      BY <1>2, <1>3, <2>2, <2>3
    <3>2. \A j \in 1..(m - p) : s[j] = t[j]
      BY <1>2, <1>3, <1>4, <2>2, <2>3, <3>1
    <3> QED BY <1>4, <3>1, <3>2
  <2>5. /\ (w.ends = "never" \/ Len(s) < 3) => NextChunk(s).is = "more"
        /\ (w.ends # "never" /\ Len(s) >= 3) =>
             NextChunk(s).is = (IF w.ends = "last" THEN "last" ELSE "bad") /\ NextChunk(s).data = <<>>
    BY <1>1, <1>4, <2>4, EndComes, Zenon DEF t
  <2>6. (m < p + 3 => Len(s) < 3) /\ (m >= p + 3 => Len(s) >= 3)
    BY <1>2, <1>3, <1>4
  <2>7. p = EndOf(w, k)
    BY <2>1 DEF p
  <2>8. /\ (n = k /\ (w.ends = "never" \/ m < EndOf(w, k) + 3)) => NextChunk(s).is = "more"
        /\ (n = k /\ w.ends # "never" /\ m >= EndOf(w, k) + 3) =>
             NextChunk(s).is = (IF w.ends = "last" THEN "last" ELSE "bad") /\ NextChunk(s).data = <<>>
    BY <2>5, <2>6, <2>7, Zenon
  <2> QED BY <1>4, <1>5, <1>7, <2>8, Zenon DEF k, p
<1> QED BY <1>6, <1>7

-----------------------------------------------------------------------------
(* Frames.                                                                 *)

\* The prefix of a sequence.
LEMMA PrefixIs ==
    ASSUME NEW s \in Seq(Byte), NEW m \in 0..Len(s)
    PROVE  /\ SubSeq(s, 1, m) \in Seq(Byte) /\ Len(SubSeq(s, 1, m)) = m
           /\ \A j \in 1..m : SubSeq(s, 1, m)[j] = s[j]
OBVIOUS

\* The whole of it.
LEMMA PrefixOfAll ==
    ASSUME NEW s \in Seq(Byte)
    PROVE  SubSeq(s, 1, Len(s)) = s
OBVIOUS

\* A prefix of a prefix.
LEMMA PrefixTwice ==
    ASSUME NEW s \in Seq(Byte), NEW m \in 0..Len(s), NEW n \in 0..m
    PROVE  SubSeq(SubSeq(s, 1, m), 1, n) = SubSeq(s, 1, n)
<1> DEFINE t == SubSeq(s, 1, m)
           u == SubSeq(t, 1, n)
           v == SubSeq(s, 1, n)
<1>1. n \in 0..Len(s) /\ n \in Nat
  OBVIOUS
<1>2. t \in Seq(Byte) /\ Len(t) = m /\ \A j \in 1..m : t[j] = s[j]
  BY PrefixIs
<1>3. v \in Seq(Byte) /\ Len(v) = n /\ \A j \in 1..n : v[j] = s[j]
  BY <1>1, PrefixIs
<1> HIDE DEF t, v
<1>4. u \in Seq(Byte) /\ Len(u) = n /\ \A j \in 1..n : u[j] = t[j]
  BY <1>2, PrefixIs
<1> HIDE DEF u
<1>5. \A j \in 1..n : t[j] = s[j]
  BY <1>2
<1>6. Len(u) = Len(v) /\ \A j \in 1..Len(u) : u[j] = v[j]
  BY <1>3, <1>4, <1>5
<1>7. u = v
  BY <1>3, <1>4, <1>6, SameBytes
<1> QED BY <1>7 DEF u, v, t

\* Nothing but blanks, or a first and a last byte that is none.
LEMMA TrimIs ==
    ASSUME NEW s \in Seq(Byte)
    PROVE  \/ TrimAscii(s) = <<>> /\ \A i \in 1..Len(s) : s[i] \in Blanks
           \/ \E i, j \in 1..Len(s) :
                /\ TrimAscii(s) = SubSeq(s, i, j) /\ i <= j /\ s[i] \notin Blanks /\ s[j] \notin Blanks
                /\ \A m \in 1..Len(s) : s[m] \notin Blanks => i <= m /\ m <= j
<1> DEFINE solid == {m \in DOMAIN s : s[m] \notin Blanks}
           i == CHOOSE m \in solid : \A n \in solid : m <= n
           j == CHOOSE m \in solid : \A n \in solid : n <= m
<1>1. DOMAIN s = 1..Len(s) /\ Len(s) \in Nat
  OBVIOUS
<1>2. solid \subseteq 1..Len(s) /\ \A m \in 1..Len(s) : m \in solid <=> s[m] \notin Blanks
  BY <1>1
<1>3. CASE solid = {}
  <2>1. TrimAscii(s) = <<>>
    BY <1>3, Zenon DEF TrimAscii
  <2> QED BY <1>2, <1>3, <2>1
<1>4. CASE solid # {}
  <2>1. TrimAscii(s) = SubSeq(s, i, j)
    BY <1>4, Zenon DEF TrimAscii
  <2> HIDE DEF solid
  <2>2. \E x \in solid : \A y \in solid : x <= y
    <3>1. solid \in SUBSET Nat
      BY <1>1, <1>2
    <3> QED BY <1>4, <3>1, LeastExists
  <2>3. \E x \in solid : \A y \in solid : y <= x
    <3>1. solid \in SUBSET (0..Len(s))
      BY <1>1, <1>2
    <3>2. Max(solid) \in solid /\ \A y \in solid : y <= Max(solid)
      BY <1>1, <1>4, <3>1, Greatest
    <3> QED BY <3>2
  <2>4. i \in solid /\ \A y \in solid : i <= y
    BY <2>2, Zenon
  <2>5. j \in solid /\ \A y \in solid : y <= j
    BY <2>3, Zenon
  <2> HIDE DEF i, j
  <2>6. i \in 1..Len(s) /\ j \in 1..Len(s) /\ i <= j /\ s[i] \notin Blanks /\ s[j] \notin Blanks
    BY <1>2, <2>4, <2>5
  <2>7. \A m \in 1..Len(s) : s[m] \notin Blanks => i <= m /\ m <= j
    BY <1>2, <2>4, <2>5
  <2> QED BY <2>1, <2>6, <2>7
<1> QED BY <1>3, <1>4

\* What begins with a byte that is no blank loses only blanks at its end.
LEMMA TrimEnd ==
    ASSUME NEW s \in Seq(Byte), Len(s) >= 1, s[1] \notin Blanks
    PROVE  \E j \in 1..Len(s) :
              /\ TrimAscii(s) = SubSeq(s, 1, j) /\ s[j] \notin Blanks
              /\ \A m \in 1..Len(s) : s[m] \notin Blanks => m <= j
<1>1. 1 \in 1..Len(s)
  OBVIOUS
<1>2. ~(\A i \in 1..Len(s) : s[i] \in Blanks)
  BY <1>1
<1>3. PICK i, j \in 1..Len(s) :
         /\ TrimAscii(s) = SubSeq(s, i, j) /\ i <= j /\ s[i] \notin Blanks /\ s[j] \notin Blanks
         /\ \A m \in 1..Len(s) : s[m] \notin Blanks => i <= m /\ m <= j
  BY <1>2, TrimIs, Zenon
<1>4. i = 1
  BY <1>1, <1>3
<1> QED BY <1>3, <1>4

\* What has no blanks at its ends stays as it is.
LEMMA TrimNothing ==
    ASSUME NEW s \in Seq(Byte), Len(s) >= 1, s[1] \notin Blanks, s[Len(s)] \notin Blanks
    PROVE  TrimAscii(s) = s
<1>1. PICK j \in 1..Len(s) :
         /\ TrimAscii(s) = SubSeq(s, 1, j) /\ s[j] \notin Blanks
         /\ \A m \in 1..Len(s) : s[m] \notin Blanks => m <= j
  BY TrimEnd, Zenon
<1>2. j = Len(s)
  <2>1. Len(s) \in 1..Len(s)
    OBVIOUS
  <2> QED BY <1>1, <2>1
<1> QED BY <1>1, <1>2, PrefixOfAll

\* Nothing stays nothing, and trimming twice is trimming once.
LEMMA TrimTwice ==
    ASSUME NEW b \in Seq(Byte)
    PROVE  /\ TrimAscii(b) \in Seq(Byte) /\ TrimAscii(TrimAscii(b)) = TrimAscii(b) /\ TrimAscii(<<>>) = <<>>
           /\ TrimAscii(b) # <<>> => Len(TrimAscii(b)) >= 1 /\ TrimAscii(b)[1] \notin Blanks
<1>1. TrimAscii(<<>>) = <<>>
  <2>1. <<>> \in Seq(Byte) /\ 1..Len(<<>>) = {}
    OBVIOUS
  <2> QED BY <2>1, TrimIs
<1>2. CASE TrimAscii(b) = <<>>
  <2>1. <<>> \in Seq(Byte)
    OBVIOUS
  <2> QED BY <1>1, <1>2, <2>1
<1>3. CASE TrimAscii(b) # <<>>
  <2>1. PICK i, j \in 1..Len(b) : TrimAscii(b) = SubSeq(b, i, j) /\ i <= j /\ b[i] \notin Blanks /\ b[j] \notin Blanks
    BY <1>3, TrimIs, Zenon
  <2> DEFINE p == i - 1
             s == SubSeq(b, p + 1, j)
  <2>2. p \in Nat /\ j \in Nat /\ p <= j /\ j <= Len(b) /\ p + 1 = i
    BY <2>1
  <2>3. s \in Seq(Byte) /\ Len(s) = j - p /\ \A m \in 1..(j - p) : s[m] = b[p + m]
    BY <2>2, Piece
  <2>4. TrimAscii(b) = s
    BY <2>1, <2>2
  <2> HIDE DEF s
  <2>5. Len(s) >= 1 /\ s[1] = b[i] /\ s[Len(s)] = b[j]
    <3>1. 1 \in 1..(j - p) /\ j - p \in 1..(j - p) /\ p + (j - p) = j
      BY <2>1, <2>2
    <3> QED BY <2>2, <2>3, <3>1
  <2>6. TrimAscii(s) = s
    BY <2>1, <2>3, <2>5, TrimNothing
  <2> QED BY <1>1, <2>1, <2>3, <2>4, <2>5, <2>6
<1> QED BY <1>2, <1>3

\* The scanner's state, and where it begins.
ScanState == [depth : Int, quoted : BOOLEAN, escaped : BOOLEAN, end : Nat]
ScanStart == [depth |-> 0, quoted |-> FALSE, escaped |-> FALSE, end |-> 0]
Closing == {"}", "]"}

\* A byte ends a document that has not ended, or does not; one that has ended stays so.
LEMMA ScanByteIs ==
    ASSUME NEW seen \in ScanState, NEW n \in Nat \ {0}, NEW byte
    PROVE  /\ ScanByte(seen, n, byte) \in ScanState
           /\ seen.end # 0 => ScanByte(seen, n, byte) = seen
           /\ seen.end = 0 => \/ ScanByte(seen, n, byte).end = 0
                              \/ ScanByte(seen, n, byte).end = n /\ byte \in Closing
<1>1. CASE seen.end # 0
  BY <1>1 DEF ScanByte
<1>2. CASE seen.end = 0
  <2> DEFINE other == [seen EXCEPT !.escaped = ~seen.escaped /\ byte = "\\", !.quoted = seen.escaped \/ byte # "\""]
  <2>1. CASE seen.quoted
    <3>1. ScanByte(seen, n, byte) = other
      BY <1>2, <2>1, Zenon DEF ScanByte
    <3>2. (~seen.escaped /\ byte = "\\") \in BOOLEAN /\ (seen.escaped \/ byte # "\"") \in BOOLEAN
      OBVIOUS
    <3>3. other \in ScanState /\ other.end = 0
      BY <1>2, <3>2 DEF ScanState
    <3> QED BY <1>2, <3>1, <3>3
  <2>2. CASE ~seen.quoted
    <3>1. CASE byte = "\""
      <4>1. ScanByte(seen, n, byte) = [seen EXCEPT !.quoted = TRUE]
        BY <1>2, <2>2, <3>1, Zenon DEF ScanByte
      <4>2. [seen EXCEPT !.quoted = TRUE] \in ScanState /\ [seen EXCEPT !.quoted = TRUE].end = 0
        BY <1>2 DEF ScanState
      <4> QED BY <1>2, <4>1, <4>2
    <3>2. CASE byte # "\"" /\ byte \in {"{", "["}
      <4>1. ScanByte(seen, n, byte) = [seen EXCEPT !.depth = @ + 1]
        BY <1>2, <2>2, <3>2, Zenon DEF ScanByte
      <4>2. [seen EXCEPT !.depth = @ + 1] \in ScanState /\ [seen EXCEPT !.depth = @ + 1].end = 0
        BY <1>2 DEF ScanState
      <4> QED BY <1>2, <4>1, <4>2
    <3>3. CASE byte # "\"" /\ byte \notin {"{", "["} /\ byte \in {"}", "]"}
      <4> DEFINE x == IF seen.depth = 1 THEN n ELSE 0
                 closed == [seen EXCEPT !.depth = @ - 1, !.end = x]
      <4>1. ScanByte(seen, n, byte) = closed
        BY <1>2, <2>2, <3>3, Zenon DEF ScanByte
      <4>2. x \in Nat /\ (x = 0 \/ x = n)
        OBVIOUS
      <4> HIDE DEF x
      <4> DEFINE y == seen.depth - 1
      <4>4. y \in Int
        BY DEF ScanState
      <4> HIDE DEF y
      <4>5. [seen EXCEPT !.depth = y, !.end = x] \in ScanState /\ [seen EXCEPT !.depth = y, !.end = x].end = x
        BY <4>2, <4>4 DEF ScanState
      <4>3. closed \in ScanState /\ closed.end = x
        BY <4>5 DEF y
      <4> QED BY <1>2, <3>3, <4>1, <4>2, <4>3 DEF Closing
    <3>4. CASE byte # "\"" /\ byte \notin {"{", "["} /\ byte \notin {"}", "]"}
      <4>1. ScanByte(seen, n, byte) = seen
        BY <1>2, <2>2, <3>4, Zenon DEF ScanByte
      <4> QED BY <1>2, <4>1
    <3> QED BY <3>1, <3>2, <3>3, <3>4
  <2> QED BY <2>1, <2>2
<1> QED BY <1>1, <1>2

\* f is what the scanner has seen after each byte.
Scans(f, s) == f[0] = ScanStart /\ \A n \in 1..Len(s) : f[n] = ScanByte(f[n - 1], n, s[n])

\* There is such a function, and Scan is its last value.
LEMMA ScanIs ==
    ASSUME NEW s \in Seq(Byte)
    PROVE  \E f \in [0..Len(s) -> ScanState] : Scans(f, s) /\ Scan(s) = f[Len(s)]
<1> DEFINE k == Len(s)
           step == [n \in 1..k |-> [x \in ScanState |-> ScanByte(x, n, s[n])]]
<1>1. k \in Nat
  OBVIOUS
<1>2. step \in [1..k -> [ScanState -> ScanState]] /\ \A n \in 1..k, x \in ScanState : step[n][x] = ScanByte(x, n, s[n])
  <2>1. \A n \in 1..k : \A x \in ScanState : ScanByte(x, n, s[n]) \in ScanState
    BY ScanByteIs
  <2>2. \A n \in 1..k : [x \in ScanState |-> ScanByte(x, n, s[n])] \in [ScanState -> ScanState]
    BY <2>1, Zenon
  <2>3. \A n \in 1..k : step[n] = [x \in ScanState |-> ScanByte(x, n, s[n])]
    BY Zenon
  <2> HIDE DEF ScanState
  <2>4. step \in [1..k -> [ScanState -> ScanState]]
    BY <2>2, Zenon
  <2> QED BY <2>3, <2>4, Zenon
<1> HIDE DEF step
<1>3. ScanStart \in ScanState
  BY DEF ScanStart, ScanState
<1>4. PICK f \in [0..k -> ScanState] : Follows(f, ScanStart, step, k)
  BY <1>1, <1>2, <1>3, Recursion
<1>5. \A n \in 0..k : f[n] \in ScanState
  BY <1>4, Zenon
<1>6. Scans(f, s)
  <2> SUFFICES ASSUME NEW n \in 1..k
               PROVE  f[n] = ScanByte(f[n - 1], n, s[n])
    BY <1>4 DEF Scans, Follows
  <2>1. n - 1 \in 0..k
    BY <1>1
  <2>2. f[n - 1] \in ScanState /\ f[n] = step[n][f[n - 1]]
    BY <1>4, <1>5, <2>1 DEF Follows
  <2> QED BY <1>2, <2>2, Zenon
<1> DEFINE Recurs(g) == g = [n \in 0..k |-> IF n = 0 THEN ScanStart ELSE ScanByte(g[n - 1], n, s[n])]
           h == CHOOSE g : Recurs(g)
<1>7. Recurs(f)
  <2>1. \A n \in 0..k : f[n] = IF n = 0 THEN ScanStart ELSE ScanByte(f[n - 1], n, s[n])
    <3> SUFFICES ASSUME NEW n \in 0..k
                 PROVE  f[n] = IF n = 0 THEN ScanStart ELSE ScanByte(f[n - 1], n, s[n])
      OBVIOUS
    <3>1. n # 0 => n \in 1..k
      BY <1>1
    <3> QED BY <1>6, <3>1, Zenon DEF Scans
  <2> HIDE DEF k
  <2> QED BY <1>4, <2>1, Zenon
<1>8. Scan(s) = h[k]
  BY Zenon DEF Scan, ScanStart
<1>9. Recurs(h)
  BY <1>7, Zenon
<1> HIDE DEF h
<1>10. h[0] = ScanStart /\ \A n \in 1..k : h[n] = ScanByte(h[n - 1], n, s[n])
  <2>1. \A n \in 0..k : h[n] = IF n = 0 THEN ScanStart ELSE ScanByte(h[n - 1], n, s[n])
    <3> HIDE DEF k
    <3> QED BY <1>9, Zenon
  <2> HIDE DEF Recurs
  <2>2. 0 \in 0..k /\ \A n \in 1..k : n \in 0..k /\ n # 0
    BY <1>1
  <2> QED BY <2>1, <2>2, Zenon
<1> HIDE DEF Recurs
<1> DEFINE good == {n \in 0..k : h[n] = f[n]}
<1>11. 0 \in good
  BY <1>1, <1>6, <1>10 DEF Scans
<1>12. ASSUME NEW n \in 1..k, n - 1 \in good
       PROVE  n \in good
  <2>1. h[n] = ScanByte(h[n - 1], n, s[n]) /\ f[n] = ScanByte(f[n - 1], n, s[n])
    BY <1>6, <1>10, Zenon DEF Scans
  <2>2. n \in 0..k /\ h[n - 1] = f[n - 1]
    BY <1>1, <1>12
  <2>3. h[n] = f[n]
    BY <2>1, <2>2, Zenon
  <2> QED BY <2>2, <2>3
<1> HIDE DEF good
<1>13. \A n \in 0..k : n \in good
  BY <1>1, <1>11, <1>12, AllUpTo
<1>14. h[k] = f[k]
  BY <1>1, <1>13 DEF good
<1> QED BY <1>4, <1>6, <1>8, <1>14

\* Where f ends, if it does, and that it has not before.
Ended(f, s, n) ==
    \/ \A i \in 0..n : f[i].end = 0
    \/ \E e \in 1..n : s[e] \in Closing /\ \A i \in 0..n : f[i].end = IF i < e THEN 0 ELSE e

\* A scan ends at a closing bracket and stays there, or does not end.
LEMMA ScanEnds ==
    ASSUME NEW s \in Seq(Byte), NEW f \in [0..Len(s) -> ScanState], Scans(f, s)
    PROVE  Ended(f, s, Len(s))
<1> DEFINE k == Len(s)
           good == {n \in 0..k : Ended(f, s, n)}
<1>1. k \in Nat /\ \A n \in 0..k : f[n] \in ScanState /\ f[n].end \in Nat
  BY DEF ScanState
<1>2. 0 \in good
  BY <1>1 DEF Scans, ScanStart, Ended
<1>3. ASSUME NEW n \in 1..k, n - 1 \in good
      PROVE  n \in good
  <2>1. n \in 0..k /\ n - 1 \in 0..k /\ n \in Nat \ {0} /\ n - 1 \in 0..(n - 1)
    BY <1>1
  <2>2. f[n] = ScanByte(f[n - 1], n, s[n])
    BY DEF Scans
  <2>3. /\ f[n - 1].end # 0 => f[n] = f[n - 1]
        /\ f[n - 1].end = 0 => f[n].end = 0 \/ (f[n].end = n /\ s[n] \in Closing)
    BY <1>1, <2>1, <2>2, ScanByteIs
  <2>4. Ended(f, s, n - 1)
    BY <1>3
  <2>5. CASE \A i \in 0..(n - 1) : f[i].end = 0
    <3>1. f[n].end = 0 \/ (f[n].end = n /\ s[n] \in Closing)
      BY <2>1, <2>3, <2>5
    <3>2. CASE f[n].end = 0
      <4>1. \A i \in 0..n : f[i].end = 0
        <5>1. \A i \in 0..n : i = n \/ i \in 0..(n - 1)
          BY <2>1
        <5> QED BY <2>5, <3>2, <5>1
      <4>2. Ended(f, s, n)
        BY <4>1 DEF Ended
      <4> QED BY <2>1, <4>2
    <3>3. CASE f[n].end = n /\ s[n] \in Closing
      <4>1. ASSUME NEW i \in 0..n PROVE f[i].end = IF i < n THEN 0 ELSE n
        <5>1. i < n => i \in 0..(n - 1)
          BY <2>1
        <5>2. ~(i < n) => i = n
          BY <2>1
        <5> QED BY <2>5, <3>3, <5>1, <5>2
      <4>2. n \in 1..n
        BY <2>1
      <4>3. Ended(f, s, n)
        BY <3>3, <4>1, <4>2 DEF Ended
      <4> QED BY <2>1, <4>3
    <3> QED BY <3>1, <3>2, <3>3
  <2>6. CASE \E e \in 1..(n - 1) : s[e] \in Closing /\ \A i \in 0..(n - 1) : f[i].end = IF i < e THEN 0 ELSE e
    <3>1. PICK e \in 1..(n - 1) : s[e] \in Closing /\ \A i \in 0..(n - 1) : f[i].end = IF i < e THEN 0 ELSE e
      BY <2>6
    <3>2. e \in 1..n /\ ~(n - 1 < e) /\ e # 0 /\ ~(n < e)
      BY <2>1
    <3>3. f[n - 1].end = e
      BY <2>1, <3>1, <3>2
    <3>4. f[n].end = e
      BY <2>3, <3>2, <3>3
    <3>5. ASSUME NEW i \in 0..n PROVE f[i].end = IF i < e THEN 0 ELSE e
      <4>1. i = n \/ i \in 0..(n - 1)
        BY <2>1
      <4> QED BY <3>1, <3>2, <3>4, <4>1
    <3>6. Ended(f, s, n)
      BY <3>1, <3>2, <3>5 DEF Ended
    <3> QED BY <2>1, <3>6
  <2> QED BY <2>4, <2>5, <2>6 DEF Ended
<1> HIDE DEF good
<1>4. \A n \in 0..k : n \in good
  BY <1>1, <1>2, <1>3, AllUpTo
<1> QED BY <1>1, <1>4 DEF good

\* The first bytes end a document if it ends among them.
LEMMA ScanPrefix ==
    ASSUME NEW s \in Seq(Byte), NEW m \in 0..Len(s)
    PROVE  LET e == Scan(s).end
           IN /\ e \in 0..Len(s) /\ (e # 0 => s[e] \in Closing)
              /\ Scan(SubSeq(s, 1, m)).end = IF e # 0 /\ e <= m THEN e ELSE 0
<1> DEFINE k == Len(s)
           t == SubSeq(s, 1, m)
<1>1. k \in Nat /\ m \in 0..k /\ m \in Nat
  OBVIOUS
<1>2. t \in Seq(Byte) /\ Len(t) = m /\ \A j \in 1..m : t[j] = s[j]
  BY PrefixIs
<1> HIDE DEF t
<1>3. PICK f \in [0..k -> ScanState] : Scans(f, s) /\ Scan(s) = f[k]
  BY ScanIs
<1>4. PICK g \in [0..m -> ScanState] : Scans(g, t) /\ Scan(t) = g[m]
  BY <1>2, ScanIs
<1> DEFINE good == {n \in 0..m : f[n] = g[n]}
<1>5. 0 \in good
  BY <1>1, <1>3, <1>4 DEF Scans
<1>6. ASSUME NEW n \in 1..m, n - 1 \in good
      PROVE  n \in good
  <2>1. n \in 0..m /\ n \in 1..k /\ n \in 1..Len(t) /\ f[n - 1] = g[n - 1]
    BY <1>1, <1>2, <1>6
  <2>2. f[n] = ScanByte(f[n - 1], n, s[n]) /\ g[n] = ScanByte(g[n - 1], n, t[n]) /\ t[n] = s[n]
    BY <1>2, <1>3, <1>4, <2>1, Zenon DEF Scans
  <2>3. f[n] = g[n]
    BY <2>1, <2>2, Zenon
  <2> QED BY <2>1, <2>3
<1> HIDE DEF good
<1>7. \A n \in 0..m : n \in good
  BY <1>1, <1>5, <1>6, AllUpTo
<1>8. f[m] = g[m]
  BY <1>1, <1>7 DEF good
<1>9. Scan(t).end = f[m].end
  BY <1>4, <1>8
<1>10. Ended(f, s, k)
  BY <1>3, ScanEnds
<1> DEFINE e == Scan(s).end
<1>11. e = f[k].end
  BY <1>3
<1> HIDE DEF e
<1>12. e \in 0..k /\ (e # 0 => s[e] \in Closing) /\ Scan(t).end = IF e # 0 /\ e <= m THEN e ELSE 0
  <2>1. k \in 0..k
    BY <1>1
  <2>2. CASE \A i \in 0..k : f[i].end = 0
    BY <1>1, <1>9, <1>11, <2>1, <2>2
  <2>3. CASE \E d \in 1..k : s[d] \in Closing /\ \A i \in 0..k : f[i].end = IF i < d THEN 0 ELSE d
    <3>1. PICK d \in 1..k : s[d] \in Closing /\ \A i \in 0..k : f[i].end = IF i < d THEN 0 ELSE d
      BY <2>3
    <3>2. ~(k < d) /\ d \in 0..k /\ d # 0
      BY <1>1
    <3>3. e = d
      BY <1>11, <2>1, <3>1, <3>2
    <3>4. f[m].end = IF m < d THEN 0 ELSE d
      BY <1>1, <3>1
    <3>5. m < d <=> ~(d <= m)
      BY <1>1
    <3> QED BY <1>9, <3>1, <3>2, <3>3, <3>4, <3>5
  <2> QED BY <1>10, <2>2, <2>3 DEF Ended
<1> QED BY <1>12 DEF e, t

\* A sequence of bytes is empty or has a length.
LEMMA LengthIs ==
    ASSUME NEW s \in Seq(Byte)
    PROVE  Len(s) \in Nat /\ (s = <<>> <=> Len(s) = 0) /\ (s # <<>> <=> Len(s) >= 1) /\ SubSeq(s, 1, 0) = <<>>
OBVIOUS

\* A document has nothing around it and is decoded as it is.
LEMMA DocumentIs ==
    ASSUME NEW doc \in Seq(Byte), IsDocument(doc)
    PROVE  /\ Len(doc) >= 1 /\ doc[1] = "{" /\ doc[1] \notin Blanks /\ doc[Len(doc)] \notin Blanks
           /\ Scan(doc).end = Len(doc) /\ TrimAscii(doc) = doc
           /\ \A n \in 0..Len(doc) : n < Len(doc) => Scan(SubSeq(doc, 1, n)).end = 0
<1> DEFINE k == Len(doc)
           e == Scan(doc).end
<1>1. doc # <<>> /\ doc[1] = "{" /\ e = k
  BY DEF IsDocument
<1>2. k \in Nat /\ k >= 1 /\ e \in 1..k /\ k \in 0..k
  <2>1. k \in Nat /\ k >= 1
    BY <1>1, LengthIs
  <2>2. k \in 1..k /\ k \in 0..k
    BY <2>1
  <2>3. e = k
    BY <1>1, Zenon
  <2> HIDE DEF k, e
  <2> QED BY <2>1, <2>2, <2>3, Zenon
<1>3. \A n \in 0..k : (e # 0 => doc[e] \in Closing) /\ Scan(SubSeq(doc, 1, n)).end = IF e # 0 /\ e <= n THEN e ELSE 0
  BY ScanPrefix
<1> HIDE DEF k, e
<1>4. doc[k] \in Closing
  <2>1. e # 0
    BY <1>2
  <2> QED BY <1>1, <1>2, <1>3, <2>1
<1>5. "{" \notin Blanks /\ \A c \in Closing : c \notin Blanks
  BY DEF Blanks, Closing
<1>6. ASSUME NEW n \in 0..k, n < k PROVE Scan(SubSeq(doc, 1, n)).end = 0
  <2>1. \A d : d = k => ~(d <= n)
    BY <1>2, <1>6
  <2>2. ~(e <= n)
    BY <1>1, <2>1, Zenon
  <2> QED BY <1>3, <2>2
<1>7. doc[1] \notin Blanks /\ doc[k] \notin Blanks
  BY <1>1, <1>4, <1>5
<1>8. TrimAscii(doc) = doc
  BY <1>2, <1>7, TrimNothing DEF k
<1> QED BY <1>1, <1>2, <1>6, <1>7, <1>8 DEF k, e

\* What begins with a bracket: its frame ends where the scan ends.
LEMMA BracketFrame ==
    ASSUME NEW b, TrimAscii(b) # <<>>, TrimAscii(b)[1] \in {"{", "["}
    PROVE  FirstJsonFrame(b) = SubSeq(TrimAscii(b), 1, Scan(TrimAscii(b)).end)
BY Zenon DEF FirstJsonFrame

\* Decoding takes documents.
LEMMA DecodedIs ==
    ASSUME NEW b \in Seq(Byte)
    PROVE  Decoded(b) = IF IsDocument(TrimAscii(b)) THEN GoodDocument(TrimAscii(b)) ELSE Failure
<1> DEFINE s == TrimAscii(b)
<1>1. s \in Seq(Byte) /\ TrimAscii(s) = s
  BY TrimTwice
<1>2. CASE s # <<>> /\ s[1] = "{"
  <2> HIDE DEF s
  <2> DEFINE e == Scan(s).end
             p == SubSeq(s, 1, e)
  <2>1. e \in 0..Len(s) /\ Len(s) \in Nat
    <3>1. 0 \in 0..Len(s) /\ Len(s) \in Nat
      BY <1>1
    <3> QED BY <1>1, <3>1, ScanPrefix
  <2>2. FirstJsonFrame(s) = p
    BY <1>1, <1>2, BracketFrame
  <2>3. e = Scan(s).end
    OBVIOUS
  <2> HIDE DEF e
  <2>4. Len(p) = e
    BY <1>1, <2>1, PrefixIs
  <2>5. p = s <=> e = Len(s)
    <3>1. SubSeq(s, 1, Len(s)) = s
      BY <1>1, PrefixOfAll
    <3> QED BY <2>4, <3>1
  <2>6. IsDocument(s) <=> FirstJsonFrame(s) = s
    BY <1>2, <2>2, <2>3, <2>5, Zenon DEF IsDocument
  <2> QED BY <1>2, <2>6, Zenon DEF Decoded, s
<1>3. CASE ~(s # <<>> /\ s[1] = "{")
  <2>1. ~IsDocument(s)
    BY <1>3, Zenon DEF IsDocument
  <2> QED BY <1>3, <2>1, Zenon DEF Decoded
<1> QED BY <1>2, <1>3

\* A document is decoded to itself.
LEMMA DecodedDocument ==
    ASSUME NEW doc \in Seq(Byte), IsDocument(doc)
    PROVE  Decoded(doc) = GoodDocument(doc)
<1>1. TrimAscii(doc) = doc
  BY DocumentIs
<1> QED BY <1>1, DecodedIs

\* Numbers up to others.
LEMMA UpTo ==
    ASSUME NEW n \in Nat, NEW i \in 1..n
    PROVE  i \in 0..n /\ 1 \in 1..i /\ i >= 1 /\ i <= n /\ i \in Nat
OBVIOUS

\* What begins with a byte that is no blank, and no document begins with, is not decoded.
LEMMA NotDecoded ==
    ASSUME NEW b \in Seq(Byte), Len(b) >= 1, b[1] \notin Blanks, b[1] # "{"
    PROVE  Decoded(b) = Failure
<1>1. PICK j \in 1..Len(b) : TrimAscii(b) = SubSeq(b, 1, j)
  BY TrimEnd, Zenon
<1>2. j \in 0..Len(b) /\ 1 \in 1..j
  <2>1. Len(b) \in Nat
    BY LengthIs
  <2> QED BY <2>1, UpTo, Zenon
<1>3. TrimAscii(b)[1] = b[1]
  BY <1>1, <1>2, PrefixIs
<1>4. ~IsDocument(TrimAscii(b))
  BY <1>3, Zenon DEF IsDocument
<1> QED BY <1>4, DecodedIs

\* A part gives the document that it opens with, or an error.
LEMMA PartIs ==
    ASSUME NEW b \in Seq(Byte), NEW doc \in Seq(Byte), OpensWith(b, doc)
    PROVE  Decoded(FrameOf(b)) = IF doc # <<>> THEN GoodDocument(doc) ELSE Failure
<1> DEFINE s == TrimAscii(b)
           e == Scan(s).end
<1>1. s \in Seq(Byte) /\ TrimAscii(s) = s /\ (s # <<>> => Len(s) >= 1 /\ s[1] \notin Blanks)
  BY TrimTwice
<1>2. /\ doc = <<>> => \A n \in 1..Len(s) : ~IsDocument(SubSeq(s, 1, n))
      /\ doc # <<>> => IsDocument(doc) /\ IsPrefix(doc, s)
  BY DEF OpensWith
<1>3. FrameOf(b) = IF FirstJsonFrame(b) = <<>> THEN s ELSE FirstJsonFrame(b)
  BY DEF FrameOf
<1>4. (s # <<>> /\ s[1] \in {"{", "["}) => FirstJsonFrame(b) = SubSeq(s, 1, e)
  BY BracketFrame, Zenon
<1>5. \A m \in 0..Len(s) : /\ e \in 0..Len(s) /\ (e # 0 => s[e] \in Closing)
                           /\ Scan(SubSeq(s, 1, m)).end = IF e # 0 /\ e <= m THEN e ELSE 0
  BY <1>1, ScanPrefix
<1>6. e = Scan(s).end
  OBVIOUS
<1>7. s = <<>> => FirstJsonFrame(b) = <<>>
  BY Zenon DEF FirstJsonFrame
<1>8. ASSUME s # <<>>, s[1] \notin {"{", "["}
      PROVE  FirstJsonFrame(b) = IF FindIn(s, <<"lf">>) = 0 THEN <<>> ELSE TrimAscii(SubSeq(s, 1, FindIn(s, <<"lf">>) - 1))
  BY <1>8, Zenon DEF FirstJsonFrame
<1> HIDE DEF s, e
<1>9. Len(s) \in Nat /\ 0 \in 0..Len(s) /\ Len(s) \in 0..Len(s)
  BY <1>1
<1>10. e \in 0..Len(s) /\ e \in Nat
  BY <1>5, <1>9
<1>11. CASE doc # <<>>
  <2> DEFINE k == Len(doc)
  <2>0. IsDocument(doc)
    BY <1>2, <1>11
  <2>01. k \in Nat
    BY LengthIs
  <2>1. IsDocument(doc) /\ k >= 1 /\ doc[1] = "{" /\ Scan(doc).end = k /\ k \in Nat
    BY <2>0, <2>01, DocumentIs, Zenon
  <2>2. k <= Len(s) /\ SubSeq(doc, 1, k) = SubSeq(s, 1, k)
    BY <1>2, <1>11 DEF IsPrefix
  <2>3. SubSeq(s, 1, k) = doc
    BY <2>2, PrefixOfAll
  <2> HIDE DEF k
  <2>02. k \in Nat /\ k >= 1 /\ k <= Len(s)
    BY <2>1, <2>2, Zenon
  <2>4. k \in 0..Len(s) /\ 1 \in 1..k /\ s # <<>>
    <3>1. k \in 0..Len(s) /\ 1 \in 1..k /\ Len(s) >= 1
      BY <1>9, <2>02
    <3> QED BY <1>1, <3>1, LengthIs
  <2>5. s[1] = "{"
    <3>1. SubSeq(s, 1, k)[1] = s[1]
      BY <1>1, <2>4, PrefixIs
    <3> QED BY <2>1, <2>3, <3>1
  <2>6. e = k
    <3>1. Scan(SubSeq(s, 1, k)).end = IF e # 0 /\ e <= k THEN e ELSE 0
      BY <1>5, <2>4
    <3>2. Scan(doc).end = IF e # 0 /\ e <= k THEN e ELSE 0
      BY <2>3, <3>1, Zenon
    <3>3. k = IF e # 0 /\ e <= k THEN e ELSE 0
      BY <2>1, <3>2, Zenon
    <3>4. k # 0
      BY <2>02
    <3> QED BY <3>3, <3>4, Zenon
  <2>7. FirstJsonFrame(b) = doc
    BY <1>4, <2>3, <2>4, <2>5, <2>6
  <2>8. FrameOf(b) = doc
    BY <1>3, <1>11, <2>7
  <2>9. Decoded(doc) = GoodDocument(doc)
    BY <2>1, DecodedDocument
  <2> QED BY <1>11, <2>8, <2>9
<1>12. CASE doc = <<>> /\ s = <<>>
  <2>1. FrameOf(b) = <<>>
    BY <1>3, <1>7, <1>12
  <2>2. <<>> \in Seq(Byte) /\ TrimAscii(<<>>) = <<>>
    BY TrimTwice
  <2>3. ~IsDocument(<<>>)
    BY DEF IsDocument
  <2>4. Decoded(<<>>) = Failure
    BY <2>2, <2>3, DecodedIs
  <2> QED BY <1>12, <2>1, <2>4
<1>13. CASE doc = <<>> /\ s # <<>> /\ s[1] \in {"{", "["}
  <2> DEFINE p == SubSeq(s, 1, e)
  <2>1. FirstJsonFrame(b) = p
    BY <1>4, <1>13
  <2>2. p \in Seq(Byte) /\ Len(p) = e /\ \A j \in 1..e : p[j] = s[j]
    BY <1>1, <1>10, PrefixIs
  <2>3. Scan(p).end = e
    <3>1. Scan(p).end = IF e # 0 /\ e <= e THEN e ELSE 0
      BY <1>5, <1>10, Zenon
    <3> QED BY <1>10, <3>1
  <2> HIDE DEF p
  <2>4. CASE e = 0
    <3>1. p = <<>>
      BY <2>2, <2>4
    <3>2. FrameOf(b) = s
      BY <1>3, <2>1, <3>1
    <3>3. ~IsDocument(s)
      <4>0. Len(s) \in Nat /\ Len(s) >= 1
        BY <1>1, <1>9, <1>13, Zenon
      <4>1. Len(s) \in 1..Len(s)
        BY <4>0
      <4>2. ~IsDocument(SubSeq(s, 1, Len(s)))
        BY <1>2, <1>13, <4>1
      <4>3. SubSeq(s, 1, Len(s)) = s
        BY <1>1, PrefixOfAll
      <4> QED BY <4>2, <4>3
    <3>4. Decoded(s) = Failure
      BY <1>1, <3>3, DecodedIs
    <3> QED BY <1>13, <3>2, <3>4
  <2>5. CASE e # 0
    <3>1. p # <<>> /\ 1 \in 1..e /\ Len(p) >= 1
      BY <1>10, <2>2, <2>5
    <3>2. FrameOf(b) = p
      BY <1>3, <2>1, <3>1
    <3>3. e \in 1..Len(s)
      BY <1>10, <2>5
    <3>4. ~IsDocument(p)
      BY <1>2, <1>13, <3>3 DEF p
    <3>5. p[1] # "{"
      BY <2>2, <2>3, <3>1, <3>4 DEF IsDocument
    <3>6. p[1] = s[1]
      BY <2>2, <3>1
    <3>7. Decoded(p) = Failure
      BY <1>1, <1>13, <2>2, <3>1, <3>5, <3>6, NotDecoded
    <3> QED BY <1>13, <3>2, <3>7
  <2> QED BY <2>4, <2>5
<1>14. CASE doc = <<>> /\ s # <<>> /\ s[1] \notin {"{", "["}
  <2> DEFINE line == FindIn(s, <<"lf">>)
             t == SubSeq(s, 1, line - 1)
  <2>1. s[1] # "{" /\ s[1] \notin Blanks /\ Len(s) >= 1
    BY <1>1, <1>14
  <2>2. Decoded(s) = Failure
    BY <1>1, <2>1, NotDecoded
  <2>3. CASE line = 0
    <3>1. FrameOf(b) = s
      BY <1>3, <1>8, <1>14, <2>3
    <3> QED BY <1>14, <2>2, <3>1
  <2>4. CASE line # 0
    <3>1. line \in 1..Len(s) /\ IsPrefix(<<"lf">>, Dropped(s, line - 1))
      BY <1>1, <2>4, FoundIs
    <3>2. FirstJsonFrame(b) = TrimAscii(t)
      BY <1>8, <1>14, <2>4
    <3>3. line # 1
      <4> SUFFICES ASSUME line = 1 PROVE FALSE
        OBVIOUS
      <4> DEFINE what == <<"lf">>
      <4>1. what \in Seq(Byte) /\ Len(what) = 1 /\ what[1] = "lf"
        BY BytesAre, SmallLists
      <4>2. 1 \in 1..Len(s) /\ IsPrefix(what, Dropped(s, 1 - 1))
        BY <3>1
      <4> HIDE DEF what
      <4>3. 1 - 1 + Len(what) <= Len(s) /\ \A j \in 1..Len(what) : s[1 - 1 + j] = what[j]
        BY <1>1, <4>1, <4>2, StandsAt
      <4>4. s[1] = "lf"
        BY <4>1, <4>3
      <4> QED BY <2>1, <4>4 DEF Blanks
    <3>4. line - 1 \in 0..Len(s) /\ line - 1 >= 1
      BY <1>9, <3>1, <3>3
    <3>5. t \in Seq(Byte) /\ Len(t) = line - 1 /\ \A j \in 1..(line - 1) : t[j] = s[j]
      BY <1>1, <3>4, PrefixIs
    <3> HIDE DEF t, line
    <3>6. 1 \in 1..(line - 1) /\ Len(t) >= 1
      BY <3>1, <3>4, <3>5
    <3>7. t[1] = s[1]
      BY <3>5, <3>6
    <3>8. TrimAscii(t) \in Seq(Byte) /\ TrimAscii(t) # <<>> /\ TrimAscii(t)[1] = s[1] /\ Len(TrimAscii(t)) >= 1
      <4>1. PICK j \in 1..Len(t) : TrimAscii(t) = SubSeq(t, 1, j)
        BY <2>1, <3>5, <3>6, <3>7, TrimEnd, Zenon
      <4>2. j \in 0..Len(t) /\ 1 \in 1..j
        BY <3>5, <4>1
      <4>3. SubSeq(t, 1, j) \in Seq(Byte) /\ Len(SubSeq(t, 1, j)) = j /\ \A m \in 1..j : SubSeq(t, 1, j)[m] = t[m]
        BY <3>5, <4>2, PrefixIs
      <4> QED BY <3>7, <4>1, <4>2, <4>3
    <3>9. FrameOf(b) = TrimAscii(t)
      BY <1>3, <3>2, <3>8
    <3>10. Decoded(TrimAscii(t)) = Failure
      BY <2>1, <3>8, NotDecoded
    <3> QED BY <1>14, <3>9, <3>10
  <2> QED BY <2>3, <2>4
<1> QED BY <1>11, <1>12, <1>13, <1>14

\* A document in one piece is there when all of it has come.
LEMMA PieceSeen ==
    ASSUME NEW b \in Seq(Byte), NEW doc \in Seq(Byte), IsDocument(doc), IsPrefix(doc, b),
           \A i \in Len(doc) + 1 .. Len(b) : b[i] \in Blanks, NEW m \in 0..Len(b)
    PROVE  LET s == SubSeq(b, 1, m)
           IN IF m < Len(doc) THEN FirstJsonFrame(s) = <<>> /\ Decoded(s) = Failure
              ELSE FirstJsonFrame(s) = doc /\ Decoded(s) = GoodDocument(doc)
<1> DEFINE s == SubSeq(b, 1, m)
           k == Len(doc)
           t == TrimAscii(s)
<1>1. /\ k >= 1 /\ doc[1] = "{" /\ doc[1] \notin Blanks /\ doc[k] \notin Blanks /\ Scan(doc).end = k
      /\ \A n \in 0..k : n < k => Scan(SubSeq(doc, 1, n)).end = 0
  BY DocumentIs
<1>2. k <= Len(b) /\ SubSeq(b, 1, k) = doc /\ k \in Nat /\ Len(b) \in Nat
  <2>1. k <= Len(b) /\ SubSeq(doc, 1, k) = SubSeq(b, 1, k)
    BY DEF IsPrefix
  <2> QED BY <2>1, PrefixOfAll
<1>3. \A j \in 1..k : b[j] = doc[j]
  <2>1. k \in 0..Len(b)
    BY <1>2
  <2> QED BY <1>2, <2>1, PrefixIs
<1>4. s \in Seq(Byte) /\ Len(s) = m /\ \A j \in 1..m : s[j] = b[j]
  BY PrefixIs
<1>5. \A i \in k + 1 .. Len(b) : b[i] \in Blanks
  OBVIOUS
<1>6. IsDocument(doc)
  OBVIOUS
<1> HIDE DEF s, k
<1>7. CASE m = 0
  <2>0. k >= 1 /\ k \in Nat
    BY <1>1, <1>2, Zenon
  <2>1. s = <<>> /\ m < k
    <3>1. Len(s) = 0
      BY <1>4, <1>7, Zenon
    <3>2. m < k
      BY <1>7, <2>0
    <3> QED BY <1>4, <3>1, <3>2, LengthIs
  <2>2. TrimAscii(s) = <<>>
    BY <2>1, TrimTwice
  <2>3. FirstJsonFrame(s) = <<>>
    BY <2>2, Zenon DEF FirstJsonFrame
  <2>4. ~IsDocument(<<>>)
    BY DEF IsDocument
  <2>5. Decoded(s) = Failure
    BY <1>4, <2>2, <2>4, DecodedIs
  <2> QED BY <2>1, <2>3, <2>5 DEF s, k
<1>8. CASE m # 0
  <2>0. k >= 1 /\ k \in Nat /\ m \in Nat
    <3>1. k >= 1 /\ k \in Nat /\ Len(b) \in Nat
      BY <1>1, <1>2, Zenon
    <3> QED BY <3>1
  <2>1. 1 \in 1..m /\ 1 \in 1..k /\ m \in Nat /\ Len(s) >= 1
    BY <1>4, <1>8, <2>0
  <2>2. s[1] = "{" /\ s[1] \notin Blanks
    BY <1>1, <1>3, <1>4, <2>1
  <2>3. PICK j \in 1..Len(s) :
          /\ t = SubSeq(s, 1, j) /\ s[j] \notin Blanks
          /\ \A i \in 1..Len(s) : s[i] \notin Blanks => i <= j
    BY <1>4, <2>1, <2>2, TrimEnd, Zenon
  <2>4. j \in 0..m /\ j \in 1..m /\ j \in Nat
    BY <1>4, <2>1, <2>3
  <2>5. j <= k
    <3> SUFFICES ASSUME ~(j <= k) PROVE FALSE
      OBVIOUS
    <3>1. j \in k + 1 .. Len(b)
      BY <1>2, <2>1, <2>4
    <3>2. s[j] = b[j]
      BY <1>4, <2>4
    <3> QED BY <1>5, <2>3, <3>1, <3>2
  <2>6. t = SubSeq(doc, 1, j)
    <3>1. t = SubSeq(b, 1, j)
      <4>1. j \in 0..m
        BY <2>4
      <4>2. SubSeq(SubSeq(b, 1, m), 1, j) = SubSeq(b, 1, j)
        BY <4>1, PrefixTwice
      <4> QED BY <2>3, <4>2 DEF s
    <3>2. SubSeq(SubSeq(b, 1, k), 1, j) = SubSeq(b, 1, j)
      <4>1. k \in 0..Len(b) /\ j \in 0..k
        BY <1>2, <2>4, <2>5
      <4> QED BY <4>1, PrefixTwice
    <3> QED BY <1>2, <3>1, <3>2
  <2>7. t \in Seq(Byte) /\ Len(t) = j /\ t[1] = "{" /\ t # <<>>
    <3>1. SubSeq(s, 1, j) \in Seq(Byte) /\ Len(SubSeq(s, 1, j)) = j /\ \A i \in 1..j : SubSeq(s, 1, j)[i] = s[i]
      <4>1. j \in 0..Len(s)
        BY <1>4, <2>4
      <4> QED BY <1>4, <4>1, PrefixIs
    <3>2. 1 \in 1..j
      BY <2>4
    <3>3. t \in Seq(Byte) /\ Len(t) = j /\ t[1] = "{"
      BY <2>2, <2>3, <3>1, <3>2
    <3>4. t # <<>>
      <4>0. j >= 1
        BY <2>1, <2>4
      <4>1. Len(t) >= 1
        BY <3>3, <4>0, Zenon
      <4> QED BY <3>3, <4>1, LengthIs
    <3> QED BY <3>3, <3>4
  <2>8. FirstJsonFrame(s) = SubSeq(t, 1, Scan(t).end)
    BY <2>7, BracketFrame
  <2>9. Decoded(s) = IF IsDocument(t) THEN GoodDocument(t) ELSE Failure
    BY <1>4, DecodedIs
  <2> HIDE DEF t
  <2>10. CASE m < k
    <3>1. j < k /\ j \in 0..k
      BY <1>2, <2>1, <2>4, <2>10
    <3>2. Scan(t).end = 0
      BY <1>1, <2>6, <3>1
    <3>3. SubSeq(t, 1, 0) = <<>>
      BY <2>7, LengthIs
    <3>4. ~IsDocument(t)
      <4>0. j # 0
        BY <2>1, <2>4
      <4>1. Len(t) # 0
        BY <2>7, <4>0, Zenon
      <4> QED BY <3>2, <4>1, Zenon DEF IsDocument
    <3> QED BY <2>8, <2>9, <2>10, <3>2, <3>3, <3>4 DEF s, k
  <2>11. CASE ~(m < k)
    <3>1. k <= j
      <4>1. k \in 1..Len(s) /\ k \in 1..m /\ k \in 1..k
        BY <1>4, <2>0, <2>11
      <4>2. s[k] = doc[k]
        BY <1>3, <1>4, <4>1
      <4> QED BY <1>1, <2>3, <4>1, <4>2
    <3>2. j = k
      BY <1>2, <2>4, <2>5, <3>1
    <3>3. t = doc
      BY <2>6, <3>2, PrefixOfAll DEF k
    <3>4. SubSeq(t, 1, Scan(t).end) = doc
      BY <1>1, <3>3, PrefixOfAll DEF k
    <3> QED BY <1>6, <2>8, <2>9, <2>11, <3>3, <3>4 DEF s, k
  <2> QED BY <2>10, <2>11
<1> QED BY <1>7, <1>8

-----------------------------------------------------------------------------
(* How much of an answer was sent.                                         *)

\* The chunks that were sent as a whole are the first ones, and this many.
LEMMA SentIs ==
    ASSUME answer \in Answers, answer.coding = "chunked", answer.sent >= 5
    PROVE  /\ ChunksSent \in 0..Len(answer.parts)
           /\ \A n \in 0..Len(answer.parts) : EndOf(answer, n) \in Nat /\ (EndOf(answer, n) <= answer.sent <=> n <= ChunksSent)
<1> DEFINE k == Len(answer.parts)
           at(n) == EndOf(answer, n)
           sent == answer.sent
           S == {n \in 0..k : at(n) <= sent}
           c == Max(S)
<1>1. k \in Nat /\ sent \in Nat /\ DOMAIN answer.parts = 1..k
  <2>1. k \in Nat /\ sent \in 0..Len(Wire(answer)) /\ DOMAIN answer.parts = 1..k /\ Wire(answer) \in Seq(Byte)
    BY AnswerIs, WireIs, Zenon
  <2>2. Len(Wire(answer)) \in Nat
    BY <2>1, LengthIs
  <2> HIDE DEF k, sent
  <2> QED BY <2>1, <2>2
<1>2. \A n \in 0..k : at(n) \in Nat
  <2>1. \A n \in 0..k : Len(Chunks(answer, n)) \in Nat
    BY ChunksAre
  <2> QED BY <2>1 DEF EndOf
<1>3. ASSUME NEW n \in 0..k, NEW m \in n..k PROVE at(n) <= at(m)
  <2>1. m \in 0..k
    BY <1>1
  <2>2. Len(Chunks(answer, n)) + 6 * (m - n) <= Len(Chunks(answer, m))
    BY ChunksStand
  <2>3. Len(Chunks(answer, n)) \in Nat /\ Len(Chunks(answer, m)) \in Nat
    BY <2>1, ChunksAre
  <2>4. at(n) = 5 + Len(Chunks(answer, n)) /\ at(m) = 5 + Len(Chunks(answer, m))
    BY DEF EndOf
  <2> HIDE DEF at
  <2> QED BY <1>1, <2>1, <2>2, <2>3, <2>4
<1>4. 0 \in S
  <2>1. at(0) = 5
    BY NoChunks DEF EndOf
  <2> QED BY <1>1, <2>1
<1>5. c \in S /\ \A n \in S : n <= c
  <2>1. S \in SUBSET (0..k) /\ S # {}
    BY <1>4
  <2> HIDE DEF S, k
  <2> QED BY <1>1, <2>1, Greatest
<1> HIDE DEF c
<1>6. c \in 0..k
  BY <1>5
<1>7. ASSUME NEW n \in 0..k PROVE at(n) <= sent <=> n <= c
  <2>1. ASSUME n <= c PROVE at(n) <= sent
    <3>1. c \in n..k
      BY <1>1, <1>6, <2>1
    <3>2. at(n) <= at(c)
      BY <1>3, <3>1
    <3>3. at(c) <= sent /\ at(c) \in Nat /\ at(n) \in Nat
      BY <1>2, <1>5, <1>6
    <3> HIDE DEF at, sent
    <3> QED BY <1>1, <3>2, <3>3
  <2>2. ASSUME at(n) <= sent PROVE n <= c
    BY <1>5, <2>2
  <2> QED BY <2>1, <2>2
<1>8. {i \in DOMAIN answer.parts : ChunksEnd(i) <= sent} = 1..c
  <2>1. \A i \in 1..k : ChunksEnd(i) = at(i)
    BY DEF ChunksEnd, EndOf, HeadEndsAt
  <2> HIDE DEF at, S
  <2>2. \A i \in 1..k : ChunksEnd(i) <= sent <=> i <= c
    BY <1>1, <1>7, <2>1
  <2> QED BY <1>1, <1>6, <2>2
<1>9. Cardinality(1..c) = c
  <2>1. 1 \in Int /\ c \in Int /\ Cardinality(1..c) = IF 1 > c THEN 0 ELSE c - 1 + 1
    BY <1>1, <1>6, FS_Interval
  <2> QED BY <1>1, <1>6, <2>1
<1>10. ChunksSent = c
  BY <1>8, <1>9 DEF ChunksSent
<1> QED BY <1>2, <1>6, <1>7, <1>10

\* When the end of the chunks was sent.
LEMMA EndSentIs ==
    ASSUME answer \in Answers, answer.coding = "chunked", answer.sent >= 5
    PROVE  /\ EndSent <=> answer.ends # "never" /\ answer.sent >= EndOf(answer, Len(answer.parts)) + 3
           /\ EndSent => ChunksSent = Len(answer.parts)
<1> DEFINE k == Len(answer.parts)
           t == AfterChunks(answer.ends)
           e == EndOf(answer, k)
           all == Len(Wire(answer))
           sent == answer.sent
<1>1. all = e + Len(t) /\ e \in Nat
  BY ChunkedIs
<1>2. answer.ends \in {"last", "garbage", "never"} /\ sent \in 0..all /\ k \in Nat
  BY AnswerIs
<1>3. /\ answer.ends = "last" => Len(t) = 5
      /\ answer.ends = "garbage" => Len(t) = 3
  BY <1>2, EndIs
<1>4. Len(LineEnd) = 2
  BY LineEndIs
<1>5. EndSent <=> \/ answer.ends = "last" /\ sent >= all - 2
                  \/ answer.ends = "garbage" /\ sent = all
  BY <1>4 DEF EndSent, AllSent
<1>6. k \in 0..k /\ ChunksSent \in 0..k /\ (e <= sent <=> k <= ChunksSent)
  <2>1. k \in 0..k
    BY <1>2
  <2> QED BY <2>1, SentIs
<1> HIDE DEF t, e, all, sent, k
<1>7. EndSent <=> answer.ends # "never" /\ sent >= e + 3
  <2>1. CASE answer.ends = "last"
    <3>1. Len(t) = 5
      BY <1>3, <2>1, Zenon
    <3>2. all = e + 5
      BY <1>1, <3>1, Zenon
    <3>3. all - 2 = e + 3
      BY <1>1, <3>2
    <3>4. EndSent <=> sent >= all - 2
      BY <1>5, <2>1
    <3> QED BY <2>1, <3>3, <3>4
  <2>2. CASE answer.ends = "garbage"
    <3>1. all = e + 3
      BY <1>1, <1>3, <2>2
    <3>2. sent = all <=> sent >= e + 3
      BY <1>1, <1>2, <3>1
    <3> QED BY <1>5, <2>2, <3>2
  <2>3. CASE answer.ends = "never"
    BY <1>5, <2>3
  <2> QED BY <1>2, <2>1, <2>2, <2>3
<1>8. EndSent => ChunksSent = k
  <2>1. all \in Nat
    <3>1. Wire(answer) \in Seq(Byte)
      BY WireIs
    <3> QED BY <3>1 DEF all
  <2>2. sent \in Nat
    BY <1>2, <2>1
  <2>3. sent >= e + 3 => e <= sent
    BY <1>1, <2>2
  <2> QED BY <1>2, <1>6, <1>7, <2>3
<1> QED BY <1>7, <1>8 DEF e, sent, k

\* What the next chunk says of how much was sent.
LEMMA SeenMeans ==
    ASSUME answer \in Answers, answer.coding = "chunked", answer.sent >= 5,
           NEW n \in 0..Len(answer.parts), NEW m \in EndOf(answer, n)..answer.sent
    PROVE  LET next == NextChunk(Left(answer, n, m))
               k == Len(answer.parts)
           IN /\ Left(answer, n, m) \in Seq(Byte) /\ Len(Left(answer, n, m)) = m - EndOf(answer, n)
              /\ next.is \in {"more", "chunk", "last", "bad"} /\ n <= ChunksSent
              /\ (next.is = "more" /\ m = answer.sent) => n = ChunksSent /\ ~EndSent
              /\ next.is = "last" => n = k /\ ChunksSent = k /\ EndSent /\ answer.ends = "last" /\ next.data = <<>>
              /\ next.is = "bad" => n = k /\ ChunksSent = k /\ EndSent /\ answer.ends = "garbage"
              /\ next.is = "chunk" =>
                   /\ n + 1 \in 1..k /\ n + 1 <= ChunksSent /\ EndOf(answer, n + 1) <= m
                   /\ next.data = answer.parts[n + 1].data /\ next.rest = Left(answer, n + 1, m)
<1> DEFINE k == Len(answer.parts)
           s == Left(answer, n, m)
           next == NextChunk(s)
           sent == answer.sent
           at(i) == EndOf(answer, i)
           all == Len(Wire(answer))
<1>1. k \in Nat /\ sent \in 0..all /\ all \in Nat /\ answer.ends \in {"last", "garbage", "never"}
  <2>1. k \in Nat /\ sent \in 0..all /\ answer.ends \in {"last", "garbage", "never"} /\ Wire(answer) \in Seq(Byte)
    BY AnswerIs, WireIs, Zenon
  <2>2. all \in Nat
    BY <2>1, LengthIs
  <2> QED BY <2>1, <2>2
<1>2. /\ ChunksSent \in 0..k
      /\ \A i \in 0..k : at(i) \in Nat /\ (at(i) <= sent <=> i <= ChunksSent)
  BY SentIs
<1>3. /\ EndSent <=> answer.ends # "never" /\ sent >= at(k) + 3
      /\ EndSent => ChunksSent = k
  BY EndSentIs
<1>4. m \in at(n)..sent /\ n \in 0..k
  OBVIOUS
<1> HIDE DEF sent, all, k
<1>5. at(n) \in Nat /\ m \in Nat /\ sent \in Nat /\ m <= sent /\ at(n) <= m /\ m <= all
  <2>1. at(n) \in Nat /\ sent \in Nat
    BY <1>1, <1>2, <1>4
  <2> HIDE DEF at
  <2> QED BY <1>1, <1>4, <2>1
<1>6. n <= ChunksSent
  <2>1. at(n) <= sent
    <3> HIDE DEF at
    <3> QED BY <1>5
  <2> QED BY <1>2, <1>4, <2>1
<1>7. /\ s \in Seq(Byte) /\ Len(s) = m - at(n)
      /\ (n < k /\ m < at(n + 1)) => next.is = "more"
      /\ (n < k /\ m >= at(n + 1)) => next = Seen("chunk", answer.parts[n + 1].data, Left(answer, n + 1, m))
      /\ (n = k /\ (answer.ends = "never" \/ m < at(k) + 3)) => next.is = "more"
      /\ (n = k /\ answer.ends # "never" /\ m >= at(k) + 3) =>
           next.is = (IF answer.ends = "last" THEN "last" ELSE "bad") /\ next.data = <<>>
  <2>1. m \in EndOf(answer, n)..Len(Wire(answer))
    <3> HIDE DEF at
    <3>1. m \in at(n)..all
      BY <1>1, <1>5
    <3> QED BY <3>1 DEF at, all
  <2> QED BY <2>1, ChunkSeen, Zenon DEF k
<1> HIDE DEF next, s, at
<1>8. CASE n < k /\ m < at(n + 1)
  <2>1. next.is = "more"
    BY <1>7, <1>8
  <2>2. n + 1 \in 0..k
    BY <1>1, <1>4, <1>8
  <2>3. m = sent => ~(n + 1 <= ChunksSent)
    <3>1. at(n + 1) \in Nat /\ (at(n + 1) <= sent <=> n + 1 <= ChunksSent)
      BY <1>2, <2>2
    <3> QED BY <1>5, <1>8, <3>1
  <2>4. m = sent => n = ChunksSent
    BY <1>1, <1>2, <1>4, <1>6, <2>3
  <2>5. m = sent => ~EndSent
    BY <1>1, <1>3, <1>4, <1>8, <2>4
  <2> QED BY <1>6, <1>7, <2>1, <2>4, <2>5 DEF next, s, at, k, sent
<1>9. CASE n < k /\ m >= at(n + 1)
  <2>1. next = Seen("chunk", answer.parts[n + 1].data, Left(answer, n + 1, m))
    BY <1>7, <1>9
  <2>2. next.is = "chunk" /\ next.data = answer.parts[n + 1].data /\ next.rest = Left(answer, n + 1, m)
    BY <2>1 DEF Seen
  <2>3. n + 1 \in 0..k /\ n + 1 \in 1..k
    BY <1>1, <1>4, <1>9
  <2>4. at(n + 1) \in Nat /\ (at(n + 1) <= sent <=> n + 1 <= ChunksSent)
    BY <1>2, <2>3
  <2>5. n + 1 <= ChunksSent /\ at(n + 1) <= m
    BY <1>5, <1>9, <2>4
  <2> QED BY <1>6, <1>7, <2>2, <2>3, <2>5 DEF next, s, at, k, sent
<1>10. CASE n = k /\ (answer.ends = "never" \/ m < at(k) + 3)
  <2>1. next.is = "more"
    BY <1>7, <1>10
  <2>2. n = ChunksSent
    BY <1>1, <1>2, <1>4, <1>6, <1>10
  <2>3. at(k) \in Nat
    BY <1>5, <1>10
  <2>4. m = sent => ~EndSent
    BY <1>3, <1>5, <1>10, <2>3
  <2> QED BY <1>6, <1>7, <2>1, <2>2, <2>4 DEF next, s, at, k, sent
<1>11. CASE n = k /\ answer.ends # "never" /\ m >= at(k) + 3
  <2>1. next.is = (IF answer.ends = "last" THEN "last" ELSE "bad") /\ next.data = <<>>
    BY <1>7, <1>11
  <2>2. at(k) \in Nat
    BY <1>5, <1>11
  <2>3. EndSent /\ ChunksSent = k
    BY <1>3, <1>5, <1>11, <2>2
  <2>4. answer.ends = "last" \/ answer.ends = "garbage"
    BY <1>1, <1>11
  <2> QED BY <1>6, <1>7, <1>11, <2>1, <2>3, <2>4 DEF next, s, at, k, sent
<1>12. (n < k /\ m < at(n + 1)) \/ (n < k /\ m >= at(n + 1)) \/ n = k
  <2>1. n < k \/ n = k
    BY <1>1, <1>4
  <2>2. n < k => at(n + 1) \in Nat
    <3> SUFFICES ASSUME n < k PROVE at(n + 1) \in Nat
      OBVIOUS
    <3>1. n + 1 \in 0..k
      BY <1>1, <1>4
    <3> QED BY <1>2, <3>1
  <2> QED BY <1>5, <2>1, <2>2
<1>13. m < at(k) + 3 \/ m >= at(k) + 3
  <2>1. at(k) \in Nat
    <3>1. k \in 0..k
      BY <1>1
    <3> QED BY <1>2, <3>1
  <2> QED BY <1>5, <2>1
<1> QED BY <1>8, <1>9, <1>10, <1>11, <1>12, <1>13, Zenon

-----------------------------------------------------------------------------
(* A plain request: the chunks of all of the body.                         *)

\* The bytes of the first chunks.
DataUpTo(w, n) == FlattenSeq([i \in 1..n |-> w.parts[i].data])

\* They come to one another, chunk by chunk.
LEMMA DataGrows ==
    ASSUME NEW w \in Answers, NEW n \in 1..Len(w.parts)
    PROVE  /\ DataUpTo(w, n) = DataUpTo(w, n - 1) \o w.parts[n].data
           /\ DataUpTo(w, n) \in Seq(Byte) /\ DataUpTo(w, n - 1) \in Seq(Byte)
<1> DEFINE k == Len(w.parts)
           all == [i \in 1..k |-> w.parts[i].data]
<1>1. k \in Nat /\ \A i \in 1..k : w.parts[i].data \in Seq(Byte)
  BY AnswerIs
<1> HIDE DEF k
<1>2. all \in Seq(Seq(Byte)) /\ Len(all) = k /\ \A i \in 1..k : all[i] = w.parts[i].data
  BY <1>1
<1>3. n \in 1..k
  BY DEF k
<1>4. [i \in 1..n |-> w.parts[i].data] = [i \in 1..n |-> all[i]]
  BY <1>1, <1>3
<1>5. [i \in 1..(n - 1) |-> w.parts[i].data] = [i \in 1..(n - 1) |-> all[i]]
  BY <1>1, <1>3
<1> HIDE DEF all
<1>6. /\ FlattenSeq([i \in 1..n |-> all[i]]) = FlattenSeq([i \in 1..(n - 1) |-> all[i]]) \o all[n]
      /\ FlattenSeq([i \in 1..n |-> all[i]]) \in Seq(Byte)
      /\ FlattenSeq([i \in 1..(n - 1) |-> all[i]]) \in Seq(Byte)
  <2>1. n \in 1..Len(all)
    BY <1>2, <1>3
  <2> QED BY <1>2, <2>1, FlattenMore
<1>7. DataUpTo(w, n) = FlattenSeq([i \in 1..n |-> all[i]]) /\ DataUpTo(w, n - 1) = FlattenSeq([i \in 1..(n - 1) |-> all[i]])
  BY <1>4, <1>5, Zenon DEF DataUpTo
<1>8. all[n] = w.parts[n].data
  BY <1>2, <1>3
<1> QED BY <1>6, <1>7, <1>8

\* All of them are lists of bytes, and without a chunk there are none.
LEMMA DataIs ==
    ASSUME NEW w \in Answers, NEW n \in 0..Len(w.parts)
    PROVE  DataUpTo(w, n) \in Seq(Byte) /\ DataUpTo(w, 0) = <<>>
<1>1. DataUpTo(w, 0) = <<>>
  <2>1. [i \in 1..0 |-> w.parts[i].data] = <<>>
    OBVIOUS
  <2>2. DataUpTo(w, 0) = FlattenSeq(<<>>)
    BY <2>1, Zenon DEF DataUpTo
  <2>3. FlattenSeq(<<>>) = <<>>
    BY DEF FlattenSeq
  <2> QED BY <2>2, <2>3
<1>2. <<>> \in Seq(Byte)
  OBVIOUS
<1>3. CASE n = 0
  BY <1>1, <1>2, <1>3
<1>4. CASE n # 0
  <2>1. n \in 1..Len(w.parts)
    BY <1>4, AnswerIs
  <2>2. DataUpTo(w, n) \in Seq(Byte)
    BY <2>1, DataGrows
  <2> QED BY <1>1, <2>2
<1> QED BY <1>3, <1>4

\* What has been seen after n turns, if there were n chunks.
AfterTurns(n) == Seen("chunk", DataUpTo(answer, n), Left(answer, n, answer.sent))

\* A turn takes a chunk that was sent.
LEMMA TurnTakes ==
    ASSUME answer \in Answers, answer.coding = "chunked", answer.sent >= 5, NEW n \in 0..Len(answer.parts), n < ChunksSent
    PROVE  DecodeChunk(AfterTurns(n)) = AfterTurns(n + 1)
<1> DEFINE k == Len(answer.parts)
           sent == answer.sent
           s == Left(answer, n, sent)
           next == NextChunk(s)
<1>1. k \in Nat /\ sent \in 0..Len(Wire(answer)) /\ Len(Wire(answer)) \in Nat
  <2>1. k \in Nat /\ sent \in 0..Len(Wire(answer)) /\ Wire(answer) \in Seq(Byte)
    BY AnswerIs, WireIs, Zenon
  <2> QED BY <2>1, LengthIs
<1>2. /\ ChunksSent \in 0..k
      /\ \A i \in 0..k : EndOf(answer, i) \in Nat /\ (EndOf(answer, i) <= sent <=> i <= ChunksSent)
  BY SentIs
<1> HIDE DEF sent, k
<1>3. n \in 0..k /\ n \in Nat
  BY DEF k
<1>4. n + 1 \in 0..k /\ n < k /\ n + 1 <= ChunksSent /\ n <= ChunksSent /\ n + 1 \in 1..k
  BY <1>1, <1>2, <1>3
<1>5. EndOf(answer, n) \in Nat /\ EndOf(answer, n) <= sent /\ EndOf(answer, n + 1) \in Nat /\ EndOf(answer, n + 1) <= sent
  BY <1>2, <1>3, <1>4
<1>6. sent \in EndOf(answer, n)..Len(Wire(answer))
  BY <1>1, <1>5
<1>7. (n < k /\ sent >= EndOf(answer, n + 1)) => next = Seen("chunk", answer.parts[n + 1].data, Left(answer, n + 1, sent))
  BY <1>3, <1>6, ChunkSeen, Zenon DEF k
<1>8. next = Seen("chunk", answer.parts[n + 1].data, Left(answer, n + 1, sent))
  <2>1. sent >= EndOf(answer, n + 1)
    BY <1>1, <1>5
  <2> QED BY <1>4, <1>7, <2>1, Zenon
<1> HIDE DEF s, next
<1>9. next.is = "chunk" /\ next.data = answer.parts[n + 1].data /\ next.rest = Left(answer, n + 1, sent)
  BY <1>8 DEF Seen
<1>10. DataUpTo(answer, n + 1) = DataUpTo(answer, n) \o answer.parts[n + 1].data
  <2> DEFINE p == n + 1
  <2>1. p \in 1..Len(answer.parts) /\ p - 1 = n
    BY <1>3, <1>4 DEF k
  <2> HIDE DEF p
  <2>2. DataUpTo(answer, p) = DataUpTo(answer, p - 1) \o answer.parts[p].data
    BY <2>1, DataGrows
  <2> QED BY <2>1, <2>2 DEF p
<1> DEFINE seen == AfterTurns(n)
<1>11. seen.is = "chunk" /\ seen.data = DataUpTo(answer, n) /\ seen.rest = s
  BY DEF AfterTurns, Seen, s, sent
<1> HIDE DEF seen
<1>12. DecodeChunk(seen) = Seen(next.is, seen.data \o next.data, next.rest)
  BY <1>11 DEF DecodeChunk, next
<1>13. DecodeChunk(seen) = Seen("chunk", DataUpTo(answer, n) \o answer.parts[n + 1].data, Left(answer, n + 1, sent))
  BY <1>9, <1>11, <1>12
<1> QED BY <1>10, <1>13 DEF AfterTurns, seen, sent

\* The last turn, after all chunks that were sent.
LEMMA LastTurn ==
    ASSUME answer \in Answers, answer.coding = "chunked", answer.sent >= 5
    PROVE  LET last == DecodeChunk(AfterTurns(ChunksSent))
           IN /\ last.is # "chunk" /\ DecodeChunk(last) = last
              /\ last.is = "last" <=> EndSent /\ answer.ends = "last"
              /\ last.is = "last" => last.data = DataUpTo(answer, Len(answer.parts))
<1> DEFINE k == Len(answer.parts)
           c == ChunksSent
           sent == answer.sent
           s == Left(answer, c, sent)
           next == NextChunk(s)
           seen == AfterTurns(c)
           last == DecodeChunk(seen)
<1>1. k \in Nat /\ sent \in 0..Len(Wire(answer)) /\ Len(Wire(answer)) \in Nat
  <2>1. k \in Nat /\ sent \in 0..Len(Wire(answer)) /\ Wire(answer) \in Seq(Byte)
    BY AnswerIs, WireIs, Zenon
  <2> QED BY <2>1, LengthIs
<1>2. /\ c \in 0..k
      /\ \A i \in 0..k : EndOf(answer, i) \in Nat /\ (EndOf(answer, i) <= sent <=> i <= c)
  BY SentIs
<1>3. /\ EndSent <=> answer.ends # "never" /\ sent >= EndOf(answer, k) + 3
      /\ EndSent => c = k
  BY EndSentIs
<1>4. c \in Nat /\ EndOf(answer, c) \in Nat /\ EndOf(answer, c) <= sent
  <2> HIDE DEF c, k
  <2> QED BY <1>1, <1>2
<1>5. sent \in EndOf(answer, c)..sent /\ sent \in EndOf(answer, c)..Len(Wire(answer))
  <2> HIDE DEF c, k, sent
  <2> QED BY <1>1, <1>4
<1>6. /\ (next.is = "last" => c = k /\ EndSent /\ answer.ends = "last" /\ next.data = <<>>)
      /\ (next.is = "chunk" => c + 1 <= c)
  <2>1. c \in 0..Len(answer.parts) /\ answer.sent \in EndOf(answer, c)..answer.sent
    BY <1>2, <1>5
  <2> HIDE DEF c
  <2>2. /\ (next.is = "last" => c = k /\ EndSent /\ answer.ends = "last" /\ next.data = <<>>)
        /\ (next.is = "chunk" => c + 1 <= ChunksSent)
    BY <2>1, SeenMeans, Zenon
  <2> QED BY <2>2 DEF c
<1>7. (c = k /\ answer.ends # "never" /\ sent >= EndOf(answer, k) + 3) => next.is = (IF answer.ends = "last" THEN "last" ELSE "bad")
  BY <1>2, <1>5, ChunkSeen, Zenon
<1>8. DataUpTo(answer, c) \in Seq(Byte)
  BY <1>2, DataIs
<1>9. seen.is = "chunk" /\ seen.data = DataUpTo(answer, c) /\ seen.rest = s
  BY DEF AfterTurns, Seen
<1> HIDE DEF seen, next, s, c, sent, k
<1>10. last = Seen(next.is, seen.data \o next.data, next.rest)
  BY <1>9 DEF DecodeChunk, next
<1>11. last.is = next.is /\ last.data = DataUpTo(answer, c) \o next.data
  BY <1>9, <1>10 DEF Seen
<1> HIDE DEF last
<1>12. next.is # "chunk"
  BY <1>4, <1>6
<1>13. last.is # "chunk" /\ DecodeChunk(last) = last
  BY <1>11, <1>12 DEF DecodeChunk
<1>14. last.is = "last" <=> EndSent /\ answer.ends = "last"
  <2>1. ASSUME EndSent, answer.ends = "last" PROVE next.is = "last"
    BY <1>3, <1>7, <2>1
  <2> QED BY <1>6, <1>11, <2>1
<1>15. last.is = "last" => last.data = DataUpTo(answer, k)
  <2> SUFFICES ASSUME last.is = "last" PROVE last.data = DataUpTo(answer, k)
    OBVIOUS
  <2>1. last.data = DataUpTo(answer, c) \o <<>> /\ c = k
    BY <1>6, <1>11
  <2>2. DataUpTo(answer, c) \o <<>> = DataUpTo(answer, c)
    BY <1>8
  <2> QED BY <2>1, <2>2
<1> QED BY <1>13, <1>14, <1>15 DEF last, seen, c, k

\* The chunks of a body are decoded if their end was sent, and then they give their bytes.
LEMMA DecodeIs ==
    ASSUME answer \in Answers, answer.coding = "chunked", answer.sent >= 5
    PROVE  LET decoded == DecodeChunkedBody(Left(answer, 0, answer.sent))
           IN /\ decoded.ok <=> EndSent /\ answer.ends = "last"
              /\ decoded.ok => decoded.data = DataUpTo(answer, Len(answer.parts))
<1> DEFINE k == Len(answer.parts)
           c == ChunksSent
           sent == answer.sent
           s == Left(answer, 0, sent)
           K == Len(s)
           last == DecodeChunk(AfterTurns(c))
           g == [n \in 0..K |-> IF n <= c THEN AfterTurns(n) ELSE last]
           start == Seen("chunk", <<>>, s)
           Recurs(f) == f = [n \in 0..K |-> IF n = 0 THEN start ELSE DecodeChunk(f[n - 1])]
           h == CHOOSE f : Recurs(f)
<1>1. k \in Nat /\ sent \in 0..Len(Wire(answer)) /\ Len(Wire(answer)) \in Nat
  <2>1. k \in Nat /\ sent \in 0..Len(Wire(answer)) /\ Wire(answer) \in Seq(Byte)
    BY AnswerIs, WireIs, Zenon
  <2> QED BY <2>1, LengthIs
<1>2. c \in 0..k
  BY SentIs
<1>3. EndOf(answer, 0) = 5
  <2>1. Len(Chunks(answer, 0)) = 0
    BY NoChunks
  <2> QED BY <2>1 DEF EndOf
<1>4. s \in Seq(Byte) /\ K = sent - 5 /\ K \in Nat
  <2>1. 0 \in 0..k
    BY <1>1
  <2>2. sent \in EndOf(answer, 0)..sent
    <3> HIDE DEF sent
    <3>1. sent >= 5
      BY DEF sent
    <3> QED BY <1>1, <1>3, <3>1
  <2>3. s \in Seq(Byte) /\ Len(s) = sent - EndOf(answer, 0)
    BY <2>1, <2>2, SeenMeans, Zenon
  <2>4. sent >= 5 /\ sent \in Nat
    BY <1>1
  <2> HIDE DEF sent, s
  <2> QED BY <1>3, <2>3, <2>4
<1>5. DataUpTo(answer, 0) = <<>>
  <2>1. 0 \in 0..Len(answer.parts)
    BY <1>1
  <2> QED BY <2>1, DataIs
<1>6. AfterTurns(0) = start
  BY <1>5 DEF AfterTurns
<1>7. \A n \in 0..k : n < c => DecodeChunk(AfterTurns(n)) = AfterTurns(n + 1)
  BY TurnTakes
<1>8. /\ last.is # "chunk" /\ DecodeChunk(last) = last
      /\ last.is = "last" <=> EndSent /\ answer.ends = "last"
      /\ last.is = "last" => last.data = DataUpTo(answer, k)
  BY LastTurn
<1>9. last = DecodeChunk(AfterTurns(c))
  OBVIOUS
<1>10. EndSent => c = k /\ sent >= EndOf(answer, k) + 3
  BY EndSentIs
<1>11. EndSent => K > c
  <2> SUFFICES ASSUME EndSent PROVE K > c
    OBVIOUS
  <2>1. 0 \in 0..k /\ k \in 0..k
    BY <1>1
  <2>2. Len(Chunks(answer, 0)) + 6 * (k - 0) <= Len(Chunks(answer, k))
    BY <2>1, ChunksStand
  <2>3. Len(Chunks(answer, 0)) = 0 /\ Len(Chunks(answer, k)) \in Nat
    BY <2>1, NoChunks, ChunksAre
  <2>4. EndOf(answer, k) = 5 + Len(Chunks(answer, k))
    BY DEF EndOf
  <2>5. c = k /\ sent >= EndOf(answer, k) + 3
    BY <1>10
  <2> HIDE DEF c, k, sent, s, K
  <2> QED BY <1>1, <1>4, <2>2, <2>3, <2>4, <2>5
<1> HIDE DEF c, last
<1>12. g[0] = start /\ \A n \in 1..K : g[n] = DecodeChunk(g[n - 1])
  <2>1. g[0] = start
    <3>1. 0 \in 0..K /\ 0 <= c
      BY <1>1, <1>2, <1>4
    <3> QED BY <1>6, <3>1
  <2>2. ASSUME NEW n \in 1..K PROVE g[n] = DecodeChunk(g[n - 1])
    <3>1. n \in 0..K /\ n - 1 \in 0..K /\ n \in Nat
      BY <1>4
    <3> HIDE DEF start, Recurs, K, s, k
    <3>2. g[n] = (IF n <= c THEN AfterTurns(n) ELSE last) /\ g[n - 1] = (IF n - 1 <= c THEN AfterTurns(n - 1) ELSE last)
      BY <3>1
    <3> HIDE DEF g
    <3>3. CASE n <= c
      <4>1. n - 1 \in 0..k /\ n - 1 < c /\ n - 1 + 1 = n /\ n - 1 <= c
        BY <1>1, <1>2, <3>1, <3>3
      <4>2. DecodeChunk(AfterTurns(n - 1)) = AfterTurns(n)
        BY <1>7, <4>1
      <4> QED BY <3>2, <3>3, <4>1, <4>2
    <3>4. CASE n = c + 1
      <4>1. n - 1 = c /\ ~(n <= c) /\ n - 1 <= c
        BY <1>2, <3>1, <3>4
      <4> QED BY <1>9, <3>2, <4>1
    <3>5. CASE ~(n <= c + 1)
      <4>1. ~(n <= c) /\ ~(n - 1 <= c)
        BY <1>2, <3>1, <3>5
      <4> QED BY <1>8, <3>2, <4>1
    <3> QED BY <1>2, <3>1, <3>3, <3>4, <3>5
  <2> HIDE DEF g, start, K
  <2> QED BY <2>1, <2>2
<1> DEFINE gK == g[K]
<1>13. gK = IF K <= c THEN AfterTurns(K) ELSE last
  <2>1. K \in 0..K
    BY <1>4
  <2> HIDE DEF K
  <2> QED BY <2>1
<1>14. Recurs(g)
  <2>1. \A n \in 0..K : g[n] = IF n = 0 THEN start ELSE DecodeChunk(g[n - 1])
    <3> HIDE DEF g, start
    <3>1. \A n \in 0..K : n = 0 \/ n \in 1..K
      BY <1>4
    <3> QED BY <1>12, <3>1
  <2>2. g = [n \in 0..K |-> g[n]]
    OBVIOUS
  <2> HIDE DEF g, start, K, s
  <2>3. [n \in 0..K |-> g[n]] = [n \in 0..K |-> IF n = 0 THEN start ELSE DecodeChunk(g[n - 1])]
    BY <2>1, Zenon
  <2> QED BY <2>2, <2>3, Zenon
<1> HIDE DEF g, start, s, K
<1>15. Recurs(h)
  BY <1>14, Zenon
<1>16. h[0] = start /\ \A n \in 1..K : h[n] = DecodeChunk(h[n - 1])
  <2> HIDE DEF h
  <2>1. \A n \in 0..K : h[n] = IF n = 0 THEN start ELSE DecodeChunk(h[n - 1])
    BY <1>15
  <2>2. 0 \in 0..K /\ \A n \in 1..K : n \in 0..K /\ n # 0
    BY <1>4
  <2> QED BY <2>1, <2>2
<1>17. h[K] = gK
  <2> DEFINE good == {n \in 0..K : h[n] = g[n]}
  <2> HIDE DEF h
  <2>1. 0 \in good
    BY <1>4, <1>12, <1>16
  <2>2. ASSUME NEW n \in 1..K, n - 1 \in good PROVE n \in good
    <3>1. n \in 0..K
      BY <1>4
    <3> QED BY <1>12, <1>16, <2>2, <3>1
  <2> HIDE DEF good
  <2>3. \A n \in 0..K : n \in good
    BY <1>4, <2>1, <2>2, AllUpTo
  <2>4. K \in good
    BY <1>4, <2>3
  <2> QED BY <2>4 DEF good
<1>18. DecodeChunkedBody(s) = [ok |-> h[K].is = "last", data |-> h[K].data]
  BY Zenon DEF DecodeChunkedBody, start, K
<1> HIDE DEF h, gK
<1>19. DecodeChunkedBody(s).ok = (gK.is = "last") /\ DecodeChunkedBody(s).data = gK.data
  BY <1>17, <1>18
<1>20. (gK.is = "last" <=> EndSent /\ answer.ends = "last") /\ (gK.is = "last" => gK.data = DataUpTo(answer, k))
  <2>1. CASE K <= c
    <3>1. gK.is = "chunk"
      BY <1>13, <2>1 DEF AfterTurns, Seen
    <3>2. ~EndSent
      BY <1>2, <1>4, <1>11, <2>1
    <3> QED BY <3>1, <3>2
  <2>2. CASE ~(K <= c)
    BY <1>8, <1>13, <2>2
  <2> QED BY <2>1, <2>2
<1> QED BY <1>19, <1>20 DEF s, k, sent

-----------------------------------------------------------------------------
(* What a request has come to: the head, the body, the end.                *)

\* "latest" has not counted a frame.
NoFrames == [count |-> 0, last |-> <<>>]

\* Nothing has been used, and nothing handed on.
InHead == phase = "head" /\ results = <<>> /\ frames = NoFrames /\ buffer = SubSeq(Wire(answer), 1, got)

\* n chunks have been used: a stream has handed on what they give, "latest" holds the last of them.
AfterChunk(n) ==
    /\ EndOf(answer, n) <= got /\ buffer = Left(answer, n, got)
    /\ results = IF asked = "stream" THEN PartsGive(n) ELSE <<>>
    /\ frames = IF asked = "latest" /\ n > 0 THEN [count |-> n, last |-> FrameOf(answer.parts[n].data)] ELSE NoFrames
    /\ asked = "first" => n = 0
    /\ asked = "latest" => n < MaxFrames

InChunkedBody == answer.coding = "chunked" /\ \E n \in 0..Len(answer.parts) : AfterChunk(n)

\* In a body in one piece, nothing has been used but the head.
InPiece ==
    /\ answer.coding # "chunked" /\ buffer = SubSeq(Wire(answer), 6, got)
    /\ results = <<>> /\ frames = NoFrames

\* In the body, the head has come; a stream has checked its status.
InBody ==
    /\ phase = "body" /\ asked # "whole" /\ got >= 5 /\ (asked = "stream" => answer.good)
    /\ InChunkedBody \/ InPiece

\* At the end the caller has been given what is expected.
IsOver == phase = "over" /\ results = Expected /\ Len(buffer) <= got /\ frames.count \in 0..MaxFrames - 1

\* The inductive invariant behind FramesComeWhole.
FramesInv ==
    /\ asked \in RequestKinds /\ answer \in Answers /\ got \in 0..answer.sent
    /\ InHead \/ InBody \/ IsOver

-----------------------------------------------------------------------------
(* What the pieces of an answer give.                                      *)

\* The frame of a part gives the part's document.
LEMMA PartGives ==
    ASSUME answer \in Answers, answer.coding = "chunked", NEW n \in 1..Len(answer.parts)
    PROVE  /\ Checked(FrameOf(answer.parts[n].data)) = Gives(answer.parts[n].doc)
           /\ answer.good => Decoded(FrameOf(answer.parts[n].data)) = Gives(answer.parts[n].doc)
<1> DEFINE data == answer.parts[n].data
           doc == answer.parts[n].doc
<1>1. data \in Seq(Byte) /\ doc \in Seq(Byte)
  BY AnswerIs
<1>2. OpensWith(data, doc)
  <2>1. MadeInChunks(answer) /\ DOMAIN answer.parts = 1..Len(answer.parts)
    BY AnswerIs
  <2> QED BY <2>1, Zenon DEF MadeInChunks
<1> HIDE DEF data, doc
<1>3. Decoded(FrameOf(data)) = IF doc # <<>> THEN GoodDocument(doc) ELSE Failure
  BY <1>1, <1>2, PartIs
<1> QED BY <1>3, Zenon DEF Checked, Gives, data, doc

\* The bytes of all parts give the document of the answer.
LEMMA AllGive ==
    ASSUME answer \in Answers, answer.coding = "chunked", answer.ends = "last"
    PROVE  Checked(DataUpTo(answer, Len(answer.parts))) = Gives(answer.doc)
<1> DEFINE data == DataUpTo(answer, Len(answer.parts))
           body == TrimAscii(data)
<1>1. MadeInChunks(answer) /\ DOMAIN answer.parts = 1..Len(answer.parts) /\ Len(answer.parts) \in Nat
  BY AnswerIs
<1>2. data \in Seq(Byte)
  <2>1. Len(answer.parts) \in 0..Len(answer.parts)
    BY <1>1
  <2> QED BY <2>1, DataIs
<1>3. answer.doc = IF IsDocument(body) THEN body ELSE <<>>
  BY <1>1, Zenon DEF MadeInChunks, DataUpTo
<1> HIDE DEF data
<1>4. Decoded(data) = IF IsDocument(body) THEN GoodDocument(body) ELSE Failure
  BY <1>2, DecodedIs
<1>5. IsDocument(body) => body # <<>>
  BY Zenon DEF IsDocument
<1> HIDE DEF body
<1>6. Checked(data) = Gives(answer.doc)
  BY <1>3, <1>4, <1>5, Zenon DEF Checked, Gives
<1> QED BY <1>6 DEF data

\* The beginning of an answer: the head is five bytes.
LEMMA HeadComes ==
    ASSUME NEW w \in Answers, NEW m \in 0..Len(Wire(w))
    PROVE  LET s == SubSeq(Wire(w), 1, m)
           IN /\ s \in Seq(Byte) /\ Len(s) = m
              /\ m < 5 => FindIn(s, HeadEnd) = 0
              /\ m >= 5 => FindIn(s, HeadEnd) = 2 /\ Dropped(s, 2 + 3) = SubSeq(Wire(w), 6, m)
<1> DEFINE u == Wire(w)
           s == SubSeq(u, 1, m)
<1>1. /\ u \in Seq(Byte)
      /\ u[1] # "cr" /\ u[2] = "cr" /\ u[3] = "lf" /\ u[4] = "cr" /\ u[5] = "lf"
  BY WireIs
<1>2. m \in 0..Len(u) /\ m \in Nat
  <2>1. Len(u) \in Nat
    BY <1>1, LengthIs
  <2> QED BY <2>1
<1> HIDE DEF u
<1>3. s \in Seq(Byte) /\ Len(s) = m /\ \A j \in 1..m : s[j] = u[j]
  BY <1>1, <1>2, PrefixIs
<1>4. m >= 5 => Dropped(s, 2 + 3) = SubSeq(u, 6, m)
  <2> SUFFICES ASSUME m >= 5 PROVE Dropped(s, 2 + 3) = SubSeq(u, 6, m)
    OBVIOUS
  <2>1. Dropped(s, 2 + 3) = SubSeq(s, 5 + 1, m)
    BY <1>3 DEF Dropped
  <2> HIDE DEF s
  <2>2. SubSeq(s, 5 + 1, m) \in Seq(Byte) /\ Len(SubSeq(s, 5 + 1, m)) = m - 5 /\ \A j \in 1..(m - 5) : SubSeq(s, 5 + 1, m)[j] = s[5 + j]
    <3>1. m <= Len(s) /\ 5 \in Nat /\ 5 <= m
      BY <1>2, <1>3
    <3> QED BY <1>2, <1>3, <3>1, Piece
  <2>3. SubSeq(u, 5 + 1, m) \in Seq(Byte) /\ Len(SubSeq(u, 5 + 1, m)) = m - 5 /\ \A j \in 1..(m - 5) : SubSeq(u, 5 + 1, m)[j] = u[5 + j]
    <3>1. m <= Len(u) /\ 5 \in Nat /\ 5 <= m
      <4>1. Len(u) \in Nat
        BY <1>1, LengthIs
      <4> QED BY <1>2, <4>1
    <3> QED BY <1>1, <1>2, <3>1, Piece
  <2>4. \A j \in 1..(m - 5) : 5 + j \in 1..m
    BY <1>2
  <2>5. \A j \in 1..(m - 5) : s[5 + j] = u[5 + j]
    BY <1>3, <2>4
  <2> DEFINE x == SubSeq(s, 5 + 1, m)
             y == SubSeq(u, 5 + 1, m)
  <2>6. x \in Seq(Byte) /\ y \in Seq(Byte) /\ Len(x) = Len(y) /\ \A j \in 1..Len(x) : x[j] = y[j]
    BY <2>2, <2>3, <2>5
  <2>7. x = y
    <3> HIDE DEF x, y
    <3> QED BY <2>6, SameBytes
  <2>8. 5 + 1 = 6
    OBVIOUS
  <2> QED BY <2>1, <2>7, <2>8
<1> HIDE DEF s
<1>5. /\ Len(s) >= 1 => s[1] # "cr"
      /\ Len(s) >= 2 => s[2] = "cr"
      /\ Len(s) >= 3 => s[3] = "lf"
      /\ Len(s) >= 4 => s[4] = "cr"
      /\ Len(s) >= 5 => s[5] = "lf"
  BY <1>1, <1>2, <1>3
<1>6. (Len(s) < 5 => FindIn(s, HeadEnd) = 0) /\ (Len(s) >= 5 => FindIn(s, HeadEnd) = 2)
  BY <1>3, <1>5, HeadSeen
<1> QED BY <1>3, <1>4, <1>6 DEF s, u

\* A body in one piece, of which some has come.
LEMMA PieceGiven ==
    ASSUME answer \in Answers, answer.coding # "chunked", NEW m \in 5..Len(Wire(answer))
    PROVE  LET data == answer.parts[1].data
               doc == answer.parts[1].doc
               b == SubSeq(Wire(answer), 6, m)
           IN /\ b \in Seq(Byte) /\ Len(b) = m - 5 /\ Len(Wire(answer)) = 5 + Len(data) /\ Len(data) \in Nat
              /\ Len(doc) \in 1..Len(data) /\ doc # <<>>
              /\ m < 5 + Len(doc) => FirstJsonFrame(b) = <<>> /\ Checked(b) = Failure
              /\ m >= 5 + Len(doc) => FirstJsonFrame(b) = doc /\ Checked(b) = Gives(doc) /\ Checked(doc) = Gives(doc)
              /\ m = 5 + Len(data) => SubSeq(b, 1, Len(data)) = b
<1> DEFINE data == answer.parts[1].data
           doc == answer.parts[1].doc
           u == Wire(answer)
           b == SubSeq(u, 6, m)
           c == SubSeq(data, 1, m - 5)
<1>1. u \in Seq(Byte) /\ Len(u) = 5 + Len(data) /\ \A j \in 1..Len(data) : u[5 + j] = data[j]
  <2>1. BodyOf(answer) = data
    BY DEF BodyOf
  <2> QED BY <2>1, WireIs, Zenon
<1>2. MadeInOnePiece(answer) /\ Len(answer.parts) = 1 /\ data \in Seq(Byte) /\ doc \in Seq(Byte)
  <2>1. MadeInOnePiece(answer) /\ Len(answer.parts) = 1
    BY AnswerIs
  <2>2. 1 \in 1..Len(answer.parts)
    BY <2>1
  <2> QED BY <2>1, <2>2, AnswerIs, Zenon
<1>3. IsDocument(doc) /\ IsPrefix(doc, data) /\ \A i \in Len(doc) + 1 .. Len(data) : data[i] \in Blanks
  BY <1>2, Zenon DEF MadeInOnePiece
<1>4. Len(data) \in Nat /\ Len(doc) \in Nat /\ Len(doc) >= 1 /\ doc # <<>>
  <2>1. Len(doc) >= 1
    BY <1>2, <1>3, DocumentIs
  <2> QED BY <1>2, <2>1, LengthIs
<1>5. Len(doc) <= Len(data)
  <2> HIDE DEF data, doc
  <2> QED BY <1>2, <1>3 DEF IsPrefix
<1>6. m \in 5..Len(u)
  OBVIOUS
<1> HIDE DEF data, doc, u
<1>7. m \in Nat /\ m - 5 \in 0..Len(data) /\ m - 5 \in Nat /\ Len(u) \in Nat /\ 5 <= m /\ m <= Len(u)
  BY <1>1, <1>4, <1>6
<1>8. c \in Seq(Byte) /\ Len(c) = m - 5 /\ \A j \in 1..(m - 5) : c[j] = data[j]
  BY <1>2, <1>7, PrefixIs
<1>9. b \in Seq(Byte) /\ Len(b) = m - 5 /\ \A j \in 1..(m - 5) : b[j] = u[5 + j]
  <2>1. 5 \in Nat
    OBVIOUS
  <2>2. SubSeq(u, 5 + 1, m) \in Seq(Byte) /\ Len(SubSeq(u, 5 + 1, m)) = m - 5 /\ \A j \in 1..(m - 5) : SubSeq(u, 5 + 1, m)[j] = u[5 + j]
    BY <1>1, <1>7, <2>1, Piece
  <2>3. 5 + 1 = 6
    OBVIOUS
  <2> QED BY <2>2, <2>3
<1>10. b = c
  <2> HIDE DEF b, c
  <2>1. \A j \in 1..(m - 5) : j \in 1..Len(data)
    BY <1>4, <1>7
  <2>2. \A j \in 1..(m - 5) : b[j] = c[j]
    BY <1>1, <1>8, <1>9, <2>1
  <2>3. Len(b) = Len(c) /\ \A j \in 1..Len(b) : b[j] = c[j]
    BY <1>8, <1>9, <2>2
  <2> QED BY <1>8, <1>9, <2>3, SameBytes
<1>11. IF m - 5 < Len(doc) THEN FirstJsonFrame(c) = <<>> /\ Decoded(c) = Failure
       ELSE FirstJsonFrame(c) = doc /\ Decoded(c) = GoodDocument(doc)
  BY <1>2, <1>3, <1>7, PieceSeen
<1>12. m < 5 + Len(doc) <=> m - 5 < Len(doc)
  BY <1>4, <1>7
<1>13. m >= 5 + Len(doc) <=> ~(m - 5 < Len(doc))
  BY <1>4, <1>7
<1>14. Decoded(doc) = GoodDocument(doc)
  BY <1>2, <1>3, DecodedDocument
<1>15. m < 5 + Len(doc) => FirstJsonFrame(b) = <<>> /\ Checked(b) = Failure
  <2> HIDE DEF b, c
  <2> QED BY <1>10, <1>11, <1>12, Zenon DEF Checked
<1>16. m >= 5 + Len(doc) => FirstJsonFrame(b) = doc /\ Checked(b) = Gives(doc) /\ Checked(doc) = Gives(doc)
  <2> HIDE DEF b, c
  <2> QED BY <1>4, <1>10, <1>11, <1>13, <1>14, Zenon DEF Checked, Gives
<1>17. m = 5 + Len(data) => SubSeq(b, 1, Len(data)) = b
  <2> HIDE DEF b, c
  <2>1. m = 5 + Len(data) => m - 5 = Len(data)
    BY <1>4, <1>7
  <2>2. SubSeq(b, 1, Len(b)) = b
    BY <1>9, PrefixOfAll
  <2> QED BY <1>9, <2>1, <2>2
<1>18. Len(doc) \in 1..Len(data)
  BY <1>4, <1>5
<1> QED BY <1>1, <1>4, <1>9, <1>15, <1>16, <1>17, <1>18 DEF b, data, doc, u

\* More of an answer comes behind what has come.
LEMMA Extend ==
    ASSUME NEW w \in Seq(Byte), NEW p \in Nat, NEW m \in Nat, NEW n \in Nat, p <= m, m + n <= Len(w)
    PROVE  SubSeq(w, p + 1, m) \o SubSeq(w, m + 1, m + n) = SubSeq(w, p + 1, m + n)
<1> DEFINE s == SubSeq(w, p + 1, m)
           t == SubSeq(w, m + 1, m + n)
           r == SubSeq(w, p + 1, m + n)
<1>0. m + n \in Nat /\ m <= m + n /\ p <= m + n /\ m <= Len(w) /\ m + n - m = n
  <2>1. Len(w) \in Nat
    BY LengthIs
  <2> QED BY <2>1
<1>1. s \in Seq(Byte) /\ Len(s) = m - p /\ \A j \in 1..(m - p) : s[j] = w[p + j]
  BY <1>0, Piece
<1>2. t \in Seq(Byte) /\ Len(t) = n /\ \A j \in 1..n : t[j] = w[m + j]
  <2>1. t \in Seq(Byte) /\ Len(t) = m + n - m /\ \A j \in 1..(m + n - m) : t[j] = w[m + j]
    BY <1>0, Piece
  <2> QED BY <1>0, <2>1
<1>3. r \in Seq(Byte) /\ Len(r) = m + n - p /\ \A j \in 1..(m + n - p) : r[j] = w[p + j]
  BY <1>0, Piece
<1> HIDE DEF s, t, r
<1>4. /\ s \o t \in Seq(Byte) /\ Len(s \o t) = Len(s) + Len(t)
      /\ (\A i \in 1..Len(s) : (s \o t)[i] = s[i]) /\ \A i \in 1..Len(t) : (s \o t)[Len(s) + i] = t[i]
  <2>1. s \in Seq(Byte) /\ t \in Seq(Byte)
    BY <1>1, <1>2, Zenon
  <2> QED BY <2>1, ConcatIs
<1>5. Len(s \o t) = Len(r)
  BY <1>1, <1>2, <1>3, <1>4
<1>6. ASSUME NEW j \in 1..Len(s \o t) PROVE (s \o t)[j] = r[j]
  <2>1. CASE j <= m - p
    <3>1. j \in 1..Len(s) /\ j \in 1..(m - p) /\ j \in 1..(m + n - p)
      BY <1>1, <1>2, <1>4, <2>1
    <3> QED BY <1>1, <1>3, <1>4, <3>1
  <2>2. CASE ~(j <= m - p)
    <3> DEFINE i == j - (m - p)
    <3>1. i \in 1..Len(t) /\ i \in 1..n /\ j \in 1..(m + n - p) /\ Len(s) + i = j /\ m + i = p + j
      BY <1>1, <1>2, <1>4, <2>2
    <3> HIDE DEF i
    <3>2. (s \o t)[Len(s) + i] = t[i] /\ t[i] = w[m + i] /\ r[j] = w[p + j]
      BY <1>2, <1>3, <1>4, <3>1
    <3> QED BY <3>1, <3>2
  <2> QED BY <2>1, <2>2
<1>7. s \o t = r
  <2> DEFINE q == s \o t
  <2>1. q \in Seq(Byte) /\ r \in Seq(Byte) /\ Len(q) = Len(r) /\ \A j \in 1..Len(q) : q[j] = r[j]
    BY <1>3, <1>4, <1>5, <1>6
  <2> HIDE DEF q
  <2>2. q = r
    BY <2>1, SameBytes
  <2> QED BY <2>2 DEF q
<1> QED BY <1>7 DEF s, t, r

-----------------------------------------------------------------------------
(* What a caller can be given.                                             *)

\* An error, a timeout, the document of the answer, or of one of its parts.
Given ==
    {Failure, TimedOut, GoodDocument(answer.doc)} \cup {GoodDocument(answer.parts[i].doc) : i \in 1..Len(answer.parts)}

\* A list of frames, one by one.
LEMMA PartsGiveIs ==
    ASSUME answer \in Answers, NEW n \in 0..Len(answer.parts)
    PROVE  /\ PartsGive(n) \in Seq(Given) /\ Len(PartsGive(n)) = n
           /\ \A i \in 1..n : PartsGive(n)[i] = Gives(answer.parts[i].doc)
           /\ n = 0 => PartsGive(n) = <<>>
<1>1. n \in Nat /\ \A i \in 1..n : i \in 1..Len(answer.parts)
  <2>1. Len(answer.parts) \in Nat
    BY AnswerIs
  <2> QED BY <2>1
<1>2. \A i \in 1..n : Gives(answer.parts[i].doc) \in Given
  BY <1>1, Zenon DEF Gives, Given
<1> HIDE DEF Given
<1>3. \A i \in 1..n : PartsGive(n)[i] = Gives(answer.parts[i].doc)
  BY DEF PartsGive
<1>4. PartsGive(n) \in Seq(Given) /\ Len(PartsGive(n)) = n
  BY <1>1, <1>2 DEF PartsGive
<1>5. n = 0 => PartsGive(n) = <<>>
  BY <1>4
<1> QED BY <1>3, <1>4, <1>5

\* One more frame.
LEMMA OneMore ==
    ASSUME answer \in Answers, NEW n \in 0..Len(answer.parts), n + 1 \in 1..Len(answer.parts)
    PROVE  Append(PartsGive(n), Gives(answer.parts[n + 1].doc)) = PartsGive(n + 1)
<1> DEFINE x == PartsGive(n)
           y == PartsGive(n + 1)
           v == Gives(answer.parts[n + 1].doc)
<1>1. n \in Nat /\ n + 1 \in 0..Len(answer.parts)
  <2>1. Len(answer.parts) \in Nat
    BY AnswerIs
  <2> QED BY <2>1
<1>2. x \in Seq(Given) /\ Len(x) = n /\ \A i \in 1..n : x[i] = Gives(answer.parts[i].doc)
  BY PartsGiveIs
<1>3. y \in Seq(Given) /\ Len(y) = n + 1 /\ \A i \in 1..(n + 1) : y[i] = Gives(answer.parts[i].doc)
  BY <1>1, PartsGiveIs
<1>4. v \in Given
  <2>1. n + 1 \in 1..(n + 1) /\ y[n + 1] = v
    BY <1>1, <1>3
  <2> HIDE DEF y, v, Given
  <2> QED BY <1>3, <2>1
<1>5. y[n + 1] = v
  BY <1>1, <1>3
<1>6. \A i \in 1..n : y[i] = x[i]
  BY <1>1, <1>2, <1>3
<1> HIDE DEF x, y, v, Given
<1> QED BY <1>1, <1>2, <1>3, <1>4, <1>5, <1>6 DEF x, y, v

\* What is expected is something a caller can be given.
LEMMA ExpectedIs ==
    ASSUME answer \in Answers, asked \in RequestKinds
    PROVE  Expected \in Seq(Given)
<1> DEFINE k == Len(answer.parts)
<1>1. Failure \in Given /\ TimedOut \in Given /\ Gives(answer.doc) \in Given
  BY Zenon DEF Given, Gives
<1>2. k \in Nat /\ answer.sent \in 0..Len(Wire(answer)) /\ (answer.coding # "chunked" => k = 1)
  BY AnswerIs
<1>3. answer.sent \in Nat
  <2>1. Wire(answer) \in Seq(Byte)
    BY WireIs
  <2>2. Len(Wire(answer)) \in Nat
    BY <2>1, LengthIs
  <2> QED BY <1>2, <2>2
<1>4. \A i \in 1..k : Gives(answer.parts[i].doc) \in Given
  BY Zenon DEF Given, Gives
<1>5. <<>> \in Seq(Given) /\ \A x \in Given : <<x>> \in Seq(Given)
  OBVIOUS
<1>6. NothingElse \in Given
  BY <1>1, Zenon DEF NothingElse
<1>7. CASE ~HeadSent
  <2>1. Expected = <<NothingElse>>
    BY <1>7, Zenon DEF Expected
  <2> QED BY <1>5, <1>6, <2>1, Zenon
<1>8. CASE HeadSent /\ answer.coding # "chunked"
  <2>1. PieceGives \in Given
    <3>0. k = 1
      BY <1>2, <1>8, Zenon
    <3>1. 1 \in 1..k
      BY <3>0
    <3> QED BY <1>1, <1>4, <3>1, Zenon DEF PieceGives
  <2>2. WholeGives \in Given
    BY <1>1, <1>8, <2>1, Zenon DEF WholeGives
  <2>3. InOnePieceGives \in Seq(Given)
    BY <1>1, <1>5, <2>1, Zenon DEF InOnePieceGives
  <2> QED BY <1>1, <1>5, <1>8, <2>2, <2>3, Zenon DEF Expected
<1>9. CASE HeadSent /\ answer.coding = "chunked"
  <2>1. answer.sent >= 5
    BY <1>9 DEF HeadSent, HeadEndsAt
  <2>2. ChunksSent \in 0..k
    BY <1>9, <2>1, SentIs
  <2> DEFINE c == ChunksSent
             p == PartsGive(c)
  <2>3. p \in Seq(Given) /\ Len(p) = c /\ \A i \in 1..c : p[i] = Gives(answer.parts[i].doc)
    BY <2>2, PartsGiveIs
  <2>4. WholeGives \in Given
    BY <1>1, <1>9, Zenon DEF WholeGives
  <2>5. StreamGives \in Seq(Given)
    <3>1. StreamGives = p \o <<>> \/ StreamGives = p \o <<Failure>>
      BY Zenon DEF StreamGives
    <3>2. <<Failure>> \in Seq(Given) /\ <<>> \in Seq(Given)
      BY <1>1, <1>5, Zenon
    <3> HIDE DEF p
    <3> DEFINE one == <<Failure>>
               none == <<>>
    <3> HIDE DEF one, none
    <3>3. p \o one \in Seq(Given) /\ p \o none \in Seq(Given)
      <4>1. one \in Seq(Given) /\ none \in Seq(Given)
        BY <3>2 DEF one, none
      <4> QED BY <2>3, <4>1, ConcatIs
    <3> QED BY <3>1, <3>3 DEF one, none
  <2>6. FrameGiven \in Given
    <3>1. \A i \in 1..c : p[i] \in Given
      <4> HIDE DEF p
      <4> QED BY <2>3
    <3>2. c \in Nat
      BY <1>2, <2>2
    <3>3. c >= 1 => 1 \in 1..c
      <4> HIDE DEF c
      <4> QED BY <3>2
    <3>4. c >= 2 => 2 \in 1..c
      <4> HIDE DEF c
      <4> QED BY <3>2
    <3>5. c > 0 => c \in 1..c
      <4> HIDE DEF c
      <4> QED BY <3>2
    <3>6. MaxFrames = 2
      BY DEF MaxFrames
    <3> HIDE DEF p, c
    <3> DEFINE enough == IF asked = "first" THEN 1 ELSE MaxFrames
    <3>7. c >= enough => p[enough] \in Given
      BY <3>1, <3>3, <3>4, <3>6
    <3>8. FrameGiven = IF c >= enough THEN p[enough]
                       ELSE IF ~EndSent THEN TimedOut
                       ELSE IF asked = "latest" /\ c > 0 /\ answer.ends = "last" THEN p[c] ELSE Failure
      BY Zenon DEF FrameGiven, p, c, enough
    <3> HIDE DEF enough
    <3>9. c > 0 => p[c] \in Given
      BY <3>1, <3>5, Zenon
    <3> QED BY <1>1, <3>7, <3>8, <3>9, Zenon
  <2> QED BY <1>1, <1>5, <1>9, <2>4, <2>5, <2>6, Zenon DEF Expected
<1> QED BY <1>7, <1>8, <1>9

\* A sequence with the elements that another begins with is a prefix of it.
LEMMA PrefixOf ==
    ASSUME NEW X, NEW s \in Seq(X), NEW t \in Seq(X), Len(s) <= Len(t), \A i \in 1..Len(s) : s[i] = t[i]
    PROVE  IsPrefix(s, t)
BY DEF IsPrefix

\* Nothing, and the whole, begin a sequence.
LEMMA PrefixTrivial ==
    ASSUME NEW X, NEW s \in Seq(X)
    PROVE  IsPrefix(<<>>, s) /\ IsPrefix(s, s)
BY DEF IsPrefix

\* What a stream has handed on begins what is expected of it.
LEMMA StreamBegins ==
    ASSUME answer \in Answers, answer.coding = "chunked", answer.sent >= 5, NEW n \in 0..Len(answer.parts), n <= ChunksSent
    PROVE  IsPrefix(PartsGive(n), StreamGives)
<1> DEFINE c == ChunksSent
           k == Len(answer.parts)
           p == PartsGive(c)
           s == PartsGive(n)
<1>1. c \in 0..k /\ k \in Nat /\ n \in 0..k
  BY SentIs, AnswerIs
<1>2. p \in Seq(Given) /\ Len(p) = c /\ \A i \in 1..c : p[i] = Gives(answer.parts[i].doc)
  BY <1>1, PartsGiveIs
<1>3. s \in Seq(Given) /\ Len(s) = n /\ \A i \in 1..n : s[i] = Gives(answer.parts[i].doc)
  BY <1>1, PartsGiveIs
<1>4. PICK t \in Seq(Given) : StreamGives = p \o t
  <2>1. <<>> \in Seq(Given) /\ <<Failure>> \in Seq(Given)
    <3>1. Failure \in Given
      BY Zenon DEF Given
    <3> HIDE DEF Given
    <3> QED BY <3>1
  <2> QED BY <2>1, Zenon DEF StreamGives
<1>5. n <= c
  OBVIOUS
<1> HIDE DEF c, k, p, s
<1>6. p \o t \in Seq(Given) /\ Len(p \o t) = Len(p) + Len(t) /\ \A i \in 1..Len(p) : (p \o t)[i] = p[i]
  BY <1>2, <1>4, ConcatIs
<1>7. Len(t) \in Nat /\ n \in Nat /\ c \in Nat
  BY <1>1, <1>4
<1>8. Len(s) <= Len(p \o t)
  BY <1>2, <1>3, <1>5, <1>6, <1>7
<1>9. \A i \in 1..Len(s) : s[i] = (p \o t)[i]
  <2>1. \A i \in 1..n : i \in 1..c
    BY <1>5, <1>7
  <2> QED BY <1>2, <1>3, <1>6, <2>1
<1>10. IsPrefix(s, p \o t)
  BY <1>3, <1>6, <1>8, <1>9, PrefixOf
<1> QED BY <1>4, <1>10 DEF s

-----------------------------------------------------------------------------
(* The invariant says what is wanted.                                      *)

\* A request that is quiet has handed on what is expected, and none has handed on anything else.
LEMMA FramesWhole ==
    ASSUME FramesInv
    PROVE  FramesComeWhole /\ ControllerTypeOK
<1>1. asked \in RequestKinds /\ answer \in Answers /\ got \in 0..answer.sent
  BY Zenon DEF FramesInv
<1>2. Expected \in Seq(Given)
  BY <1>1, ExpectedIs
<1>3. answer.sent \in 0..Len(Wire(answer)) /\ Wire(answer) \in Seq(Byte) /\ Len(Wire(answer)) \in Nat
  <2>1. answer.sent \in 0..Len(Wire(answer)) /\ Wire(answer) \in Seq(Byte)
    BY <1>1, AnswerIs, WireIs, Zenon
  <2> QED BY <2>1, LengthIs
<1>4. got \in Nat /\ got <= answer.sent /\ answer.sent \in Nat /\ got \in 0..Len(Wire(answer)) /\ answer.sent <= Len(Wire(answer))
  BY <1>1, <1>3
<1>5. MaxFrames = 2 /\ 0 \in 0..MaxFrames - 1
  BY DEF MaxFrames
<1>6. \A g \in Given : g.is \in {"document", "error", "timeout"}
  BY DEF Given, Failure, TimedOut, GoodDocument
<1>7. ASSUME NEW s \in Seq(Given) PROVE \A i \in DOMAIN s : s[i].is \in {"document", "error", "timeout"}
  <2>1. \A i \in DOMAIN s : s[i] \in Given
    <3> HIDE DEF Given
    <3> QED OBVIOUS
  <2> QED BY <1>6, <2>1
<1>8. NoFrames.count = 0
  BY DEF NoFrames
<1> HIDE DEF Given
<1>9. <<>> \in Seq(Given)
  OBVIOUS
<1>10. CASE InHead
  <2>1. phase = "head" /\ results = <<>> /\ frames = NoFrames /\ buffer = SubSeq(Wire(answer), 1, got)
    BY <1>10, Zenon DEF InHead
  <2>2. Len(buffer) = got
    BY <1>1, <1>4, <2>1, HeadComes
  <2>3. ~Quiet
    BY <2>1 DEF Quiet
  <2>4. FramesComeWhole
    BY <1>2, <2>1, <2>3, PrefixTrivial, Zenon DEF FramesComeWhole
  <2>5. ControllerTypeOK
    <3>1. \A i \in DOMAIN results : results[i].is \in {"document", "error", "timeout"}
      BY <1>7, <1>9, <2>1, Zenon
    <3>2. Len(buffer) <= got
      BY <1>4, <2>2
    <3>3. frames.count \in 0..MaxFrames - 1
      BY <1>5, <1>8, <2>1, Zenon
    <3>4. phase \in {"head", "body", "over"}
      BY <2>1
    <3> QED BY <1>1, <3>1, <3>2, <3>3, <3>4, Zenon DEF ControllerTypeOK
  <2> QED BY <2>4, <2>5
<1>11. CASE IsOver
  <2>1. phase = "over" /\ results = Expected /\ Len(buffer) <= got /\ frames.count \in 0..MaxFrames - 1
    BY <1>11, Zenon DEF IsOver
  <2>2. FramesComeWhole
    BY <1>2, <2>1, PrefixTrivial, Zenon DEF FramesComeWhole
  <2>3. ControllerTypeOK
    <3>1. \A i \in DOMAIN results : results[i].is \in {"document", "error", "timeout"}
      BY <1>2, <1>7, <2>1, Zenon
    <3>2. phase \in {"head", "body", "over"}
      BY <2>1
    <3> QED BY <1>1, <2>1, <3>1, <3>2, Zenon DEF ControllerTypeOK
  <2> QED BY <2>2, <2>3
<1>12. CASE InBody /\ InChunkedBody
  <2>1. phase = "body" /\ asked # "whole" /\ got >= 5 /\ (asked = "stream" => answer.good)
    BY <1>12, Zenon DEF InBody
  <2>2. answer.coding = "chunked" /\ answer.sent >= 5
    <3>1. answer.coding = "chunked"
      BY <1>12, Zenon DEF InChunkedBody
    <3> QED BY <1>4, <2>1, <3>1
  <2>3. PICK n \in 0..Len(answer.parts) : AfterChunk(n)
    BY <1>12, Zenon DEF InChunkedBody
  <2>4. /\ EndOf(answer, n) <= got /\ buffer = Left(answer, n, got)
        /\ results = (IF asked = "stream" THEN PartsGive(n) ELSE <<>>)
        /\ frames = (IF asked = "latest" /\ n > 0 THEN [count |-> n, last |-> FrameOf(answer.parts[n].data)] ELSE NoFrames)
        /\ (asked = "latest" => n < MaxFrames)
    BY <2>3, Zenon DEF AfterChunk
  <2> DEFINE next == NextChunk(Left(answer, n, got))
             e == EndOf(answer, n)
  <2>5. e \in Nat
    BY <1>1, <2>2, SentIs
  <2>6. got \in e..answer.sent
    <3> HIDE DEF e
    <3>1. e <= got
      BY <2>4 DEF e
    <3> QED BY <1>4, <2>5, <3>1
  <2>7. /\ Len(Left(answer, n, got)) = got - e /\ n <= ChunksSent
        /\ (next.is = "more" /\ got = answer.sent) => n = ChunksSent /\ ~EndSent
    <3> HIDE DEF next
    <3> QED BY <1>1, <2>2, <2>6, SeenMeans DEF next
  <2>8. PartsGive(n) \in Seq(Given)
    BY <1>1, PartsGiveIs
  <2>9. HeadSent
    BY <2>2 DEF HeadSent, HeadEndsAt
  <2>10. IsPrefix(results, Expected)
    <3>1. CASE asked = "stream"
      <4>1. Expected = StreamGives
        BY <2>1, <2>2, <2>9, <3>1, Zenon DEF Expected
      <4>2. IsPrefix(PartsGive(n), StreamGives)
        BY <1>1, <2>2, <2>7, StreamBegins
      <4> QED BY <2>4, <3>1, <4>1, <4>2, Zenon
    <3>2. CASE asked # "stream"
      BY <1>2, <2>4, <3>2, PrefixTrivial, Zenon
    <3> QED BY <3>1, <3>2
  <2>11. Quiet => results = Expected
    <3> SUFFICES ASSUME Quiet PROVE results = Expected
      OBVIOUS
    <3>1. asked = "stream" /\ Wants /\ got = answer.sent /\ ~answer.closes
      BY <2>1 DEF Quiet
    <3>2. NextChunk(buffer).is = "more"
      BY <2>1, <2>2, <3>1 DEF Wants
    <3>3. n = ChunksSent /\ ~EndSent
      BY <2>4, <2>7, <3>1, <3>2, Zenon DEF next
    <3>4. Expected = StreamGives
      BY <2>1, <2>2, <2>9, <3>1, Zenon DEF Expected
    <3>5. StreamGives = PartsGive(n) \o <<>>
      BY <3>1, <3>3, Zenon DEF StreamGives
    <3>6. PartsGive(n) \o <<>> = PartsGive(n)
      BY <2>8
    <3> QED BY <2>4, <3>1, <3>4, <3>5, <3>6, Zenon
  <2>12. FramesComeWhole
    BY <2>10, <2>11, Zenon DEF FramesComeWhole
  <2>13. Len(buffer) <= got
    <3>1. Len(buffer) = got - e
      BY <2>4, <2>7, Zenon
    <3> HIDE DEF e
    <3> QED BY <1>4, <2>5, <3>1
  <2>14. frames.count \in 0..MaxFrames - 1
    <3>1. CASE asked = "latest" /\ n > 0
      <4>1. frames.count = n
        BY <2>4, <3>1
      <4>2. n < 2 /\ n \in Nat
        <5>1. Len(answer.parts) \in Nat
          BY <1>1, AnswerIs
        <5> QED BY <1>5, <2>4, <3>1, <5>1
      <4> QED BY <1>5, <4>1, <4>2
    <3>2. CASE ~(asked = "latest" /\ n > 0)
      <4>1. frames = NoFrames
        BY <2>4, <3>2, Zenon
      <4> QED BY <1>5, <1>8, <4>1
    <3> QED BY <3>1, <3>2
  <2>15. \A i \in DOMAIN results : results[i].is \in {"document", "error", "timeout"}
    <3>1. results \in Seq(Given)
      BY <1>9, <2>4, <2>8, Zenon
    <3> QED BY <1>7, <3>1
  <2>16. phase \in {"head", "body", "over"}
    BY <2>1
  <2> QED BY <1>1, <2>12, <2>13, <2>14, <2>15, <2>16, Zenon DEF ControllerTypeOK
<1>13. CASE InBody /\ InPiece
  <2>1. phase = "body" /\ asked # "whole" /\ got >= 5 /\ (asked = "stream" => answer.good)
    BY <1>13, Zenon DEF InBody
  <2>2. answer.coding # "chunked" /\ buffer = SubSeq(Wire(answer), 6, got) /\ results = <<>> /\ frames = NoFrames
    BY <1>13, Zenon DEF InPiece
  <2> DEFINE data == answer.parts[1].data
             doc == answer.parts[1].doc
             b == SubSeq(Wire(answer), 6, got)
  <2>3. /\ Len(b) = got - 5 /\ Len(Wire(answer)) = 5 + Len(data) /\ Len(data) \in Nat
        /\ Len(doc) \in 1..Len(data) /\ doc # <<>>
        /\ got >= 5 + Len(doc) => FirstJsonFrame(b) = doc
    <3>1. got \in 5..Len(Wire(answer))
      BY <1>4, <2>1
    <3> QED BY <1>1, <2>2, <3>1, PieceGiven, Zenon
  <2>4. HeadSent
    BY <1>4, <2>1 DEF HeadSent, HeadEndsAt
  <2>5. Quiet => results = Expected
    <3> SUFFICES ASSUME Quiet PROVE results = Expected
      OBVIOUS
    <3>1. asked = "stream" /\ Wants /\ got = answer.sent /\ ~answer.closes
      BY <2>1 DEF Quiet
    <3>2. Expected = InOnePieceGives
      BY <2>1, <2>2, <2>4, <3>1, Zenon DEF Expected
    <3>3. IF answer.coding = "length" THEN Len(b) < Len(data) ELSE FirstJsonFrame(b) = <<>>
      BY <2>1, <2>2, <3>1 DEF Wants
    <3>4. answer.coding = "length" => got < 5 + Len(data)
      <4> HIDE DEF b, data, doc
      <4> SUFFICES ASSUME answer.coding = "length" PROVE got < 5 + Len(data)
        OBVIOUS
      <4>1. got - 5 < Len(data)
        BY <2>3, <3>3
      <4> QED BY <1>4, <2>3, <4>1
    <3>5. answer.coding # "length" => ~(got >= 5 + Len(doc))
      <4> HIDE DEF b, data, doc
      <4> QED BY <2>3, <3>3, Zenon
    <3>6. ~AllSent
      <4> HIDE DEF b, data, doc
      <4>1. got # 5 + Len(data)
        BY <1>4, <2>3, <3>4, <3>5
      <4> QED BY <2>3, <3>1, <4>1 DEF AllSent
    <3>7. ~(answer.coding = "open" /\ PieceSent)
      <4>1. PieceSent <=> got >= 5 + Len(doc)
        BY <3>1 DEF PieceSent, HeadEndsAt
      <4> HIDE DEF doc
      <4> QED BY <3>5, <4>1
    <3> QED BY <2>2, <3>1, <3>2, <3>6, <3>7, Zenon DEF InOnePieceGives
  <2>6. FramesComeWhole
    BY <1>2, <2>2, <2>5, PrefixTrivial, Zenon DEF FramesComeWhole
  <2>7. Len(buffer) <= got
    <3>1. Len(buffer) = got - 5
      BY <2>2, <2>3, Zenon
    <3> QED BY <1>4, <3>1
  <2>8. \A i \in DOMAIN results : results[i].is \in {"document", "error", "timeout"}
    BY <1>7, <1>9, <2>2, Zenon
  <2>9. frames.count \in 0..MaxFrames - 1 /\ phase \in {"head", "body", "over"}
    BY <1>5, <1>8, <2>1, <2>2
  <2> QED BY <1>1, <2>6, <2>7, <2>8, <2>9, Zenon DEF ControllerTypeOK
<1> QED BY <1>10, <1>11, <1>12, <1>13, Zenon DEF FramesInv, InBody

-----------------------------------------------------------------------------
(* The steps of a request.                                                 *)

\* What is expected does not depend on how far a request is.
LEMMA ExpectedStays ==
    ASSUME UNCHANGED <<asked, answer>>
    PROVE  Expected' = Expected
BY DEF Expected, NothingElse, HeadSent, HeadEndsAt, WholeGives, PieceGives, PieceSent, Gives, EndSent, AllSent,
       InOnePieceGives, StreamGives, FrameGiven, ChunksSent, ChunksEnd, PartsGive

\* A step that ends a request with what is expected.
LEMMA Ends ==
    ASSUME FramesInv, UNCHANGED <<asked, answer, got, buffer, frames>>, phase' = "over", results' = Expected
    PROVE  FramesInv'
<1>1. Len(buffer) <= got /\ frames.count \in 0..MaxFrames - 1
  BY FramesWhole, Zenon DEF ControllerTypeOK
<1>2. Expected' = Expected
  BY ExpectedStays
<1>3. results' = Expected'
  BY <1>2, Zenon
<1>4. Len(buffer') <= got' /\ frames'.count \in 0..MaxFrames - 1
  BY <1>1
<1>5. IsOver'
  BY <1>3, <1>4, Zenon DEF IsOver, MaxFrames
<1>6. asked' \in RequestKinds /\ answer' \in Answers /\ got' \in 0..answer'.sent
  BY DEF FramesInv
<1> QED BY <1>5, <1>6, Zenon DEF FramesInv

\* The same for a request that is given one thing.
LEMMA EndsWith ==
    ASSUME FramesInv, NEW result, GivesUp(result), results = <<>>, Expected = <<result>>
    PROVE  FramesInv'
<1>1. /\ UNCHANGED <<asked, answer, got, buffer, frames>>
      /\ phase' = "over" /\ results' = Append(results, result)
  BY Zenon DEF GivesUp
<1>2. Append(<<>>, result) = <<result>>
  OBVIOUS
<1>3. results' = Expected
  BY <1>1, <1>2, Zenon
<1> QED BY <1>1, <1>3, Ends

\* The kind of every request.
LEMMA KindsAre ==
    ASSUME FramesInv
    PROVE  /\ asked \in {"whole", "first", "latest", "stream"} /\ answer \in Answers /\ got \in 0..answer.sent
           /\ answer.coding \in {"chunked", "length", "open"} /\ answer.ends \in {"last", "garbage", "never"}
           /\ got \in Nat /\ answer.sent \in Nat /\ got <= answer.sent /\ answer.sent <= Len(Wire(answer))
           /\ got \in 0..Len(Wire(answer)) /\ Wire(answer) \in Seq(Byte) /\ Len(Wire(answer)) \in Nat
<1>1. asked \in {"whole", "first", "latest", "stream"} /\ answer \in Answers /\ got \in 0..answer.sent
  BY Zenon DEF FramesInv, RequestKinds
<1>2. answer.coding \in {"chunked", "length", "open"} /\ answer.ends \in {"last", "garbage", "never"}
  BY <1>1, AnswerIs
<1>3. answer.sent \in 0..Len(Wire(answer)) /\ Wire(answer) \in Seq(Byte)
  BY <1>1, AnswerIs, WireIs, Zenon
<1>4. Len(Wire(answer)) \in Nat
  BY <1>3, LengthIs
<1> QED BY <1>1, <1>2, <1>3, <1>4

\* A request that reads the head.
LEMMA HeadIs ==
    ASSUME FramesInv, phase = "head"
    PROVE  /\ results = <<>> /\ frames = NoFrames /\ buffer = SubSeq(Wire(answer), 1, got) /\ buffer \in Seq(Byte)
           /\ HeadSent <=> answer.sent >= 5
           /\ got < 5 => FindIn(buffer, HeadEnd) = 0
           /\ got >= 5 => FindIn(buffer, HeadEnd) = 2 /\ Dropped(buffer, FindIn(buffer, HeadEnd) + 3) = SubSeq(Wire(answer), 6, got)
<1>1. results = <<>> /\ frames = NoFrames /\ buffer = SubSeq(Wire(answer), 1, got)
  <2>1. InHead \/ InBody \/ IsOver
    BY Zenon DEF FramesInv
  <2>2. phase # "body" /\ phase # "over"
    OBVIOUS
  <2>3. InHead
    BY <2>1, <2>2, Zenon DEF InBody, IsOver
  <2> QED BY <2>3, Zenon DEF InHead
<1>2. answer \in Answers /\ got \in 0..Len(Wire(answer))
  BY KindsAre
<1>3. /\ buffer \in Seq(Byte)
      /\ got < 5 => FindIn(buffer, HeadEnd) = 0
      /\ got >= 5 => FindIn(buffer, HeadEnd) = 2 /\ Dropped(buffer, 2 + 3) = SubSeq(Wire(answer), 6, got)
  BY <1>1, <1>2, HeadComes
<1>4. HeadSent <=> answer.sent >= 5
  BY Zenon DEF HeadSent, HeadEndsAt
<1> QED BY <1>1, <1>3, <1>4, Zenon

\* What is known of a request that has used n chunks.
BodyAt(n) ==
    LET next == NextChunk(buffer)
        k == Len(answer.parts)
    IN /\ AfterChunk(n) /\ n \in Nat /\ EndOf(answer, n) \in Nat /\ (buffer = <<>> <=> got = EndOf(answer, n))
       /\ ChunksSent \in 0..k /\ n <= ChunksSent
       /\ next.is \in {"more", "chunk", "last", "bad"}
       /\ (next.is = "more" /\ got = answer.sent) => n = ChunksSent /\ ~EndSent
       /\ next.is = "last" => n = k /\ ChunksSent = k /\ EndSent /\ answer.ends = "last"
       /\ next.is = "bad" => n = k /\ ChunksSent = k /\ EndSent /\ answer.ends = "garbage"
       /\ next.is = "chunk" =>
            /\ n + 1 \in 1..k /\ n + 1 <= ChunksSent /\ EndOf(answer, n + 1) <= got
            /\ next.data = answer.parts[n + 1].data /\ next.rest = Left(answer, n + 1, got)

\* A request that reads chunks.
LEMMA ChunkedBodyIs ==
    ASSUME FramesInv, phase = "body", answer.coding = "chunked"
    PROVE  /\ asked \in {"first", "latest", "stream"} /\ (asked = "stream" => answer.good)
           /\ answer.sent >= 5 /\ got >= 5 /\ HeadSent
           /\ \E n \in 0..Len(answer.parts) : BodyAt(n)
<1>1. InBody
  <2>1. InHead \/ InBody \/ IsOver
    BY Zenon DEF FramesInv
  <2>2. phase # "head" /\ phase # "over"
    OBVIOUS
  <2> QED BY <2>1, <2>2, Zenon DEF InHead, IsOver
<1>2. asked # "whole" /\ got >= 5 /\ (asked = "stream" => answer.good) /\ InChunkedBody
  BY <1>1, Zenon DEF InBody, InPiece
<1>3. asked \in {"whole", "first", "latest", "stream"} /\ answer \in Answers /\ got \in Nat /\ answer.sent \in Nat /\ got <= answer.sent
  BY KindsAre
<1>4. answer.sent >= 5
  BY <1>2, <1>3
<1>5. PICK n \in 0..Len(answer.parts) : AfterChunk(n)
  BY <1>2, Zenon DEF InChunkedBody
<1>6. EndOf(answer, n) <= got /\ buffer = Left(answer, n, got)
  BY <1>5, Zenon DEF AfterChunk
<1> DEFINE k == Len(answer.parts)
           e == EndOf(answer, n)
           next == NextChunk(buffer)
<1>7. e \in Nat /\ ChunksSent \in 0..k
  BY <1>3, <1>4, SentIs
<1>8. got \in e..answer.sent
  <2> HIDE DEF e
  <2>1. e <= got
    BY <1>6 DEF e
  <2> QED BY <1>3, <1>7, <2>1
<1>9. /\ buffer \in Seq(Byte) /\ Len(buffer) = got - e
      /\ next.is \in {"more", "chunk", "last", "bad"} /\ n <= ChunksSent
      /\ (next.is = "more" /\ got = answer.sent) => n = ChunksSent /\ ~EndSent
      /\ next.is = "last" => n = k /\ ChunksSent = k /\ EndSent /\ answer.ends = "last"
      /\ next.is = "bad" => n = k /\ ChunksSent = k /\ EndSent /\ answer.ends = "garbage"
      /\ next.is = "chunk" =>
           /\ n + 1 \in 1..k /\ n + 1 <= ChunksSent /\ EndOf(answer, n + 1) <= got
           /\ next.data = answer.parts[n + 1].data /\ next.rest = Left(answer, n + 1, got)
  BY <1>3, <1>4, <1>6, <1>8, SeenMeans, Zenon
<1>10. buffer = <<>> <=> got = e
  <2> HIDE DEF e, next
  <2>1. buffer = <<>> <=> Len(buffer) = 0
    BY <1>9, LengthIs
  <2>2. Len(buffer) = got - e
    BY <1>9, Zenon
  <2>3. Len(buffer) = 0 <=> got = e
    BY <1>3, <1>7, <2>2
  <2> QED BY <2>1, <2>3
<1>11. n \in Nat
  <2>1. Len(answer.parts) \in Nat
    BY <1>3, AnswerIs
  <2> QED BY <2>1
<1>12. BodyAt(n)
  BY <1>5, <1>7, <1>9, <1>10, <1>11, Zenon DEF BodyAt
<1>13. HeadSent
  BY <1>4, Zenon DEF HeadSent, HeadEndsAt
<1>14. asked \in {"first", "latest", "stream"}
  BY <1>2, <1>3
<1> QED BY <1>2, <1>4, <1>12, <1>13, <1>14, Zenon

\* A request that reads a body in one piece.
LEMMA PieceBodyIs ==
    ASSUME FramesInv, phase = "body", answer.coding # "chunked"
    PROVE  LET data == answer.parts[1].data
               doc == answer.parts[1].doc
           IN /\ asked \in {"first", "latest", "stream"} /\ (asked = "stream" => answer.good)
              /\ answer.sent >= 5 /\ got >= 5 /\ HeadSent
              /\ buffer = SubSeq(Wire(answer), 6, got) /\ results = <<>> /\ frames = NoFrames
              /\ Len(buffer) = got - 5 /\ Len(Wire(answer)) = 5 + Len(data) /\ Len(data) \in Nat
              /\ Len(doc) \in Nat /\ Len(doc) <= Len(data) /\ doc # <<>>
              /\ got < 5 + Len(doc) => FirstJsonFrame(buffer) = <<>> /\ Checked(buffer) = Failure
              /\ got >= 5 + Len(doc) => FirstJsonFrame(buffer) = doc /\ Checked(buffer) = Gives(doc) /\ Checked(doc) = Gives(doc)
              /\ got = 5 + Len(data) => SubSeq(buffer, 1, Len(data)) = buffer
              /\ PieceSent <=> answer.sent >= 5 + Len(doc)
<1>1. InBody
  <2>1. InHead \/ InBody \/ IsOver
    BY Zenon DEF FramesInv
  <2>2. phase # "head" /\ phase # "over"
    OBVIOUS
  <2> QED BY <2>1, <2>2, Zenon DEF InHead, IsOver
<1>2. asked # "whole" /\ got >= 5 /\ (asked = "stream" => answer.good) /\ InPiece
  BY <1>1, Zenon DEF InBody, InChunkedBody
<1>3. /\ asked \in {"whole", "first", "latest", "stream"} /\ answer \in Answers
      /\ got \in Nat /\ answer.sent \in Nat /\ got <= answer.sent /\ got \in 0..Len(Wire(answer)) /\ Len(Wire(answer)) \in Nat
  BY KindsAre
<1>4. answer.sent >= 5 /\ got \in 5..Len(Wire(answer))
  BY <1>2, <1>3
<1>5. buffer = SubSeq(Wire(answer), 6, got) /\ results = <<>> /\ frames = NoFrames
  BY <1>2, Zenon DEF InPiece
<1> DEFINE data == answer.parts[1].data
           doc == answer.parts[1].doc
<1>6. /\ Len(buffer) = got - 5 /\ Len(Wire(answer)) = 5 + Len(data) /\ Len(data) \in Nat
      /\ Len(doc) \in 1..Len(data) /\ doc # <<>>
      /\ got < 5 + Len(doc) => FirstJsonFrame(buffer) = <<>> /\ Checked(buffer) = Failure
      /\ got >= 5 + Len(doc) => FirstJsonFrame(buffer) = doc /\ Checked(buffer) = Gives(doc) /\ Checked(doc) = Gives(doc)
      /\ got = 5 + Len(data) => SubSeq(buffer, 1, Len(data)) = buffer
  BY <1>3, <1>4, <1>5, PieceGiven, Zenon
<1>7. Len(doc) \in Nat /\ Len(doc) <= Len(data)
  <2> HIDE DEF doc, data
  <2>1. Len(data) \in Nat /\ Len(doc) \in 1..Len(data)
    BY <1>6, Zenon
  <2> QED BY <2>1
<1>8. HeadSent
  BY <1>4, Zenon DEF HeadSent, HeadEndsAt
<1>9. asked \in {"first", "latest", "stream"}
  BY <1>2, <1>3
<1>10. PieceSent <=> answer.sent >= 5 + Len(doc)
  BY Zenon DEF PieceSent, HeadEndsAt
<1> QED BY <1>2, <1>4, <1>5, <1>6, <1>7, <1>8, <1>9, <1>10, Zenon

-----------------------------------------------------------------------------
(* Each action keeps the invariant.                                        *)

\* More of the answer is read.
LEMMA ReadMoreKeeps ==
    ASSUME FramesInv, NEW n \in ReadSizes \cup {answer.sent - got}, ReadMore(n)
    PROVE  FramesInv'
<1>1. /\ Wants /\ n > 0 /\ got + n <= answer.sent /\ got' = got + n
      /\ buffer' = buffer \o SubSeq(Wire(answer), got + 1, got + n)
      /\ asked' = asked /\ answer' = answer /\ phase' = phase /\ frames' = frames /\ results' = results
  BY Zenon DEF ReadMore
<1>2. /\ answer \in Answers /\ got \in Nat /\ answer.sent \in Nat /\ got <= answer.sent /\ answer.sent <= Len(Wire(answer))
      /\ Wire(answer) \in Seq(Byte) /\ Len(Wire(answer)) \in Nat
  BY KindsAre
<1>3. n \in Nat
  <2>1. ReadSizes \subseteq Nat
    BY ControllerAssumption, Zenon
  <2>2. answer.sent - got \in Nat
    BY <1>2
  <2> QED BY <2>1, <2>2
<1>4. got' \in 0..answer'.sent /\ got' \in Nat /\ got + n <= Len(Wire(answer)) /\ got' >= got
  <2> DEFINE sent == answer.sent
             all == Len(Wire(answer))
  <2>1. sent \in Nat /\ all \in Nat /\ sent <= all /\ got \in Nat /\ got + n <= sent /\ answer'.sent = sent
    BY <1>1, <1>2
  <2> HIDE DEF sent, all
  <2>2. got' \in 0..sent /\ got' \in Nat /\ got + n <= all /\ got' >= got
    BY <1>1, <1>3, <2>1
  <2> QED BY <2>1, <2>2 DEF all
<1>5. ASSUME NEW p \in Nat, p <= got, buffer = SubSeq(Wire(answer), p + 1, got)
      PROVE  buffer' = SubSeq(Wire(answer), p + 1, got')
  <2>1. SubSeq(Wire(answer), p + 1, got) \o SubSeq(Wire(answer), got + 1, got + n) = SubSeq(Wire(answer), p + 1, got + n)
    BY <1>2, <1>3, <1>4, <1>5, Extend
  <2> QED BY <1>1, <1>5, <2>1, Zenon
<1>6. asked' \in RequestKinds /\ answer' \in Answers
  BY <1>1 DEF FramesInv
<1>7. CASE InHead
  <2>1. phase = "head" /\ results = <<>> /\ frames = NoFrames /\ buffer = SubSeq(Wire(answer), 1, got)
    BY <1>7, Zenon DEF InHead
  <2>2. 0 \in Nat /\ 0 <= got /\ 0 + 1 = 1
    BY <1>2
  <2>3. buffer' = SubSeq(Wire(answer), 1, got')
    <3>1. buffer = SubSeq(Wire(answer), 0 + 1, got)
      BY <2>1, <2>2
    <3>2. buffer' = SubSeq(Wire(answer), 0 + 1, got')
      BY <1>5, <2>2, <3>1
    <3> QED BY <2>2, <3>2
  <2>4. buffer' = SubSeq(Wire(answer'), 1, got')
    BY <1>1, <2>3
  <2>5. InHead'
    BY <1>1, <2>1, <2>4 DEF InHead, NoFrames
  <2> QED BY <1>4, <1>6, <2>5, Zenon DEF FramesInv
<1>8. CASE InBody
  <2>1. phase = "body" /\ asked # "whole" /\ got >= 5 /\ (asked = "stream" => answer.good)
    BY <1>8, Zenon DEF InBody
  <2>2. got' >= 5
    BY <1>2, <1>4, <2>1
  <2>3. CASE answer.coding = "chunked"
    <3>1. \E i \in 0..Len(answer.parts) : BodyAt(i)
      BY <2>1, <2>3, ChunkedBodyIs
    <3>2. PICK i \in 0..Len(answer.parts) : BodyAt(i)
      BY <3>1
    <3>3. AfterChunk(i) /\ EndOf(answer, i) \in Nat
      BY <3>2, Zenon DEF BodyAt
    <3>4. /\ EndOf(answer, i) <= got /\ buffer = Left(answer, i, got)
          /\ results = (IF asked = "stream" THEN PartsGive(i) ELSE <<>>)
          /\ frames = (IF asked = "latest" /\ i > 0 THEN [count |-> i, last |-> FrameOf(answer.parts[i].data)] ELSE NoFrames)
          /\ (asked = "first" => i = 0)
          /\ (asked = "latest" => i < MaxFrames)
      BY <3>3, Zenon DEF AfterChunk
    <3> DEFINE e == EndOf(answer, i)
    <3>5. buffer' = SubSeq(Wire(answer), e + 1, got')
      <4>1. e \in Nat /\ e <= got /\ buffer = SubSeq(Wire(answer), e + 1, got)
        BY <3>3, <3>4, Zenon DEF Left
      <4> HIDE DEF e
      <4> QED BY <1>5, <4>1
    <3>6. EndOf(answer, i) <= got'
      <4> HIDE DEF e
      <4>1. e <= got /\ e \in Nat
        BY <3>3, <3>4, Zenon DEF e
      <4>2. e <= got'
        BY <1>2, <1>4, <4>1
      <4> QED BY <4>2 DEF e
    <3>7. buffer' = Left(answer, i, got')
      BY <3>5, Zenon DEF Left
    <3>8. PartsGive(i)' = PartsGive(i)
      BY <1>1 DEF PartsGive, Gives
    <3>9. AfterChunk(i)'
      <4>1. EndOf(answer', i) <= got' /\ buffer' = Left(answer', i, got')
        BY <1>1, <3>6, <3>7
      <4>2. results' = IF asked' = "stream" THEN PartsGive(i)' ELSE <<>>
        BY <1>1, <3>4, <3>8
      <4>3. frames' = IF asked' = "latest" /\ i > 0 THEN [count |-> i, last |-> FrameOf(answer'.parts[i].data)] ELSE NoFrames
        BY <1>1, <3>4
      <4>4. (asked' = "first" => i = 0) /\ (asked' = "latest" => i < MaxFrames)
        BY <1>1, <3>4
      <4> QED BY <4>1, <4>2, <4>3, <4>4 DEF AfterChunk
    <3>10. InChunkedBody'
      <4>1. i \in 0..Len(answer'.parts) /\ answer'.coding = "chunked"
        BY <1>1, <2>3
      <4> QED BY <3>9, <4>1, Zenon DEF InChunkedBody
    <3>11. InBody'
      BY <1>1, <2>1, <2>2, <3>10 DEF InBody
    <3> QED BY <1>4, <1>6, <3>11, Zenon DEF FramesInv
  <2>4. CASE answer.coding # "chunked"
    <3>1. InPiece
      BY <1>8, <2>4, Zenon DEF InBody, InChunkedBody
    <3>2. buffer = SubSeq(Wire(answer), 6, got) /\ results = <<>> /\ frames = NoFrames
      BY <3>1, Zenon DEF InPiece
    <3>3. buffer' = SubSeq(Wire(answer), 6, got')
      <4>1. 5 \in Nat /\ 5 <= got /\ 5 + 1 = 6
        BY <1>2, <2>1
      <4>2. buffer = SubSeq(Wire(answer), 5 + 1, got)
        BY <3>2, <4>1
      <4>3. buffer' = SubSeq(Wire(answer), 5 + 1, got')
        BY <1>5, <4>1, <4>2
      <4> QED BY <4>1, <4>3
    <3>4. InPiece'
      <4>1. buffer' = SubSeq(Wire(answer'), 6, got') /\ answer'.coding # "chunked" /\ results' = <<>> /\ frames' = NoFrames
        BY <1>1, <2>4, <3>2, <3>3
      <4> QED BY <4>1 DEF InPiece, NoFrames
    <3>5. InBody'
      BY <1>1, <2>1, <2>2, <3>4 DEF InBody
    <3> QED BY <1>4, <1>6, <3>5, Zenon DEF FramesInv
  <2> QED BY <2>3, <2>4
<1>9. CASE IsOver
  <2>1. phase = "over"
    BY <1>9, Zenon DEF IsOver
  <2> QED BY <1>1, <2>1 DEF Wants
<1> QED BY <1>7, <1>8, <1>9, Zenon DEF FramesInv

\* Nothing more comes.
LEMMA TimesOutKeeps ==
    ASSUME FramesInv, TimesOut
    PROVE  FramesInv'
<1>1. /\ Wants /\ got = answer.sent /\ (answer.closes => Spins) /\ (asked = "stream" => phase = "head")
      /\ GivesUp(TimedOut)
  BY Zenon DEF TimesOut
<1>2. /\ asked \in {"whole", "first", "latest", "stream"} /\ answer \in Answers
      /\ answer.coding \in {"chunked", "length", "open"} /\ got \in Nat /\ answer.sent \in Nat
  BY KindsAre
<1>3. phase = "head" \/ phase = "body"
  <2>1. phase # "over"
    BY <1>1, Zenon DEF Wants
  <2>2. phase \in {"head", "body", "over"}
    BY FramesWhole, Zenon DEF ControllerTypeOK
  <2> QED BY <2>1, <2>2
<1>4. CASE phase = "head"
  <2>1. ~Spins
    BY <1>4 DEF Spins
  <2>2. ~answer.closes
    BY <1>1, <2>1, Zenon
  <2>3. /\ results = <<>> /\ (HeadSent <=> answer.sent >= 5)
        /\ got >= 5 => FindIn(buffer, HeadEnd) = 2
    BY <1>4, HeadIs
  <2>4. asked # "whole" => FindIn(buffer, HeadEnd) = 0
    BY <1>1, <1>4, Zenon DEF Wants
  <2>5. NothingElse = TimedOut /\ WholeGives = TimedOut
    BY <2>2, Zenon DEF NothingElse, WholeGives
  <2>6. asked # "whole" => ~HeadSent
    <3> SUFFICES ASSUME asked # "whole" PROVE ~HeadSent
      OBVIOUS
    <3>1. FindIn(buffer, HeadEnd) = 0
      BY <2>4, Zenon
    <3>2. ~(got >= 5)
      BY <2>3, <3>1
    <3> QED BY <1>1, <2>3, <3>2, Zenon
  <2>7. Expected = <<TimedOut>>
    BY <2>5, <2>6, Zenon DEF Expected
  <2> QED BY <1>1, <2>3, <2>7, EndsWith
<1>5. CASE phase = "body" /\ answer.coding = "chunked"
  <2>1. asked \in {"first", "latest", "stream"} /\ HeadSent /\ \E n \in 0..Len(answer.parts) : BodyAt(n)
    BY <1>5, ChunkedBodyIs
  <2>2. asked = "first" \/ asked = "latest"
    <3>1. phase # "head"
      BY <1>5
    <3>2. asked # "stream"
      BY <1>1, <3>1, Zenon
    <3> QED BY <2>1, <3>2
  <2>3. PICK n \in 0..Len(answer.parts) : BodyAt(n)
    BY <2>1
  <2>4. NextChunk(buffer).is = "more"
    <3>1. asked # "whole" /\ phase # "head"
      BY <1>5, <2>2
    <3> QED BY <1>1, <1>5, <3>1, Zenon DEF Wants
  <2>5. n = ChunksSent /\ ~EndSent /\ AfterChunk(n) /\ n \in Nat
    BY <1>1, <2>3, <2>4, Zenon DEF BodyAt
  <2>6. /\ results = (IF asked = "stream" THEN PartsGive(n) ELSE <<>>)
        /\ (asked = "first" => n = 0) /\ (asked = "latest" => n < MaxFrames)
    BY <2>5, Zenon DEF AfterChunk
  <2>7. results = <<>>
    <3>1. asked # "stream"
      BY <2>2
    <3> QED BY <2>6, <3>1, Zenon
  <2>8. Expected = <<FrameGiven>>
    <3>1. asked # "stream" /\ asked # "whole"
      BY <2>2
    <3> QED BY <1>5, <2>1, <3>1, Zenon DEF Expected
  <2>9. FrameGiven = TimedOut
    <3>1. ~(ChunksSent >= IF asked = "first" THEN 1 ELSE MaxFrames)
      <4>1. CASE asked = "first"
        <5>1. n = 0
          BY <2>6, <4>1, Zenon
        <5>2. ~(n >= 1)
          BY <5>1
        <5> QED BY <2>5, <4>1, <5>2, Zenon
      <4>2. CASE asked = "latest"
        <5>1. n < 2 /\ MaxFrames = 2
          BY <2>6, <4>2 DEF MaxFrames
        <5>2. ~(n >= 2)
          BY <2>5, <5>1
        <5>3. asked # "first"
          BY <4>2
        <5> QED BY <2>5, <5>1, <5>2, <5>3, Zenon
      <4> QED BY <2>2, <4>1, <4>2
    <3> QED BY <2>5, <3>1, Zenon DEF FrameGiven
  <2>10. Expected = <<TimedOut>>
    BY <2>8, <2>9, Zenon
  <2> QED BY <1>1, <2>7, <2>10, EndsWith
<1>6. CASE phase = "body" /\ answer.coding # "chunked"
  <2> DEFINE data == answer.parts[1].data
             doc == answer.parts[1].doc
  <2>1. /\ asked \in {"first", "latest", "stream"} /\ HeadSent /\ results = <<>>
        /\ Len(buffer) = got - 5 /\ Len(Wire(answer)) = 5 + Len(data) /\ Len(data) \in Nat
        /\ Len(doc) \in Nat /\ Len(doc) <= Len(data) /\ doc # <<>>
        /\ got >= 5 + Len(doc) => FirstJsonFrame(buffer) = doc
        /\ PieceSent <=> answer.sent >= 5 + Len(doc)
    BY <1>6, PieceBodyIs
  <2>2. asked # "stream" /\ asked # "whole" /\ phase # "head"
    <3>1. phase # "head"
      BY <1>6
    <3> QED BY <1>1, <2>1, <3>1
  <2>3. ~answer.closes
    <3>1. ~Spins
      BY <1>6, Zenon DEF Spins
    <3> QED BY <1>1, <3>1, Zenon
  <2>4. IF answer.coding = "length" THEN Len(buffer) < Len(data) ELSE FirstJsonFrame(buffer) = <<>>
    BY <1>1, <1>6, <2>2, Zenon DEF Wants
  <2> HIDE DEF data, doc
  <2>5. answer.coding = "length" => got # 5 + Len(data)
    <3> SUFFICES ASSUME answer.coding = "length" PROVE got # 5 + Len(data)
      OBVIOUS
    <3>1. Len(buffer) < Len(data)
      BY <2>4, Zenon
    <3> QED BY <1>2, <2>1, <3>1
  <2>6. answer.coding # "length" => ~(got >= 5 + Len(doc))
    BY <2>1, <2>4, Zenon
  <2>7. ~AllSent
    <3>1. got # 5 + Len(data)
      <4>1. ~(got >= 5 + Len(doc)) => got # 5 + Len(data)
        BY <1>2, <2>1
      <4> QED BY <2>5, <2>6, <4>1, Zenon
    <3> QED BY <1>1, <2>1, <3>1, Zenon DEF AllSent
  <2>8. ~(answer.coding = "open" /\ PieceSent)
    <3>1. answer.coding = "open" => answer.coding # "length"
      OBVIOUS
    <3> QED BY <1>1, <2>1, <2>6, <3>1, Zenon
  <2>9. InOnePieceGives = <<TimedOut>>
    BY <2>2, <2>3, <2>7, <2>8, Zenon DEF InOnePieceGives
  <2>10. Expected = <<TimedOut>>
    BY <1>6, <2>1, <2>2, <2>9, Zenon DEF Expected
  <2> QED BY <1>1, <2>1, <2>10, EndsWith
<1> QED BY <1>3, <1>4, <1>5, <1>6

\* A plain request takes all of the answer.
LEMMA ParseHttpResponseKeeps ==
    ASSUME FramesInv, ParseHttpResponse
    PROVE  FramesInv'
<1> DEFINE end == FindIn(buffer, HeadEnd)
           body == Dropped(buffer, end + 3)
           result == IF end = 0 \/ (answer.coding = "chunked" /\ ~DecodeChunkedBody(body).ok) THEN Failure
                     ELSE Checked(IF answer.coding = "chunked" THEN DecodeChunkedBody(body).data ELSE body)
<1>1. AtEnd /\ asked = "whole" /\ GivesUp(result)
  BY Zenon DEF ParseHttpResponse
<1>2. Wants /\ got = answer.sent /\ answer.closes
  BY <1>1, Zenon DEF AtEnd
<1>3. /\ answer \in Answers /\ got \in Nat /\ answer.sent \in Nat /\ got \in 0..Len(Wire(answer)) /\ Len(Wire(answer)) \in Nat
  BY KindsAre
<1>4. phase = "head"
  <2>1. InHead \/ InBody \/ IsOver
    BY Zenon DEF FramesInv
  <2>2. ~InBody
    BY <1>1, Zenon DEF InBody
  <2>3. ~IsOver
    BY <1>2, Zenon DEF IsOver, Wants
  <2> QED BY <2>1, <2>2, <2>3, Zenon DEF InHead
<1>5. /\ results = <<>> /\ (HeadSent <=> answer.sent >= 5)
      /\ got < 5 => end = 0
      /\ got >= 5 => end = 2 /\ body = SubSeq(Wire(answer), 6, got)
  BY <1>4, HeadIs, Zenon
<1> HIDE DEF end, body
<1>6. Expected = <<result>>
  <2>1. CASE got < 5
    <3>1. end = 0 /\ ~HeadSent
      <4>1. ~(got >= 5)
        BY <1>3, <2>1
      <4> QED BY <1>2, <1>5, <2>1, <4>1, Zenon
    <3>2. result = Failure
      BY <3>1, Zenon
    <3>3. NothingElse = Failure
      BY <1>2, Zenon DEF NothingElse
    <3> QED BY <3>1, <3>2, <3>3, Zenon DEF Expected
  <2>2. CASE got >= 5
    <3>1. end = 2 /\ body = SubSeq(Wire(answer), 6, got) /\ HeadSent
      BY <1>2, <1>5, <2>2, Zenon
    <3>2. end # 0
      BY <3>1
    <3>3. Expected = <<WholeGives>>
      BY <1>1, <3>1, Zenon DEF Expected
    <3>4. CASE answer.coding = "chunked"
      <4>1. EndOf(answer, 0) + 1 = 6
        <5>1. Len(Chunks(answer, 0)) = 0
          BY NoChunks
        <5> QED BY <5>1 DEF EndOf
      <4>2. body = Left(answer, 0, answer.sent)
        BY <1>2, <3>1, <4>1, Zenon DEF Left
      <4>3. answer.sent >= 5
        BY <1>2, <2>2
      <4>4. /\ DecodeChunkedBody(body).ok <=> EndSent /\ answer.ends = "last"
            /\ DecodeChunkedBody(body).ok => DecodeChunkedBody(body).data = DataUpTo(answer, Len(answer.parts))
        BY <1>3, <3>4, <4>2, <4>3, DecodeIs, Zenon
      <4>5. answer.ends = "last" => Checked(DataUpTo(answer, Len(answer.parts))) = Gives(answer.doc)
        BY <1>3, <3>4, AllGive, Zenon
      <4>6. WholeGives = IF EndSent /\ answer.ends = "last" THEN Gives(answer.doc) ELSE Failure
        BY <1>2, <3>4, Zenon DEF WholeGives
      <4>7. result = IF EndSent /\ answer.ends = "last" THEN Gives(answer.doc) ELSE Failure
        BY <3>2, <3>4, <4>4, <4>5, Zenon
      <4> HIDE DEF result
      <4> QED BY <3>3, <4>6, <4>7, Zenon
    <3>5. CASE answer.coding # "chunked"
      <4> DEFINE doc == answer.parts[1].doc
      <4>1. /\ Len(doc) \in Nat
            /\ got < 5 + Len(doc) => Checked(body) = Failure
            /\ got >= 5 + Len(doc) => Checked(body) = Gives(doc)
        <5>1. got \in 5..Len(Wire(answer))
          BY <1>3, <2>2
        <5> DEFINE data == answer.parts[1].data
        <5>2. /\ Len(data) \in Nat /\ Len(doc) \in 1..Len(data)
              /\ got < 5 + Len(doc) => Checked(body) = Failure
              /\ got >= 5 + Len(doc) => Checked(body) = Gives(doc)
          BY <1>3, <3>1, <3>5, <5>1, PieceGiven, Zenon
        <5> HIDE DEF data, doc
        <5>3. Len(doc) \in Nat
          <6>1. Len(data) \in Nat /\ Len(doc) \in 1..Len(data)
            BY <5>2, Zenon
          <6> QED BY <6>1
        <5> QED BY <5>2, <5>3, Zenon
      <4>2. PieceSent <=> got >= 5 + Len(doc)
        BY <1>2, Zenon DEF PieceSent, HeadEndsAt
      <4>3. WholeGives = IF PieceSent THEN Gives(doc) ELSE Failure
        BY <1>2, <3>5, Zenon DEF WholeGives, PieceGives
      <4>4. result = Checked(body)
        BY <3>2, <3>5, Zenon
      <4> HIDE DEF doc, result
      <4>5. got < 5 + Len(doc) \/ got >= 5 + Len(doc)
        BY <1>3, <4>1
      <4>6. ~(got < 5 + Len(doc) /\ got >= 5 + Len(doc))
        BY <1>3, <4>1
      <4>7. result = WholeGives
        BY <4>1, <4>2, <4>3, <4>4, <4>5, <4>6, Zenon
      <4> QED BY <3>3, <4>7, Zenon
    <3> QED BY <3>4, <3>5
  <2> QED BY <1>3, <2>1, <2>2
<1> HIDE DEF result
<1> QED BY <1>1, <1>5, <1>6, EndsWith

\* The connection ends before the head has come.
LEMMA HeadIsCutKeeps ==
    ASSUME FramesInv, HeadIsCut
    PROVE  FramesInv'
<1>1. AtEnd /\ asked # "whole" /\ phase = "head" /\ GivesUp(Failure)
  BY Zenon DEF HeadIsCut
<1>2. Wants /\ got = answer.sent /\ answer.closes
  BY <1>1, Zenon DEF AtEnd
<1>3. FindIn(buffer, HeadEnd) = 0
  BY <1>1, <1>2, Zenon DEF Wants
<1>4. /\ results = <<>> /\ (HeadSent <=> answer.sent >= 5)
      /\ got >= 5 => FindIn(buffer, HeadEnd) = 2
  BY <1>1, HeadIs
<1>5. ~HeadSent
  <2>1. ~(got >= 5)
    BY <1>3, <1>4
  <2> QED BY <1>2, <1>4, <2>1, Zenon
<1>6. Expected = <<Failure>>
  BY <1>2, <1>5, Zenon DEF Expected, NothingElse
<1> QED BY <1>1, <1>4, <1>6, EndsWith

\* The head has come.
LEMMA ReadHeadKeeps ==
    ASSUME FramesInv, ReadHead
    PROVE  FramesInv'
<1>1. phase = "head" /\ asked # "whole" /\ ~Wants
  BY Zenon DEF ReadHead
<1>2. /\ results = <<>> /\ frames = NoFrames /\ (HeadSent <=> answer.sent >= 5)
      /\ got < 5 => FindIn(buffer, HeadEnd) = 0
      /\ got >= 5 => FindIn(buffer, HeadEnd) = 2 /\ Dropped(buffer, FindIn(buffer, HeadEnd) + 3) = SubSeq(Wire(answer), 6, got)
  BY <1>1, HeadIs
<1>3. /\ asked \in {"whole", "first", "latest", "stream"} /\ answer \in Answers
      /\ got \in Nat /\ answer.sent \in Nat /\ got <= answer.sent
  BY KindsAre
<1>4. got >= 5
  <2>1. phase # "over"
    BY <1>1
  <2>2. FindIn(buffer, HeadEnd) # 0
    BY <1>1, <2>1, Zenon DEF Wants
  <2>3. ~(got < 5)
    BY <1>2, <2>2, Zenon
  <2> QED BY <1>3, <2>3
<1>5. HeadSent
  BY <1>2, <1>3, <1>4
<1>6. CASE asked = "stream" /\ ~answer.good
  <2>1. GivesUp(Failure)
    BY <1>6, Zenon DEF ReadHead
  <2>2. Expected = <<Failure>>
    BY <1>1, <1>5, <1>6, Zenon DEF Expected
  <2> QED BY <1>2, <2>1, <2>2, EndsWith
<1>7. CASE ~(asked = "stream" /\ ~answer.good)
  <2>1. /\ phase' = "body" /\ buffer' = Dropped(buffer, FindIn(buffer, HeadEnd) + 3)
        /\ asked' = asked /\ answer' = answer /\ got' = got /\ frames' = frames /\ results' = results
    BY <1>7, Zenon DEF ReadHead, EntersBody
  <2>2. buffer' = SubSeq(Wire(answer), 6, got)
    BY <1>2, <1>4, <2>1, Zenon
  <2>3. CASE answer.coding = "chunked"
    <3>1. EndOf(answer, 0) = 5 /\ EndOf(answer, 0) + 1 = 6
      <4>1. Len(Chunks(answer, 0)) = 0
        BY NoChunks
      <4> QED BY <4>1 DEF EndOf
    <3>2. EndOf(answer, 0) <= got /\ buffer' = Left(answer, 0, got)
      <4>1. EndOf(answer, 0) <= got
        BY <1>3, <1>4, <3>1
      <4> QED BY <2>2, <3>1, <4>1, Zenon DEF Left
    <3>3. PartsGive(0) = <<>> /\ PartsGive(0)' = PartsGive(0)
      <4>1. 0 \in 0..Len(answer.parts)
        <5>1. Len(answer.parts) \in Nat
          BY <1>3, AnswerIs
        <5> QED BY <5>1
      <4>2. PartsGive(0) = <<>>
        BY <1>3, <4>1, PartsGiveIs
      <4>3. PartsGive(0)' = PartsGive(0)
        BY <2>1 DEF PartsGive, Gives
      <4> QED BY <4>2, <4>3
    <3>4. AfterChunk(0)'
      <4>1. EndOf(answer', 0) <= got' /\ buffer' = Left(answer', 0, got')
        BY <2>1, <3>2, Zenon
      <4>2. results' = IF asked' = "stream" THEN PartsGive(0)' ELSE <<>>
        BY <1>2, <2>1, <3>3, Zenon
      <4>3. frames' = NoFrames /\ ~(0 > 0) /\ 0 < MaxFrames
        BY <1>2, <2>1 DEF MaxFrames
      <4>4. frames' = IF asked' = "latest" /\ 0 > 0 THEN [count |-> 0, last |-> FrameOf(answer'.parts[0].data)] ELSE NoFrames
        BY <4>3, Zenon
      <4> QED BY <4>1, <4>2, <4>3, <4>4 DEF AfterChunk
    <3>5. InChunkedBody'
      <4>1. 0 \in 0..Len(answer'.parts) /\ answer'.coding = "chunked"
        <5>1. Len(answer.parts) \in Nat
          BY <1>3, AnswerIs
        <5> QED BY <2>1, <2>3, <5>1
      <4> QED BY <3>4, <4>1, Zenon DEF InChunkedBody
    <3>6. InBody'
      <4>1. phase' = "body" /\ asked' # "whole" /\ got' >= 5 /\ (asked' = "stream" => answer'.good)
        BY <1>1, <1>4, <1>7, <2>1, Zenon
      <4> QED BY <3>5, <4>1 DEF InBody
    <3>7. asked' \in RequestKinds /\ answer' \in Answers /\ got' \in 0..answer'.sent
      BY <2>1 DEF FramesInv
    <3> QED BY <3>6, <3>7, Zenon DEF FramesInv
  <2>4. CASE answer.coding # "chunked"
    <3>1. InPiece'
      <4>1. answer'.coding # "chunked" /\ buffer' = SubSeq(Wire(answer'), 6, got') /\ results' = <<>> /\ frames' = NoFrames
        BY <1>2, <2>1, <2>2, <2>4, Zenon
      <4> QED BY <4>1 DEF InPiece, NoFrames
    <3>2. InBody'
      <4>1. phase' = "body" /\ asked' # "whole" /\ got' >= 5 /\ (asked' = "stream" => answer'.good)
        BY <1>1, <1>4, <1>7, <2>1, Zenon
      <4> QED BY <3>1, <4>1 DEF InBody
    <3>3. asked' \in RequestKinds /\ answer' \in Answers /\ got' \in 0..answer'.sent
      BY <2>1 DEF FramesInv
    <3> QED BY <3>2, <3>3, Zenon DEF FramesInv
  <2> QED BY <2>3, <2>4
<1> QED BY <1>6, <1>7

\* The connection ends in the body.
LEMMA BodyIsCutKeeps ==
    ASSUME FramesInv, BodyIsCut
    PROVE  FramesInv'
<1>1. AtEnd /\ phase = "body" /\ ~Spins /\ asked # "whole"
  BY Zenon DEF BodyIsCut
<1>2. Wants /\ got = answer.sent /\ answer.closes
  BY <1>1, Zenon DEF AtEnd
<1>3. answer \in Answers /\ got \in Nat /\ answer.sent \in Nat
  BY KindsAre
<1>4. phase # "head"
  BY <1>1
<1>5. CASE answer.coding = "chunked"
  <2>1. asked \in {"first", "latest", "stream"} /\ (asked = "stream" => answer.good) /\ HeadSent
        /\ \E n \in 0..Len(answer.parts) : BodyAt(n)
    BY <1>1, <1>5, ChunkedBodyIs
  <2>2. asked = "stream"
    <3>1. asked \notin {"first", "latest"}
      BY <1>1, <1>5, Zenon DEF Spins
    <3> QED BY <2>1, <3>1
  <2>3. PICK n \in 0..Len(answer.parts) : BodyAt(n)
    BY <2>1
  <2>4. NextChunk(buffer).is = "more"
    BY <1>1, <1>2, <1>4, <1>5, Zenon DEF Wants
  <2>5. n = ChunksSent /\ ~EndSent /\ AfterChunk(n) /\ (buffer = <<>> <=> got = EndOf(answer, n))
    BY <1>2, <2>3, <2>4, Zenon DEF BodyAt
  <2>6. results = PartsGive(n)
    BY <2>2, <2>5, Zenon DEF AfterChunk
  <2>7. Expected = StreamGives
    BY <1>1, <1>5, <2>1, <2>2, Zenon DEF Expected
  <2>8. answer.sent = ChunksEnd(ChunksSent) <=> buffer = <<>>
    BY <1>2, <2>5, Zenon DEF ChunksEnd, HeadEndsAt, EndOf
  <2>9. StreamGives = PartsGive(n) \o IF buffer = <<>> THEN <<>> ELSE <<Failure>>
    BY <1>2, <2>5, <2>8, Zenon DEF StreamGives
  <2>10. PartsGive(n) \in Seq(Given) /\ Failure \in Given
    <3>1. PartsGive(n) \in Seq(Given)
      BY <1>3, PartsGiveIs
    <3> QED BY <3>1, Zenon DEF Given
  <2> DEFINE p == PartsGive(n)
  <2> HIDE DEF p, Given
  <2>11. p \o <<>> = p /\ p \o <<Failure>> = Append(p, Failure)
    <3>1. p \in Seq(Given)
      BY <2>10 DEF p
    <3> QED BY <2>10, <3>1
  <2>12. CASE buffer = <<>>
    <3>1. phase' = "over" /\ UNCHANGED <<asked, answer, got, buffer, frames>> /\ results' = results
      BY <1>5, <2>12, Zenon DEF BodyIsCut
    <3>2. Expected = results
      BY <2>6, <2>7, <2>9, <2>11, <2>12, Zenon DEF p
    <3>3. results' = Expected
      BY <3>1, <3>2, Zenon
    <3> QED BY <3>1, <3>3, Ends
  <2>13. CASE buffer # <<>>
    <3>1. GivesUp(Failure)
      BY <1>5, <2>13, Zenon DEF BodyIsCut
    <3>2. phase' = "over" /\ UNCHANGED <<asked, answer, got, buffer, frames>> /\ results' = Append(results, Failure)
      BY <3>1, Zenon DEF GivesUp
    <3>3. Expected = Append(results, Failure)
      BY <2>6, <2>7, <2>9, <2>11, <2>13, Zenon DEF p
    <3>4. results' = Expected
      BY <3>2, <3>3, Zenon
    <3> QED BY <3>2, <3>4, Ends
  <2> QED BY <2>12, <2>13
<1>6. CASE answer.coding # "chunked"
  <2> DEFINE doc == answer.parts[1].doc
  <2>1. /\ asked \in {"first", "latest", "stream"} /\ (asked = "stream" => answer.good) /\ HeadSent /\ results = <<>>
        /\ Len(doc) \in Nat
        /\ got < 5 + Len(doc) => Checked(buffer) = Failure
        /\ got >= 5 + Len(doc) => Checked(buffer) = Gives(doc)
        /\ PieceSent <=> answer.sent >= 5 + Len(doc)
    BY <1>1, <1>6, PieceBodyIs
  <2> HIDE DEF doc
  <2>2. got < 5 + Len(doc) <=> ~(got >= 5 + Len(doc))
    BY <1>3, <2>1
  <2>3. GivesUp(Checked(buffer))
    BY <1>6, Zenon DEF BodyIsCut
  <2>4. PieceGives = Checked(buffer)
    BY <1>2, <2>1, <2>2, Zenon DEF PieceGives, doc
  <2>5. InOnePieceGives = <<Checked(buffer)>>
    BY <1>2, <2>4, Zenon DEF InOnePieceGives
  <2>6. Expected = <<Checked(buffer)>>
    BY <1>1, <1>6, <2>1, <2>5, Zenon DEF Expected
  <2> QED BY <2>1, <2>3, <2>6, EndsWith
<1> QED BY <1>5, <1>6

\* A document has come in one piece.
LEMMA ReadBodyKeeps ==
    ASSUME FramesInv, ReadBody
    PROVE  FramesInv'
<1> DEFINE data == answer.parts[1].data
           doc == answer.parts[1].doc
           taken == IF answer.coding = "length" THEN SubSeq(buffer, 1, Len(data)) ELSE FirstJsonFrame(buffer)
<1>1. phase = "body" /\ asked # "whole" /\ answer.coding # "chunked" /\ ~Wants /\ GivesUp(Checked(taken))
  BY Zenon DEF ReadBody
<1>2. /\ answer.coding \in {"chunked", "length", "open"} /\ got \in Nat /\ answer.sent \in Nat
      /\ got <= answer.sent /\ answer.sent <= Len(Wire(answer))
  BY KindsAre
<1>3. phase # "head" /\ phase # "over"
  BY <1>1
<1>4. /\ (asked = "stream" => answer.good) /\ HeadSent /\ results = <<>>
      /\ Len(buffer) = got - 5 /\ Len(Wire(answer)) = 5 + Len(data) /\ Len(data) \in Nat
      /\ Len(doc) \in Nat /\ Len(doc) <= Len(data)
      /\ got < 5 + Len(doc) => FirstJsonFrame(buffer) = <<>>
      /\ got >= 5 + Len(doc) => FirstJsonFrame(buffer) = doc /\ Checked(buffer) = Gives(doc) /\ Checked(doc) = Gives(doc)
      /\ got = 5 + Len(data) => SubSeq(buffer, 1, Len(data)) = buffer
      /\ PieceSent <=> answer.sent >= 5 + Len(doc)
  BY <1>1, PieceBodyIs
<1>5. IF answer.coding = "length" THEN ~(Len(buffer) < Len(data)) ELSE FirstJsonFrame(buffer) # <<>>
  BY <1>1, <1>3, Zenon DEF Wants
<1> HIDE DEF data, doc
<1>6. got >= 5 + Len(doc) => answer.sent >= 5 + Len(doc)
  BY <1>2, <1>4
<1>7. Checked(taken) = PieceGives /\ PieceSent /\ (AllSent \/ answer.coding = "open")
  <2>1. CASE answer.coding = "length"
    <3>1. ~(Len(buffer) < Len(data))
      BY <1>5, <2>1, Zenon
    <3>2. got = 5 + Len(data) /\ got >= 5 + Len(doc) /\ answer.sent = Len(Wire(answer))
      <4> DEFINE all == Len(Wire(answer))
                 sent == answer.sent
      <4>1. got \in Nat /\ sent \in Nat /\ got <= sent /\ sent <= all /\ all = 5 + Len(data)
        BY <1>2, <1>4
      <4> HIDE DEF all, sent
      <4>2. got = 5 + Len(data) /\ got >= 5 + Len(doc) /\ sent = all
        BY <1>4, <3>1, <4>1
      <4> QED BY <4>2 DEF all, sent
    <3>3. taken = buffer
      BY <1>4, <2>1, <3>2, Zenon
    <3> HIDE DEF taken
    <3>4. Checked(taken) = Gives(doc) /\ PieceSent /\ AllSent
      BY <1>4, <1>6, <3>2, <3>3, Zenon DEF AllSent
    <3> QED BY <3>4, Zenon DEF PieceGives, doc
  <2>2. CASE answer.coding = "open"
    <3>1. answer.coding # "length"
      BY <2>2
    <3>2. ~(got < 5 + Len(doc))
      BY <1>4, <1>5, <3>1, Zenon
    <3>3. got >= 5 + Len(doc)
      BY <1>2, <1>4, <3>2
    <3>4. taken = doc
      BY <1>4, <3>1, <3>3, Zenon
    <3> HIDE DEF taken
    <3>5. Checked(taken) = Gives(doc) /\ PieceSent
      BY <1>4, <1>6, <3>3, <3>4, Zenon
    <3> QED BY <2>2, <3>5, Zenon DEF PieceGives, doc
  <2> QED BY <1>1, <1>2, <2>1, <2>2
<1> HIDE DEF taken
<1>8. InOnePieceGives = <<Checked(taken)>>
  BY <1>7, Zenon DEF InOnePieceGives
<1>9. Expected = <<Checked(taken)>>
  BY <1>1, <1>4, <1>8, Zenon DEF Expected
<1> QED BY <1>1, <1>4, <1>9, EndsWith

\* What is expected of a request that takes one frame out of chunks.
LEMMA FrameExpected ==
    ASSUME asked = "first" \/ asked = "latest", HeadSent, answer.coding = "chunked"
    PROVE  Expected = <<FrameGiven>>
<1>1. asked # "whole" /\ asked # "stream"
  OBVIOUS
<1> QED BY <1>1, Zenon DEF Expected

\* A chunk that is none.
LEMMA BadChunkKeeps ==
    ASSUME FramesInv, BadChunk
    PROVE  FramesInv'
<1>1. phase = "body" /\ asked # "whole" /\ answer.coding = "chunked" /\ NextChunk(buffer).is = "bad" /\ GivesUp(Failure)
  BY Zenon DEF BadChunk, InChunks
<1>2. /\ asked \in {"first", "latest", "stream"} /\ (asked = "stream" => answer.good) /\ HeadSent
      /\ \E n \in 0..Len(answer.parts) : BodyAt(n)
  BY <1>1, ChunkedBodyIs
<1>3. PICK n \in 0..Len(answer.parts) : BodyAt(n)
  BY <1>2
<1>4. n = ChunksSent /\ EndSent /\ answer.ends = "garbage" /\ AfterChunk(n) /\ n \in Nat
  BY <1>1, <1>3, Zenon DEF BodyAt
<1>5. /\ results = (IF asked = "stream" THEN PartsGive(n) ELSE <<>>)
      /\ (asked = "first" => n = 0) /\ (asked = "latest" => n < MaxFrames)
  BY <1>4, Zenon DEF AfterChunk
<1>6. answer.ends # "last"
  BY <1>4
<1>7. CASE asked = "stream"
  <2>1. Expected = StreamGives
    BY <1>1, <1>2, <1>7, Zenon DEF Expected
  <2>2. StreamGives = PartsGive(n) \o <<Failure>>
    BY <1>4, <1>6, Zenon DEF StreamGives
  <2>3. PartsGive(n) \in Seq(Given) /\ Failure \in Given
    <3>1. answer \in Answers
      BY KindsAre
    <3>2. PartsGive(n) \in Seq(Given)
      BY <3>1, PartsGiveIs
    <3> QED BY <3>2, Zenon DEF Given
  <2> DEFINE p == PartsGive(n)
  <2> HIDE DEF p, Given
  <2>4. p \o <<Failure>> = Append(p, Failure)
    <3>1. p \in Seq(Given)
      BY <2>3 DEF p
    <3> QED BY <2>3, <3>1
  <2>5. phase' = "over" /\ UNCHANGED <<asked, answer, got, buffer, frames>> /\ results' = Append(results, Failure)
    BY <1>1, Zenon DEF GivesUp
  <2>6. results' = Expected
    BY <1>5, <1>7, <2>1, <2>2, <2>4, <2>5, Zenon DEF p
  <2> QED BY <2>5, <2>6, Ends
<1>8. CASE asked = "first" \/ asked = "latest"
  <2>1. results = <<>>
    <3>1. asked # "stream"
      BY <1>8
    <3> QED BY <1>5, <3>1, Zenon
  <2>2. ~(ChunksSent >= IF asked = "first" THEN 1 ELSE MaxFrames)
    <3>1. CASE asked = "first"
      <4>1. n = 0
        BY <1>5, <3>1, Zenon
      <4>2. ~(n >= 1)
        BY <4>1
      <4> QED BY <1>4, <3>1, <4>2, Zenon
    <3>2. CASE asked = "latest"
      <4>1. n < 2 /\ MaxFrames = 2
        BY <1>5, <3>2 DEF MaxFrames
      <4>2. ~(n >= 2)
        BY <1>4, <4>1
      <4>3. asked # "first"
        BY <3>2
      <4> QED BY <1>4, <4>1, <4>2, <4>3, Zenon
    <3> QED BY <1>8, <3>1, <3>2
  <2>3. FrameGiven = Failure
    BY <1>4, <1>6, <2>2, Zenon DEF FrameGiven
  <2>4. Expected = <<Failure>>
    <3>1. Expected = <<FrameGiven>>
      BY <1>1, <1>2, <1>8, FrameExpected
    <3> QED BY <2>3, <3>1, Zenon
  <2> QED BY <1>1, <2>1, <2>4, EndsWith
<1> QED BY <1>2, <1>7, <1>8

\* The chunk that ends the body.
LEMMA EndChunkKeeps ==
    ASSUME FramesInv, EndChunk
    PROVE  FramesInv'
<1>1. phase = "body" /\ asked # "whole" /\ answer.coding = "chunked" /\ NextChunk(buffer).is = "last"
  BY Zenon DEF EndChunk, InChunks
<1>2. /\ asked \in {"first", "latest", "stream"} /\ (asked = "stream" => answer.good) /\ HeadSent
      /\ \E n \in 0..Len(answer.parts) : BodyAt(n)
  BY <1>1, ChunkedBodyIs
<1>3. PICK n \in 0..Len(answer.parts) : BodyAt(n)
  BY <1>2
<1>4. n = ChunksSent /\ EndSent /\ answer.ends = "last" /\ AfterChunk(n) /\ n \in Nat
  BY <1>1, <1>3, Zenon DEF BodyAt
<1>5. /\ results = (IF asked = "stream" THEN PartsGive(n) ELSE <<>>)
      /\ frames = (IF asked = "latest" /\ n > 0 THEN [count |-> n, last |-> FrameOf(answer.parts[n].data)] ELSE NoFrames)
      /\ (asked = "first" => n = 0) /\ (asked = "latest" => n < MaxFrames)
  BY <1>4, Zenon DEF AfterChunk
<1>6. answer \in Answers
  BY KindsAre
<1>7. CASE asked = "stream"
  <2>1. Expected = StreamGives
    BY <1>1, <1>2, <1>7, Zenon DEF Expected
  <2>2. StreamGives = PartsGive(n) \o <<>>
    BY <1>4, Zenon DEF StreamGives
  <2>3. PartsGive(n) \in Seq(Given)
    BY <1>6, PartsGiveIs
  <2> DEFINE p == PartsGive(n)
  <2> HIDE DEF p, Given
  <2>4. p \o <<>> = p
    <3>1. p \in Seq(Given)
      BY <2>3 DEF p
    <3> QED BY <3>1
  <2>5. phase' = "over" /\ UNCHANGED <<asked, answer, got, buffer, frames>> /\ results' = results
    BY <1>7, Zenon DEF EndChunk
  <2>6. results' = Expected
    BY <1>5, <1>7, <2>1, <2>2, <2>4, <2>5, Zenon DEF p
  <2> QED BY <2>5, <2>6, Ends
<1>8. CASE asked = "first" \/ asked = "latest"
  <2>1. results = <<>> /\ asked # "stream"
    <3>1. asked # "stream"
      BY <1>8
    <3> QED BY <1>5, <3>1, Zenon
  <2>2. GivesUp(IF asked = "first" \/ frames.count = 0 THEN Failure ELSE Checked(frames.last))
    BY <2>1, Zenon DEF EndChunk
  <2>3. Expected = <<FrameGiven>>
    BY <1>1, <1>2, <1>8, FrameExpected
  <2>4. CASE asked = "first"
    <3>1. n = 0 /\ ~(n >= 1) /\ asked # "latest"
      BY <1>5, <2>4
    <3>2. FrameGiven = Failure
      BY <1>4, <2>4, <3>1, Zenon DEF FrameGiven
    <3>3. GivesUp(Failure) /\ Expected = <<Failure>>
      BY <2>2, <2>3, <2>4, <3>2, Zenon
    <3> QED BY <2>1, <3>3, EndsWith
  <2>5. CASE asked = "latest"
    <3>1. n < 2 /\ MaxFrames = 2 /\ asked # "first"
      BY <1>5, <2>5 DEF MaxFrames
    <3>2. ~(n >= 2)
      BY <1>4, <3>1
    <3>3. FrameGiven = IF n > 0 THEN PartsGive(n)[n] ELSE Failure
      BY <1>4, <2>5, <3>1, <3>2, Zenon DEF FrameGiven
    <3>4. CASE n > 0
      <4>1. frames = [count |-> n, last |-> FrameOf(answer.parts[n].data)]
        BY <1>5, <2>5, <3>4, Zenon
      <4>2. frames.count = n /\ frames.last = FrameOf(answer.parts[n].data)
        BY <4>1
      <4>3. n # 0 /\ n \in 1..n /\ n \in 1..Len(answer.parts)
        <5>1. Len(answer.parts) \in Nat
          BY <1>6, AnswerIs
        <5> QED BY <1>4, <3>4, <5>1
      <4>4. Checked(frames.last) = PartsGive(n)[n]
        <5>1. Checked(FrameOf(answer.parts[n].data)) = Gives(answer.parts[n].doc)
          BY <1>1, <1>6, <4>3, PartGives
        <5>2. PartsGive(n)[n] = Gives(answer.parts[n].doc)
          BY <1>6, <4>3, PartsGiveIs
        <5> QED BY <4>2, <5>1, <5>2, Zenon
      <4>5. GivesUp(Checked(frames.last)) /\ Expected = <<Checked(frames.last)>>
        BY <2>2, <2>3, <3>1, <3>3, <3>4, <4>2, <4>3, <4>4, Zenon
      <4> QED BY <2>1, <4>5, EndsWith
    <3>5. CASE ~(n > 0)
      <4>1. frames.count = 0
        BY <1>5, <3>5 DEF NoFrames
      <4>2. GivesUp(Failure) /\ Expected = <<Failure>>
        BY <2>2, <2>3, <3>3, <3>5, <4>1, Zenon
      <4> QED BY <2>1, <4>2, EndsWith
    <3> QED BY <3>4, <3>5
  <2> QED BY <1>8, <2>4, <2>5
<1> QED BY <1>2, <1>7, <1>8

\* The request has used one chunk more.
LEMMA NextKeeps ==
    ASSUME FramesInv, phase = "body", answer.coding = "chunked", asked = "stream" \/ asked = "latest",
           NEW n \in 0..Len(answer.parts), BodyAt(n), NextChunk(buffer).is = "chunk",
           UNCHANGED <<asked, answer, got, phase>>, buffer' = NextChunk(buffer).rest,
           results' = IF asked = "stream" THEN PartsGive(n + 1) ELSE <<>>,
           frames' = IF asked = "latest" THEN [count |-> n + 1, last |-> FrameOf(answer.parts[n + 1].data)] ELSE NoFrames,
           asked = "latest" => n + 1 < MaxFrames
    PROVE  FramesInv'
<1> DEFINE m == n + 1
<1>1. /\ m \in 1..Len(answer.parts) /\ EndOf(answer, m) <= got /\ NextChunk(buffer).rest = Left(answer, m, got) /\ n \in Nat
  BY Zenon DEF BodyAt
<1>2. got >= 5 /\ (asked = "stream" => answer.good)
  BY ChunkedBodyIs
<1>3. m > 0 /\ m \in 0..Len(answer.parts)
  <2>1. Len(answer.parts) \in Nat
    <3>1. answer \in Answers
      BY KindsAre
    <3> QED BY <3>1, AnswerIs
  <2> QED BY <1>1, <2>1
<1>4. PartsGive(m)' = PartsGive(m)
  BY DEF PartsGive, Gives
<1>5. /\ results' = (IF asked = "stream" THEN PartsGive(m) ELSE <<>>)
      /\ frames' = (IF asked = "latest" THEN [count |-> m, last |-> FrameOf(answer.parts[m].data)] ELSE NoFrames)
      /\ (asked = "latest" => m < MaxFrames)
      /\ asked' = asked /\ answer' = answer /\ got' = got /\ phase' = phase /\ buffer' = NextChunk(buffer).rest
  OBVIOUS
<1> HIDE DEF m
<1>6. asked # "first" /\ asked # "whole"
  OBVIOUS
<1>7. AfterChunk(m)'
  <2>1. EndOf(answer', m) <= got' /\ buffer' = Left(answer', m, got')
    BY <1>1, <1>5, Zenon
  <2>2. results' = IF asked' = "stream" THEN PartsGive(m)' ELSE <<>>
    BY <1>4, <1>5, Zenon
  <2>3. frames' = IF asked' = "latest" /\ m > 0 THEN [count |-> m, last |-> FrameOf(answer'.parts[m].data)] ELSE NoFrames
    BY <1>3, <1>5, Zenon
  <2>4. (asked' = "first" => m = 0) /\ (asked' = "latest" => m < MaxFrames)
    BY <1>5, <1>6, Zenon
  <2> QED BY <2>1, <2>2, <2>3, <2>4 DEF AfterChunk
<1>8. InChunkedBody'
  <2>1. m \in 0..Len(answer'.parts) /\ answer'.coding = "chunked"
    BY <1>3, <1>5, Zenon
  <2> QED BY <1>7, <2>1, Zenon DEF InChunkedBody
<1>9. InBody'
  <2>1. phase' = "body" /\ asked' # "whole" /\ got' >= 5 /\ (asked' = "stream" => answer'.good)
    BY <1>2, <1>5, <1>6, Zenon
  <2> QED BY <1>8, <2>1 DEF InBody
<1>10. asked' \in RequestKinds /\ answer' \in Answers /\ got' \in 0..answer'.sent
  BY DEF FramesInv
<1> QED BY <1>9, <1>10, Zenon DEF FramesInv

\* A stream hands on a frame.
LEMMA StreamFrameKeeps ==
    ASSUME FramesInv, StreamFrame
    PROVE  FramesInv'
<1>1. /\ phase = "body" /\ answer.coding = "chunked" /\ NextChunk(buffer).is = "chunk" /\ asked = "stream"
      /\ buffer' = NextChunk(buffer).rest /\ results' = Append(results, Decoded(FrameOf(NextChunk(buffer).data)))
      /\ asked' = asked /\ answer' = answer /\ got' = got /\ phase' = phase /\ frames' = frames
  BY Zenon DEF StreamFrame, InChunks
<1>2. (asked = "stream" => answer.good) /\ \E n \in 0..Len(answer.parts) : BodyAt(n)
  BY <1>1, ChunkedBodyIs
<1>3. PICK n \in 0..Len(answer.parts) : BodyAt(n)
  BY <1>2
<1>4. n + 1 \in 1..Len(answer.parts) /\ NextChunk(buffer).data = answer.parts[n + 1].data /\ AfterChunk(n)
  BY <1>1, <1>3, Zenon DEF BodyAt
<1>5. asked # "latest" /\ answer \in Answers
  BY <1>1, KindsAre
<1>6. results = PartsGive(n) /\ frames = NoFrames
  BY <1>1, <1>4, <1>5, Zenon DEF AfterChunk
<1>7. Decoded(FrameOf(answer.parts[n + 1].data)) = Gives(answer.parts[n + 1].doc)
  <2> DEFINE m == n + 1
  <2>1. m \in 1..Len(answer.parts)
    BY <1>4
  <2> HIDE DEF m
  <2>2. Decoded(FrameOf(answer.parts[m].data)) = Gives(answer.parts[m].doc)
    BY <1>1, <1>2, <1>5, <2>1, PartGives
  <2> QED BY <2>2 DEF m
<1>8. results' = PartsGive(n + 1)
  <2>1. Append(PartsGive(n), Gives(answer.parts[n + 1].doc)) = PartsGive(n + 1)
    BY <1>4, <1>5, OneMore
  <2> QED BY <1>1, <1>4, <1>6, <1>7, <2>1, Zenon
<1>9. /\ results' = (IF asked = "stream" THEN PartsGive(n + 1) ELSE <<>>)
      /\ frames' = (IF asked = "latest" THEN [count |-> n + 1, last |-> FrameOf(answer.parts[n + 1].data)] ELSE NoFrames)
  BY <1>1, <1>5, <1>6, <1>8, Zenon
<1> QED BY <1>1, <1>3, <1>5, <1>9, NextKeeps

\* "first" has its frame.
LEMMA FirstFrameKeeps ==
    ASSUME FramesInv, FirstFrame
    PROVE  FramesInv'
<1>1. /\ phase = "body" /\ answer.coding = "chunked" /\ NextChunk(buffer).is = "chunk" /\ asked = "first"
      /\ GivesUp(Checked(FrameOf(NextChunk(buffer).data)))
  BY Zenon DEF FirstFrame, InChunks
<1>2. HeadSent /\ \E n \in 0..Len(answer.parts) : BodyAt(n)
  BY <1>1, ChunkedBodyIs
<1>3. PICK n \in 0..Len(answer.parts) : BodyAt(n)
  BY <1>2
<1>4. /\ n + 1 \in 1..Len(answer.parts) /\ NextChunk(buffer).data = answer.parts[n + 1].data
      /\ n + 1 <= ChunksSent /\ AfterChunk(n) /\ ChunksSent \in 0..Len(answer.parts)
  BY <1>1, <1>3, Zenon DEF BodyAt
<1>5. asked # "stream" /\ answer \in Answers
  BY <1>1, KindsAre
<1>6. results = <<>> /\ n = 0
  BY <1>1, <1>4, <1>5, Zenon DEF AfterChunk
<1>7. n + 1 = 1
  BY <1>6
<1>8. NextChunk(buffer).data = answer.parts[1].data /\ 1 \in 1..Len(answer.parts) /\ 1 <= ChunksSent
  BY <1>4, <1>7, Zenon
<1>9. ChunksSent >= 1 /\ 1 \in 1..ChunksSent
  <2>1. ChunksSent \in Nat
    <3>1. Len(answer.parts) \in Nat
      BY <1>5, AnswerIs
    <3> QED BY <1>4, <3>1
  <2> QED BY <1>8, <2>1
<1>10. Checked(FrameOf(answer.parts[1].data)) = Gives(answer.parts[1].doc)
  BY <1>1, <1>5, <1>8, PartGives
<1>11. PartsGive(ChunksSent)[1] = Gives(answer.parts[1].doc)
  BY <1>4, <1>5, <1>9, PartsGiveIs
<1>12. FrameGiven = PartsGive(ChunksSent)[1]
  BY <1>1, <1>9, Zenon DEF FrameGiven
<1>13. Expected = <<FrameGiven>>
  BY <1>1, <1>2, FrameExpected
<1> DEFINE result == Checked(FrameOf(NextChunk(buffer).data))
<1>14. GivesUp(result) /\ Expected = <<result>>
  BY <1>1, <1>8, <1>10, <1>11, <1>12, <1>13, Zenon
<1> HIDE DEF result
<1> QED BY <1>6, <1>14, EndsWith

\* "latest" has one frame more, or all that it takes.
LEMMA LatestFrameKeeps ==
    ASSUME FramesInv, LatestFrame
    PROVE  FramesInv'
<1> DEFINE frame == FrameOf(NextChunk(buffer).data)
<1>1. phase = "body" /\ answer.coding = "chunked" /\ NextChunk(buffer).is = "chunk" /\ asked = "latest"
  BY Zenon DEF LatestFrame, InChunks
<1>2. HeadSent /\ \E n \in 0..Len(answer.parts) : BodyAt(n)
  BY <1>1, ChunkedBodyIs
<1>3. PICK n \in 0..Len(answer.parts) : BodyAt(n)
  BY <1>2
<1>4. /\ n + 1 \in 1..Len(answer.parts) /\ NextChunk(buffer).data = answer.parts[n + 1].data
      /\ n + 1 <= ChunksSent /\ AfterChunk(n) /\ ChunksSent \in 0..Len(answer.parts) /\ n \in Nat
  BY <1>1, <1>3, Zenon DEF BodyAt
<1>5. asked # "stream" /\ asked # "first" /\ answer \in Answers
  BY <1>1, KindsAre
<1>6. /\ results = <<>> /\ n < MaxFrames
      /\ frames = (IF n > 0 THEN [count |-> n, last |-> FrameOf(answer.parts[n].data)] ELSE NoFrames)
  BY <1>1, <1>4, <1>5, Zenon DEF AfterChunk
<1>7. frames.count = n
  <2>1. CASE n > 0
    BY <1>6, <2>1
  <2>2. CASE ~(n > 0)
    <3>1. n = 0
      BY <1>4, <2>2
    <3>2. frames.count = 0
      BY <1>6, <2>2 DEF NoFrames
    <3> QED BY <3>1, <3>2
  <2> QED BY <2>1, <2>2
<1>8. ChunksSent \in Nat
  <2>1. Len(answer.parts) \in Nat
    BY <1>5, AnswerIs
  <2> QED BY <1>4, <2>1
<1>9. CASE frames.count + 1 = MaxFrames
  <2>1. GivesUp(Checked(frame))
    BY <1>9, Zenon DEF LatestFrame
  <2>2. n + 1 = 2 /\ MaxFrames = 2
    BY <1>7, <1>9 DEF MaxFrames
  <2>3. NextChunk(buffer).data = answer.parts[2].data /\ 2 \in 1..Len(answer.parts) /\ 2 <= ChunksSent
    BY <1>4, <2>2, Zenon
  <2>4. ChunksSent >= 2 /\ 2 \in 1..ChunksSent
    BY <1>8, <2>3
  <2>5. Checked(FrameOf(answer.parts[2].data)) = Gives(answer.parts[2].doc)
    BY <1>1, <1>5, <2>3, PartGives
  <2>6. PartsGive(ChunksSent)[2] = Gives(answer.parts[2].doc)
    BY <1>4, <1>5, <2>4, PartsGiveIs
  <2>7. FrameGiven = PartsGive(ChunksSent)[2]
    BY <1>5, <2>2, <2>4, Zenon DEF FrameGiven
  <2>8. Expected = <<FrameGiven>>
    BY <1>1, <1>2, FrameExpected
  <2> DEFINE result == Checked(frame)
  <2>9. GivesUp(result) /\ Expected = <<result>>
    BY <2>1, <2>3, <2>5, <2>6, <2>7, <2>8, Zenon
  <2> HIDE DEF result
  <2> QED BY <1>6, <2>9, EndsWith
<1>10. CASE frames.count + 1 # MaxFrames
  <2>1. /\ frames' = [count |-> frames.count + 1, last |-> frame] /\ buffer' = NextChunk(buffer).rest
        /\ asked' = asked /\ answer' = answer /\ got' = got /\ phase' = phase /\ results' = results
    BY <1>10, Zenon DEF LatestFrame
  <2>2. n + 1 < MaxFrames
    BY <1>4, <1>6, <1>7, <1>10 DEF MaxFrames
  <2>3. frames' = [count |-> n + 1, last |-> FrameOf(answer.parts[n + 1].data)]
    BY <1>4, <1>7, <2>1, Zenon
  <2>4. /\ results' = (IF asked = "stream" THEN PartsGive(n + 1) ELSE <<>>)
        /\ frames' = (IF asked = "latest" THEN [count |-> n + 1, last |-> FrameOf(answer.parts[n + 1].data)] ELSE NoFrames)
    BY <1>1, <1>5, <1>6, <2>1, <2>3, Zenon
  <2> QED BY <1>1, <1>3, <2>1, <2>2, <2>4, NextKeeps
<1> QED BY <1>9, <1>10

-----------------------------------------------------------------------------
(* What the invariant gives.                                               *)

\* In whatever pieces an answer is read, a request is always in the head, after so many chunks, in a
\* piece, or over with what is expected of it.
THEOREM FramesInvariant == ControllerSpec => []FramesInv
<1>1. ControllerInit => FramesInv
  <2> SUFFICES ASSUME ControllerInit PROVE FramesInv
    OBVIOUS
  <2>1. /\ asked \in RequestKinds /\ answer \in Answers /\ got = 0 /\ buffer = <<>> /\ phase = "head"
        /\ results = <<>> /\ frames = NoFrames
    BY Zenon DEF ControllerInit, NoFrames
  <2>2. Wire(answer) \in Seq(Byte) /\ answer.sent \in 0..Len(Wire(answer))
    BY <2>1, WireIs, AnswerIs, Zenon
  <2>3. Len(Wire(answer)) \in Nat /\ SubSeq(Wire(answer), 1, 0) = <<>>
    BY <2>2, LengthIs
  <2>4. got \in 0..answer.sent
    BY <2>1, <2>2, <2>3
  <2>5. InHead
    BY <2>1, <2>3, Zenon DEF InHead
  <2> QED BY <2>1, <2>4, <2>5, Zenon DEF FramesInv
<1>2. FramesInv /\ [ControllerNext]_controllerVars => FramesInv'
  <2> SUFFICES ASSUME FramesInv, [ControllerNext]_controllerVars PROVE FramesInv'
    OBVIOUS
  <2>1. ASSUME NEW n \in ReadSizes \cup {answer.sent - got}, ReadMore(n) PROVE FramesInv'
    BY <2>1, ReadMoreKeeps
  <2>2. CASE TimesOut
    BY <2>2, TimesOutKeeps
  <2>3. CASE ParseHttpResponse
    BY <2>3, ParseHttpResponseKeeps
  <2>4. CASE HeadIsCut
    BY <2>4, HeadIsCutKeeps
  <2>5. CASE ReadHead
    BY <2>5, ReadHeadKeeps
  <2>6. CASE BodyIsCut
    BY <2>6, BodyIsCutKeeps
  <2>7. CASE ReadBody
    BY <2>7, ReadBodyKeeps
  <2>8. CASE BadChunk
    BY <2>8, BadChunkKeeps
  <2>9. CASE EndChunk
    BY <2>9, EndChunkKeeps
  <2>10. CASE StreamFrame
    BY <2>10, StreamFrameKeeps
  <2>11. CASE FirstFrame
    BY <2>11, FirstFrameKeeps
  <2>12. CASE LatestFrame
    BY <2>12, LatestFrameKeeps
  <2>13. CASE UNCHANGED controllerVars
    <3>1. UNCHANGED <<asked, answer, got, buffer, phase, frames, results>>
      BY <2>13, Zenon DEF controllerVars
    <3>2. asked' \in RequestKinds /\ answer' \in Answers /\ got' \in 0..answer'.sent
      BY <3>1 DEF FramesInv
    <3>3. Expected' = Expected
      BY <3>1, ExpectedStays
    <3>4. ASSUME NEW n PROVE PartsGive(n)' = PartsGive(n)
      BY <3>1 DEF PartsGive, Gives
    <3>5. InHead => InHead'
      BY <3>1 DEF InHead, NoFrames
    <3>6. IsOver => IsOver'
      BY <3>1, <3>3 DEF IsOver, MaxFrames
    <3>7. ASSUME NEW n PROVE AfterChunk(n) => AfterChunk(n)'
      BY <3>1, <3>4 DEF AfterChunk, NoFrames, MaxFrames
    <3>8. InChunkedBody => InChunkedBody'
      BY <3>1, <3>7, Zenon DEF InChunkedBody
    <3>9. InPiece => InPiece'
      BY <3>1 DEF InPiece, NoFrames
    <3>10. InBody => InBody'
      BY <3>1, <3>8, <3>9 DEF InBody
    <3> QED BY <3>2, <3>5, <3>6, <3>10, Zenon DEF FramesInv
  <2> QED
    BY <2>1, <2>2, <2>3, <2>4, <2>5, <2>6, <2>7, <2>8, <2>9, <2>10, <2>11, <2>12, <2>13, Zenon DEF ControllerNext
<1> QED BY <1>1, <1>2, PTL DEF ControllerSpec

\* FramesComeWhole (first_json_frame and the readers of mihomo/client.rs), for every answer of the
\* core and every size of the pieces in which it is read.
THEOREM FramesStayWhole == ControllerSpec => []FramesComeWhole
<1>1. FramesInv => FramesComeWhole
  BY FramesWhole
<1> QED BY <1>1, FramesInvariant, PTL

\* The state of a request always has its type.
THEOREM ControllerTypeCorrect == ControllerSpec => []ControllerTypeOK
<1>1. FramesInv => ControllerTypeOK
  BY FramesWhole
<1> QED BY <1>1, FramesInvariant, PTL
=============================================================================
