---------------------------- MODULE ProviderWait ----------------------------
(***************************************************************************)
(* After a subscription was imported and activated, the interface waits    *)
(* for the core to offer groups of nodes (clash-tui/src/tui/app/refresh.rs *)
(* wait_for_proxy_groups_ready), and once makes it fetch its providers.    *)
(* No key is handled before the wait is over.                              *)
(*                                                                         *)
(* Time is counted in tenths of seconds.  A request is answered at once,   *)
(* or at the last moment of its timeout.                                   *)
(***************************************************************************)
EXTENDS Integers, Sequences, FiniteSets, SequencesExt

CONSTANTS
    Summaries,    \* of runtime files: [readable, providers, uses, nameless]
    Provided,     \* listings of providers by the core: sequences of [key, name, visible, nodes], by key
    IMPORT_PROXY_READY_TIMEOUT, IMPORT_PROVIDER_PROXY_READY_TIMEOUT,
    MAX_AUTO_PROVIDER_REFRESHES

ASSUME WaitAssumption ==
    /\ IMPORT_PROXY_READY_TIMEOUT \in Nat /\ IMPORT_PROVIDER_PROXY_READY_TIMEOUT \in Nat
    /\ MAX_AUTO_PROVIDER_REFRESHES \in Nat
    /\ \A s \in Summaries :
          s.uses \in Seq(ToSet(s.uses)) /\ s.providers \in Seq(ToSet(s.providers)) /\ s.nameless \in BOOLEAN
    /\ \A entries \in Provided :
          entries \in Seq(ToSet(entries)) /\ \A e \in ToSet(entries) : e.nodes \in Nat

VARIABLES
    summary,      \* what the runtime file says of its providers
    wait,         \* [at, elapsed, tried, left]
    listing,      \* observer: what the core listed, if it answered
    told         \* observer: the providers it was told to fetch

waitVars == <<summary, wait, listing, told>>

CONTROLLER_TIMEOUT == 8
IMPORT_PROXY_READY_INTERVAL == 5
PROVIDER_REFRESH_TIMEOUT == 80
PROVIDER_REFRESH_SETTLE_INTERVAL == 10
FirstTries == 20

UsesProviders ==
    summary.readable /\ (summary.nameless \/ summary.providers # <<>> \/ summary.uses # <<>>)
ReadyTimeout == IF UsesProviders THEN IMPORT_PROVIDER_PROXY_READY_TIMEOUT ELSE IMPORT_PROXY_READY_TIMEOUT

-----------------------------------------------------------------------------
(* The providers to fetch, the first first.                                *)

ProviderMatchesNames(entry, names) == entry.key \in ToSet(names) \/ entry.name \in ToSet(names)

\* A blank name, which the code leaves out, is not among the names here.
PushUniqueProviderName(names, name) == IF Contains(names, name) THEN names ELSE Append(names, name)
WithoutRepeats(names) ==
    LET first[n \in 0..Len(names)] ==
            IF n = 0 THEN <<>> ELSE PushUniqueProviderName(first[n - 1], names[n])
    IN first[Len(names)]

\* Among providers that groups use, and then among the others of the file, those without nodes first.
Precedes(entries, i, j) ==
    LET d == entries[i]
        e == entries[j]
        priority(x) == IF ProviderMatchesNames(x, summary.uses) THEN 0
                       ELSE IF ProviderMatchesNames(x, summary.providers) THEN 1 ELSE 2
    IN \/ priority(d) < priority(e)
       \/ priority(d) = priority(e) /\ (d.nodes < e.nodes \/ (d.nodes = e.nodes /\ i < j))

KeysInOrder(entries, places) ==
    LET order == CHOOSE order \in [1..Cardinality(places) -> places] :
                     \A k, l \in DOMAIN order : k < l => Precedes(entries, order[k], order[l])
    IN [k \in DOMAIN order |-> entries[order[k]].key]

Visible(entries) == {i \in DOMAIN entries : entries[i].visible}
Matching(entries, names) == {i \in Visible(entries) : ProviderMatchesNames(entries[i], names)}
Others(entries) == IF summary.uses = <<>> /\ summary.providers = <<>> THEN Visible(entries) ELSE {}

ListedNames(entries) ==
    WithoutRepeats(KeysInOrder(entries, Matching(entries, summary.uses))
                   \o KeysInOrder(entries, Matching(entries, summary.providers))
                   \o KeysInOrder(entries, Others(entries)))

\* A core that does not answer, or lists none of them yet, is given the names of the file.
ProviderNamesForAutoRefresh(entries) ==
    IF ListedNames(entries) # <<>> THEN ListedNames(entries) ELSE WithoutRepeats(summary.uses \o summary.providers)

-----------------------------------------------------------------------------
WaitGoes(where, time) == wait' = [wait EXCEPT !.at = where, !.elapsed = @ + time]

FetchReady ==
    /\ wait.at = "fetching"
    /\ \E time \in {0, CONTROLLER_TIMEOUT} : WaitGoes("ready", time)
    /\ UNCHANGED <<summary, listing, told>>

\* Mutant: that the core was told to fetch its providers is forgotten.
RefreshDueAgain(answered) == UsesProviders /\ (answered \/ wait.elapsed >= FirstTries)

RefreshDue(answered) == ~wait.tried /\ UsesProviders /\ (answered \/ wait.elapsed >= FirstTries)

\* The core offers no group with a node, or does not answer.
FetchEmpty ==
    /\ wait.at = "fetching"
    /\ \E time \in {0, CONTROLLER_TIMEOUT} : WaitGoes("empty", time)
    /\ UNCHANGED <<summary, listing, told>>
FetchFails ==
    /\ wait.at = "fetching"
    /\ \E time \in {0, CONTROLLER_TIMEOUT} : WaitGoes("unanswered", time)
    /\ UNCHANGED <<summary, listing, told>>

AutoRefresh ==
    /\ wait.at \in {"empty", "unanswered"} /\ RefreshDue(wait.at = "empty")
    /\ \E entries \in Provided \cup {<<>>}, time \in {0, CONTROLLER_TIMEOUT} :
        LET names == ProviderNamesForAutoRefresh(entries)
            taken == SubSeq(names, 1, IF Len(names) < MAX_AUTO_PROVIDER_REFRESHES THEN Len(names)
                                      ELSE MAX_AUTO_PROVIDER_REFRESHES)
        IN /\ wait' = [at |-> IF taken = <<>> THEN "checking" ELSE "updating",
                       elapsed |-> wait.elapsed + time, tried |-> TRUE, left |-> taken]
           /\ listing' = entries
    /\ UNCHANGED <<summary, told>>

\* It is fetched, or not, or there is no answer: the next one is tried in any case.
UpdateListedProvider ==
    /\ wait.at = "updating"
    /\ told' = Append(told, Head(wait.left))
    /\ \E time \in {0, PROVIDER_REFRESH_TIMEOUT} :
        wait' = [wait EXCEPT !.left = Tail(@),
                             !.at = IF Len(wait.left) = 1 THEN "checking" ELSE "updating",
                             !.elapsed = @ + time + IF Len(wait.left) = 1 THEN PROVIDER_REFRESH_SETTLE_INTERVAL ELSE 0]
    /\ UNCHANGED <<summary, listing>>

\* The time is looked at after providers were fetched, the groups are not.
WaitOrGiveUp ==
    /\ wait.at = "checking" \/ (wait.at \in {"empty", "unanswered"} /\ ~RefreshDue(wait.at = "empty"))
    /\ IF wait.elapsed >= ReadyTimeout THEN WaitGoes("abandoned", 0) ELSE WaitGoes("fetching", IMPORT_PROXY_READY_INTERVAL)
    /\ UNCHANGED <<summary, listing, told>>

WaitInit ==
    /\ summary \in Summaries
    /\ wait = [at |-> "fetching", elapsed |-> 0, tried |-> FALSE, left |-> <<>>]
    /\ listing = <<>> /\ told = <<>>

WaitNext == FetchReady \/ FetchEmpty \/ FetchFails \/ AutoRefresh \/ UpdateListedProvider \/ WaitOrGiveUp

WaitSpec == WaitInit /\ [][WaitNext]_waitVars

-----------------------------------------------------------------------------
LargerOf(x, y) == IF x < y THEN y ELSE x

WaitTypeOK ==
    /\ wait.at \in {"fetching", "empty", "unanswered", "updating", "checking", "ready", "abandoned"}
    /\ wait.elapsed >= 0 /\ wait.tried \in BOOLEAN

\* The providers that groups use, by the name the core knows them under if it lists any at all.
Wanted ==
    LET matching(names) == {e.key : e \in {d \in ToSet(listing) : d.visible /\ ProviderMatchesNames(d, names)}}
    IN IF matching(summary.uses) \cup matching(summary.providers) # {} THEN matching(summary.uses) ELSE ToSet(summary.uses)

\* The keys are not blocked for longer than the timeout and one more try, or than it takes to
\* fetch the providers once; none is fetched twice in one wait, and none that no group uses before
\* all that groups use.  The wait is given up only when its time is over.
WaitIsBounded ==
    /\ wait.elapsed <= LargerOf(ReadyTimeout + IMPORT_PROXY_READY_INTERVAL + CONTROLLER_TIMEOUT - 1,
                                FirstTries - 1 + IMPORT_PROXY_READY_INTERVAL + 2 * CONTROLLER_TIMEOUT
                                    + MAX_AUTO_PROVIDER_REFRESHES * PROVIDER_REFRESH_TIMEOUT
                                    + PROVIDER_REFRESH_SETTLE_INTERVAL)
    /\ wait.at = "abandoned" => wait.elapsed >= ReadyTimeout
    /\ IsInjective(told) /\ Len(told) <= MAX_AUTO_PROVIDER_REFRESHES
    /\ ToSet(told) \subseteq Wanted \/ Wanted \subseteq ToSet(told)
=============================================================================
