---------------------------- MODULE Subscription ---------------------------
(***************************************************************************)
(* Remote profiles over time (clash-tui/src/subscriptions.rs, actions/     *)
(* profiles.rs, clash-core/src/config/store.rs, profiles.rs): an import or *)
(* an update asks directly, then through the core, then through the proxy  *)
(* of the system; what it gets becomes the profile's file and its catalog  *)
(* entry; entries that are due are updated when the program starts.        *)
(*                                                                         *)
(* Jobs has the life of the task, ProfileTransaction its transaction: here *)
(* a commit happens or fails without effect.  Times are in seconds.        *)
(***************************************************************************)
EXTENDS NodeSubscription

CONSTANTS
    Subscriptions,   \* uids of remote profiles
    Entries,         \* entries the catalog may hold when the program starts
    Requests,        \* what an import asks for: a name (or ""), an interval, auto
    Bodies,          \* answers
    Headers,         \* their headers: file name (or ""), hours (or None)
    Times,           \* what the clock may show; it may be set back
    Segment,         \* the last segment of the subscription's URL
    WordSize,        \* an interval is a number below this
    None,            \* a field that is not there
    NoEntry

Options ==
    [interval : Nat \cup {None}, auto : BOOLEAN \cup {None}, withProxy : BOOLEAN \cup {None},
     selfProxy : BOOLEAN \cup {None}]
EntryNames == UNION {{x.name : x \in Entries \cup Requests}, {x.file : x \in Headers}, {Segment}}
Catalogued == [name : EntryNames, updated : Nat \cup {None}, option : Options \cup {None}]

\* The clock does not show the last second that a number can count.
ASSUME SubscriptionAssumption ==
    /\ WordSize \in Nat \ {0, 1} /\ Times \subseteq 0..(WordSize - 2)
    /\ None \notin Nat \cup BOOLEAN /\ AsIs # NoDocument
    /\ Entries \subseteq Catalogued /\ NoEntry \notin Catalogued
    /\ \A r \in Requests : r = [name |-> r.name, option |-> r.option] /\ r.option \in Options
    /\ \A body \in Bodies :
          LinesOf(body) \in Seq(ToSet(LinesOf(body))) /\ \A l \in ToSet(LinesOf(body)) : LineFits(l)
    /\ \A header \in Headers : header.hours \in Nat \cup {None}

VARIABLES
    entries,         \* catalog: uid -> entry or NoEntry
    files,           \* profile files: uid -> document or NoDocument
    clock,
    tasks,           \* uid -> what its import or update does
    swept            \* this process has done its sweep

subscriptionVars == <<entries, files, clock, tasks, swept>>

Idle == [phase |-> "idle"]
Minute == 60
Wraps(n) == n % WordSize
Saturates(n) == IF n < WordSize THEN n ELSE WordSize - 1

\* The modes of the attempts, as the options they are asked with.
Attempts == <<[withProxy |-> FALSE, selfProxy |-> FALSE], [withProxy |-> FALSE, selfProxy |-> TRUE],
              [withProxy |-> TRUE, selfProxy |-> FALSE]>>

-----------------------------------------------------------------------------
(* When an update is due: asked by the sweep, and shown by the status.     *)

\* Mutant: the sweep forgets that updates were switched off.
DueProfileAnyway(e, now) ==
    /\ e # NoEntry /\ e.option # None
    /\ e.option.interval \notin {None, 0} /\ e.updated # None
    /\ (IF now > e.updated THEN now - e.updated ELSE 0) >= Saturates(e.option.interval * Minute)

DueProfile(e, now) ==
    /\ e # NoEntry /\ e.option # None
    /\ e.option.auto # FALSE
    /\ e.option.interval \notin {None, 0} /\ e.updated # None
    /\ (IF now > e.updated THEN now - e.updated ELSE 0) >= Saturates(e.option.interval * Minute)

NextUpdateAt(e) ==
    IF e.option = None \/ e.updated = None THEN None
    ELSE IF e.option.interval \in {None, 0} THEN None
    ELSE Saturates(e.updated + Saturates(e.option.interval * Minute))
ProfileStatus(e, now) ==
    LET next == NextUpdateAt(e)
        auto == e.option = None \/ e.option.auto # FALSE
        due == next # None /\ now >= next /\ auto
    IN [due |-> due,
        reason |-> IF ~auto THEN "disabled"
                   ELSE IF e.option = None THEN "no interval"
                   ELSE IF e.option.interval \in {None, 0} THEN "no interval"
                   ELSE IF e.updated = None THEN "no timestamp"
                   ELSE IF due THEN "due" ELSE "scheduled"]

-----------------------------------------------------------------------------
(* A download.                                                             *)

\* A name that the user chose is kept; one that was taken from the URL, or from nowhere, is not.
NameOverride(e) == IF e.name \in {None, "", "Remote File", Segment} THEN None ELSE e.name

\* The header counts hours; a number too large wraps.
HeaderInterval(header) == IF header.hours = None THEN None ELSE Wraps(header.hours * Minute)

OrElse(a, b) == IF a = None THEN b ELSE a

\* Mutant: the header overrules the interval of the entry.
IntervalOfHeader(option, header) == OrElse(HeaderInterval(header), option.interval)

IntervalOf(option, header) == OrElse(option.interval, HeaderInterval(header))

DownloadRemoteProfile(request, body, header) ==
    [document |-> NormalizeRemoteProfile(body),
     name |-> IF request.name # None THEN request.name ELSE IF header.file # "" THEN header.file ELSE Segment,
     interval |-> IntervalOf(request.option, header)]

\* The option that is stored: what was asked for, with the interval, updated by itself unless told not to.
MergeRemoteOption(option, interval) ==
    [option EXCEPT !.interval = OrElse(interval, option.interval), !.auto = OrElse(option.auto, TRUE)]

WithProxyOption(option, attempt) ==
    [option EXCEPT !.withProxy = Attempts[attempt].withProxy, !.selfProxy = Attempts[attempt].selfProxy]
DefaultOption == [interval |-> None, auto |-> None, withProxy |-> None, selfProxy |-> None]

-----------------------------------------------------------------------------
SubscriptionInit ==
    /\ entries \in [Subscriptions -> Entries \cup {NoEntry}]
    /\ files = [u \in Subscriptions |-> IF entries[u] = NoEntry THEN NoDocument ELSE AsIs]
    /\ clock \in Times
    /\ tasks = [u \in Subscriptions |-> Idle]
    /\ swept = FALSE

TickTo(t) == t # clock /\ clock' = t /\ UNCHANGED <<entries, files, tasks, swept>>

Started(us) ==
    [u \in Subscriptions |-> IF u \in us /\ tasks[u] = Idle THEN [phase |-> "update", attempt |-> 1] ELSE tasks[u]]

\* A job that is active for the profile is not doubled.
EnqueueDue ==
    /\ ~swept /\ swept' = TRUE
    /\ tasks' = Started({u \in Subscriptions : DueProfile(entries[u], clock)})
    /\ UNCHANGED <<entries, files, clock>>

EnqueueAll ==
    /\ tasks' = Started({u \in Subscriptions : entries[u] # NoEntry})
    /\ UNCHANGED <<entries, files, clock, swept>>

StartUpdate(u) ==
    /\ tasks[u] = Idle /\ entries[u] # NoEntry
    /\ tasks' = Started({u})
    /\ UNCHANGED <<entries, files, clock, swept>>

StartImport(u, request) ==
    /\ tasks[u] = Idle /\ entries[u] = NoEntry
    /\ tasks' = [tasks EXCEPT ![u] = [phase |-> "import", attempt |-> 1, request |-> request]]
    /\ UNCHANGED <<entries, files, clock, swept>>

\* An update plans each attempt from the catalog of that moment; a profile that is gone ends it.
Plan(u) ==
    /\ tasks[u].phase = "update"
    /\ tasks' = [tasks EXCEPT ![u] =
          IF entries[u] = NoEntry THEN Idle
          ELSE [phase |-> "asking", attempt |-> @.attempt,
                request |-> [name |-> NameOverride(entries[u]),
                             option |-> WithProxyOption(OrElse(entries[u].option, DefaultOption), @.attempt)]]]
    /\ UNCHANGED <<entries, files, clock, swept>>

\* No answer, or one that is refused: the next attempt, until there is none.
AttemptFails(u) ==
    /\ tasks[u].phase \in {"asking", "import"}
    /\ tasks' = [tasks EXCEPT ![u] =
          IF @.attempt = Len(Attempts) THEN Idle
          ELSE IF @.phase = "asking" THEN [phase |-> "update", attempt |-> @.attempt + 1]
          ELSE [phase |-> "import", attempt |-> @.attempt + 1, request |-> @.request]]
    /\ UNCHANGED <<entries, files, clock, swept>>

Download(u, body, header) ==
    /\ tasks[u].phase = "asking"
    /\ NormalizeRemoteProfile(body) # NoDocument
    /\ tasks' = [tasks EXCEPT ![u] = [phase |-> "commit", option |-> @.request.option,
                                      remote |-> DownloadRemoteProfile(@.request, body, header)]]
    /\ UNCHANGED <<entries, files, clock, swept>>

DownloadImport(u, body, header) ==
    /\ tasks[u].phase = "import"
    /\ NormalizeRemoteProfile(body) # NoDocument
    /\ LET option == WithProxyOption(tasks[u].request.option, tasks[u].attempt)
       IN tasks' = [tasks EXCEPT ![u] = [phase |-> "append", option |-> option,
              remote |-> DownloadRemoteProfile([@.request EXCEPT !.option = option], body, header)]]
    /\ UNCHANGED <<entries, files, clock, swept>>

\* What the new option leaves open stays as it is in the entry.
Overlay(old, new) == IF old = None THEN new ELSE [f \in DOMAIN new |-> OrElse(new[f], old[f])]
Save(u, old) ==
    LET remote == tasks[u].remote
    IN /\ files' = [files EXCEPT ![u] = remote.document]
       /\ entries' = [entries EXCEPT ![u] = [name |-> remote.name, updated |-> clock,
              option |-> Overlay(old, MergeRemoteOption(tasks[u].option, remote.interval))]]

\* A profile deleted in the meantime is not brought back.
Commit(u) ==
    /\ tasks[u].phase = "commit"
    /\ \/ entries[u] # NoEntry /\ Save(u, entries[u].option)
       \/ UNCHANGED <<entries, files>>
    /\ tasks' = [tasks EXCEPT ![u] = Idle]
    /\ UNCHANGED <<clock, swept>>

CommitImport(u) ==
    /\ tasks[u].phase = "append"
    /\ \/ entries[u] = NoEntry /\ Save(u, None)
       \/ UNCHANGED <<entries, files>>
    /\ tasks' = [tasks EXCEPT ![u] = Idle]
    /\ UNCHANGED <<clock, swept>>

Delete(u) ==
    /\ entries[u] # NoEntry
    /\ entries' = [entries EXCEPT ![u] = NoEntry] /\ files' = [files EXCEPT ![u] = NoDocument]
    /\ UNCHANGED <<clock, tasks, swept>>

\* The tasks of a process end with it.
Restart ==
    /\ swept
    /\ swept' = FALSE /\ tasks' = [u \in Subscriptions |-> Idle]
    /\ UNCHANGED <<entries, files, clock>>

OfTask(u) ==
    \/ Plan(u) \/ AttemptFails(u) \/ Commit(u) \/ CommitImport(u)
    \/ \E body \in Bodies, header \in Headers : Download(u, body, header) \/ DownloadImport(u, body, header)

SubscriptionNext ==
    \/ EnqueueDue \/ EnqueueAll \/ Restart
    \/ \E t \in Times : TickTo(t)
    \/ \E u \in Subscriptions :
          \/ OfTask(u) \/ StartUpdate(u) \/ Delete(u)
          \/ \E request \in Requests : StartImport(u, request)

SubscriptionSpec == SubscriptionInit /\ [][SubscriptionNext]_subscriptionVars

-----------------------------------------------------------------------------
(* Properties.                                                             *)

SubscriptionTypeOK ==
    /\ \A u \in Subscriptions : (entries[u] = NoEntry) = (files[u] = NoDocument)
    /\ clock \in Times /\ swept \in BOOLEAN
    /\ \A u \in Subscriptions : tasks[u].phase \in {"idle", "update", "import", "asking", "commit", "append"}

\* The sweep updates exactly the profiles that the status shows as due, and the reason that the
\* status gives says the same: two pieces of code that compute it each in its own way.
SweepMatchesStatus ==
    \A u \in Subscriptions : entries[u] # NoEntry =>
        /\ DueProfile(entries[u], clock) <=> ProfileStatus(entries[u], clock).due
        /\ ProfileStatus(entries[u], clock).due <=> ProfileStatus(entries[u], clock).reason = "due"

\* A profile's file always is something the core can connect with: an answer that is no profile
\* never replaces a good file.  A converted one has nodes under names of their own, its group
\* lists them all and in the order of the lines, its rule names the group, the group is not
\* called like a node (while one of its names is free), and a vmess or vless node over TLS whose
\* transport has a host names a server.
FilesAreUsable ==
    \A u \in Subscriptions : files[u] \notin {NoDocument, AsIs} =>
        LET doc == files[u]
            nodes == doc.proxies
        IN /\ nodes # <<>>
           /\ Cardinality(Names(nodes)) = Len(nodes)
           /\ doc.members = [i \in DOMAIN nodes |-> nodes[i].name]
           /\ doc.matchTo = doc.group
           /\ Names(nodes) \cap ToSet(GroupNames) # ToSet(GroupNames)
                 => doc.group \notin Names(nodes)
           /\ \A i \in DOMAIN nodes :
                 nodes[i].type \in {"vmess", "vless"} /\ nodes[i].tls /\ nodes[i].transport.host => nodes[i].servername

\* What the user chose before an update outlives it: the name, the interval, and whether updates
\* happen by themselves; and an entry that changes says when.
ChoicesSurvive ==
    [][\A u \in Subscriptions :
          entries[u] # NoEntry /\ entries'[u] # NoEntry /\ entries'[u] # entries[u] =>
              LET old == OrElse(entries[u].option, DefaultOption)
                  new == entries'[u].option
              IN /\ NameOverride(entries[u]) \in {None, entries'[u].name}
                 /\ old.interval \in {None, new.interval}
                 /\ old.auto \in {None, new.auto}
                 /\ entries'[u].updated = clock]_subscriptionVars
=============================================================================
