----------------------------- MODULE Selections -----------------------------
(***************************************************************************)
(* The selections of nodes (clash-tui/src/actions/controller.rs), which    *)
(* live in two places: the running core, which is told over its            *)
(* controller, and the current profile's entry of the catalog, from which  *)
(* they are applied again whenever the core has loaded a configuration.    *)
(*                                                                         *)
(* Two workers.  The user selects nodes, switches profiles and starts the  *)
(* core, one after another; an update job of the current profile reloads   *)
(* the core beside that.  A selection does not take the lock that updates  *)
(* and switches hold.  ProfileTransaction has the catalog under those and  *)
(* the lost selections of several writers; here the catalog meets the core.*)
(***************************************************************************)
EXTENDS Integers, Sequences, FiniteSets, SequencesExt

CONSTANTS
    Owners,        \* profiles
    NoOwner,       \* there is no current profile
    RuntimeOf,     \* profile (or NoOwner) |-> what its runtime configuration says
    Downloaded,    \* provider |-> the nodes a core gets for it
    PlaceholderOf, \* provider |-> the preview's line for one whose nodes are not known
    Compatible,    \* the node of a group that has no other
    GlobalGroup,   \* the group GLOBAL
    SavedBefore,   \* profile |-> its selections, as earlier runs may have left them
    MaxUserSteps,  \* bound: operations of the user
    MaxUpdates     \* bound: update jobs

VARIABLES
    owner,         \* the current profile
    saved,         \* profile |-> its selections, a sequence of [group, node]
    mihomo,        \* the core: [at, groups]
    offlineRows,   \* the rows on the screen are those of the preview
    worker,        \* what the user and the job do
    unsure,        \* observer: groups whose selection was not confirmed, see ChoiceInForce
    steps          \* operations started: [user, job]

selectionVars == <<owner, saved, mihomo, offlineRows, worker, unsure, steps>>

Pair(group, node) == [group |-> group, node |-> node]
OncePerGroup(list) == \A i, j \in DOMAIN list : list[i].group = list[j].group => i = j

ASSUME SelectionsAssumption ==
    /\ NoOwner \notin Owners /\ MaxUserSteps \in Nat /\ MaxUpdates \in Nat
    /\ \A before \in SavedBefore :
        /\ before = [o \in Owners |-> before[o]]
        /\ \A o \in Owners : before[o] \in Seq(ToSet(before[o])) /\ OncePerGroup(before[o])

Resting == [at |-> "idle"]
Workers == {"user", "job"}

-----------------------------------------------------------------------------
(* What a runtime configuration offers: [nodes, groups, known], its own    *)
(* nodes, name |-> [members, use, all, kind], and the nodes of each        *)
(* provider whose file is there.                                           *)

ProviderNodes(doc, provider) ==
    IF provider \in DOMAIN doc.known /\ doc.known[provider] # {} THEN doc.known[provider] ELSE {PlaceholderOf[provider]}

Including(doc, group, nodesOf) ==
    group.members \cup UNION {nodesOf[v] : v \in group.use}
        \cup (IF group.all \in {"all", "proxies"} THEN doc.nodes ELSE {})
        \cup (IF group.all \in {"all", "providers"} THEN UNION {nodesOf[v] : v \in doc.providers} ELSE {})

PreviewNodes(doc, group) == Including(doc, group, [v \in DOMAIN Downloaded |-> ProviderNodes(doc, v)])

\* A group with no node is left out, and GLOBAL has the nodes of the document itself.
PreviewOf(doc) ==
    LET shown == {n \in DOMAIN doc.groups : PreviewNodes(doc, doc.groups[n]) # {}}
        global == IF doc.nodes # {} THEN {GlobalGroup} \ shown ELSE {}
    IN [n \in shown \cup global |-> IF n \in shown THEN PreviewNodes(doc, doc.groups[n]) ELSE doc.nodes]

InPreview(doc, group, node) == group \in DOMAIN PreviewOf(doc) /\ node \in PreviewOf(doc)[group]

\* The groups of a core that loads the document, each with the node it runs at first.
OrCompatible(nodes) == IF nodes = {} THEN {Compatible} ELSE nodes

CoreGroups(doc) ==
    LET names == DOMAIN doc.groups \cup {GlobalGroup}
        all == [n \in names |-> OrCompatible(
                    IF n \in DOMAIN doc.groups THEN Including(doc, doc.groups[n], Downloaded)
                    ELSE doc.nodes)]
        kind == [n \in names |-> IF n \in DOMAIN doc.groups THEN doc.groups[n].kind ELSE "selector"]
        first == {f \in [names -> UNION Range(all)] : \A n \in names : f[n] \in all[n]}
    IN {[n \in names |-> [all |-> all[n], kind |-> kind[n], now |-> f[n]]] : f \in first}

\* What the core lets be chosen, and what apply_saved_proxy_selections takes for that.
Accepts(groups, group, node) ==
    group \in DOMAIN groups /\ groups[group].kind = "selector" /\ node \in groups[group].all
SelectableGroup(entry) == entry.all # {} /\ entry.kind \in {"selector", "load-balance"}

CoreUp == mihomo.at = "up"
CoreActive == mihomo.at \in {"loading", "up"}

-----------------------------------------------------------------------------
(* The catalog.                                                            *)

SavedFor(who, selections) == IF who = NoOwner THEN <<>> ELSE selections[who]

\* Mutant: the selection that is there stays in front of the new one.
AppendSelection(list, group, node) == IF \E i \in DOMAIN list : list[i].group = group THEN list ELSE Append(list, Pair(group, node))

\* The first one of the group is taken out.
UpsertSelection(list, group, node) ==
    Append(RemoveFirstMatch(list, LAMBDA s : s.group = group), Pair(group, node))

-----------------------------------------------------------------------------
(* A selection by the user, in the rows of the interface or by a command.  *)

UserStep(next) ==
    /\ worker.user = Resting /\ steps.user < MaxUserSteps
    /\ steps' = [steps EXCEPT !.user = @ + 1]
    /\ worker' = [worker EXCEPT !.user = next]

UserGoes(next) == worker' = [worker EXCEPT !.user = next] /\ UNCHANGED steps

Selecting(at) == worker.user.at = at
WishedGroup == worker.user.group
WishedNode == worker.user.node
Wish(at) == [at |-> at, group |-> WishedGroup, node |-> WishedNode]
Saving(applied) == [at |-> "saving", group |-> WishedGroup, node |-> WishedNode, applied |-> applied]

InTransit(group) == worker.user.at \in {"saving", "writing"} /\ worker.user.group = group

SelectOrPreselect(group, node) ==
    /\ UserStep([at |-> "selecting", group |-> group, node |-> node])
    /\ UNCHANGED <<owner, saved, mihomo, offlineRows, unsure>>

\* The rows on the screen came from the preview: the core is not asked at all.
PreselectInRows(group, node) ==
    /\ offlineRows /\ InPreview(RuntimeOf[owner], group, node)
    /\ UserStep([at |-> "saving", group |-> group, node |-> node, applied |-> FALSE])
    /\ UNCHANGED <<owner, saved, mihomo, offlineRows, unsure>>

RefreshRows ==
    /\ worker.user = Resting /\ offlineRows' = ~CoreUp
    /\ UNCHANGED <<owner, saved, mihomo, worker, unsure, steps>>

CoreChooses(group, node) == mihomo' = [mihomo EXCEPT !.groups[group].now = node]

PutSelection ==
    /\ Selecting("selecting") /\ Accepts(mihomo.groups, WishedGroup, WishedNode) /\ CoreUp
    /\ CoreChooses(WishedGroup, WishedNode)
    /\ UserGoes(Saving(TRUE))
    /\ unsure' = unsure \ {WishedGroup}
    /\ UNCHANGED <<owner, saved, offlineRows>>

PutRefused ==
    /\ Selecting("selecting") /\ CoreUp /\ ~Accepts(mihomo.groups, WishedGroup, WishedNode)
    /\ UserGoes(Resting)
    /\ UNCHANGED <<owner, saved, mihomo, offlineRows, unsure>>

\* The answer does not come in time, or is cut off: the core may have chosen the node or not.
PutUnanswered ==
    /\ Selecting("selecting") /\ CoreUp /\ Accepts(mihomo.groups, WishedGroup, WishedNode)
    /\ CoreChooses(WishedGroup, WishedNode) \/ UNCHANGED mihomo
    /\ UserGoes(Wish("previewing")) \/ UserGoes(Resting)
    /\ unsure' = unsure \cup {WishedGroup}
    /\ UNCHANGED <<owner, saved, offlineRows>>

PutNotConnected ==
    /\ Selecting("selecting") /\ ~CoreUp
    /\ UserGoes(Wish("previewing"))
    /\ UNCHANGED <<owner, saved, mihomo, offlineRows, unsure>>

EnsurePreviewContains ==
    /\ Selecting("previewing")
    /\ IF InPreview(RuntimeOf[owner], WishedGroup, WishedNode)
       THEN UserGoes(Saving(FALSE)) ELSE UserGoes(Resting)
    /\ UNCHANGED <<owner, saved, mihomo, offlineRows, unsure>>

\* The whole list is taken from the catalog here and put back there in the next step.
SaveSelectionReads ==
    /\ Selecting("saving")
    /\ IF owner = NoOwner
       THEN UserGoes(Resting)
       ELSE UserGoes([at |-> "writing", group |-> WishedGroup, node |-> WishedNode,
                      applied |-> worker.user.applied, uid |-> owner,
                      list |-> UpsertSelection(saved[owner], WishedGroup, WishedNode)])
    /\ UNCHANGED <<owner, saved, mihomo, offlineRows, unsure>>

\* Selections of other groups that the list brings back, after a rollback took them out of the catalog.
PutBack ==
    {s.group : s \in ToSet(worker.user.list) \ (ToSet(saved[worker.user.uid]) \cup {Pair(WishedGroup, WishedNode)})}

SaveSelectionWrites ==
    /\ Selecting("writing")
    /\ saved' = [saved EXCEPT ![worker.user.uid] = worker.user.list]
    /\ UserGoes(Resting)
    /\ unsure' = unsure \cup PutBack \cup (IF worker.user.applied THEN {} ELSE {WishedGroup})
    /\ UNCHANGED <<owner, mihomo, offlineRows>>

SaveSelectionFails ==
    /\ Selecting("writing")
    /\ UserGoes(Resting)
    /\ unsure' = unsure \cup {WishedGroup}
    /\ UNCHANGED <<owner, saved, mihomo, offlineRows>>

-----------------------------------------------------------------------------
(* Loading a configuration, and applying the saved selections to it.       *)

\* A core that has loaded forgets what it was told, and a selection on its way to the catalog with it.
LoadsInto(doc) ==
    /\ \E groups \in CoreGroups(doc) : mihomo' = [mihomo EXCEPT !.groups = groups]
    /\ unsure' = {n \in DOMAIN doc.groups \cup {GlobalGroup} : InTransit(n)}

Applying == [at |-> "reading"]
Hears(w, next) == worker' = [worker EXCEPT ![w] = next] /\ UNCHANGED steps

SavedSelections(w) ==
    /\ worker[w].at = "reading"
    /\ LET picks == SavedFor(owner, saved)
       IN Hears(w, IF picks = <<>> THEN Resting ELSE [at |-> "listing", picks |-> picks])
    /\ UNCHANGED <<owner, saved, mihomo, offlineRows, unsure>>

\* Without an answer all of it is done again, until the time is over; the report is not shown.
ListGroups(w) ==
    /\ worker[w].at = "listing" /\ CoreUp
    /\ Hears(w, [at |-> "applying", picks |-> worker[w].picks, groups |-> mihomo.groups])
    /\ UNCHANGED <<owner, saved, mihomo, offlineRows, unsure>>
ListGroupsAgain(w) ==
    /\ worker[w].at = "listing"
    /\ Hears(w, Applying)
    /\ UNCHANGED <<owner, saved, mihomo, offlineRows, unsure>>
ControllerUnavailable(w) ==
    /\ worker[w].at = "listing"
    /\ Hears(w, Resting)
    /\ unsure' = DOMAIN mihomo.groups
    /\ UNCHANGED <<owner, saved, mihomo, offlineRows>>

Pick(w) == Head(worker[w].picks)
Rest(w) ==
    IF Len(worker[w].picks) = 1 THEN Resting
    ELSE [at |-> "applying", picks |-> Tail(worker[w].picks), groups |-> worker[w].groups]

\* The listing names the node among those of a group that can be chosen from.
Applicable(w) ==
    LET groups == worker[w].groups
        pick == Pick(w)
    IN pick.group \in DOMAIN groups /\ SelectableGroup(groups[pick.group]) /\ pick.node \in groups[pick.group].all

AlreadySelected(w) == worker[w].groups[Pick(w).group].now = Pick(w).node

\* Since the selections were read, the user has chosen another node, or is about to save one, or a
\* rollback has put another back.
Overtaken(w) == InTransit(Pick(w).group) \/ ~Contains(SavedFor(owner, saved), Pick(w))

PickDone(w, confirmed) ==
    /\ worker[w].at = "applying"
    /\ Hears(w, Rest(w))
    /\ unsure' = IF confirmed /\ ~Overtaken(w) THEN unsure ELSE unsure \cup {Pick(w).group}
    /\ UNCHANGED <<owner, saved, offlineRows>>

ApplySkips(w) ==
    /\ PickDone(w, TRUE) /\ (Applicable(w) => AlreadySelected(w))
    /\ UNCHANGED mihomo

ApplyPuts(w) ==
    /\ PickDone(w, TRUE) /\ Applicable(w) /\ ~AlreadySelected(w)
    /\ CoreUp /\ Accepts(mihomo.groups, Pick(w).group, Pick(w).node)
    /\ CoreChooses(Pick(w).group, Pick(w).node)

\* Refused, not connected, or no answer: counted as failed, and not tried again.
ApplyFails(w) ==
    /\ PickDone(w, FALSE) /\ Applicable(w) /\ ~AlreadySelected(w)
    /\ \/ UNCHANGED mihomo
       \/ CoreUp /\ Accepts(mihomo.groups, Pick(w).group, Pick(w).node) /\ CoreChooses(Pick(w).group, Pick(w).node)

-----------------------------------------------------------------------------
(* The user starts or restarts the core (one that runs is not started      *)
(* again, only told the selections), or switches to a profile.             *)

StartOrRestartCore ==
    /\ UserStep(Applying)
    /\ (mihomo' = [mihomo EXCEPT !.at = "loading"]) \/ (CoreUp /\ UNCHANGED mihomo)
    /\ UNCHANGED <<owner, saved, offlineRows, unsure>>

\* A worker waits for the core to tell it this selection.
Awaited(s) ==
    \E w \in Workers : worker[w].at = "reading" \/ (worker[w].at = "listing" /\ Contains(worker[w].picks, s))

\* A core that takes longer than they wait is left with what it starts with.
CoreLoaded ==
    /\ mihomo.at = "loading"
    /\ \E groups \in CoreGroups(RuntimeOf[owner]) : mihomo' = [at |-> "up", groups |-> groups]
    /\ unsure' = {n \in DOMAIN mihomo'.groups : InTransit(n)}
                    \cup {s.group : s \in {t \in ToSet(SavedFor(owner, saved)) : ~Awaited(t)}}
    /\ UNCHANGED <<owner, saved, offlineRows, worker, steps>>

CoreDies ==
    /\ CoreActive
    /\ mihomo' = [mihomo EXCEPT !.at = "down"]
    /\ UNCHANGED <<owner, saved, offlineRows, worker, unsure, steps>>

\* Under the lock, so beside no update.  With no core running nothing is loaded.
ActivateProfile(uid) ==
    /\ worker.job = Resting /\ mihomo.at # "loading"
    /\ UserStep(IF CoreUp THEN Applying ELSE Resting)
    /\ owner' = uid /\ offlineRows' = ~CoreUp
    /\ IF CoreUp THEN LoadsInto(RuntimeOf[uid]) ELSE UNCHANGED <<mihomo, unsure>>
    /\ UNCHANGED saved

-----------------------------------------------------------------------------
(* An update of the current profile, from its snapshot to its end.         *)

UpdateBegins ==
    /\ worker.job = Resting /\ steps.job < MaxUpdates /\ owner # NoOwner
    /\ steps' = [steps EXCEPT !.job = @ + 1]
    /\ worker' = [worker EXCEPT !.job = [at |-> "updating", before |-> saved]]
    /\ UNCHANGED <<owner, saved, mihomo, offlineRows, unsure>>

UpdateReloads ==
    /\ worker.job.at = "updating" /\ CoreUp
    /\ LoadsInto(RuntimeOf[owner])
    /\ Hears("job", Applying)
    /\ UNCHANGED <<owner, saved, offlineRows>>

UpdateOnDisk ==
    /\ worker.job.at = "updating" /\ ~CoreActive
    /\ Hears("job", Resting)
    /\ UNCHANGED <<owner, saved, mihomo, offlineRows, unsure>>

\* The catalog is put back as it was; then the core is told to load the old configuration.
UpdateRollsBack ==
    /\ worker.job.at = "updating"
    /\ saved' = worker.job.before
    /\ \/ CoreUp /\ LoadsInto(RuntimeOf[owner]) /\ Hears("job", Applying)
       \/ UNCHANGED mihomo /\ Hears("job", Resting) /\ unsure' = DOMAIN mihomo.groups
    /\ UNCHANGED <<owner, offlineRows>>

-----------------------------------------------------------------------------
SelectionsInit ==
    /\ owner \in Owners \cup {NoOwner}
    /\ saved \in SavedBefore
    /\ mihomo \in [at : {"down", "up"}, groups : CoreGroups(RuntimeOf[owner])]
    /\ offlineRows = TRUE
    /\ worker = [w \in Workers |-> Resting]
    /\ unsure = DOMAIN mihomo.groups /\ steps = [w \in Workers |-> 0]

\* What a client may name: whatever any configuration offers, or the preview shows.
SelectionWishes ==
    UNION {LET doc == RuntimeOf[o]
           IN {Pair(n, v) : n \in DOMAIN PreviewOf(doc), v \in UNION {PreviewOf(doc)[m] : m \in DOMAIN PreviewOf(doc)}} :
           o \in Owners}

SelectionsNext ==
    \/ \E c \in SelectionWishes : SelectOrPreselect(c.group, c.node) \/ PreselectInRows(c.group, c.node)
    \/ RefreshRows
    \/ PutSelection \/ PutRefused \/ PutUnanswered \/ PutNotConnected \/ EnsurePreviewContains
    \/ SaveSelectionReads \/ SaveSelectionWrites \/ SaveSelectionFails
    \/ \E w \in Workers :
        \/ SavedSelections(w) \/ ListGroups(w) \/ ListGroupsAgain(w) \/ ControllerUnavailable(w)
        \/ ApplySkips(w) \/ ApplyPuts(w) \/ ApplyFails(w)
    \/ StartOrRestartCore \/ CoreLoaded \/ CoreDies
    \/ \E o \in Owners : ActivateProfile(o)
    \/ UpdateBegins \/ UpdateReloads \/ UpdateOnDisk \/ UpdateRollsBack

SelectionsSpec == SelectionsInit /\ [][SelectionsNext]_selectionVars

-----------------------------------------------------------------------------
SelectionsTypeOK ==
    /\ owner \in Owners \cup {NoOwner}
    /\ \A o \in Owners : OncePerGroup(saved[o])
    /\ mihomo.at \in {"down", "loading", "up"}
    /\ \A n \in DOMAIN mihomo.groups : mihomo.groups[n].now \in mihomo.groups[n].all
    /\ offlineRows \in BOOLEAN
    /\ \A w \in Workers : worker[w].at \in {"idle", "selecting", "previewing", "saving", "writing",
                                            "reading", "listing", "applying", "updating"}
    /\ steps.user \in 0..MaxUserSteps /\ steps.job \in 0..MaxUpdates

\* Once nobody is at work, the core that runs uses the node saved for every group that accepts it,
\* however selections, starts, switches and updates ran into one another.  Excepted are groups whose
\* last selection or application was not confirmed, and those an application overtaken by a newer
\* selection has set back.
ChoiceInForce ==
    (CoreUp /\ \A w \in Workers : worker[w] = Resting) =>
        \A i \in DOMAIN SavedFor(owner, saved) :
            LET s == SavedFor(owner, saved)[i]
            IN Accepts(mihomo.groups, s.group, s.node) /\ s.group \notin unsure
                => mihomo.groups[s.group].now = s.node
=============================================================================
