----------------------------- MODULE ProxyRows -----------------------------
(***************************************************************************)
(* The proxy rows of the terminal interface (clash-tui/src/tui/app): the   *)
(* policy groups and nodes on screen, the cursor of the proxy page and the *)
(* one of the dashboard's popups, and what a refresh, an event or a key    *)
(* makes of them.                                                          *)
(*                                                                         *)
(* `app` holds the fields of TuiApp that place the cursors.  A cursor is a *)
(* pair of row numbers and a pair of remembered names: rows come and go    *)
(* with every refresh, so the names are what survives.  Rows are numbered  *)
(* from 1 (the code counts from 0); a number past the end selects nothing. *)
(* A handler that chains several methods is an operator from a record to a *)
(* record for each method, composed in the order the code calls them.      *)
(***************************************************************************)
EXTENDS Lists

CONSTANTS
    GroupListings,     \* group rows the controller may list; <<>> when it has none
    Preview,      \* group rows of the runtime configuration file, offline
    Measures,     \* node |-> [delay, alive] tables a listing may come with
    Searches,      \* searches, each the set of row texts that contain it
    NoSearch,      \* the empty search
    Plain,        \* name |-> the name without its icons and blanks
    Uids,         \* profiles of the catalog
    NoUid,
    NoKey,        \* no name is remembered
    Deltas,       \* moves of a cursor: a subset of {"first", "up", "down", "last"}
    MaxRowKeys       \* bound: keys the user presses

VARIABLES
    app,      \* the fields of TuiApp about the proxy rows
    catalog,  \* the profile catalog on disk: current, and each profile's last selected group
    rowsOf,   \* observer: the profiles that ran when the rows and names on screen were loaded
    rowKeys      \* keys pressed

\* A row has a name, and a node of it has one; a group of the runtime file has none in use.
KnownNames == DOMAIN Plain \ {NoKey}
Rows == [name : KnownNames, now : KnownNames \cup {"-"}, nodes : Seq(KnownNames), offline : BOOLEAN]

ASSUME RowsAssumption == \A groups \in GroupListings \cup {Preview} : groups \in Seq(Rows)

rowVars == <<app, catalog, rowsOf, rowKeys>>

Unknown == [delay |-> "-", alive |-> "-"]
Cursors == {"page", "dash"}
Fresh == [group |-> 1, node |-> 1, gkey |-> NoKey, nkey |-> NoKey, sticky |-> FALSE]

-----------------------------------------------------------------------------
(* Rows and cursors.                                                       *)

RowNames(s) == [i \in DOMAIN s.groups |-> s.groups[i].name]
HasGroup(s, c) == s[c].group \in DOMAIN s.groups
Group(s, c) == s.groups[s[c].group]
GroupName(s, c) == IF HasGroup(s, c) THEN Group(s, c).name ELSE NoKey

\* A remembered name still means a row whose icon changed.
KeyMatches(name, key) == name = key \/ (Plain[name] # "-" /\ Plain[name] = Plain[key])

FindName(names, key) == FirstPlace({i \in DOMAIN names : key # NoKey /\ KeyMatches(names[i], key)})

\* The node under the cursor, whether or not the filter shows it.
NodeAt(s, c) ==
    IF HasGroup(s, c) /\ s[c].node \in DOMAIN Group(s, c).nodes
    THEN Group(s, c).nodes[s[c].node] ELSE NoKey

Meta(s, n) == IF n \in DOMAIN s.meta THEN s.meta[n] ELSE Unknown

\* Where an unmeasured or failed node sorts.
DelayRank(delay) == IF delay = "fast" THEN 1 ELSE IF delay = "slow" THEN 2 ELSE 3
AliveRank(alive) == IF alive = "yes" THEN 0 ELSE IF alive = "-" THEN 1 ELSE 2

SortKey(s, n) ==
    LET delay == DelayRank(Meta(s, n).delay)
        alive == AliveRank(Meta(s, n).alive)
    IN IF s.sort = "latency" THEN <<delay, alive>> ELSE IF s.sort = "alive" THEN <<alive, delay>> ELSE <<0, 0>>

\* Nodes that are alike in that stay in the order of the subscription.
SortsBefore(s, nodes, i, j) ==
    LET left == SortKey(s, nodes[i])
        right == SortKey(s, nodes[j])
    IN left[1] < right[1] \/ (left[1] = right[1] /\ (left[2] < right[2] \/ (left[2] = right[2] /\ i < j)))

SortNodes(s, nodes, rows) ==
    CHOOSE order \in [1..Cardinality(rows) -> rows] :
        \A k, l \in DOMAIN order : k < l => SortsBefore(s, nodes, order[k], order[l])

\* The search filters the groups in one pane of the page, the nodes in the other.
GroupRows(s, c) ==
    LET shown(g) == \/ c = "dash" \/ s.pane # "groups" \/ s.query = NoSearch
                    \/ s.query \cap ({g.name, g.now} \cup ToSet(g.nodes)) # {}
    IN Retained([i \in DOMAIN s.groups |-> i], {i \in DOMAIN s.groups : shown(s.groups[i])})

NodeRows(s, c) ==
    IF ~HasGroup(s, c) THEN <<>>
    ELSE LET nodes == Group(s, c).nodes
             shown(n) == \/ c = "dash" \/ s.pane # "nodes" \/ s.query = NoSearch
                         \/ s.query \cap {n, Meta(s, n).delay, Meta(s, n).alive} # {}
         IN SortNodes(s, nodes, {i \in DOMAIN nodes : shown(nodes[i])})

\* The node that Enter acts on: the visible row under the cursor, else the remembered name.
SelectedNode(s, c) ==
    IF ~HasGroup(s, c) THEN NoKey
    ELSE LET nodes == Group(s, c).nodes
             i == FindName(nodes, s[c].nkey)
         IN IF s[c].node \in ToSet(NodeRows(s, c)) THEN nodes[s[c].node]
            ELSE IF i = 0 THEN NoKey ELSE nodes[i]

\* Mutant: an empty list leaves the cursor before its first row.
ClampToNothing(i, rows) == IF rows = <<>> THEN 0 ELSE IF i \in ToSet(rows) THEN i ELSE rows[1]

ClampTo(i, rows) == IF rows = <<>> THEN 1 ELSE IF i \in ToSet(rows) THEN i ELSE rows[1]

\* By one row, or (Home, End and, in short lists, the page keys) to an edge.
MoveIn(i, rows, delta) ==
    IF rows = <<>> THEN 1
    ELSE LET at == PositionOf(i, rows)
             from == IF at = 0 THEN 1 ELSE at
         IN IF delta = "first" THEN rows[1]
            ELSE IF delta = "last" THEN rows[Len(rows)]
            ELSE IF delta = "up" THEN rows[IF from = 1 THEN 1 ELSE from - 1]
            ELSE rows[IF from = Len(rows) THEN from ELSE from + 1]

-----------------------------------------------------------------------------
(* Remembered names: written from the rows, and rows found again by them.   *)

RememberGroup(s, c) ==
    IF HasGroup(s, c) THEN [s EXCEPT ![c].gkey = Group(s, c).name] ELSE s

RememberNode(s, c) ==
    LET n == SelectedNode(s, c)
    IN IF n = NoKey THEN s ELSE [s EXCEPT ![c].gkey = Group(s, c).name, ![c].nkey = n]

RestoreGroup(s, c) ==
    LET i == FindName(RowNames(s), s[c].gkey) IN IF i = 0 THEN s ELSE [s EXCEPT ![c].group = i]

RestoreNode(s, c) ==
    LET i == IF HasGroup(s, c) THEN FindName(Group(s, c).nodes, s[c].nkey) ELSE 0
    IN IF i = 0 THEN s ELSE [s EXCEPT ![c].node = i]

ClampGroup(s, c) == [s EXCEPT ![c].group = ClampTo(@, GroupRows(s, c))]

ClampNode(s, c) ==
    LET r == RestoreNode(s, c) IN [r EXCEPT ![c].node = ClampTo(@, NodeRows(r, c))]

ClampCursor(s, c) == ClampNode(ClampGroup(RestoreGroup(s, c), c), c)
ClampSelections(s) == ClampCursor(ClampCursor(s, "page"), "dash")

RememberPane(s) == IF s.pane = "groups" THEN RememberGroup(s, "page") ELSE RememberNode(s, "page")

RestorePane(s) ==
    LET r == RestoreGroup(s, "page") IN IF s.pane = "groups" THEN r ELSE ClampNode(r, "page")

\* The cursor goes to the node in use; a search that hides every node is dropped.
SelectCurrentNode(s, c) ==
    LET i == IF HasGroup(s, c) THEN PositionOf(Group(s, c).now, Group(s, c).nodes) ELSE 0
        at == [s EXCEPT ![c].node = IF i = 0 THEN 1 ELSE i]
        named == [at EXCEPT ![c].nkey = NodeAt(at, c)]
        seen == IF c = "page" /\ NodeRows(named, c) = <<>> THEN [named EXCEPT !.query = NoSearch] ELSE named
    IN RememberNode(ClampNode(seen, c), c)

FocusNodes(s) ==
    RememberNode(RememberGroup(SelectCurrentNode([s EXCEPT !.pane = "nodes"], "page"), "page"), "page")

FocusDashboardNodes(s) == RememberNode(RememberGroup(SelectCurrentNode(s, "dash"), "dash"), "dash")

EnterProxyView(s) ==
    IF HasGroup(s, "page") THEN FocusNodes(s) ELSE ClampNode([s EXCEPT !.pane = "nodes"], "page")

-----------------------------------------------------------------------------
(* New rows and a new catalog.                                             *)

\* What the user chose comes first, then the row that was there, then the remembered name.
Prefer(sticky, current, remembered) ==
    IF sticky /\ remembered # 0 THEN remembered ELSE IF current # 0 THEN current ELSE remembered

\* Mutant: the cursor keeps its row number.
PlaceCursorByRow(s, old, c) == RememberNode(ClampNode(RememberGroup(ClampGroup(s, c), c), c), c)

\* Puts cursor c, placed on the rows of `old`, on the rows of s: the group first, then the node.
Sticky(old, c) == c = "page" /\ old.page.sticky

PlaceGroup(s, old, c) ==
    LET g == Prefer(Sticky(old, c), FindName(RowNames(s), GroupName(old, c)), FindName(RowNames(s), old[c].gkey))
        at == IF g = 0 THEN s ELSE [s EXCEPT ![c].group = g]
    IN RememberGroup(ClampGroup(IF c = "dash" THEN RestoreGroup(at, c) ELSE at, c), c)

PlaceNode(s, old, c) ==
    LET nodes == IF HasGroup(s, c) THEN Group(s, c).nodes ELSE <<>>
        n == Prefer(Sticky(old, c), FindName(nodes, NodeAt(old, c)), FindName(nodes, old[c].nkey))
    IN RememberNode(ClampNode(IF n = 0 THEN s ELSE [s EXCEPT ![c].node = n], c), c)

PlaceCursor(s, old, c) == PlaceNode(PlaceGroup(s, old, c), old, c)

ApplyGroups(s, groups) == PlaceCursor(PlaceCursor([s EXCEPT !.groups = groups], s, "page"), s, "dash")

\* The group of the profile's last selection, unless the user has moved the cursor.
RestoreSaved(s, c) ==
    IF s.saved = NoKey \/ s[c].sticky THEN s ELSE RestoreGroup([s EXCEPT ![c].gkey = s.saved], c)
RestoreProfileGroup(s) == RestoreSaved(RestoreSaved(s, "page"), "dash")

ClearBound(s) ==
    [s EXCEPT !.groups = <<>>, !.meta = <<>>, !.page = Fresh, !.dash = Fresh,
              !.pane = "groups", !.popup = "none"]

TakeCatalog(s, cat) ==
    [s EXCEPT !.current = cat.current,
              !.saved = IF cat.current = NoUid THEN NoKey ELSE cat.saved[cat.current]]

\* Mutant: a new current profile keeps the rows of the old one.
ApplyProfilesKeepingAll(s, cat) == ClampSelections(RestoreProfileGroup(TakeCatalog(s, cat)))

ApplyProfiles(s, cat) ==
    LET t == TakeCatalog(s, cat)
    IN ClampSelections(RestoreProfileGroup(IF s.current # cat.current THEN ClearBound(t) ELSE t))

\* After a selection: the rows stay.
ApplyProfilesKeepingRows(s, cat) == ClampSelections(RestoreProfileGroup(TakeCatalog(s, cat)))

\* After an import: both cursors start over, and the page shows the nodes.
FocusAfterImport(s) ==
    FocusDashboardNodes(FocusNodes(
        [s EXCEPT !.view = "Proxies", !.pane = "nodes", !.query = NoSearch, !.page = Fresh, !.dash = Fresh]))

\* The chosen node is shown as the one in use, in both places if both show the group.
FollowNow(s, name, proxy, c) ==
    IF ~HasGroup(s, c) \/ ~KeyMatches(Group(s, c).name, name) THEN s
    ELSE LET n == PositionOf(proxy, Group(s, c).nodes)
             at == IF n = 0 THEN s ELSE [s EXCEPT ![c].node = n]
         IN RememberNode(RememberGroup(at, c), c)

SetGroupNow(s, name, proxy) ==
    LET i == FindName(RowNames(s), name)
        now == IF i = 0 THEN s ELSE [s EXCEPT !.groups[i].now = proxy]
        followed == FollowNow(FollowNow(now, name, proxy, "page"), name, proxy, "dash")
    IN ClampNode(ClampNode(followed, "page"), "dash")

-----------------------------------------------------------------------------
(* Keys and refreshes.  The loop of the interface handles one at a time.   *)

RowsInit ==
    /\ catalog \in [current : Uids \cup {NoUid}, saved : {[u \in Uids |-> NoKey]}]
    /\ app = [view |-> "Dashboard", pane |-> "groups", popup |-> "none", query |-> NoSearch,
              sort |-> "subscription", groups |-> <<>>, meta |-> <<>>, current |-> NoUid,
              saved |-> NoKey, page |-> Fresh, dash |-> Fresh]
    /\ rowsOf = {}
    /\ rowKeys = 0

\* Rows, remembered nodes and a user's choice are bound to a profile.
Bound(s) == s.groups # <<>> \/ \E c \in Cursors : s[c].sticky \/ s[c].nkey # NoKey
Show(s, of) == app' = s /\ rowsOf' = IF Bound(app') THEN of ELSE {}
Key(s) == Show(s, rowsOf) /\ UNCHANGED catalog

OpenView(v) ==
    LET s == [app EXCEPT !.view = v, !.popup = IF v = "Dashboard" THEN @ ELSE "none"]
    IN Key(IF v = "Proxies" THEN EnterProxyView(s) ELSE s)

Chosen(s, c) == [s EXCEPT ![c].sticky = TRUE]
MoveGroup(c, delta) ==
    LET s == [app EXCEPT ![c].group = MoveIn(@, GroupRows(app, c), delta)]
    IN Key(SelectCurrentNode(RememberGroup(Chosen(s, c), c), c))
MoveNode(c, delta) ==
    LET s == [app EXCEPT ![c].node = MoveIn(@, NodeRows(app, c), delta)]
    IN Key(RememberNode(Chosen(s, c), c))

MoveSelection(delta) ==
    \/ app.view = "Proxies" /\ app.pane = "groups" /\ MoveGroup("page", delta)
    \/ app.view = "Proxies" /\ app.pane = "nodes" /\ MoveNode("page", delta)
    \/ app.view = "Dashboard" /\ app.popup = "groups" /\ MoveGroup("dash", delta)
    \/ app.view = "Dashboard" /\ app.popup = "nodes" /\ MoveNode("dash", delta)

FocusNextPane ==
    /\ app.view = "Proxies"
    /\ LET s == [RememberPane(app) EXCEPT !.pane = IF @ = "groups" THEN "nodes" ELSE "groups"]
       IN Key(RememberPane(IF s.pane = "groups" THEN RestoreGroup(s, "page") ELSE ClampNode(s, "page")))

NextSort(sort) == CASE sort = "subscription" -> "latency" [] sort = "latency" -> "alive"
                    [] sort = "alive" -> "subscription"
CycleSort ==
    /\ app.view = "Proxies"
    /\ LET s == [RememberNode(app, "page") EXCEPT !.sort = NextSort(@)]
       IN Key(IF s.pane = "nodes" THEN RememberNode(ClampNode(s, "page"), "page") ELSE FocusNodes(s))

Search(q) == app.view = "Proxies" /\ Key(ClampSelections([app EXCEPT !.query = q]))

EnterGroup == app.view = "Proxies" /\ app.pane = "groups" /\ Key(FocusNodes(app))

\* The selection reached the controller (or is an offline preselection) and was saved.
ApplyNode(c, s) ==
    /\ HasGroup(app, c) /\ SelectedNode(app, c) # NoKey /\ catalog.current # NoUid
    /\ catalog' = [catalog EXCEPT !.saved[catalog.current] = GroupName(app, c)]
    /\ Show(SetGroupNow(ApplyProfilesKeepingRows(s, catalog'), GroupName(app, c), SelectedNode(app, c)),
            rowsOf)

EnterNode == app.view = "Proxies" /\ app.pane = "nodes" /\ ApplyNode("page", app)

OpenGroups ==
    /\ app.view = "Dashboard"
    /\ LET s == ClampGroup(RestoreGroup(app, "dash"), "dash")
       IN Key([RememberGroup(s, "dash") EXCEPT !.popup = "groups"])

OpenNodes ==
    /\ app.view = "Dashboard" /\ app.popup = "none" /\ app.groups # <<>>
    /\ Key([FocusDashboardNodes(app) EXCEPT !.popup = "nodes"])

EnterPopup ==
    /\ app.view = "Dashboard"
    /\ \/ /\ app.popup = "groups"
          /\ Key([FocusDashboardNodes(RememberGroup(Chosen(app, "dash"), "dash")) EXCEPT !.popup = "nodes"])
       \/ app.popup = "nodes" /\ ApplyNode("dash", [app EXCEPT !.popup = "none"])
       \/ app.popup = "nodes" /\ Key([app EXCEPT !.popup = "none"])

ClosePopup == app.view = "Dashboard" /\ app.popup # "none" /\ Key([app EXCEPT !.popup = "none"])

\* The delay of the node under the cursor.  The test may fail, and the reload after it.
TestDelay ==
    LET n == SelectedNode(app, "page")
        s == [Chosen(app, "page") EXCEPT !.page.gkey = GroupName(app, "page"), !.page.nkey = n]
        Measured(d) ==
            [s EXCEPT !.meta = [x \in DOMAIN @ \cup {n} |-> IF x = n THEN [Meta(app, n) EXCEPT !.delay = d] ELSE @[x]]]
    IN /\ app.view = "Proxies" /\ n # NoKey /\ ~Group(app, "page").offline
       /\ UNCHANGED catalog
       /\ \/ Show(s, rowsOf)
          \/ \E d \in {"slow", "-"} :
                Show(Measured(d), rowsOf) \/ Show(RememberPane(RestorePane(Measured(d))), rowsOf)
          \/ \E groups \in GroupListings \ {<<>>}, m \in Measures :
                Show(RememberPane(RestorePane(ApplyGroups([s EXCEPT !.meta = m], groups))),
                     rowsOf \cup {catalog.current})

\* What may load: the controller's groups with its measures, or, when it has none or does not
\* answer, the preview of the runtime file, and nothing when there is no preview either.
Nothing == [groups |-> <<>>, meta |-> <<>>]
Loads ==
    {[groups |-> groups, meta |-> m] : groups \in GroupListings \ {<<>>}, m \in Measures}
        \cup {[groups |-> Preview, meta |-> <<>>]}
Loaded(s, l) == ClampSelections(ApplyGroups([s EXCEPT !.meta = l.meta], l.groups))

\* Without anything to show, rows that the user has placed a cursor on stay.
RefreshProxies ==
    LET s == RememberPane(app)
        kept == s.groups # <<>> /\ s.page.sticky
    IN /\ app.view = "Proxies"
       /\ UNCHANGED catalog
       /\ \/ \E l \in Loads \cup (IF kept THEN {} ELSE {Nothing}) :
                Show(Loaded(s, l), IF l = Nothing THEN rowsOf ELSE rowsOf \cup {catalog.current})
          \/ Show(ClampSelections([s EXCEPT !.meta = <<>>]), rowsOf)

\* The dashboard reads the catalog first, and the catalog may not be readable; it takes an
\* answer without groups for what it is before it looks for a preview.
RefreshDashboard ==
    /\ app.view = "Dashboard"
    /\ UNCHANGED catalog
    /\ \E s \in {app, ApplyProfiles(app, catalog)} :
          LET answers == Loads \cup {Nothing} \cup {[Nothing EXCEPT !.meta = m] : m \in Measures}
              first == {s} \cup {ApplyGroups([s EXCEPT !.meta = <<>>], <<>>)}
          IN \E l \in answers, t \in first :
                /\ t = s \/ l.groups = Preview
                /\ Show(Loaded(t, l), (IF Bound(s) THEN rowsOf ELSE {}) \cup {catalog.current})

\* A refresh of the profiles page reads the catalog, one of another page only clamps.
RefreshElsewhere ==
    /\ app.view = "Profiles"
    /\ Key(ClampSelections(app)) \/ Key(ClampSelections(ApplyProfiles(app, catalog)))

\* A profile is switched to, or the current one deleted, from the profiles page.
ChangeCurrent(u) ==
    /\ app.view = "Profiles" /\ u # catalog.current
    /\ catalog' = [catalog EXCEPT !.current = u]
    /\ Show(ApplyProfiles(app, catalog'), rowsOf)

\* A subscription is imported and activated; its rows load, or a preview, or nothing.
Import(u) ==
    /\ app.view = "Profiles" /\ u # catalog.current
    /\ catalog' = [current |-> u, saved |-> [catalog.saved EXCEPT ![u] = NoKey]]
    /\ \E s \in {FocusAfterImport(ApplyProfiles(app, catalog'))} :
          \/ \E groups \in GroupListings \ {<<>>} : Show(ClampSelections(ApplyGroups(s, groups)), {u})
          \/ Show(ApplyGroups([s EXCEPT !.meta = <<>>], Preview), {u})
          \/ Show(s, rowsOf)

\* The event that a subscription update succeeded, about the current profile.
CurrentUpdated == app.current # NoUid /\ Key(ClearBound(app))

RowKey ==
    \/ \E v \in {"Dashboard", "Proxies", "Profiles"} : OpenView(v)
    \/ \E d \in Deltas : MoveSelection(d)
    \/ \E q \in Searches \cup {NoSearch} : Search(q)
    \/ FocusNextPane \/ CycleSort \/ EnterGroup \/ EnterNode
    \/ OpenGroups \/ OpenNodes \/ EnterPopup \/ ClosePopup \/ TestDelay
    \/ \E u \in Uids : ChangeCurrent(u) \/ Import(u)

RowsNext ==
    \/ rowKeys < MaxRowKeys /\ rowKeys' = rowKeys + 1 /\ RowKey
    \/ (RefreshProxies \/ RefreshDashboard \/ RefreshElsewhere) /\ UNCHANGED rowKeys
    \/ CurrentUpdated /\ UNCHANGED rowKeys

RowsSpec == RowsInit /\ [][RowsNext]_rowVars

-----------------------------------------------------------------------------
(* Properties.                                                             *)

\* Type invariant of the proxy rows: the fields that place the cursors and the catalog keep
\* their types, and a cursor stays on a row number even when the rows are gone.
RowsTypeOK ==
    /\ app.view \in {"Dashboard", "Proxies", "Profiles"} /\ app.pane \in {"groups", "nodes"}
    /\ app.popup \in {"none", "groups", "nodes"} /\ app.query \in Searches \cup {NoSearch}
    /\ app.current \in Uids \cup {NoUid} /\ catalog.current \in Uids \cup {NoUid}
    /\ \A c \in Cursors : app[c].group >= 1 /\ app[c].node >= 1
    /\ rowsOf \subseteq Uids \cup {NoUid} /\ rowKeys \in 0..MaxRowKeys

\* The rows, remembered names and choices on screen come from runs of the profile shown as
\* the current one: a switch, an import or a deletion leaves none of the old profile's rows
\* behind for Enter to act on (apply_profiles clears them when the current profile changed).
RowsOfCurrent == app.current # NoUid => rowsOf \subseteq {app.current}

\* A refresh never moves a cursor the user has placed: the group he chose (the remembered
\* name, and the row under the cursor unless the rows are gone), if it is still listed and
\* shown, stays under the cursor, and so does the node, whatever happened to the order, the
\* icons and the delays in between.  A search that moved the cursor away undoes the choice.
Kept(c) ==
    LET at == app[c]
        g == FindName(RowNames(app'), at.gkey)
        n == IF HasGroup(app', c) THEN FindName(Group(app', c).nodes, at.nkey) ELSE 0
    IN /\ at.sticky /\ app'[c].sticky /\ g # 0 /\ g \in ToSet(GroupRows(app', c))
       /\ GroupName(app, c) \in {at.gkey, NoKey}
       => /\ app'[c].group = g
          /\ n # 0 /\ n \in ToSet(NodeRows(app', c)) /\ NodeAt(app, c) \in {at.nkey, NoKey}
             => app'[c].node = n
StickyRowSurvives == [][rowKeys' = rowKeys => \A c \in Cursors : Kept(c)]_rowVars
=============================================================================
