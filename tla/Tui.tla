-------------------------------- MODULE Tui --------------------------------
(***************************************************************************)
(* The terminal interface (clash-tui/src/tui/app): its views, the windows  *)
(* that may lie over them, the list each page shows, the status line and   *)
(* the settings it keeps a copy of.  One loop handles the keys, refreshes  *)
(* the page when no key waits, and drains the events of jobs; a handler    *)
(* runs to its end before the next one starts.                             *)
(*                                                                         *)
(* A list is [rows, at, query]: names, the row under the cursor (from 1)   *)
(* and the names the filter shows.  What the controller, the core and the  *)
(* disk answer is chosen freely.  ProxyRows has the rows of the proxies.   *)
(***************************************************************************)
EXTENDS Integers, Sequences, FiniteSets, SequencesExt

CONSTANTS
    Listings,    \* page |-> the sequences of row names it may load
    Providers,   \* the sequences of provider names the controller may list
    Queries,     \* filters, each the set of names that it shows
    NoQuery,     \* the empty filter
    ShownSwitches,    \* the on-off settings, a subset of those named below
    NoSettings,  \* the settings could not be read
    NoRow,
    Views,       \* the views whose keys are pressed
    MaxKeys      \* bound: keys the user presses, the moves of a cursor not counted

ViewNames == {"Dashboard", "Profiles", "Proxies", "Logs", "Settings", "Rules", "Connections", "Jobs", "closed"}
PageNames == UNION {ToSet(rows) : rows \in UNION {Listings[p] : p \in DOMAIN Listings}}

\* The pages that show a list of their own are these; the setting under the cursor at first is one that is shown.
ASSUME ScreenAssumption ==
    /\ DOMAIN Listings = {"Profiles", "Logs", "Rules", "Connections", "Jobs"}
    /\ \A p \in DOMAIN Listings : Listings[p] \subseteq Seq(PageNames)
    /\ Views \subseteq ViewNames /\ "dns" \in ShownSwitches /\ MaxKeys \in Nat

VARIABLES
    ui,         \* the fields of TuiApp about windows, status and settings
    lists,      \* the list of each page that has one
    providers,  \* the rows of each provider dialog
    store,      \* the settings on disk
    keys        \* keys pressed

screenVars == <<ui, lists, providers, store, keys>>

Kinds == {"Proxy", "Rule"}
NoConfirm == [act |-> "none", on |-> FALSE, name |-> NoRow]
Confirm(act, on, name) == [act |-> act, on |-> on, name |-> name]

\* Settings applied at once, with a question first, and typed in.
Direct == {"dns"}
Asked == {"tun", "proxy", "controller"}
SettingRows == ShownSwitches \cup {"port", "cport"}

-----------------------------------------------------------------------------
(* Rows, cursors and windows.                                              *)

\* The places of the rows that the filter shows.
Shown(l) == {i \in DOMAIN l.rows : l.query = NoQuery \/ l.rows[i] \in l.query}

ClampRow(i, places) == IF places = {} THEN 1 ELSE IF i \in places THEN i ELSE Min(places)

\* Mutant: the cursor is clamped to the rows, and not to those the filter shows.
ClampToRows(ls) == [p \in DOMAIN ls |-> [ls[p] EXCEPT !.at = ClampRow(@, DOMAIN ls[p].rows)]]

ClampLists(ls) == [p \in DOMAIN ls |-> [ls[p] EXCEPT !.at = ClampRow(@, Shown(ls[p]))]]

\* The row a key acts on: the cursor's, whether or not the filter shows it.
Selected(p) == IF lists[p].at \in DOMAIN lists[p].rows THEN lists[p].rows[lists[p].at] ELSE NoRow

InFront ==
    CASE ui.view = "closed" -> "closed"
      [] ui.help -> "help"
      [] ui.detail -> "detail"
      [] ui.confirm # NoConfirm -> "confirm"
      [] ui.input # "none" -> "input"
      [] ui.dialog # "none" -> "dialog"
      [] OTHER -> "page"
At(v) == InFront = "page" /\ ui.view = v

Says(u) == [u EXCEPT !.status = "key"]
Important(u) == [u EXCEPT !.status = "key", !.pinned = TRUE]
\* Mutant: a background message replaces a pinned status.
BackgroundAnyway(u) == [u EXCEPT !.status = "background"]

Background(u) == IF u.pinned THEN u ELSE [u EXCEPT !.status = "background"]
\* The time of the last refresh is forgotten, and the next round of the loop refreshes.
Due(u) == [u EXCEPT !.due = TRUE]

-----------------------------------------------------------------------------
(* Keys that take long are announced, and pin the status they leave.        *)

EnterIsLong ==
    \/ ui.view = "Dashboard" /\ ui.popup = "nodes"
    \/ ui.view = "Proxies"
    \/ ui.view = "Settings" /\ ui.row \in Direct

PageKeyIsLong(key) ==
    \/ key \in {"D", "E", "r", "s"}
    \/ key = "R" /\ ui.view \in {"Dashboard", "Jobs"}
    \/ key = "m" /\ ui.view \in {"Dashboard", "Proxies"}
    \/ key = "d" /\ ui.view = "Dashboard"
    \/ key \in {"u", "a"} /\ ui.view = "Profiles"
    \/ key = "p" /\ ui.view \in {"Proxies", "Rules"}
    \/ key = "t" /\ ui.view = "Proxies"
    \/ key = "c" /\ ui.view = "Jobs"
    \/ key = "Enter" /\ EnterIsLong

\* An open detail window does not silence the announcement, as open help does.
IsLong(key) ==
    CASE ui.help -> FALSE
      [] ~ui.help /\ ui.confirm # NoConfirm -> key = "y"
      [] ~ui.help /\ ui.confirm = NoConfirm /\ ui.input # "none" -> key = "Enter" /\ ui.input # "search"
      [] ~ui.help /\ ui.confirm = NoConfirm /\ ui.input = "none" /\ ui.dialog # "none" ->
            key \in {"Enter", "u", "a", "r"}
      [] OTHER -> PageKeyIsLong(key)

\* The state a key leaves.  An offline node is preselected without an announcement, and
\* Enter in the pane of the groups needs none.
Press(key, u) ==
    \/ ui' = IF IsLong(key) THEN [u EXCEPT !.pinned = TRUE, !.status = "key"] ELSE u
    \/ key = "Enter" /\ InFront = "page" /\ ui.view \in {"Dashboard", "Proxies"} /\ ui' = u

Same == UNCHANGED <<lists, providers, store>>
SameLists == UNCHANGED <<lists, providers>>

-----------------------------------------------------------------------------
(* Refreshes: in the background, or by a key, which then reports.           *)

Load(ls, p, rows) ==
    LET at == IF p = "Logs" /\ ui.follow /\ rows # <<>> THEN Len(rows) ELSE ls[p].at
    IN [ls EXCEPT ![p] = [rows |-> rows, at |-> at, query |-> @.query]]

PlaceOf(rows, name) == IF name = NoRow THEN 0 ELSE SelectInSeq(rows, LAMBDA r : r = name)
NameAt(rows, i) == IF i \in DOMAIN rows THEN rows[i] ELSE NoRow

\* The row that was under the cursor is found by its name, else the remembered one.
ApplyProviders(p, rows) ==
    LET current == PlaceOf(rows, NameAt(p.rows, p.at))
        found == IF current # 0 THEN current ELSE PlaceOf(rows, p.key)
        at == IF found # 0 THEN found ELSE IF rows = <<>> THEN 1 ELSE IF p.at > Len(rows) THEN Len(rows) ELSE p.at
    IN [rows |-> rows, at |-> at, key |-> NameAt(rows, at)]
NoProviders == [rows |-> <<>>, at |-> 1, key |-> NoRow]

\* What is of the profile that was current goes: the windows over it, the rules and
\* connections with their cursors (the filters stay), and the providers.
Cleared(u) == [u EXCEPT !.popup = "none", !.dialog = "none"]
ClearedLists(ls) == [p \in DOMAIN ls |-> IF p \in {"Rules", "Connections"} THEN [ls[p] EXCEPT !.rows = <<>>, !.at = 1] ELSE ls[p]]
ClearedProviders == [k \in Kinds |-> NoProviders]

SameCurrent(ls, u) == ui' = u /\ lists' = ClampLists(ls) /\ UNCHANGED providers
OtherCurrent(ls, u) == ui' = Cleared(u) /\ lists' = ClampLists(ClearedLists(ls)) /\ providers' = ClearedProviders

\* The catalogue is read; its current profile may be another than the one on screen.
ReadCatalog(ls, u) ==
    \E rows \in Listings["Profiles"] :
        SameCurrent(Load(ls, "Profiles", rows), u) \/ OtherCurrent(Load(ls, "Profiles", rows), u)

\* The catalogue that storing a selection returns is shown, and nothing is cleared for it.
SelectNode ==
    /\ lists' \in {lists} \cup {ClampLists(Load(lists, "Profiles", rows)) : rows \in Listings["Profiles"]}
    /\ UNCHANGED <<providers, store>>

Reported(u, byKey) == IF byKey THEN [u EXCEPT !.pinned = TRUE, !.status = "key"] ELSE u

RefreshPage(u, byKey) ==
    \E jobs \in Listings["Jobs"] :
        LET ls == Load(lists, "Jobs", jobs)
            fresh == [u EXCEPT !.due = FALSE]
        IN /\ UNCHANGED store
           /\ \/ /\ u.view = "Dashboard"
                 /\ \E cache \in {store, NoSettings} :
                       LET v == Reported([fresh EXCEPT !.cache = cache], byKey)
                       IN ReadCatalog(ls, v) \/ SameCurrent(ls, v)
              \/ /\ u.view = "Settings"
                 /\ \E cache \in {store, NoSettings} : ui' = Reported([fresh EXCEPT !.cache = cache], byKey)
                 /\ lists' = ClampLists(ls) /\ UNCHANGED providers
              \/ u.view = "Profiles" /\ (ReadCatalog(ls, Reported(fresh, byKey)) \/ SameCurrent(ls, Reported(fresh, byKey)))
              \/ u.view = "Jobs" /\ SameCurrent(ls, Reported(fresh, byKey))
              \/ /\ u.view = "Logs"
                 /\ \E logs \in Listings["Logs"] : SameCurrent(Load(ls, "Logs", logs), Reported(fresh, byKey))
              \/ /\ u.view = "Connections"
                 /\ \/ \E rows \in Listings["Connections"] :
                          ui' = Reported(fresh, byKey) /\ lists' = ClampLists(Load(ls, "Connections", rows))
                    \/ ui' = Reported(Background(fresh), byKey) /\ lists' = ClampLists(ls)
                 /\ UNCHANGED providers
              \/ /\ u.view \in {"Proxies", "Rules"}
                 /\ LET kind == IF u.view = "Proxies" THEN "Proxy" ELSE "Rule" IN
                    \E rows \in {NoProviders} \cup {ApplyProviders(providers[kind], r) : r \in Providers} :
                        providers' = [providers EXCEPT ![kind] = rows]
                 /\ \/ /\ ui' = Reported(fresh, byKey)
                       /\ \E after \in IF u.view = "Rules" THEN {Load(ls, "Rules", r) : r \in Listings["Rules"]} ELSE {ls} :
                             lists' = ClampLists(after)
                    \/ ui' = Reported(Background(fresh), byKey) /\ lists' = ClampLists(ls)

RefreshScreen == ui.view # "closed" /\ RefreshPage(ui, FALSE)

RefreshNow ==
    /\ InFront = "page"
    /\ RefreshPage([ui EXCEPT !.pinned = FALSE, !.status = "key"], TRUE)

\* An event of a job or of the core; one says that the current profile was updated.
DrainEvent ==
    /\ ui.view # "closed"
    /\ \/ ui' = Background(ui) /\ Same
       \/ /\ ui' = Background(Due(Cleared(ui))) /\ lists' = ClearedLists(lists) /\ providers' = ClearedProviders
          /\ UNCHANGED store

PinExpires == ui.pinned /\ ui' = [ui EXCEPT !.pinned = FALSE] /\ Same

-----------------------------------------------------------------------------
(* Keys that open, close and move.                                         *)

SetView(v) ==
    /\ InFront = "page"
    /\ ui' = Says(Due([ui EXCEPT !.view = v, !.pinned = FALSE,
                         !.popup = IF v = "Dashboard" THEN @ ELSE "none",
                         !.dialog = IF v \in {"Proxies", "Rules"} THEN @ ELSE "none"]))
    /\ Same

Quit ==
    /\ InFront \in {"help", "detail", "dialog", "page"}
    /\ ui' = [ui EXCEPT !.view = "closed"] /\ Same

\* Esc, n and their like: the window in front goes.
CloseFront ==
    /\ \/ InFront = "help" /\ ui' = Says([ui EXCEPT !.help = FALSE])
       \/ InFront = "detail" /\ ui' = Says([ui EXCEPT !.detail = FALSE])
       \/ InFront = "confirm" /\ ui' = Says([ui EXCEPT !.confirm = NoConfirm])
       \/ InFront = "input" /\ ui' = Says([ui EXCEPT !.input = "none"])
       \/ InFront = "dialog" /\ ui' = Says([ui EXCEPT !.dialog = "none"])
       \/ At("Dashboard") /\ ui.popup # "none" /\ ui' = Says([ui EXCEPT !.popup = "none"])
    /\ Same

\* A key that the window in front swallows is announced all the same if it is a long one.
Swallowed(key) == InFront \in {"help", "detail", "confirm"} /\ key # "y" /\ Press(key, ui) /\ Same

OpenHelp == InFront = "page" /\ ui' = Says([ui EXCEPT !.help = TRUE]) /\ Same
OpenStatusHistory == InFront = "page" /\ ui' = Says([ui EXCEPT !.detail = TRUE]) /\ Same

\* Diagnosis, its export, starting, stopping and restarting the core, the mode, a node's
\* delay, updates, retries and cancellations: they act elsewhere and report.
Report(key) ==
    /\ InFront = "page"
    /\ \/ key \in {"D", "E"} /\ Press(key, Says(ui))
       \/ key = "s" /\ Press(key, Due(Important(ui)))
       \/ key = "R" /\ ui.view = "Dashboard" /\ Press(key, Due(Important(ui)))
       \/ key = "m" /\ ui.view \in {"Dashboard", "Proxies"} /\ Press(key, Due(Important(ui)))
       \/ key = "t" /\ ui.view = "Proxies" /\ (Press(key, Due(Important(ui))) \/ Press(key, Says(ui)))
       \/ /\ key \in {"u", "a"} /\ ui.view = "Profiles"
          /\ Press(key, IF key = "u" /\ Selected("Profiles") = NoRow THEN Says(ui) ELSE Due(Says(ui)))
       \/ /\ key \in {"R", "c"} /\ ui.view = "Jobs"
          /\ Press(key, IF Selected("Jobs") = NoRow THEN Says(ui) ELSE Due(Says(ui)))
    /\ Same

\* Any row the arrows, pages and edges reach; a move in the log stops following it.
Move(p) ==
    /\ At(p) /\ p \in DOMAIN lists
    /\ ui' = [ui EXCEPT !.follow = @ /\ p # "Logs"]
    /\ \E i \in IF Shown(lists[p]) = {} THEN {1} ELSE Shown(lists[p]) :
          lists' = [lists EXCEPT ![p].at = i]
    /\ UNCHANGED <<providers, store>>
MoveSetting == At("Settings") /\ \E r \in SettingRows : ui' = [ui EXCEPT !.row = r] /\ Same

ToggleFollow == At("Logs") /\ ui' = Says([ui EXCEPT !.follow = ~@]) /\ Same

StartInput ==
    /\ InFront = "page"
    /\ \/ ui' = IF ui.view \in {"Dashboard", "Settings"} THEN Says(ui) ELSE [ui EXCEPT !.input = "search"]
       \/ ui.view = "Profiles" /\ \E t \in {"url", "path"} : ui' = Says([ui EXCEPT !.input = t])
    /\ Same

\* The next level of the log's filter.
CycleLogLevel(q) ==
    /\ At("Logs") /\ ui' = Says(ui)
    /\ lists' = ClampLists([lists EXCEPT !["Logs"].query = q])
    /\ UNCHANGED <<providers, store>>

\* A pasted link opens the import field on the profiles page, under whatever is in front.
Paste ==
    /\ InFront # "closed"
    /\ \/ ui' = Says(ui)
       \/ ui.input = "none" /\ ui' = Says([ui EXCEPT !.view = "Profiles", !.input = "url"])
    /\ Same

OpenPopup ==
    /\ At("Dashboard")
    /\ \/ ui' = Says([ui EXCEPT !.popup = "groups"]) /\ Same
       \/ ui.popup = "none" /\ Press("Enter", Says(ui)) /\ Same
       \/ ui.popup # "nodes" /\ Press("Enter", Says([ui EXCEPT !.popup = "nodes"])) /\ Same
       \/ ui.popup = "nodes" /\ Press("Enter", Says(Due([ui EXCEPT !.popup = "none"]))) /\ SelectNode

EnterOnProxies ==
    /\ At("Proxies")
    /\ \/ Press("Enter", Says(ui)) /\ Same
       \/ Press("Enter", Due(Says(ui))) /\ SelectNode

-----------------------------------------------------------------------------
(* Questions, and what a yes does.                                          *)

Ask(c) == ui' = [ui EXCEPT !.confirm = c] /\ Same

AskAboutRow ==
    \/ (At("Profiles") \/ At("Connections")) /\ ui' = Says(ui) /\ Same
    \/ At("Profiles") /\ Selected("Profiles") # NoRow
       /\ \E act \in {"switch", "delete"} : Ask(Confirm(act, FALSE, Selected("Profiles")))
    \/ At("Connections") /\ Selected("Connections") # NoRow /\ Ask(Confirm("close", FALSE, Selected("Connections")))
    \/ At("Connections") /\ Ask(Confirm("closeAll", FALSE, NoRow))
    \/ At("Logs") /\ Ask(Confirm("clearLogs", FALSE, NoRow))

OpenRowDetail ==
    \E p \in {"Logs", "Connections", "Jobs"} :
        At(p) /\ ui' = Says([ui EXCEPT !.detail = Selected(p) # NoRow]) /\ Same

AskToSwitch(x) == Confirm(x, ~ui.cache[x], NoRow)
AskOnDashboard ==
    /\ At("Dashboard") /\ ui.cache # NoSettings
    /\ \E x \in {"tun", "proxy"} \cap ShownSwitches : Ask(AskToSwitch(x))

\* The setting is stored, or rolled back; the copy is read back whole, or kept.
ApplySwitch(key, x) ==
    \/ /\ store' = [store EXCEPT ![x] = ~ui.cache[x]]
       /\ Press(key, Due(Says([ui EXCEPT !.cache = store'])))
    \/ UNCHANGED store /\ Press(key, Due(Says(ui)))

ToggleDns ==
    /\ At("Dashboard") /\ SameLists
    /\ IF ui.cache = NoSettings THEN Press("d", Says(ui)) /\ UNCHANGED store ELSE ApplySwitch("d", "dns")

EditSetting ==
    /\ At("Settings")
    /\ ui' = Says(IF ui.row \in {"port", "cport"} THEN [ui EXCEPT !.input = ui.row] ELSE ui)
    /\ Same

EnterLoadedSetting ==
    \/ ui.row \in Direct /\ ApplySwitch("Enter", ui.row) /\ SameLists
    \/ ui.row = "corelog" /\ ApplySwitch("Enter", "corelog") /\ SameLists
    \/ ui.row \in Asked \cup {"corelog"} /\ ui' = Due([ui EXCEPT !.confirm = AskToSwitch(ui.row)]) /\ Same
    \/ ui.row \in {"port", "cport"} /\ ui' = Says(Due([ui EXCEPT !.input = ui.row])) /\ Same
EnterSetting ==
    /\ At("Settings")
    /\ IF ui.cache = NoSettings THEN Press("Enter", Says(ui)) /\ Same ELSE EnterLoadedSetting

\* Mutant: the screen does not fall due after a switch.
SwitchQuietly(c, u) == store' \in {store, [store EXCEPT ![c.act] = c.on]} /\ ui' = [u EXCEPT !.due = FALSE]

Switch(c, u) == store' \in {store, [store EXCEPT ![c.act] = c.on]} /\ ui' = u

\* TUN and the system proxy are switched and the screen only falls due for a refresh;
\* the other switches, and the port, also read the settings back.
Confirmed ==
    LET c == ui.confirm
        u == Due(Important([ui EXCEPT !.confirm = NoConfirm]))
    IN CASE c.act \in {"tun", "proxy"} ->
              Switch(c, u) /\ SameLists
         [] c.act \in {"controller", "corelog"} ->
              /\ store' \in {store, [store EXCEPT ![c.act] = c.on]} /\ SameLists
              /\ \E cache \in {ui.cache, store'} : ui' = [u EXCEPT !.cache = cache]
         [] c.act = "cport" ->
              \E cache \in {ui.cache, store} : ui' = [u EXCEPT !.cache = cache] /\ Same
         [] c.act \in {"switch", "delete"} ->
              UNCHANGED store /\ (ReadCatalog(lists, u) \/ (ui' = u /\ SameLists))
         [] OTHER ->
              /\ ui' = u /\ UNCHANGED <<providers, store>>
              /\ LET p == IF c.act = "clearLogs" THEN "Logs" ELSE "Connections"
                     left == IF c.act = "close" THEN RemoveFirst(lists[p].rows, c.name) ELSE <<>>
                     gone == [lists EXCEPT ![p].rows = left]
                 IN lists' \in {lists, IF c.act = "close" THEN ClampLists(gone) ELSE [gone EXCEPT ![p].at = 1]}
AnswerYes == InFront = "confirm" /\ Confirmed

-----------------------------------------------------------------------------
(* Typed input.                                                            *)

FinishInput ==
    LET u == Due(Says([ui EXCEPT !.input = "none"]))
        long == [u EXCEPT !.pinned = TRUE]
    IN /\ InFront = "input"
       /\ \/ /\ ui.input = "search" /\ ui' = u /\ UNCHANGED <<providers, store>>
             /\ \E q \in Queries \cup {NoQuery} :
                   lists' = ClampLists(IF ui.view \in DOMAIN lists THEN [lists EXCEPT ![ui.view].query = q] ELSE lists)
          \/ ui.input # "search" /\ ui' = long /\ Same
          \/ ui.input = "port" /\ ui' = [long EXCEPT !.cache = store] /\ Same
          \/ ui.input = "cport" /\ ui' = [long EXCEPT !.confirm = Confirm("cport", FALSE, NoRow)] /\ Same
          \/ ui.input \in {"url", "path"} /\ ReadCatalog(lists, long) /\ UNCHANGED store
          \/ /\ ui.input = "url" /\ UNCHANGED store
             /\ \E rows \in Listings["Profiles"] :
                   OtherCurrent(Load(lists, "Profiles", rows), [long EXCEPT !.view = "Proxies"])

-----------------------------------------------------------------------------
(* The provider dialogs.                                                   *)

OpenProviderDialog ==
    /\ ui.view \in {"Proxies", "Rules"} /\ InFront = "page" /\ UNCHANGED <<lists, store>>
    /\ LET kind == IF ui.view = "Proxies" THEN "Proxy" ELSE "Rule" IN
       \/ Press("p", Important([ui EXCEPT !.dialog = "none"])) /\ UNCHANGED providers
       \/ \E rows \in Providers :
             /\ providers' = [providers EXCEPT ![kind] = ApplyProviders(@, rows)]
             /\ Press("p", IF rows = <<>> THEN Important([ui EXCEPT !.dialog = "none"])
                           ELSE Says([ui EXCEPT !.dialog = kind]))

RefreshDialog ==
    /\ InFront = "dialog" /\ UNCHANGED <<lists, store>>
    /\ \/ Press("r", Important(ui)) /\ UNCHANGED providers
       \/ \E rows \in Providers :
             /\ providers' = [providers EXCEPT ![ui.dialog] = ApplyProviders(@, rows)]
             /\ Press("r", IF rows = <<>> THEN Important([ui EXCEPT !.dialog = "none"]) ELSE Says(ui))

\* One provider, or all; then its rows and the rules it feeds are loaded again if they can be.
UpdateProvider(key) ==
    /\ InFront = "dialog" /\ UNCHANGED store
    /\ IF ui.dialog = "none" \/ NameAt(providers[ui.dialog].rows, providers[ui.dialog].at) = NoRow
       THEN Press(key, Says(ui)) /\ SameLists
       ELSE /\ Press(key, Due(Important(ui)))
            /\ \E rows \in {providers[ui.dialog]} \cup {ApplyProviders(providers[ui.dialog], r) : r \in Providers} :
                  providers' = [providers EXCEPT ![ui.dialog] = rows]
            /\ lists' \in {lists} \cup {ClampLists(Load(lists, "Rules", rows)) :
                                           rows \in IF ui.dialog = "Rule" THEN Listings["Rules"] ELSE {}}

MoveProvider ==
    /\ InFront = "dialog" /\ UNCHANGED <<ui, lists, store>>
    /\ LET p == providers[ui.dialog] IN
       \E i \in IF p.rows = <<>> THEN {1} ELSE DOMAIN p.rows :
          providers' = [providers EXCEPT ![ui.dialog] = [p EXCEPT !.at = i, !.key = NameAt(p.rows, i)]]

-----------------------------------------------------------------------------
ScreenInit ==
    /\ ui = [view |-> "Dashboard", help |-> FALSE, detail |-> FALSE, confirm |-> NoConfirm,
             input |-> "none", dialog |-> "none", popup |-> "none", pinned |-> FALSE,
             status |-> "ready", due |-> TRUE, cache |-> NoSettings, row |-> "dns", follow |-> TRUE]
    /\ lists = [p \in DOMAIN Listings |-> [rows |-> <<>>, at |-> 1, query |-> NoQuery]]
    /\ providers = [k \in Kinds |-> NoProviders]
    /\ store = [x \in ShownSwitches |-> FALSE]
    /\ keys = 0

LongKeys == {"D", "E", "s", "R", "m", "t", "u", "a", "c", "d", "p", "r", "Enter"}

UserKey ==
    \/ \E v \in Views : SetView(v)
    \/ Quit \/ CloseFront \/ OpenHelp \/ OpenStatusHistory \/ RefreshNow
    \/ \E key \in LongKeys : Swallowed(key) \/ Report(key)
    \/ \E q \in Queries \cup {NoQuery} : CycleLogLevel(q)
    \/ ToggleFollow \/ StartInput \/ FinishInput \/ Paste
    \/ OpenPopup \/ EnterOnProxies \/ AskAboutRow \/ OpenRowDetail \/ AskOnDashboard
    \/ ToggleDns \/ EditSetting \/ EnterSetting \/ AnswerYes
    \/ OpenProviderDialog \/ RefreshDialog \/ \E key \in {"Enter", "a"} : UpdateProvider(key)

ScreenNext ==
    \/ keys < MaxKeys /\ keys' = keys + 1 /\ UserKey
    \/ ((\E p \in DOMAIN Listings : Move(p)) \/ MoveSetting \/ MoveProvider) /\ UNCHANGED keys
    \/ (RefreshScreen \/ DrainEvent \/ PinExpires) /\ UNCHANGED keys

ScreenSpec == ScreenInit /\ [][ScreenNext]_screenVars

-----------------------------------------------------------------------------
(* Properties.                                                             *)

\* Type invariant of the interface: windows, cursors and settings keep their types.
ScreenTypeOK ==
    /\ ui.view \in ViewNames
    /\ {ui.help, ui.detail, ui.pinned, ui.due, ui.follow} \subseteq BOOLEAN
    /\ ui.input \in {"none", "search", "url", "path", "port", "cport"}
    /\ ui.dialog \in Kinds \cup {"none"} /\ ui.popup \in {"none", "groups", "nodes"}
    /\ ui.cache \in [ShownSwitches -> BOOLEAN] \cup {NoSettings} /\ ui.row \in SettingRows
    /\ \A p \in DOMAIN lists : lists[p].at \in 1..(Len(lists[p].rows) + 1)
    /\ store \in [ShownSwitches -> BOOLEAN] /\ keys \in 0..MaxKeys

\* A page's cursor is on a row its filter shows, after every refresh, move, filter, closed
\* connection, cleared log and change of the current profile; only where the filter shows no
\* row is it on the first of the hidden ones, on which a key then acts.
CursorOnShownRow ==
    \A p \in DOMAIN lists :
        IF Shown(lists[p]) = {} THEN lists[p].at = 1 ELSE lists[p].at \in Shown(lists[p])

\* The settings on screen are the stored ones, unless the screen is due for a refresh: no
\* handler that changes a setting leaves a stale copy for the next key to invert.
CopyFollowsStore ==
    ui.view \in {"Dashboard", "Settings"} /\ ~ui.due /\ ui.cache # NoSettings => ui.cache = store

\* A refresh or an event never overwrites the report of a key while it is pinned.
PinnedStatusSurvives ==
    [][ui.pinned /\ ui'.status # ui.status => ~RefreshScreen /\ ~DrainEvent]_screenVars
=============================================================================
