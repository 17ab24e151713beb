# A verification project for Clash TUI

Clash TUI is a terminal controller for a local mihomo core. These modules
model the parts of it in which several things happen at once, something may
fail in the middle, or two pieces of state have to agree: the job manager and
its history, the profile transactions on the files of the home directory, the
supervision of the mihomo core, subscriptions, settings, saved selections, the
runtime configuration, the state of the terminal interface, and the requests to
the core's controller. TLC checks small instances, TLAPS proves the safety
properties that matter most for every value of the constants. Paths
below are relative to `src/`; `tui/` stands for `crates/clash-tui/src/` and
`core/` for `crates/clash-core/src/`.

Contents: 1 Inventory. 2 Modules. 3 Runs. 4 Fairness. 5 Proofs. 6 What is only
model-checked. 7 Disagreements found. 8 What is not modelled. 9 Plan.

## 1 Inventory

One process is either the terminal interface, which runs until the user quits,
or one command of the command line. Both work on the same home directory. A
process has one `AppState` (`tui/state.rs`): the stores, the job manager, the
kernel manager, and a lock for profile operations.

| Component | State | Operations | Interacts with |
|---|---|---|---|
| Job manager, `tui/jobs.rs` | table of at most `JOB_LIMIT` jobs in order of creation, abort handles, history file, `history_writable` | create (unique per target), start, progress, finish, fail, cancel, register a handle, persist, load | tasks it does not own, subscribers of events |
| Subscription updates, `tui/subscriptions.rs`, `tui/actions/subscriptions.rs` | spawned tasks; due times in profile entries | sweep of due profiles at the start, update all, update one; three ways to download | job manager, store, profile transaction (commit) |
| Profile transactions, `tui/actions/profile_transaction.rs`, `profiles.rs` | `profile_switch_lock`, snapshot, catalog before | update, switch, delete, import, import and activate; rollback | store, runtime generator, core |
| Profile catalog and store, `core/config/profiles.rs`, `store.rs`, `core/yaml.rs` | `profiles.yaml`, one file per profile | load, save, append, patch, delete, switch, reorder, normalise; conversion of node lists | file system, in place, no lock |
| Saved selections, `tui/actions/controller.rs` | `selected` of the current entry; what the core has chosen | select, preselect offline, save (read, patch, write), apply with retries | store without the lock, controller |
| Runtime generator, `core/config/runtime.rs`, `enhance.rs`, `dns.rs` | `runtime.yaml` | merge profile, enhancements and settings; prune and repair groups | read by the core |
| Runtime apply, `tui/actions/runtime_apply.rs` | none | generate, validate, reload, wait for the controller | core, validation |
| Kernel manager, `tui/kernel.rs`, `core/kernel.rs` | snapshot, child, current job, pid and owner files, operation lock | start, stop, restart, foreground, health tick | mihomo process, other Clash TUI processes |
| Settings, `tui/actions/config.rs`, `system.rs` | one settings file of optional fields | patch, generate, restart or desktop command, take back; reads that write | runtime apply, core, desktop |
| Validation, `tui/validation.rs` | none | run `mihomo -t` with a timeout | job manager |
| Terminal interface, `tui/tui/app/*` | views, windows, lists and cursors, copies of settings, status line, bytes not used yet | key handler, page refresh, event drain, wait after an import: one at a time; a thread that reads the terminal | everything above |
| Controller client, `crates/clash-mihomo/src/client.rs`, `tui/mihomo_controller/mod.rs` | the bytes of one answer | request in whole, first or latest frame, stream | mihomo's controller |
| Controller metrics, `tui/metrics.rs` | a snapshot under a mutex, the last frame held | follow traffic, ask for memory, hand over copies | controller client, interface |
| Command line, `tui/cli/mod.rs` | none | one action per process | everything above |

Hard behaviours and the properties that answer them:

- *Table, tasks and handles drift apart.* A task is spawned before its handle
  is registered, the handle is removed by a task that is spawned and not
  awaited, the oldest job is evicted even when active, a cancel races the end
  of the task. `OneActivePerTarget`, `ActiveHasTask`,
  `CancelledIsBeingStopped`, `HandleHasUse`, `OutcomeIsFinal`,
  `CreatedComesFirst`, `JobIsOver`.
- *The history is written by whoever changed something last.* Snapshot,
  temporary file and rename are three steps; the temporary name has the second
  only; the process may die between them. `HistoryInv`,
  `HistoryOutcomeIsReal`, `AnnouncedIsPersisted`.
- *A transaction over plain files.* Every step may fail after others have
  written; the rollback is a second pass that may fail; a cancelled update is
  dropped at an await without rollback. `RollbackRestores`,
  `TransactionsAreAtomic`, `CommitAppliesCurrent`, `NoMisleadingCurrent`.
- *The lock.* Updates wait for it, everything else only tries it.
  `LockIsHeldInTransactions`, `WaitingUpdateEnds`.
- *A core that several processes know of.* Two marker files in the home
  directory say which core runs and whose it is; they are written after the
  spawn, removed without the operation lock, and outlive the process. A failed
  operation has to leave a state the next one can decide on; a core exits
  whenever it likes. `OneCore`, `SettledWhenFree`, `ChildIsShown`,
  `ExitIsNoticed`.
- *Writers without the lock, and a second process.* `SavedSelectionSurvives`,
  `NoMisleadingCurrent`.
- *A choice that lives twice.* A node is chosen in the core and in the catalog,
  in two steps without a lock; starts, switches and updates make the core forget
  its half, and an applier of older selections may come in between.
  `ChoiceInForce`.
- *Settings whose effect comes later, or not.* The file is written, then the
  configuration, then the core restarts or the desktop is told; each may fail,
  and some changes are then taken back, over a file that was never set.
  `RevertedMeansRestored`, `AppliedMeansInForce`, `ControllerOnlyWhenAsked`.
- *Due, or not due.* The sweep and the status page compute it each in its own
  way, the clock may be set back, an answer may be no profile at all.
  `SweepMatchesStatus`, `FilesAreUsable`, and `ChoicesSurvive` for what an update
  writes over.
- *Seven layers in one document.* Each may have a key in a shape nobody expects;
  placeholders are pruned, and what named them must not dangle. `LayersInOrder`,
  `NamesResolve`, `CanBeSteered`.
- *Rows that come and go under a cursor.* A refresh, an event of a job, a filter
  or a switch replaces the rows between two keys, and the next key acts on what
  the cursor is on. `RowsOfCurrent`, `StickyRowSurvives`, `CursorOnShownRow`,
  `CopyFollowsStore`, `PinnedStatusSurvives`.
- *Bytes that arrive in pieces.* Keys, pastes, heads and chunks are cut anywhere,
  an answer may break off. `CutsDoNotShow`, `FramesComeWhole`.
- *Copies and timers.* Two tasks hand over copies taken under a mutex they have
  released; a wait blocks every key. `TrafficIsOfNow`, `WaitIsBounded`.

`PROJECT.json` lists each hazard at its line, with the properties that answer
it or the reason that none does yet.

## 2 Modules

### Jobs

`Jobs` models one `JobManager` and its tasks. An action is a critical section
of the inner mutex, a file operation, or a call another thread can observe
(`spawn`, `abort`, sending an event). A job is its number: ids grow, so the
oldest listed job is the smallest one.

| Code | Model |
|---|---|
| `JobInner.jobs` and its order | `status`, `"Absent"` when not listed; `target` |
| `abort_handles` | `handles` |
| the task of a job | `wpc`: start, body, end (finish or fail was called), done, stray (dropped, a blocking file operation is left) |
| a task on which `abort()` was called | `aborting`; it is dropped later, by `AbortLands` |
| the spawned `remove_abort_handle` | `reaper` |
| a caller between two steps | `cpc`, `cjob` |
| an update between the mutex and its event | `pers`: snap, tmp, rename, emit |
| history file, temporary files, `history_writable` | `history`, `tmp`, `writable` |

`CreateUniqueActive`, `StartJob`, `Progress`, `EndJob` and `CancelReport` are
the critical sections of the calls of the same name, including eviction and the
refusal of a second active job; `TakeSnapshot`, `WriteTmp` and `RenameTmp` are
`persist_history_best_effort`, after which `EmitCreated`, `EmitUpdated` or
`EmitCancelled` sends what was cloned under the mutex. `Restart` is a process
that dies at any point and starts again with `load_history_best_effort`.
Validation jobs are not abortable and run in a foreground call; the one job kind is
`profile-update`.

### ProfileCatalog

The catalog as data, and the store's pure operations on it. An entry keeps the
download its metadata comes from (`rev`) and the saved selection (`sel`). The
kind of a uid is a constant: subscription, local, or an enhancement that the
option of another entry names (`Refs`). `Generated` says which profile and
which content a runtime configuration comes from, `GenerateFails` when
generation fails.

### ProfileTransaction

Actors are clients (one operation of the user at a time) and tasks (spawned
updates). `ProcOf` gives each its process; there is one lock per process and
one set of files.

| Code | Model |
|---|---|
| `profiles.yaml`, `<uid>.yaml`, `runtime.yaml` | `catalog`, `file`, `runtime` |
| mihomo | `core`: running, the configuration it loaded |
| `profile_switch_lock` | `lock` |
| the future of an operation | `pc` and `work` |
| `ProfileSnapshotSpec`, `RuntimePolicy` | `SnapshotUids`, `Applies` |
| `tokio::fs::write` of `profiles.yaml` | `TruncateCatalog`, then `FillCatalog`; between them `catalog = Torn`, which another reader takes for an empty document or cannot parse |
| `rollback_after_failure` | `Fail` goes back to `"trunc"` with `rb` set and the snapshot as the content; the same write, file, refresh and apply steps follow |
| a dropped update task | `Abort`: the lock is free at once, a blocking operation may still land (`stray`) |

`run_profile_transaction` goes: capture, snapshot, load (the mutation's
read-modify), file, trunc, fill, (switch, trunc2, fill2 for an activated
import), (files for a delete), refresh, generate, write, validate, apply,
reload or start, committed. Operations without the lock use the same actions:
saving a selection (current, load, trunc, fill), importing a local file (load,
file, trunc, fill), starting the core (start, startGenerate, startWrite,
spawn). `base`, `dirty` and `saved` are history variables: what an actor found
when it took the lock, whether anybody else wrote since, and the selection last
reported as saved.

The downloads are over when an operation begins: nothing is shared before.
`runtime.yaml` is written in one step, since only the core and the validation,
whose steps follow the write, read it.

### AtomicProfiles

What the transactions promise: each operation changes catalog and files in one
step or not at all. `ProfileTransaction` implements it with the refinement
mapping `Store`: while somebody holds the lock, what that holder found; the
files themselves otherwise.

### Kernel

`Kernel` models the `KernelManager` of every process on one home directory,
with the checks `tui/actions/core.rs` makes before it calls the manager.

| Code | Model |
|---|---|
| `KernelInner`: snapshot (state, owner, pid), child, current job, failures | `inner`, one per process |
| the operation lock | `oplock` |
| `mihomo.pid`, `mihomo-owner.json` | `pidFile`, `marker` |
| mihomo processes; one that has exited and not been waited for | `proc`; `"zombie"`, for which `process_exists` is true |
| an operation between two steps, its local variables | `pc`, `work` |

An action is a critical section of the inner mutex, an operation on a marker
file, a look at a process or a signal. `Refresh` is `refresh_child_exit`, with
which every operation begins; `Look`, `LookProcess` and `AskVersion` are
`external_snapshot`; `TakeChild` to `WaitPid` are `stop_child` and
`signal_and_wait_pid`. `start`, `stop` and `restart` go from `Begin` through the
check of a foreign owner (`Decide`) to `TryLock`, `BeginOperation` and, for a
start, `Adopt`, `Spawn`, `WritePid`, `WriteOwner`, `Publish`; `EndChild` is
`cleanup_spawned_child` and the end of a foreground process. `Record` looks at
the state again after the probe, as the code does. `CoreExits` is the core,
`ProcessEnds` an interface that is quit, a command that is done, or a process
that is killed. A failing signal has a constant of its own (`SignalFaults`),
because of what it does (section 7). systemd's service is a foreground process
like any other; the delegation to `systemctl` is left out. A marker file is
written in one step: a reader of a half-written pid file sees none, as one does
who reads it earlier.

### Subscription, NodeSubscription, Lists

`NodeSubscription` is what `core/config/profiles.rs` makes of a downloaded body:
YAML with nodes or providers is kept (`AsIs`), a list of node URIs, plain or in
base64, is converted, anything else is refused. A line is a record of what its
parser looks at, never its characters, and a name is a sequence of words, which
is all that the numbering of equal names needs. `Lists` has what this module and
`RuntimeDocument` share: the elements of a list that stay (`Retained`) and the
first free name (`FirstFree`). `Subscription` puts the entries of the
catalog under a clock.

| Code | Model |
|---|---|
| an entry's name, `updated`, and option | `entries` |
| the profile's file | `files` |
| the system clock, in seconds | `clock`, which may go back |
| the future of an import or update | `tasks`: plan, asking (attempt 1 to 3), commit |
| the sweep a process does once | `swept` |

`DueProfile` and `ProfileStatus` are the two computations of the due time, each
with the integer arithmetic of its source (saturating or wrapping, below
`WordSize`, which scales the 64 bits down). `Plan`, `Download`, `AttemptFails`
and the commit are one attempt; a commit reads the catalog again, so an entry
that went away meanwhile is what it meets, and it writes the name and options it
has made of the entry that was planned with. Nothing in the interface changes
these while an update runs; a change by hand would be overwritten. Transaction and job of an
update are in the modules above: here a commit happens or fails without effect.

### Settings

| Code | Model |
|---|---|
| the settings file | `stored`: a field is a value or `Absent`; or `Unreadable` |
| `runtime.yaml` | `generated` |
| the core's state, owner and configuration | `core` |
| the desktop's proxy | `desktop`: none, manual, or half set |
| an operation between two steps | `client`: phase, field, patch, prior settings, outcome |

An operation saves (`SaveChange`), generates (`GenerateChange`), restarts or
loads (`ApplyDns`, `ApplyTun`, `ApplyController`, `ApplyDirect`), waits for the
controller, drives the desktop, and takes back (`Rollback`) by patching what was
there before. The write of that patch may fail, and what is reported then differs
(`RollbackReport`): the switches for DNS and the download strategy say that they
rolled back in either case (`config.rs:199`, `:252`), the desktop's switch says
that its rollback failed (`system.rs:164`), the other operations only that they
failed. `ReadSettings` is the look at the settings that ends most
operations and refreshes the page; it may write (`Sync`). Cores start and end,
and others' cores appear, between any two steps. `wish` is an observer of what
the user last made of the external controller. There is one client: what two of
them do to the file is a listed hazard.

### Selections

| Code | Model |
|---|---|
| the catalog's current profile, each profile's `selected` | `owner`, `saved` |
| the core and the groups of the configuration it loaded | `mihomo` |
| the rows on screen are offline ones | `offlineRows` |
| a selection, or an application of saved ones, between two steps | `worker` |

The preview of a runtime file (`PreviewOf`) and the groups of a core that loads
it (`CoreGroups`) are made of the same record, with what is known of providers
on one side and what the core downloads on the other. A selection goes
`PutSelection` (or unanswered, refused, not connected and then preselected),
`SaveSelectionReads`, `SaveSelectionWrites`; an application reads the saved
list, lists the core's groups, retries while there is no answer, and puts each
selection that is not in force. `unsure` is an observer of the groups about
which nothing is promised: a request whose outcome nobody knows (it timed out
and the core may have obeyed, or the core took longer to start than the applier
waits), an offline preselection, and two races that lose a choice and are
listed as hazards: an applier with older selections tells the core after a newer
choice (`controller.rs:372`), and a save that read its list before a rollback
writes the list back.

### RuntimeDocument

Pure operators for the layers of `core/config/runtime.rs`, each named like its
function: `ApplyProfileEnhancements`, `MergeDefaultConfig`, `MergeDns`,
`ApplySettings`, `ApplyDownloadProxy`, `ApplyControllerBoundary`,
`UpdateProxyChain`, `Sanitize`, `EnsureGroup`. A document is a function from its
keys to values; `IllShaped` is a value of a shape the code does not expect, and
one key stands for all that are treated alike. `Generate` is one action, since it works on what it has
read; `cleaned` observes the document before the names are pruned. A script is
external code: any document, or a failure. `LayersInOrder` compares the result
with a definition that goes the other way, from the last layer that speaks of a
key, and the sections for DNS and hosts with the three places they may come from
(`DnsInOrder`); `NamesResolve` and `CanBeSteered` compare it with the document
before. The clean-up prunes groups and dialers, not rules (`runtime.rs:438`):
`NamesResolve` says of a rule that it loses no name but that of a notice. A MATCH
rule that generation adds stands behind those that are there, so that one of the
file's own may take the traffic before it.

### Tui, ProxyRows, InputReader, ProviderWait

The interface is one loop: a handler runs to its end before the next starts, so
an action is a handler, a page refresh or a drained event, and what the core,
the disk and the controller answer is chosen freely.

- `Tui` has the windows and which of them gets a key (`InFront`), the list of
  each page with its filter, the provider dialogs, the status line with its pin,
  and the copy of the settings (`ui.cache`) beside those on disk (`store`). A
  catalog with another current profile than the one on screen clears what was of
  that profile: rules, connections, providers, the provider dialog and the popup
  (`apply_profiles`, here `OtherCurrent`); so does the event that the current
  subscription was updated. Refreshes, a confirmed switch or deletion and an import read the catalog that
  way (`ReadCatalog`); selecting a node shows the catalog that was saved and
  clears nothing (`SelectNode`). A filter may show no row: the cursor is then on
  the first one, and a key of the page acts on it though it is hidden
  (`state.rs:2749`), which is what the code does and `CursorOnShownRow` says.
- `ProxyRows` has the rows of groups and nodes, the cursor of the proxy page and
  that of the dashboard (row numbers and remembered names), sorting, search, and
  what refreshes, switches, imports, delay tests and events make of them. The
  sorted rows are those the filter shows, in the order of their keys
  (`SortsBefore`), whatever the sorting does to get there. A
  method of `TuiApp` is an operator from record to record, chained in the order
  of the calls. `rowsOf` observes which profiles ran when the rows were loaded.
- `InputReader` has the thread that turns bytes into keys; an escape sequence
  keeps its shape and loses length. `Turn` is a turn of the loop over the bytes
  that are not used yet, and `Parse` takes as many as there are bytes: a turn
  that uses none repeats itself, where the code leaves the loop. A marker that is cut after its ESC is taken
  for the Esc key; `torn` observes that.
- `ProviderWait` is `wait_for_proxy_groups_ready`, in tenths of seconds. It
  fetches providers once and looks at the time after that, without looking at
  the groups again (`refresh.rs:346`).

### ControllerReader, Metrics

`ControllerReader` is one request of `client.rs` as a reader of bytes: the core
sends `answer.sent` of them and closes the connection or not, a read returns
some, and `ReadHead`, `ReadBody`, `EndChunk`, `StreamFrame`, `FirstFrame`,
`LatestFrame` are the branches of the parsers. A frame is one chunk
(`client.rs:744`); a plain request ignores the length it is told and reads to
the end; the frame readers run into their timeout when a connection ends
between frames. `Metrics` has the two tasks of `tui/metrics.rs` with their
timers in half seconds; each hands a copy to the interface after it has released
the mutex, in either order.

### MCJobs, MCProfiles, MCKernel, MCParts, and the proof modules

Instances for TLC, and proofs. `MCParts` holds the modules from `Subscription`
on, side by side. The proofs of `Jobs` are in `JobsProofs`, those of
`ProfileTransaction` in `ProfileProofs`, of `AtomicProfiles` in `AtomicProofs`,
of `Kernel` in `KernelProofs`; `ActionProofs` has `Settings`, `Selections` and
`Subscription`, `DocumentProofs` has `RuntimeDocument`, the files of
`Subscription` and `ControllerReader`, `ScreenProofs` has `Metrics`, `Tui`, `ProxyRows`, `ProviderWait`
and `InputReader`. `ListProofs` has the lemmas that the last two share.

## 3 Runs

All runs stop at their bounds, so none checks for deadlock; that something
still happens is what the liveness properties check.

| Run | Instance | Shows |
|---|---|---|
| `jobs_table` | 2 callers, 2 targets, 3 jobs, a table of 2, no history | table, handles and tasks in step under every interleaving. Three jobs in a table of two evict a job in every state it can be in; two callers create, cancel and register against each other |
| `jobs_history` | 1 caller, 1 target, 2 jobs, a table of 1, progress of the first job, history, 1 restart, fair scheduling | the inductive invariant with files; no invented outcome; every job comes to its end and leaves no handle. Two persists overlap, one temporary name is the worst case |
| `jobs_stale` | 1 caller, 2 targets, 2 jobs, no fault, no restart | violation of `AnnouncedIsPersisted` (section 7) |
| `profiles_atomic` | 3 profiles (two subscriptions, one with an enhancement of its own), 2 versions, a client and an update, 2 operations, faults before a rollback, fair scheduling | refinement of `AtomicProfiles`; no misleading current profile; a waiting update ends |
| `profiles_all` | 2 profiles, all operations, cancellation, faults everywhere | the lock is never leaked; a rollback restores, and what a transaction reports is true, if nobody else wrote; the inductive invariant |
| `profiles_select` | an update and a saved selection, no faults | violation of `SavedSelectionSurvives` (section 7) |
| `profiles_two` | two processes that activate and delete | violation of `NoMisleadingCurrent` (section 7) |
| `kernel_one` | one process that does not end, 2 tasks and the monitor, 2 operations, 3 cores, no faults | never two cores; the exit of a child is noticed |
| `kernel_two` | the interface with a task and the monitor, and a command that starts, stops, restarts or runs a core; 2 operations, 2 cores, faults, 1 end of the interface or kill | no manager is left in the middle of an operation; a child is the core that is shown |
| `kernel_duplicate` | one task, 3 operations, signals may fail | violation of `OneCore` (section 7) |
| `parts` | ten parts, one in each behaviour, 556,333 states: see the table below | each part keeps its promises, in every order of its steps |
| `settings_controller` | the settings of `parts` alone | violation of `ControllerOnlyWhenAsked` (section 7) |

The parts share no state, so one run holds all of them: a behaviour is one of
its part. What each part's instance has, and its properties:

| Part | Instance | Properties |
|---|---|---|
| rows | two groups, up to three nodes, two of them called alike but for the icon, three listings and a preview, two profiles, three keys | `RowsOfCurrent`, `StickyRowSurvives` |
| screen | every view and window, two rows on a page, a filter that hides one, three switches, three keys beside the moves of cursors | `CursorOnShownRow`, `CopyFollowsStore`, `PinnedStatusSurvives` |
| reader | any three of ten tokens (a key, both paste markers, a character of two bytes, a lone lead byte, ...), cut anywhere | `CutsDoNotShow` |
| document | no profile or one of five, merges and scripts (global and the profile's own), three base files, three sets of settings, no DNS file or one of three, all combined; two chains | `LayersInOrder`, `NamesResolve`, `CanBeSteered` |
| subscription | one subscription, five entries it may start with or none, two requests, four bodies (YAML, none, a node list of all schemes and faults, one of equal names), three headers, a clock of three times that may go back | `SweepMatchesStatus`, `FilesAreUsable`, `ChoicesSurvive` |
| settings | every setting, two changes, a core of its own or two of somebody else, a file that is cut | `RevertedMeansRestored`, `AppliedMeansInForce`; in `settings_controller` `ControllerOnlyWhenAsked` |
| selections | two profiles, one with a provider and a balancing group, earlier selections that partly no longer fit, two operations and one update | `ChoiceInForce` |
| controller | eleven answers (chunked well and badly, two documents in one chunk, one over two chunks, with a length, open), cut after each byte, closed or not, read in pieces of 1, 4 or all bytes | `FramesComeWhole` |
| metrics | four frames, one memory, half seconds | `TrafficIsOfNow` |
| wait | three runtime files, two listings of providers, answers at once or at the timeout | `WaitIsBounded` |

`kernel_one` has no faults and its process does not end, since `OneCore` does
not survive either: a core that could not be cleaned up, or whose markers were
lost, is found by nobody (section 7). With three operations and three cores it
holds as well (a million states, without the liveness property). A monitor of
the command is left out of `kernel_two`: it looks after a child only, which a
foreground command keeps to itself and any other command leaves behind.

Bounds: `MaxCores`, `MaxEnds`, `MaxJobs`, `MaxProgress` (the code makes four calls; they all leave the
job alone, so one stands for any number), `Reporting` (jobs whose tasks report progress: one, in
`jobs_history`, where a report races the end of the job before it), `MaxRestarts`, and `MaxOps`,
operations begun. In `Kernel` two operations, on the initial states with and
without a core, with and without its markers, reach every pair that races. In
`ProfileTransaction` two operations reach every pair that races, a third only
queues behind the lock. `IoFaults = "forward"` lets every file
operation fail except in a rollback: a rollback that fails reports so and
promises nothing, which is why atomicity is stated without it; `profiles_all`
has it. Symmetry: versions are only compared, callers and targets of `Jobs`
too. `Switchable` holds the main profiles, which is what the interface offers;
the command line lets any uid through (a listed hazard).

In `parts` the bounds are: `MaxRowKeys` and `MaxKeys` (3), keys pressed, where
refreshes, events and (in `Tui`) moves of a cursor are free, so that three keys
are a choice, something that disturbs it and one that acts on it; `MaxChanges`
(2), operations on settings, the second of which finds what the first left;
`MaxUserSteps` (2) and `MaxUpdates` (1), every pair of operations of the user
beside an update; `ReadSizes` ({1, 4}, and all there is); `MaxQuiet` (22 half
seconds), one more than the age that `TrafficIsOfNow` allows. `ProviderWait`
runs with timeouts of 3 and 10 seconds instead of 15 and 60 and with 2
instead of 16 providers: what matters is that a wait has room for several tries, for the
fetch of all providers, and that there are more providers than may be fetched.
`Times` are around the intervals of the entries.

## 4 Fairness

`Jobs`: a call that has begun goes on (it waits for a mutex held over no await
and for a file), a task goes on (a download has a timeout and three attempts),
a spawned removal runs, an abort lands. Nothing is assumed of callers starting
a call, cancelling, or of restarts. `ProfileTransaction`: the step of an
operation is taken (validation, reload, the wait for the controller and
requests all have timeouts), and a task that waits for a mutex that stays free
gets it. Weak fairness is enough for the lock in the run because operations are
bounded; tokio's mutex is a fair queue, which the model does not need.
`Kernel`: an operation goes on, for all it waits for has a timeout, and the
monitor, a loop that sleeps, ticks for ever. Nothing is assumed of a core, of
users, and of a foreground process, which waits as long as its core runs. The
modules of `parts` state no liveness: their time is counted where it matters
(`Metrics`, `ProviderWait`), so that "in time" is an invariant.

## 5 Proofs

- `JobsProofs`: `JobsTypeCorrect`, `JobsInvariant`, `JobsUnique`, `JobsSafe`,
  `JobsCancelledStop`, `JobsHandlesHaveUse`, `JobsOutcomeFinal` and
  `JobsCreatedFirst`, for any targets, callers, limits, jobs and restarts.
  `OneActivePerTarget` alone is not inductive: a restart takes the table from
  the history and a snapshot may be older than a creation, so that it must be
  known that no file mentions a job that is not created yet (`FutureIsEmpty`);
  that an active job has a task needs to know which caller works on which job
  (`CallersKnowTheirJob`), that aborted tasks run and that a task that has not
  ended has no outcome (`TasksAreConsistent`). `JobsInv` is their conjunction
  with the properties; `NextInv` shows action by action that it is preserved.
  `JobsCreatedFirst` needs `UnheardIsNew`: a job without an event has no running
  task, no abort handle, and no caller past the creation.
  `HistoryInvariant` and `HistoryTellsNoLies` hold with failing file operations,
  overlapping persists and restarts. That the file agrees with the table is not inductive either: `HistoryInv` adds that every snapshot and every
  temporary file agrees with it, and none names a job that is not created yet.
  An outcome is followed from the table to a snapshot, a temporary file and the
  history (`AgreesKept`, with `TableKept` for what a step may do to the table).
- `ProfileProofs`: `ProfileInvariant`, `ProfileTypeCorrect`, `ProfileLock`, for
  any actors, processes, profiles and faults. The lock property needs that the
  work of an actor fits its position (`WellFormed`): an actor that waits is an
  update, an actor in a snapshot is in a transaction, an import has a uid and a
  content. The proof keeps the control of an actor apart from the files
  (`Control`, `Data`) and has one lemma for each way to go on (`FailKeeps`,
  `LeaveKeeps`, `AfterKeeps`, `StepKeeps`, ...), which the lemmas about the
  actions cite.
  Its second half follows the content of the files. `Track` says, at every
  position of an actor that holds the lock and that nobody disturbed, what has
  become of the catalog, the files, the runtime configuration and the core
  since it took the lock, on the way forth (`Forward`), on the way back
  (`Backward`), and of what runs (`Ran`). `TransactionsTracked` needs no
  hypothesis, and `RollbackRestoresAll` follows from it. `CommitApplies` needs
  `SwitchesMain`: `Switchable` has subscriptions and local profiles only, which
  is what the interface offers; with an enhancement as the current profile the
  generator has nothing to apply (a listed hazard, for the command line does not
  ask). Where in addition `Tidy` holds (one process, operations that take the
  lock, no cancellation, no file operation that fails in a rollback; each of
  these has a run or a hazard that shows what goes wrong without it),
  `TransactionsRefine` proves the refinement of `AtomicProfiles`: the initial
  states map to initial states and each step to a step or a stutter, and
  `NeverMisleading` is `AtomicSound` read through it.
- `AtomicProofs`: `AtomicSound`, the abstract store never has a misleading
  current profile. Its invariant adds that the entries of enhancements are
  never current.
- `KernelProofs`: `KernelTypeCorrect` and `KernelChildShown` for any processes,
  commands, faults and ends; `KernelSettled` where signals do not fail
  (`kernel_duplicate` shows why). `KernelInv` says of each position what the
  actor's variables are (`Placed`), who holds the operation lock and what it
  protects (`Guarded`), and what the manager shows (`Managed`).
  `KernelOneCore` is for one process that does not end and has no faults, the
  hypotheses of `kernel_one`, and for any number of operations, tasks and
  cores. `OneCore` is not inductive: `OneCoreInv` adds that either every core
  has somebody who waits for it, or the only one is that of an earlier process,
  its pid file tells so, and every operation that is under way will find it.
- `ActionProofs`. `Settings`: `SettingsInv` (what an operation has with it, in
  each phase, agrees with the file it has written and with what it would write
  back) gives `SettingsReverted`, of the rollbacks that are written and the
  one that the desktop's switch reports, and `SettingsApplied`. `Selections`:
  `ChoicesInv` says that the list on disk has a group once, and that a saved
  selection that the running core accepts is the one it uses, or a worker is on
  its way to tell it, or it is `unsure`; `ChoicesInForce` follows once nobody is
  at work. `Subscription`: `SubscriptionInv` ties what a task carries to the
  entry as it is now; `SweepMatches` shows the two computations of the due time
  equal for every word size, `SubscriptionChoices` that an update keeps what the
  user chose before it.
- `ScreenProofs`. `Metrics`: `MetricsInv` bounds the age of the traffic at each
  place it passes, and `TrafficRecent` adds them up. `Tui`: `ScreenInv`, kept by the
  clearing of lists and providers too, gives `CursorShown` and `CopyCurrent`; `PinnedSurvives` is an action property.
  `ProxyRows`: every method of the record is shown to keep the current profile
  (`Keeps`), so that `RowsAreOfCurrent` is about the few that replace it.
  `StickySurvives` follows the names that a cursor remembers through a refresh
  (`HoldsGroup`, `HoldsNode`): placing it on new rows (`PlaceHolds`), reading the
  catalog (`ProfilesHold`) and remembering again what is on screen (`PaneHolds`)
  leave names that mean the same rows, and the clamp at the end of each refresh
  lands on the rows that the names find, if they show (`ClampsLand`). The page's
  cursor gets there because a choice of the user puts the remembered name first
  (`Prefer`), the dashboard's because it is restored by name after it was placed.
  That sorting shows exactly the rows of the filter is `NodesSort`. The only
  invariant it needs besides `RowsInv` is that rows have names (`RowsPlaced`):
  every key, switch, import and refresh is gone through for that.
  `ProviderWait`: `WaitInv` has a bound of the time for each place of the wait,
  and says that what was told and what is left to tell are the beginning of one
  list of names; `WaitBounded` needs that the list is without repeats and has
  the names that groups use first (`NamesInOrder`), for every runtime file and
  every listing.
  `InputReader`: `ReaderInv` says that what was sent and what is left are what
  parsing all bytes read so far gives, as long as no read ended in a marker. One
  read more is the parsing of what is left with the new bytes behind it
  (`ParseOfMore`). That rests on a turn of the loop doing the same when more
  bytes follow (`EventStays`: the event is there already, or nothing was used),
  which fails for an ESC at the end and for no other byte; that markers stay
  outside of such cuts is `OutsideIsUntorn`.
- `DocumentProofs`. `RuntimeDocument`: `DocumentInv` says that the file on disk
  is `EnsureGroup(Sanitize(...))` of the layers of some inputs and of the chain
  of dialers. `LayersKeepTheirOrder` goes through the layers one by one: each
  gives the watched keys to the next (`Agree`), and the section for TUN, which
  is merged key by key, has in every key what the last layer says that speaks of
  it (`LastTunOfMore`); what the DNS file does to its two sections is `DnsLayer`,
  and which keys the profile has with its merges and scripts is `ProfileHas`.
  `NamesStillResolve` needs what the pruning keeps of each
  list (`RetainedIs`) and that a name that resolved before and is no placeholder
  resolves after it; `FilesCanBeSteered` needs that the name of a new group is
  free (`FreeIsFree`: among one name more than there are names in use, one is
  free) and that all lists still have their forms (`Sound`). `Subscription`:
  `FilesInv` ties a task to the documents that some body converts to, and
  `NodesAre` says what the recursion over the lines gives: a node for each line,
  with names all different, so that the file `ConvertedIsUsable`.
  `ControllerReader`: `FramesInv` says where a request is: in the head
  (`InHead`), behind n whole chunks, with the frames of these handed on or
  counted and all bytes behind them held back (`AfterChunk`), in a body of one
  piece (`InPiece`), or over with what is expected of it. The bytes held back
  are a piece of `Wire`, so that each action is about what stands there: a chunk
  is seen when all of it has come and not before, and then it is the chunk that
  was sent (`ChunkComes`, `ChunkSeen`); what the next chunk is tells how much of
  the answer was sent (`SeenMeans`). `ScanPrefix` says that a scan ends where it
  ends on more bytes, from which `PartIs` (a chunk gives the document that it
  opens with) and `PieceSeen` follow, and `DecodeIs` what the loop of
  `decode_chunked_body` gives. The theorems hold for chunks of up to nine bytes,
  since the size of a chunk is one digit in the model, any number of them, and
  any sizes of reads.

Induction over data is done without the library's rules, whose parameter is an
operator: `LeastExists` (a nonempty set of natural numbers has a least one, from
`NatLessThanWellFounded` and `WFMin`) is applied to the set of the numbers for
which the claim is false. `AllUpTo` and `Recursion` in `ListProofs` put that in a
form to cite: a set of numbers that has 0 and every successor is all of them, and
a recursive function is what its equation says. So `RepeatsGone` says what the recursive function in
`WithoutRepeats` computes for every list, and `Sorts` that a finite set can be
sorted by a strict order. Connections and other rows have unique names, so that
`RemoveFirst` of `Tui` is the code's `retain`.

Assumptions: the named assumptions of the modules, which TLC evaluates in the
runs. `SettingsAssumption`: the default port is one of the ports, the marks for
absent and unreadable are no values. `SelectionsAssumption`: an earlier run left
a list with one selection for a group, as `upsert` keeps it.
`RowsAssumption`: a listing is a list of groups with a name, a node in use or
none, and nodes with names.
`SubscriptionAssumption`: the clock is below the last second that the word can
count, the interval of a header is a number, and bodies have lines in the form
the parsers look at (`LineFits`).
`DocumentAssumption`: the sections of documents that are not `IllShaped` are
lists of records with the fields the code reads. `ControllerAssumption`: an
answer is made of chunks that open with a document or with none of which any
beginning is one, or of one document with blanks behind it, and no more of it is
sent than there is; that a chunk opens with one document says what
`FramesComeWhole` counts, and restricts the bytes in nothing else.
`ReaderAssumption`: a stream is a sequence of bytes. `ScreenAssumption`: the pages
have lists of names and the setting for DNS has a switch. `WaitAssumption`:
time-outs and the limit are numbers, the file and the listings are sequences.

## 6 What is only model-checked

- Liveness (`JobIsOver`, `WaitingUpdateEnds`, `ExitIsNoticed`) is beyond the
  prover.
- `TypeOK` of `MCParts`, which puts ten parts side by side for TLC. The type
  invariants of the parts are proved one by one, except that of `ProxyRows`.
- The other way round, failing file operations of the history are in the proofs
  and not in a run: with them `jobs_history` takes longer than a run should.

## 7 Disagreements found

- `jobs_stale`: `persist_history_best_effort` (`tui/jobs.rs:389`) takes its
  snapshot under the mutex and writes it outside. A slower writer with an older
  snapshot renames last; an outcome that was announced is not in the file, and
  after a restart the job is shown as cancelled.
- `profiles_select`: saving a selection loads, patches and writes the catalog
  without `profile_switch_lock` (`tui/actions/controller.rs:177`). An update
  that has loaded before and saves after writes the old selection back, though
  the user was told that the selection is saved.
- `profiles_two`: the lock is a mutex in the process
  (`tui/actions/profile_transaction.rs:105`). When the interface activates an
  import that fails while a command deletes the profile that was current, the
  rollback restores a catalog whose current profile has no file.
- `kernel_duplicate`: when the core may not be signalled (it was started by
  another user), `signal_and_wait_pid` (`tui/kernel.rs:921`) returns before it
  settles the state, and the manager keeps `Stopping` and its job. `start` does
  not refuse `Stopping`, and `external_snapshot` does not look into the pid file
  while the state is neither stopped nor crashed: a second core is started.

- `settings_controller`: looking at the settings asks a running core where it
  listens and stores the answer (`tui/actions/config.rs:107`, `:593`), and a
  change of the port stores that the controller is on if the core listens
  (`:551`). A core that somebody else started, or one that was started before the
  user switched the controller off, so enables it for every later core, while
  `README.en.md:11` says that it is "only enabled when the user explicitly turns
  it on".

`set_dns_enabled` and `set_rule_provider_download_proxy` (`tui/actions/config.rs:199`,
`:252`) ignore that the write of their rollback failed, and tell the user that they
rolled back; the setting stays. `Settings` models this, and `RevertedMeansRestored`
is therefore about rollbacks that are written, and the one of `system.rs`, which
looks at the result.

`OneCore` fails in two more ways that no document speaks about. The
markers of a core that exited are removed without the lock
(`tui/kernel.rs:160`, and after a crash in `refresh_child_exit`), so they may be those of a
core that was started meanwhile; once the process is quit, the next one does not
find that core and starts another. And a process killed between the spawn and
the pid file leaves a core that nobody finds. `kernel_one` with three operations
and `MaxEnds = 1` reaches both, the second one first.

## 8 What is not modelled

Formats on the wire beyond heads, chunks and frames; parsing and printing of
YAML; JavaScript; drawing and texts; the commands of each platform for TUN and
the system proxy (in `Settings` they succeed, fail, or fail half way);
the delegation to systemd; packaging; the parsing of the command line.
`AppState.config.profiles` is written and never read. The order of entries in
the catalog is left open (`NextCurrents` may choose any remaining main profile),
and so are reordering and the normalisation of a catalog edited by hand.
Connections, rules and logs are single requests without state; the interface's
lists of them are in `Tui`. A validation succeeds or fails: its timeout is a
failure. Panics of tasks are not modelled.

## 9 Plan

Done: the components above, the twelve runs, eight proof modules. Left, in
order:

1. Two job managers on one history file, with ids of a second and a sequence;
   two processes on one settings file.
2. `Settings` composed with `ProfileTransaction` over `runtime.yaml`, and
   `Selections` with `Kernel`: now each has the part of the other that it needs.
3. Crashes between the file operations of a transaction, and the sweep of what
   they leave behind.
4. Reordering and normalisation of the catalog.
