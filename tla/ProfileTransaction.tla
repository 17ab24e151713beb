------------------------ MODULE ProfileTransaction ------------------------
(***************************************************************************)
(* Profile operations on the files of one Clash TUI home directory:        *)
(* run_profile_transaction (clash-tui/src/actions/profile_transaction.rs)  *)
(* with the five mutations that go through it, the writers that do not     *)
(* (saving a proxy selection, importing a local file, starting the core),  *)
(* and the cancellation of an update job in the middle.                    *)
(*                                                                         *)
(* An action is one file operation or one decision between two awaits.     *)
(* profiles.yaml is written in place, so a save is a truncation and then   *)
(* the content, and readers that hold no lock see both.  `base`, `dirty`   *)
(* and `saved` are history variables: the program has nothing like them.   *)
(***************************************************************************)
EXTENDS Integers, ProfileCatalog

CONSTANTS
    Clients,       \* tasks that run operations of the user, one at a time
    Tasks,         \* spawned subscription updates
    ProcOf,        \* the process an actor lives in: the lock is per process
    Kinds,         \* the operations that happen
    Switchable,    \* uids the user switches to; no check of their kind is made
    Aborts,        \* update jobs may be cancelled
    IoFaults,      \* file operations fail: "never", outside rollbacks, "always"
    RuntimeFaults, \* validation, reload and spawn may fail
    MaxOps,        \* bound: operations begun
    Torn,          \* profiles.yaml between truncation and content
    Free           \* the lock is not held

Actors == Clients \cup Tasks
Procs == {ProcOf[a] : a \in Actors}
Locked == {"update", "switch", "delete", "import", "activate"}
AllKinds == Locked \cup {"select", "importLocal", "start"}

ASSUME TransactionAssumption ==
    /\ Clients \cap Tasks = {}
    /\ Free \notin Actors
    /\ Torn \notin Catalogs
    /\ Kinds \subseteq AllKinds /\ Switchable \subseteq Uids
    /\ Aborts \in BOOLEAN /\ RuntimeFaults \in BOOLEAN
    /\ IoFaults \in {"never", "forward", "always"}
    /\ MaxOps \in Nat

VARIABLES
    catalog,  \* profiles.yaml
    file,     \* the profile files
    runtime,  \* the generated runtime configuration
    core,     \* mihomo: does it run, and the configuration it loaded
    lock,     \* profile_switch_lock of each process
    pc,       \* where an actor is
    work,     \* its local variables
    ops,      \* operations begun
    base,     \* history: files and configurations when the actor took the lock
    dirty,    \* history: actors in whose transaction somebody else wrote
    saved     \* history: the selection last reported as saved

control == <<pc, work>>
locking == <<lock, base>>
vars == <<catalog, file, runtime, core, control, locking, ops, dirty, saved>>

NoOp == [kind |-> "none", uid |-> NoUid, ver |-> NoFile, sel |-> NoSel, start |-> FALSE]
Request(kind, u) == [NoOp EXCEPT !.kind = kind, !.uid = u]
NoFiles == [u \in Uids |-> NoFile]
NoBase == [catalog |-> EmptyCatalog, file |-> NoFiles, runtime |-> Fallback, conf |-> Fallback]

\* op: the request; before, mem: catalogs in memory; bytes, files: what the
\* snapshot holds; rt: the generated configuration; todo: files still to be
\* removed or restored; rb: the transaction is being rolled back; stray: the
\* task was aborted and only a blocking file operation of it is left.
Rest == [op |-> NoOp, before |-> EmptyCatalog, mem |-> EmptyCatalog, bytes |-> EmptyCatalog,
         files |-> NoFiles, rt |-> Fallback, todo |-> {}, rb |-> FALSE, stray |-> FALSE]

Kind(a) == work[a].op.kind
Uid(a) == work[a].op.uid
RolledBack(a) == work[a].rb
Stray(a) == work[a].stray
Holds(a) == lock[ProcOf[a]] = a

Init ==
    /\ catalog \in {c \in Catalogs : \/ c = EmptyCatalog
                                    \/ /\ c.current \in Mains(c)
                                       /\ \A u \in Uids : Has(c, u) => c.item[u].sel = NoSel}
    /\ file = [u \in Uids |-> IF Has(catalog, u) THEN catalog.item[u].rev ELSE NoFile]
    /\ runtime = Generated(catalog, file)
    /\ core \in {[running |-> FALSE, conf |-> Fallback], [running |-> TRUE, conf |-> runtime]}
    /\ lock = [p \in Procs |-> Free]
    /\ pc = [a \in Actors |-> "idle"]
    /\ work = [a \in Actors |-> Rest]
    /\ ops = 0
    /\ base = [a \in Actors |-> NoBase]
    /\ dirty = {}
    /\ saved = [u \in Uids |-> NoSel]

-----------------------------------------------------------------------------
(* How an actor goes on.                                                    *)

Goto(a, l) == pc' = [pc EXCEPT ![a] = l]
Keep(a, w) == work' = [work EXCEPT ![a] = w]
\* Mutant: the local state is dropped and the operation goes on.
Forget(a) == Keep(a, Rest) /\ UNCHANGED pc

Return(a) == Goto(a, "idle") /\ Keep(a, Rest)

\* A transaction that is through has committed, or has been rolled back; an
\* operation without a transaction returns.
End(a) == IF Kind(a) \notin Locked THEN "idle"
          ELSE IF RolledBack(a) THEN "rolledBack" ELSE "committed"
Leave(a) == IF Kind(a) \in Locked /\ ~Stray(a) THEN Goto(a, End(a)) /\ UNCHANGED work ELSE Return(a)

\* Mutant: a delete saves the file of the profile only.
SnapshotMain(op, before) == IF op.kind = "switch" THEN {} ELSE {op.uid}

\* The files a snapshot holds: ProfileSnapshotSpec.
SnapshotUids(op, before) ==
    CASE op.kind = "switch" -> {}
      [] op.kind = "delete" -> DeletedUids(before, op.uid)
      [] OTHER -> {op.uid}

\* Mutant: an error ends a transaction at once.
FailAtOnce(a) ==
    \/ (Kind(a) \notin Locked \/ Stray(a)) /\ Return(a)
    \/ Kind(a) \in Locked /\ ~Stray(a) /\ Goto(a, "failed") /\ UNCHANGED work

\* An error ends an operation without a transaction, starts the rollback of one
\* with, and ends the rollback when it happens there.
Fail(a) ==
    \/ (Kind(a) \notin Locked \/ Stray(a)) /\ Return(a)
    \/ /\ Kind(a) \in Locked /\ ~Stray(a) /\ ~RolledBack(a)
       /\ Goto(a, "trunc")
       /\ Keep(a, [work[a] EXCEPT !.rb = TRUE, !.mem = work[a].bytes,
                                  !.todo = SnapshotUids(work[a].op, work[a].before)])
    \/ /\ Kind(a) \in Locked /\ ~Stray(a) /\ RolledBack(a)
       /\ Goto(a, "rollbackFailed") /\ UNCHANGED work

IoMayFail(a) == IoFaults = "always" \/ (IoFaults = "forward" /\ ~RolledBack(a))

\* After its last file operation an aborted task is gone.
After(a, l) == IF Stray(a) THEN Return(a) ELSE Goto(a, l) /\ UNCHANGED work

\* Somebody else wrote while b is in a transaction.
Touch(a) == dirty' = dirty \cup {b \in Actors \ {a} : Holds(b)}

\* What a reader gets: a catalog caught between truncation and content reads as
\* an empty document, which is an empty catalog, or does not parse: Torn.
Reads == IF catalog = Torn THEN {EmptyCatalog, Torn} ELSE {catalog}

-----------------------------------------------------------------------------
(* Beginning an operation.                                                  *)

Begin(a, kind) == /\ pc[a] = "idle" /\ kind \in Kinds
                  /\ ops < MaxOps /\ ops' = ops + 1

TakeLock(a) ==
    /\ lock[ProcOf[a]] = Free
    /\ lock' = [lock EXCEPT ![ProcOf[a]] = a]
    /\ base' = [base EXCEPT ![a] = [catalog |-> catalog, file |-> file,
                                    runtime |-> runtime, conf |-> core.conf]]

\* An update job has downloaded: the uid was a subscription when the download
\* was prepared.  A cancelled or evicted job of the same uid may still run.
BeginUpdate(t, u, v) ==
    /\ Begin(t, "update")
    /\ catalog # Torn /\ u \in Remote /\ Has(catalog, u)
    /\ Goto(t, "wait") /\ Keep(t, [Rest EXCEPT !.op = [Request("update", u) EXCEPT !.ver = v]])
    /\ UNCHANGED <<catalog, file, runtime, core, locking, dirty, saved>>

\* ProfileTransactionLock::Wait
WaitLock(t) ==
    /\ pc[t] = "wait"
    /\ TakeLock(t) /\ Goto(t, "capture")
    /\ UNCHANGED <<catalog, file, runtime, core, work, ops, dirty, saved>>

\* ProfileTransactionLock::Try; a held lock refuses the operation, which then
\* has changed nothing.
BeginTransaction(c, kind, u, v, start) ==
    /\ Begin(c, kind)
    /\ TakeLock(c) /\ Goto(c, "capture")
    /\ Keep(c, [Rest EXCEPT !.op = [Request(kind, u) EXCEPT !.ver = v, !.start = start]])
    /\ UNCHANGED <<catalog, file, runtime, core, dirty, saved>>

BeginSwitch(c, u, start) == u \in Switchable /\ BeginTransaction(c, "switch", u, NoFile, start)
BeginDelete(c, u) == BeginTransaction(c, "delete", u, NoFile, FALSE)
BeginImport(c, u, v) == u \in Remote /\ BeginTransaction(c, "import", u, v, FALSE)
BeginActivate(c, u, v, start) == u \in Remote /\ BeginTransaction(c, "activate", u, v, start)

\* The operations that take no lock.
BeginSelect(c, s) ==
    /\ Begin(c, "select") /\ Goto(c, "current")
    /\ Keep(c, [Rest EXCEPT !.op = [Request("select", NoUid) EXCEPT !.sel = s]])
    /\ UNCHANGED <<catalog, file, runtime, core, locking, dirty, saved>>

BeginImportLocal(c, u, v) ==
    /\ Begin(c, "importLocal") /\ u \in Local /\ Goto(c, "load")
    /\ Keep(c, [Rest EXCEPT !.op = [Request("importLocal", u) EXCEPT !.ver = v]])
    /\ UNCHANGED <<catalog, file, runtime, core, locking, dirty, saved>>

BeginStart(c) ==
    /\ Begin(c, "start") /\ Goto(c, "start")
    /\ Keep(c, [Rest EXCEPT !.op = Request("start", NoUid)])
    /\ UNCHANGED <<catalog, file, runtime, core, locking, dirty, saved>>

-----------------------------------------------------------------------------
(* ProfileTransactionSnapshot::capture; its error returns at once.          *)

others == <<catalog, file, runtime, core, locking, ops, dirty, saved>>

Capture(a) ==
    /\ pc[a] = "capture"
    /\ \/ Torn \in Reads /\ Goto(a, "failed") /\ UNCHANGED work
       \/ \E cat \in Reads \ {Torn} :
             Goto(a, "snapshot") /\ Keep(a, [work[a] EXCEPT !.before = cat])
    /\ UNCHANGED others

CaptureFails(a) == Kind(a) \in {"update", "delete"} /\ ~Has(work[a].before, Uid(a))

CaptureFiles(a) ==
    LET held == SnapshotUids(work[a].op, work[a].before) IN
    /\ pc[a] = "snapshot"
    /\ \/ /\ CaptureFails(a) \/ IoMayFail(a)
          /\ Goto(a, "failed") /\ UNCHANGED work
       \/ /\ ~CaptureFails(a)
          /\ Goto(a, "load")
          /\ Keep(a, [work[a] EXCEPT
                !.bytes = catalog,
                !.files = [u \in Uids |-> IF u \in held THEN file[u] ELSE NoFile]])
    /\ UNCHANGED others

-----------------------------------------------------------------------------
(* The mutations of the store.                                              *)

\* save_proxy_selection: the selection belongs to the current profile.
FindCurrent(a) ==
    /\ pc[a] = "current"
    /\ \/ Torn \in Reads /\ Return(a)
       \/ \E cat \in Reads \ {Torn} :
             LET named == cat.current # NoUid /\ Has(cat, cat.current) IN
             \/ ~named /\ Return(a)
             \/ named /\ Goto(a, "load") /\ Keep(a, [work[a] EXCEPT !.op.uid = cat.current])
    /\ UNCHANGED others

Importing == {"import", "activate", "importLocal"}

\* Only an import goes on with a catalog that does not parse: as an empty one.
LoadFails(a) == Torn \in Reads /\ Kind(a) \notin Importing

MutationFails(a, cat) ==
    \/ Kind(a) \in {"switch", "delete"} /\ ~Has(work[a].before, Uid(a))
    \/ Kind(a) \notin Importing /\ ~Has(cat, Uid(a))
    \/ Kind(a) \in Importing /\ (Has(cat, Uid(a)) \/ file[Uid(a)] # NoFile)

Mutated(op, cat) ==
    IF op.kind = "update" THEN {PatchUpdated(cat, op.uid, op.ver)}
    ELSE IF op.kind = "switch" THEN {SwitchCurrent(cat, op.uid)}
    ELSE IF op.kind = "delete" THEN {DeleteItem(cat, op.uid, n) : n \in NextCurrents(cat, op.uid)}
    ELSE IF op.kind = "select" THEN {PatchSelected(cat, op.uid, op.sel)}
    ELSE {AppendMetadata(cat, op.uid, op.ver)}

LoadAndMutate(a) ==
    /\ pc[a] = "load"
    /\ \/ LoadFails(a) /\ Fail(a)
       \/ \E cat \in Reads \ {Torn} :
            \/ MutationFails(a, cat) /\ Fail(a)
            \/ /\ ~MutationFails(a, cat)
               /\ Goto(a, IF Kind(a) \in Importing \cup {"update"} THEN "file" ELSE "trunc")
               /\ \E new \in Mutated(work[a].op, cat) :
                     Keep(a, [work[a] EXCEPT
                         !.mem = new,
                         !.todo = IF Kind(a) = "delete" THEN DeletedUids(cat, Uid(a)) ELSE {}])
    /\ UNCHANGED others

\* The profile file is written before the catalog names it.
WriteFile(a) ==
    /\ pc[a] = "file"
    /\ \/ file' = [file EXCEPT ![Uid(a)] = work[a].op.ver] /\ After(a, "trunc")
       \/ /\ IoMayFail(a)
          /\ file' \in {file, [file EXCEPT ![Uid(a)] = Partial]}
          /\ Fail(a)
    /\ Touch(a)
    /\ UNCHANGED <<catalog, runtime, core, locking, ops, saved>>

\* save_file, and the restoring of profiles.yaml: one tokio::fs::write.
TruncateCatalog(a) ==
    /\ pc[a] \in {"trunc", "trunc2"}
    /\ \/ /\ catalog' = Torn
          /\ Goto(a, IF pc[a] = "trunc" THEN "fill" ELSE "fill2") /\ UNCHANGED work
       \/ IoMayFail(a) /\ Fail(a) /\ UNCHANGED catalog
    /\ Touch(a)
    /\ UNCHANGED <<file, runtime, core, locking, ops, saved>>

\* Mutant: only profiles.yaml is restored.
AfterFillNoFiles(a) ==
    IF Kind(a) = "activate" /\ pc[a] = "fill" /\ ~RolledBack(a) THEN "switch"
    ELSE IF Kind(a) = "delete" /\ ~RolledBack(a) THEN "files"
    ELSE "refresh"

AfterFill(a) ==
    IF RolledBack(a) THEN "files"
    ELSE IF Kind(a) = "activate" /\ pc[a] = "fill" THEN "switch"
    ELSE IF Kind(a) = "delete" THEN "files"
    ELSE "refresh"

\* Two writers that truncated before either wrote may leave a mixture.
FillCatalog(a) ==
    /\ pc[a] \in {"fill", "fill2"}
    /\ \/ /\ catalog' \in {work[a].mem} \cup (IF catalog = Torn THEN {} ELSE {Torn})
          /\ IF Kind(a) \in Locked THEN After(a, AfterFill(a)) ELSE Return(a)
          /\ saved' = [u \in Uids |->
                IF RolledBack(a) THEN saved[u]
                ELSE IF Kind(a) = "select" /\ u = Uid(a) THEN work[a].op.sel
                ELSE IF Kind(a) \in Importing /\ u = Uid(a) THEN NoSel
                ELSE IF Kind(a) = "delete" /\ u \in work[a].todo THEN NoSel
                ELSE saved[u]]
       \/ IoMayFail(a) /\ Fail(a) /\ UNCHANGED <<catalog, saved>>
    /\ Touch(a)
    /\ UNCHANGED <<file, runtime, core, locking, ops>>

\* import and activate: the store is asked to switch to what it has imported.
SwitchImported(a) ==
    /\ pc[a] = "switch"
    /\ \/ Torn \in Reads /\ Fail(a)
       \/ \E cat \in Reads \ {Torn} :
            \/ ~Has(cat, Uid(a)) /\ Fail(a)
            \/ /\ Has(cat, Uid(a)) /\ Goto(a, "trunc2")
               /\ Keep(a, [work[a] EXCEPT !.mem = SwitchCurrent(cat, Uid(a))])
    /\ UNCHANGED others

\* The files of deleted entries are removed, those of the snapshot restored, one
\* after the other.
RemoveOrRestoreFile(a) ==
    /\ pc[a] = "files"
    /\ \/ /\ work[a].todo = {}
          /\ Goto(a, "refresh") /\ UNCHANGED <<work, file>>
       \/ \E u \in work[a].todo :
            \/ /\ file' = [file EXCEPT ![u] = IF RolledBack(a) THEN work[a].files[u] ELSE NoFile]
               /\ IF Stray(a) THEN Return(a)
                  ELSE Keep(a, [work[a] EXCEPT !.todo = @ \ {u}]) /\ UNCHANGED pc
            \/ /\ IoMayFail(a)
               /\ file' \in {file} \cup (IF RolledBack(a) THEN {[file EXCEPT ![u] = Partial]} ELSE {})
               /\ Fail(a)
    /\ Touch(a)
    /\ UNCHANGED <<catalog, runtime, core, locking, ops, saved>>

-----------------------------------------------------------------------------
(* refresh_state_profiles and apply_runtime_policy.                         *)

\* Mutant: an update of the current profile applies nothing.
AppliesNoUpdate(op, before, after) ==
    \/ op.kind \in {"switch", "activate"}
    \/ op.kind = "delete" /\ before.current = op.uid

\* RuntimePolicy: Always, IfCurrentIs, IfCurrentWas, Never.
Applies(op, before, after) ==
    \/ op.kind \in {"switch", "activate"}
    \/ op.kind = "update" /\ after.current = op.uid
    \/ op.kind = "delete" /\ before.current = op.uid

Refresh(a) ==
    /\ pc[a] = "refresh"
    /\ \/ Torn \in Reads /\ Fail(a)
       \/ \E cat \in Reads \ {Torn} :
             /\ Goto(a, IF Applies(work[a].op, work[a].before, cat) THEN "generate" ELSE End(a))
             /\ UNCHANGED work
    /\ UNCHANGED others

\* RuntimeConfigGenerator::generate reads the catalog and the profile again.
Generate(a) ==
    /\ pc[a] \in {"generate", "startGenerate"}
    /\ \/ Torn \in Reads /\ Fail(a)
       \/ \E cat \in Reads \ {Torn} :
            \/ GenerateFails(cat, file) /\ Fail(a)
            \/ /\ ~GenerateFails(cat, file)
               /\ Goto(a, IF pc[a] = "generate" THEN "write" ELSE "startWrite")
               /\ Keep(a, [work[a] EXCEPT !.rt = Generated(cat, file)])
    /\ UNCHANGED others

WriteRuntime(a) ==
    /\ pc[a] \in {"write", "startWrite"}
    /\ \/ /\ runtime' = work[a].rt
          /\ After(a, IF pc[a] = "write" THEN "validate" ELSE "spawn")
       \/ IoMayFail(a) /\ Fail(a) /\ UNCHANGED runtime
    /\ Touch(a)
    /\ UNCHANGED <<catalog, file, core, locking, ops, saved>>

Validate(a) ==
    /\ pc[a] = "validate"
    /\ \/ Goto(a, "apply") /\ UNCHANGED work
       \/ RuntimeFaults /\ Fail(a)
    /\ UNCHANGED others

\* A running core is reloaded, a stopped one started if the operation says so,
\* but not by a rollback.
Apply(a) ==
    /\ pc[a] = "apply"
    /\ \/ core.running /\ Goto(a, "reload") /\ UNCHANGED work
       \/ /\ ~core.running /\ work[a].op.start /\ ~RolledBack(a)
          /\ Goto(a, "start") /\ UNCHANGED work
       \/ /\ ~core.running /\ ~(work[a].op.start /\ ~RolledBack(a))
          /\ Leave(a)
    /\ UNCHANGED others

\* A reload that failed may have been carried out all the same.
Reload(a) ==
    /\ pc[a] = "reload"
    /\ \/ core.running /\ core' = [core EXCEPT !.conf = runtime] /\ Leave(a)
       \/ /\ core.running /\ RuntimeFaults
          /\ core' \in {core, [core EXCEPT !.conf = runtime]}
          /\ Fail(a)
       \/ ~core.running /\ UNCHANGED core /\ Fail(a)
    /\ Touch(a)
    /\ UNCHANGED <<catalog, file, runtime, locking, ops, saved>>

\* KernelManager::start: a core that runs by now is left alone.
StartCore(a) ==
    /\ pc[a] = "start"
    /\ \/ core.running /\ Leave(a)
       \/ ~core.running /\ Goto(a, "startGenerate") /\ UNCHANGED work
    /\ UNCHANGED others

SpawnCore(a) ==
    /\ pc[a] = "spawn"
    /\ \/ core' = (IF core.running THEN core ELSE [running |-> TRUE, conf |-> runtime]) /\ Leave(a)
       \/ RuntimeFaults /\ UNCHANGED core /\ Fail(a)
    /\ Touch(a)
    /\ UNCHANGED <<catalog, file, runtime, locking, ops, saved>>

-----------------------------------------------------------------------------
(* The end of a transaction, a cancel, and the core stopping by itself.     *)

Outcomes == {"committed", "rolledBack", "rollbackFailed", "failed"}

\* Mutants: a lock is released by whoever ends; a failed capture keeps it.
UnlockAny(a) ==
    /\ lock' = [lock EXCEPT ![ProcOf[a]] = Free]
    /\ base' = [base EXCEPT ![a] = NoBase]
    /\ dirty' = dirty \ {a}

UnlockUnlessFailed(a) ==
    /\ lock' = IF Holds(a) /\ pc[a] # "failed" THEN [lock EXCEPT ![ProcOf[a]] = Free] ELSE lock
    /\ base' = [base EXCEPT ![a] = NoBase]
    /\ dirty' = dirty \ {a}

Unlock(a) ==
    /\ lock' = IF Holds(a) THEN [lock EXCEPT ![ProcOf[a]] = Free] ELSE lock
    /\ base' = [base EXCEPT ![a] = NoBase]
    /\ dirty' = dirty \ {a}

Release(a) ==
    /\ pc[a] \in Outcomes
    /\ Unlock(a) /\ Return(a)
    /\ UNCHANGED <<catalog, file, runtime, core, ops, saved>>

\* The task of a cancelled job is dropped at an await: the lock is released and
\* nothing is rolled back.  A file operation that was handed to a blocking
\* thread goes on, once it has truncated the file it also fills it, and a reload
\* request may have been sent.
Abort(t) ==
    /\ Aborts
    /\ pc[t] # "idle" /\ ~Stray(t)
    /\ \/ pc[t] # "fill" /\ Return(t)
       \/ /\ \/ pc[t] \in {"file", "trunc", "fill", "write", "reload"}
             \/ pc[t] = "files" /\ work[t].todo # {}
          /\ Keep(t, [work[t] EXCEPT !.stray = TRUE]) /\ UNCHANGED pc
    /\ Unlock(t)
    /\ UNCHANGED <<catalog, file, runtime, core, ops, saved>>

CoreStops ==
    /\ core.running /\ core' = [running |-> FALSE, conf |-> Fallback]
    /\ UNCHANGED <<catalog, file, runtime, control, locking, ops, dirty, saved>>

Step(a) ==
    \/ Capture(a) \/ CaptureFiles(a) \/ FindCurrent(a) \/ LoadAndMutate(a) \/ WriteFile(a)
    \/ TruncateCatalog(a) \/ FillCatalog(a) \/ SwitchImported(a) \/ RemoveOrRestoreFile(a)
    \/ Refresh(a) \/ Generate(a) \/ WriteRuntime(a) \/ Validate(a) \/ Apply(a) \/ Reload(a)
    \/ StartCore(a) \/ SpawnCore(a) \/ Release(a)

Next ==
    \/ \E t \in Tasks, u \in Uids, v \in Versions : BeginUpdate(t, u, v)
    \/ \E t \in Tasks : WaitLock(t)
    \/ \E c \in Clients, u \in Uids, start \in BOOLEAN : BeginSwitch(c, u, start)
    \/ \E c \in Clients, u \in Uids : BeginDelete(c, u)
    \/ \E c \in Clients, u \in Uids, v \in Versions :
          \/ BeginImport(c, u, v) \/ BeginImportLocal(c, u, v)
          \/ \E start \in BOOLEAN : BeginActivate(c, u, v, start)
    \/ \E c \in Clients, s \in Selections : BeginSelect(c, s)
    \/ \E c \in Clients : BeginStart(c)
    \/ \E a \in Actors : Step(a)
    \/ \E t \in Tasks : Abort(t)
    \/ CoreStops

Spec == Init /\ [][Next]_vars

\* A step that can be taken is taken: every wait in it has a timeout.  A task that
\* waits for a mutex that stays free gets it.
Fairness ==
    /\ \A a \in Actors : WF_vars(Step(a))
    /\ \A t \in Tasks : WF_vars(WaitLock(t))

FairSpec == Spec /\ Fairness

-----------------------------------------------------------------------------
(* Properties.                                                              *)

Positions == {"idle", "wait", "current", "capture", "snapshot", "load", "file", "trunc", "fill",
              "switch", "trunc2", "fill2", "files", "refresh", "generate", "write", "validate",
              "apply", "reload", "start", "startGenerate", "startWrite", "spawn"} \cup Outcomes

Requests == [kind : Locked \cup {"select", "importLocal", "start", "none"}, uid : Uids \cup {NoUid},
             ver : Contents, sel : Selections \cup {NoSel}, start : BOOLEAN]
Works == [op : Requests, before : Catalogs, mem : Catalogs \cup {Torn},
          bytes : Catalogs \cup {Torn}, files : [Uids -> Contents], rt : Runtimes,
          todo : SUBSET Uids, rb : BOOLEAN, stray : BOOLEAN]

\* Every variable has its type.
TypeOK ==
    /\ catalog \in Catalogs \cup {Torn}
    /\ file \in [Uids -> Contents]
    /\ runtime \in Runtimes
    /\ core \in [running : BOOLEAN, conf : Runtimes]
    /\ lock \in [Procs -> Actors \cup {Free}]
    /\ pc \in [Actors -> Positions]
    /\ work \in [Actors -> Works]
    /\ ops \in 0..MaxOps
    /\ base \in [Actors -> [catalog : Catalogs \cup {Torn}, file : [Uids -> Contents],
                          runtime : Runtimes, conf : Runtimes]]
    /\ \A a \in Actors : pc[a] # "idle" => Kind(a) # "none"
    /\ dirty \subseteq Actors
    /\ saved \in [Uids -> Selections \cup {NoSel}]

\* a is between taking and releasing the lock.
InTransaction(a) == pc[a] \notin {"idle", "wait"} /\ Kind(a) \in Locked /\ ~Stray(a)

\* profile_switch_lock is held by exactly the actors in a transaction, whichever
\* way they leave it: so no two transactions of a process overlap, and a
\* transaction that failed, rolled back or was cancelled blocks nobody.
LockIsHeldInTransactions == \A a \in Actors : InTransaction(a) <=> Holds(a)

Alone(a) == Holds(a) /\ a \notin dirty

\* A rollback that reports success has put back the catalog and every profile
\* file, not only those of the snapshot: the snapshot covers all that the mutation
\* can have touched before one of its steps failed.  Nothing of the new profile is
\* left in the runtime configuration or in a running core.
RollbackRestores ==
    \A a \in Actors : pc[a] = "rolledBack" /\ Alone(a) =>
        /\ catalog = base[a].catalog /\ file = base[a].file
        /\ catalog # Torn =>
              /\ runtime \in {Generated(catalog, file), base[a].runtime}
              /\ core.running => core.conf \in {Generated(catalog, file), base[a].conf}

\* A transaction that commits and has changed what the core should run, by
\* another current profile or by another content of it, has written that as the
\* runtime configuration, and a running core has loaded it.  (A plain import
\* applies nothing, although the first profile imported becomes the current one.)
CommitAppliesCurrent ==
    \A a \in Actors :
        /\ pc[a] = "committed" /\ Alone(a) /\ Torn \notin {catalog, base[a].catalog}
        /\ Kind(a) # "import"
        /\ \/ Kind(a) \in {"switch", "activate"}
           \/ Generated(catalog, file) # Generated(base[a].catalog, base[a].file)
        => /\ runtime = Generated(catalog, file)
           /\ core.running => core.conf = runtime

Quiet == \A a \in Actors : pc[a] = "idle"

\* When nothing is under way, current names a profile that has an entry and a
\* file that was written to its end: no failed import, switch, update or delete
\* leaves a misleading current profile behind.
NoMisleadingCurrent ==
    Quiet /\ catalog # Torn /\ catalog.current # NoUid =>
        Has(catalog, catalog.current) /\ file[catalog.current] \in Versions

\* A selection that was reported as saved is in the catalog until the profile is
\* deleted or another one is saved.
SavedSelectionSurvives ==
    Quiet /\ catalog # Torn =>
        \A u \in Uids : saved[u] # NoSel => Has(catalog, u) /\ catalog.item[u].sel = saved[u]

\* An update that waits for the lock gets it and ends: no way out of a transaction
\* keeps the lock, and none waits for another.
WaitingUpdateEnds == \A t \in Tasks : pc[t] = "wait" ~> pc[t] = "idle"

\* Transactions are atomic: what the files show while nobody holds the lock, and
\* what they showed before while somebody does, changes as AtomicProfiles says.
Holders == {a \in Actors : Holds(a)}
Store == IF Holders = {} THEN [catalog |-> catalog, file |-> file]
         ELSE LET b == base[CHOOSE a \in Holders : TRUE]
              IN  [catalog |-> b.catalog, file |-> b.file]
Atomic == INSTANCE AtomicProfiles WITH store <- Store
TransactionsAreAtomic == Atomic!Spec
-----------------------------------------------------------------------------
(* The inductive invariant behind the theorems (ProfileProofs).             *)

\* What an actor works on fits where it is: only updates wait, only selections
\* look for the current profile, only transactions take a snapshot, and an
\* operation that needs a profile and a content has them.
WellFormed(l, w) ==
    /\ l = "wait" => w.op.kind = "update" /\ ~w.stray /\ ~w.rb
    /\ l = "current" => w.op.kind = "select"
    /\ l \in {"capture", "snapshot"} => w.op.kind \in Locked
    /\ l = "load" => w.op.kind \in Locked \cup {"select", "importLocal"}
    /\ w.op.kind \in {"update", "import", "activate", "importLocal"} => w.op.ver \in Versions
    /\ w.op.kind \in Locked \cup {"importLocal"} => w.op.uid \in Uids
    /\ w.op.kind = "select" => l = "current" \/ w.op.uid \in Uids

ProfileInv ==
    /\ TypeOK
    /\ \A a \in Actors : WellFormed(pc[a], work[a])
    /\ LockIsHeldInTransactions
=============================================================================
