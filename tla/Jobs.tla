-------------------------------- MODULE Jobs --------------------------------
(***************************************************************************)
(* The JobManager of one Clash TUI process (clash-tui/src/jobs.rs) and the *)
(* tasks it accounts for (clash-tui/src/subscriptions.rs): a job table     *)
(* behind a mutex, abort handles, a history file that is rewritten outside *)
(* the mutex, a broadcast of events, and a restart of the process.         *)
(*                                                                         *)
(* One action is one critical section of the inner mutex, one file         *)
(* operation, or one call that another thread can observe.  A job is its   *)
(* number: ids grow with `order`, so the oldest listed job is the smallest *)
(* number, and `JobInner.order` needs no sequence.  Job ids are taken to   *)
(* be unique across restarts (job-<seconds>-<sequence>).                   *)
(***************************************************************************)
EXTENDS Integers, FiniteSets

CONSTANTS
    Targets,      \* targets of the one job kind with tasks, profile-update
    Callers,      \* tasks that create and cancel jobs: key handler, sweep, CLI
    JobLimit,     \* JOB_LIMIT: jobs the table keeps
    MaxJobs,      \* bound: jobs ever created
    MaxProgress,  \* bound: progress() calls of one task (the code makes four)
    Reporting,    \* bound: the jobs whose tasks make them
    MaxRestarts,  \* bound: how often the process dies and starts again
    HistoryOn,    \* history_path is Some
    DiskFaults,   \* file operations of the history may fail
    TmpNames,     \* names of the temporary file: <pid>-<second>
    NoTarget,     \* the target of a job that was never created
    NoFile        \* a file that does not exist

Ids == 1..MaxJobs
Persisters == Callers \cup Ids     \* a caller, or the task of a job
NoJob == 0                         \* the job of an idle caller
Live == {"Pending", "Running"}
Terminal == {"Succeeded", "Failed", "Cancelled"}
Statuses == Live \cup Terminal \cup {"Absent"}
Histories == [Ids -> Statuses]     \* "Absent": not in the list

ASSUME JobsAssumption ==
    /\ MaxJobs \in Nat \ {0} /\ JobLimit \in Nat \ {0}
    /\ MaxProgress \in Nat /\ Reporting \subseteq Nat /\ MaxRestarts \in Nat
    /\ HistoryOn \in BOOLEAN /\ DiskFaults \in BOOLEAN
    /\ Callers \cap Ids = {}
    /\ NoFile \notin Histories
    /\ NoTarget \notin Targets

VARIABLES
    status,     \* JobInner.jobs: the status of every listed job
    target,     \* JobRecord.target
    nextId,     \* the next job to be created
    handles,    \* JobInner.abort_handles
    wpc,        \* where the task of a job is
    progressed, \* progress() calls the task has made
    aborting,   \* tasks on which abort() was called and which still run
    reaper,     \* spawned remove_abort_handle tasks
    cpc,        \* where a caller is
    cjob,       \* the job it works on
    pers,       \* the update a persister has made and not yet written or emitted
    writable,   \* history_writable
    tmp,        \* temporary history files
    history,    \* the history file
    lastEvent,  \* the last event broadcast about a job
    restarts

tableVars == <<status, target, nextId, handles>>
taskVars == <<wpc, progressed, aborting, reaper>>
callerVars == <<cpc, cjob>>
diskVars == <<writable, tmp, history>>
vars == <<tableVars, taskVars, callerVars, pers, diskVars, lastEvent, restarts>>

Nothing == [j \in Ids |-> "Absent"]
NoUpdate == [stage |-> "none", status |-> "Absent", snap |-> Nothing, file |-> NoFile]

\* update_job and cancel_report clone the record under the mutex; what is
\* emitted at the end is that clone.
Updated(s) == [NoUpdate EXCEPT !.stage = "snap", !.status = s]

IsLive(j) == status[j] \in Live
Listed == {j \in Ids : status[j] # "Absent"}
Runs(j) == wpc[j] \in {"start", "body", "end"}   \* the task has not ended
Ready(p) == pers[p].stage = "none"

Init ==
    /\ status = Nothing
    /\ target = [j \in Ids |-> NoTarget]
    /\ nextId = 1
    /\ handles = {}
    /\ wpc = [j \in Ids |-> "none"]
    /\ progressed = [j \in Ids |-> 0]
    /\ aborting = {}
    /\ reaper = {}
    /\ cpc = [c \in Callers |-> "idle"]
    /\ cjob = [c \in Callers |-> NoJob]
    /\ pers = [p \in Persisters |-> NoUpdate]
    /\ writable = TRUE
    /\ tmp = [t \in TmpNames |-> NoFile]
    /\ history = Nothing
    /\ lastEvent = [j \in Ids |-> "none"]
    /\ restarts = 0

-----------------------------------------------------------------------------
(* Creating a job: create_unique_active, then start_profile_update_job.     *)

\* Mutant: a job that has not started does not count.
RunningJobs(t) == {j \in Ids : status[j] = "Running" /\ target[j] = t}

ActiveJobs(t) == {j \in Ids : IsLive(j) /\ target[j] = t}

\* insert_job_locked makes room: the oldest job goes whatever its status,
\* and its abort handle with it.
Evicted == IF Cardinality(Listed) >= JobLimit
           THEN {j \in Listed : \A k \in Listed : j <= k}
           ELSE {}

\* An active job of the same target is returned and nothing changes.
CreateUniqueActive(c, t) ==
    /\ cpc[c] = "idle"
    /\ nextId <= MaxJobs
    /\ ActiveJobs(t) = {}
    /\ target' = [target EXCEPT ![nextId] = t]
    /\ status' = [j \in Ids |-> IF j = nextId THEN "Pending"
                                ELSE IF j \in Evicted THEN "Absent"
                                ELSE status[j]]
    /\ handles' = handles \ Evicted
    /\ nextId' = nextId + 1
    /\ cpc' = [cpc EXCEPT ![c] = "create"]
    /\ cjob' = [cjob EXCEPT ![c] = nextId]
    /\ pers' = [pers EXCEPT ![c] = Updated("Pending")]
    /\ UNCHANGED <<taskVars, diskVars, lastEvent, restarts>>

\* Mutant: nothing is sent to the subscribers.
CreateSilently(c) ==
    /\ cpc[c] = "create" /\ pers[c].stage = "emit"
    /\ pers' = [pers EXCEPT ![c] = NoUpdate]
    /\ cpc' = [cpc EXCEPT ![c] = "register"]
    /\ wpc' = [wpc EXCEPT ![cjob[c]] = "start"]
    /\ UNCHANGED <<tableVars, progressed, aborting, reaper, cjob, diskVars, lastEvent, restarts>>

\* JobCreated is emitted, the call returns and the task is spawned.
EmitCreated(c) ==
    /\ cpc[c] = "create" /\ pers[c].stage = "emit"
    /\ lastEvent' = [lastEvent EXCEPT ![cjob[c]] = "Created"]
    /\ pers' = [pers EXCEPT ![c] = NoUpdate]
    /\ cpc' = [cpc EXCEPT ![c] = "register"]
    /\ wpc' = [wpc EXCEPT ![cjob[c]] = "start"]
    /\ UNCHANGED <<tableVars, progressed, aborting, reaper, cjob, diskVars, restarts>>

\* Mutant: abort() is not called.
LeaveRunning(j) == UNCHANGED aborting

\* AbortHandle::abort only marks a task that has not ended.
MarkAborted(j) == aborting' = aborting \cup {i \in {j} : Runs(i)}

\* Mutant: the call does not return.
ForgetJob(c) == UNCHANGED cpc /\ cjob' = [cjob EXCEPT ![c] = NoJob]

Return(c) == /\ cpc' = [cpc EXCEPT ![c] = "idle"]
             /\ cjob' = [cjob EXCEPT ![c] = NoJob]

\* Mutant: the handle is kept without asking whether the job is still active.
RegisterAlways(c) ==
    /\ cpc[c] = "register"
    /\ Return(c)
    /\ handles' = handles \cup {cjob[c]}
    /\ UNCHANGED <<status, target, nextId, taskVars, pers, diskVars, lastEvent, restarts>>

RegisterAbortHandle(c) ==
    LET j == cjob[c] IN
    /\ cpc[c] = "register"
    /\ Return(c)
    /\ \/ IsLive(j) /\ handles' = handles \cup {j} /\ UNCHANGED aborting
       \/ ~IsLive(j) /\ MarkAborted(j) /\ UNCHANGED handles
    /\ UNCHANGED <<status, target, nextId, wpc, progressed, reaper, pers,
                   diskVars, lastEvent, restarts>>

-----------------------------------------------------------------------------
(* Cancelling a job.  A job that has ended or has no handle is reported     *)
(* unchanged.                                                               *)

\* Mutants: the status is not changed; a job that has ended is cancelled too.
CancelKeepsStatus(c, j) ==
    /\ cpc[c] = "idle"
    /\ IsLive(j) /\ j \in handles
    /\ handles' = handles \ {j}
    /\ cpc' = [cpc EXCEPT ![c] = "abort"]
    /\ cjob' = [cjob EXCEPT ![c] = j]
    /\ UNCHANGED <<status, target, nextId, taskVars, pers, diskVars, lastEvent, restarts>>

CancelEnded(c, j) ==
    /\ cpc[c] = "idle"
    /\ j \in Listed /\ j \in handles
    /\ handles' = handles \ {j}
    /\ status' = [status EXCEPT ![j] = "Cancelled"]
    /\ cpc' = [cpc EXCEPT ![c] = "abort"]
    /\ cjob' = [cjob EXCEPT ![c] = j]
    /\ UNCHANGED <<target, nextId, taskVars, pers, diskVars, lastEvent, restarts>>

CancelReport(c, j) ==
    /\ cpc[c] = "idle"
    /\ IsLive(j) /\ j \in handles
    /\ handles' = handles \ {j}
    /\ status' = [status EXCEPT ![j] = "Cancelled"]
    /\ cpc' = [cpc EXCEPT ![c] = "abort"]
    /\ cjob' = [cjob EXCEPT ![c] = j]
    /\ UNCHANGED <<target, nextId, taskVars, pers, diskVars, lastEvent, restarts>>

\* After the mutex is released: handle.abort(), then persist.
AbortTask(c) ==
    /\ cpc[c] = "abort"
    /\ MarkAborted(cjob[c])
    /\ cpc' = [cpc EXCEPT ![c] = "cancel"]
    /\ pers' = [pers EXCEPT ![c] = Updated("Cancelled")]
    /\ UNCHANGED <<tableVars, wpc, progressed, reaper, cjob, diskVars, lastEvent, restarts>>

EmitCancelled(c) ==
    /\ cpc[c] = "cancel" /\ pers[c].stage = "emit"
    /\ lastEvent' = [lastEvent EXCEPT ![cjob[c]] = "Cancelled"]
    /\ pers' = [pers EXCEPT ![c] = NoUpdate]
    /\ Return(c)
    /\ UNCHANGED <<tableVars, taskVars, diskVars, restarts>>

-----------------------------------------------------------------------------
(* The task of a job: run_profile_update_job.                               *)

\* update_job: an evicted job is not found, and nothing is persisted or
\* emitted for it; otherwise both happen, even if the update left it alone.
UpdateJob(j, s) ==
    /\ status' = [status EXCEPT ![j] = s]
    /\ pers' = [pers EXCEPT ![j] = Updated(s)]

StartJob(j) ==
    /\ wpc[j] = "start"
    /\ wpc' = [wpc EXCEPT ![j] = "body"]
    /\ \/ j \notin Listed /\ UNCHANGED <<status, pers>>
       \/ j \in Listed /\ UpdateJob(j, IF IsLive(j) THEN "Running" ELSE status[j])
    /\ UNCHANGED <<target, nextId, handles, progressed, aborting, reaper,
                   callerVars, diskVars, lastEvent, restarts>>

Progress(j) ==
    /\ wpc[j] = "body" /\ Ready(j)
    /\ progressed[j] < MaxProgress /\ j \in Reporting
    /\ progressed' = [progressed EXCEPT ![j] = @ + 1]
    /\ \/ j \notin Listed /\ UNCHANGED <<status, pers>>
       \/ j \in Listed /\ UpdateJob(j, status[j])
    /\ UNCHANGED <<target, nextId, handles, wpc, aborting, reaper,
                   callerVars, diskVars, lastEvent, restarts>>

\* Mutant: a task that ends overwrites the cancellation.
LastWins(j, s) == s

\* finish and fail: only a cancelled job keeps its status.
EndedStatus(j, s) == IF status[j] = "Cancelled" THEN "Cancelled" ELSE s

EndJob(j, s) ==
    /\ wpc[j] = "body" /\ Ready(j)
    /\ \/ /\ j \notin Listed
          /\ wpc' = [wpc EXCEPT ![j] = "done"]
          /\ aborting' = aborting \ {j}
          /\ UNCHANGED <<status, pers>>
       \/ /\ j \in Listed
          /\ UpdateJob(j, EndedStatus(j, s))
          /\ wpc' = [wpc EXCEPT ![j] = "end"]
          /\ UNCHANGED aborting
    /\ UNCHANGED <<target, nextId, handles, progressed, reaper,
                   callerVars, diskVars, lastEvent, restarts>>

\* JobUpdated; after finish or fail a task is spawned to drop the handle, and
\* the job's own task returns.
EmitUpdated(j) ==
    /\ Runs(j) /\ pers[j].stage = "emit"
    /\ lastEvent' = [lastEvent EXCEPT ![j] = pers[j].status]
    /\ pers' = [pers EXCEPT ![j] = NoUpdate]
    /\ \/ wpc[j] = "body" /\ UNCHANGED <<wpc, aborting, reaper>>
       \/ /\ wpc[j] = "end"
          /\ wpc' = [wpc EXCEPT ![j] = "done"]
          /\ aborting' = aborting \ {j}
          /\ reaper' = reaper \cup {j}
    /\ UNCHANGED <<tableVars, progressed, callerVars, diskVars, restarts>>

\* Mutant: the spawned task does not remove the handle.
KeepAbortHandle(j) ==
    /\ j \in reaper
    /\ reaper' = reaper \ {j}
    /\ UNCHANGED <<tableVars, wpc, progressed, aborting,
                   callerVars, pers, diskVars, lastEvent, restarts>>

RemoveAbortHandle(j) ==
    /\ j \in reaper
    /\ reaper' = reaper \ {j}
    /\ handles' = handles \ {j}
    /\ UNCHANGED <<status, target, nextId, wpc, progressed, aborting,
                   callerVars, pers, diskVars, lastEvent, restarts>>

\* tokio drops an aborted task at an await of its own, some time after abort().
\* A file operation it was waiting for is on a blocking thread and goes on.
AbortLands(j) ==
    /\ j \in aborting
    /\ aborting' = aborting \ {j}
    /\ \/ /\ wpc' = [wpc EXCEPT ![j] = "done"]
          /\ pers' = [pers EXCEPT ![j] = NoUpdate]
       \/ /\ pers[j].stage \in {"tmp", "rename"}
          /\ wpc' = [wpc EXCEPT ![j] = "stray"]
          /\ UNCHANGED pers
    /\ UNCHANGED <<tableVars, progressed, reaper, callerVars, diskVars, lastEvent, restarts>>

-----------------------------------------------------------------------------
(* persist_history_best_effort: list() under the mutex, then a temporary    *)
(* file, then a rename, with no lock around the three.                      *)

TakeSnapshot(p) ==
    /\ pers[p].stage = "snap"
    /\ pers' = [pers EXCEPT ![p] =
                  IF HistoryOn /\ writable
                  THEN [@ EXCEPT !.stage = "tmp", !.snap = status]
                  ELSE [@ EXCEPT !.stage = "emit"]]
    /\ UNCHANGED <<tableVars, taskVars, callerVars, diskVars, lastEvent, restarts>>

\* What follows the file operation: the next stage, or nothing for the
\* blocking operation of an aborted task.
Then(p, stage, file) ==
    \/ /\ p \notin {j \in Ids : wpc[j] = "stray"}
       /\ pers' = [pers EXCEPT ![p].stage = stage, ![p].snap = Nothing, ![p].file = file]
       /\ UNCHANGED wpc
    \/ /\ p \in {j \in Ids : wpc[j] = "stray"}
       /\ pers' = [pers EXCEPT ![p] = NoUpdate]
       /\ wpc' = [wpc EXCEPT ![p] = "done"]

\* PermissionDenied switches the history off for the rest of the process.
WriteFails == DiskFaults /\ writable' \in {writable, FALSE}

WriteTmp(p) ==
    /\ pers[p].stage = "tmp"
    /\ \/ \E t \in TmpNames :
            /\ tmp' = [tmp EXCEPT ![t] = pers[p].snap]
            /\ Then(p, "rename", t)
            /\ UNCHANGED writable
       \/ WriteFails /\ Then(p, "emit", NoFile) /\ UNCHANGED tmp
    /\ UNCHANGED <<tableVars, progressed, aborting, reaper, callerVars, history,
                   lastEvent, restarts>>

\* Two persists in one second share the temporary file: the first rename takes
\* whatever was written last, the second finds no file.
RenameTmp(p) ==
    LET t == pers[p].file IN
    /\ pers[p].stage = "rename"
    /\ \/ /\ tmp[t] # NoFile
          /\ history' = tmp[t]
          /\ UNCHANGED writable
       \/ /\ tmp[t] = NoFile
          /\ UNCHANGED <<history, writable>>
       \/ WriteFails /\ UNCHANGED history
    /\ tmp' = [tmp EXCEPT ![t] = NoFile]
    /\ Then(p, "emit", NoFile)
    /\ UNCHANGED <<tableVars, progressed, aborting, reaper, callerVars,
                   lastEvent, restarts>>

-----------------------------------------------------------------------------
(* The process dies and starts again: with_history_file.                    *)

\* Mutant: the history is taken as it is.
Unsanitized(h) == h

\* sanitize_job_for_history
Sanitized(h) == [j \in Ids |-> IF h[j] \in Live THEN "Cancelled" ELSE h[j]]

Restart ==
    /\ restarts < MaxRestarts
    /\ restarts' = restarts + 1
    /\ \/ /\ status' = Sanitized(history)            \* read and rewritten
          /\ history' = Sanitized(history)
       \/ /\ DiskFaults                             \* rewriting failed
          /\ status' = Sanitized(history)
          /\ UNCHANGED history
       \/ /\ DiskFaults                             \* reading failed
          /\ status' = Nothing
          /\ UNCHANGED history
    /\ handles' = {} /\ aborting' = {} /\ reaper' = {}
    /\ wpc' = [j \in Ids |-> IF j < nextId THEN "done" ELSE "none"]
    /\ progressed' = [j \in Ids |-> 0]
    /\ cpc' = [c \in Callers |-> "idle"]
    /\ cjob' = [c \in Callers |-> NoJob]
    /\ pers' = [p \in Persisters |-> NoUpdate]
    /\ writable' \in {TRUE, ~DiskFaults}
    /\ UNCHANGED <<target, nextId, tmp, lastEvent>>

-----------------------------------------------------------------------------
CallerStep(c) ==
    \/ EmitCreated(c) \/ RegisterAbortHandle(c) \/ AbortTask(c) \/ EmitCancelled(c)
    \/ TakeSnapshot(c) \/ WriteTmp(c) \/ RenameTmp(c)

TaskStep(j) ==
    \/ StartJob(j) \/ Progress(j) \/ (\E s \in {"Succeeded", "Failed"} : EndJob(j, s))
    \/ EmitUpdated(j)
    \/ TakeSnapshot(j) \/ WriteTmp(j) \/ RenameTmp(j)

Next ==
    \/ \E c \in Callers, t \in Targets : CreateUniqueActive(c, t)
    \/ \E c \in Callers, j \in Ids : CancelReport(c, j)
    \/ \E c \in Callers : CallerStep(c)
    \/ \E j \in Ids : TaskStep(j) \/ RemoveAbortHandle(j) \/ AbortLands(j)
    \/ Restart

Spec == Init /\ [][Next]_vars

\* A started call runs to its end: nothing in it waits for more than the mutex
\* and a file.  A task ends: a download has a timeout and there are three.
Fairness ==
    /\ \A c \in Callers : WF_vars(CallerStep(c))
    /\ \A j \in Ids : WF_vars(TaskStep(j)) /\ WF_vars(RemoveAbortHandle(j))
                      /\ WF_vars(AbortLands(j))

FairSpec == Spec /\ Fairness

-----------------------------------------------------------------------------
(* Properties.                                                              *)

Updates == {u \in [stage : {"none", "snap", "tmp", "rename", "emit"},
                  status : Statuses, snap : Histories, file : TmpNames \cup {NoFile}] :
               u.stage = "rename" => u.file \in TmpNames}

\* Every variable has its type.
TypeOK ==
    /\ status \in Histories
    /\ target \in [Ids -> Targets \cup {NoTarget}]
    /\ nextId \in 1..(MaxJobs + 1)
    /\ handles \subseteq Ids
    /\ wpc \in [Ids -> {"none", "start", "body", "end", "done", "stray"}]
    /\ progressed \in [Ids -> 0..MaxProgress]
    /\ aborting \subseteq Ids
    /\ reaper \subseteq Ids
    /\ cpc \in [Callers -> {"idle", "create", "register", "abort", "cancel"}]
    /\ cjob \in [Callers -> Ids \cup {NoJob}]
    /\ \A c \in Callers : cpc[c] # "idle" => cjob[c] \in Ids
    /\ pers \in [Persisters -> Updates]
    /\ writable \in BOOLEAN
    /\ tmp \in [TmpNames -> Histories \cup {NoFile}]
    /\ history \in Histories
    /\ lastEvent \in [Ids -> Statuses \cup {"none", "Created"}]
    /\ restarts \in 0..MaxRestarts

\* create_unique_active keeps its name: no two jobs of one target are active at
\* once, whatever is evicted, cancelled or restored from the history.
OneActivePerTarget ==
    \A i, j \in Ids : IsLive(i) /\ IsLive(j) /\ target[i] = target[j] => i = j

\* The caller c has yet to spawn, or to abort, the task of job j.
Spawning(j) == \E c \in Callers : cpc[c] = "create" /\ cjob[c] = j
Cancelling(j) == \E c \in Callers : cpc[c] = "abort" /\ cjob[c] = j

\* An active job has somebody who will end it: its task is running and was not
\* aborted, or its creator is about to spawn it.  In particular a restart leaves
\* no job active that nobody works on, and no abort hits the task of a job that
\* stays active.
ActiveHasTask ==
    \A j \in Ids : IsLive(j) =>
        \/ Spawning(j)
        \/ wpc[j] \in {"start", "body"} /\ j \notin aborting

\* The task of a job that was cancelled is being stopped: abort() was called, or
\* the canceller is about to call it.  A task that lives on after its job left
\* the table by another way is ending itself, or the job was evicted.
CancelledIsBeingStopped ==
    \A j \in Ids : status[j] = "Cancelled" /\ Runs(j) =>
        j \in aborting \/ Cancelling(j)

\* remove_abort_handle is spawned, not awaited: a handle outlives its job only
\* while the task is persisting its end or the removal is on its way, so the
\* table of handles does not grow with the jobs that have ended.
HandleHasUse ==
    \A j \in handles :
        \/ IsLive(j)
        \/ wpc[j] = "end" /\ j \notin aborting
        \/ j \in reaper

\* A job that has ended never comes back to life or changes its outcome; it can
\* only leave the table.  A late finish or fail of a cancelled task, or a cancel
\* of a finished one, changes nothing.  (A restart replaces the whole table.)
OutcomeIsFinal ==
    [][restarts' = restarts =>
        \A j \in Ids : status[j] \in Terminal => status'[j] \in {status[j], "Absent"}]_vars

\* Subscribers see JobCreated before any JobUpdated of the job, cancellation by
\* another caller included.
CreatedComesFirst ==
    [][\A j \in Ids : lastEvent[j] = "none" => lastEvent'[j] \in {"none", "Created"}]_vars

\* The history never invents an outcome: what it says of a job that has ended is
\* what the table says, if the table still lists the job.
HistoryOutcomeIsReal ==
    \A j \in Ids : history[j] \in {"Succeeded", "Failed"} /\ j \in Listed
                   => status[j] = history[j]

\* A job comes to its end, and leaves no abort handle behind: its task ends it, somebody cancels
\* it, it is evicted, or the process restarts, and whichever of finish, fail, cancel and
\* registration came first, the handle is dropped.
JobIsOver ==
    \A j \in Ids : (IsLive(j) \/ j \in handles) ~> (~IsLive(j) /\ j \notin handles)

\* Nobody is in a call and no task runs.
Quiet == /\ \A c \in Callers : cpc[c] = "idle"
         /\ \A j \in Ids : ~Runs(j) /\ wpc[j] # "stray"

\* Once everything has come to rest, an outcome that was announced to the
\* subscribers (and persisted just before) is what the file says, so a restart
\* restores it.
AnnouncedIsPersisted ==
    Quiet /\ restarts = 0 =>
        \A j \in Listed : status[j] \in {"Succeeded", "Failed"} /\ lastEvent[j] = status[j]
                          => history[j] = status[j]

-----------------------------------------------------------------------------
(* The inductive invariant behind the safety properties (JobsProofs).      *)

\* A caller in the middle of a call holds a job that exists, that it has not
\* registered, and that no other caller is creating.
CallersKnowTheirJob ==
    \A c \in Callers :
        /\ cpc[c] # "idle" => cjob[c] < nextId
        /\ cpc[c] = "create" => /\ wpc[cjob[c]] = "none"
                                /\ status[cjob[c]] \in {"Pending", "Absent"}
        /\ cpc[c] = "register" => wpc[cjob[c]] # "none"
        /\ cpc[c] = "abort" => ~IsLive(cjob[c])
        /\ cpc[c] \in {"create", "register", "abort"} => cjob[c] \notin handles
        /\ \A d \in Callers :
              /\ cpc[c] \in {"create", "register"} /\ cpc[d] \in {"create", "register"}
              /\ cjob[c] = cjob[d]
              => c = d

\* Marked tasks run, handles belong to spawned tasks, and a task that has not
\* called finish or fail has no outcome.
TasksAreConsistent ==
    /\ \A j \in aborting : Runs(j)
    /\ \A j \in handles : wpc[j] # "none"
    /\ \A j \in Ids : wpc[j] \in {"none", "start", "body"}
                      => status[j] \notin {"Succeeded", "Failed"}

\* What is not created yet is nowhere: not in the table, not in a snapshot, not
\* in a file.
FutureIsEmpty ==
    \A j \in Ids : j >= nextId =>
        /\ status[j] = "Absent" /\ wpc[j] = "none" /\ history[j] = "Absent"
        /\ \A p \in Persisters : pers[p].snap[j] = "Absent"
        /\ \A t \in TmpNames : tmp[t] # NoFile => tmp[t][j] = "Absent"

JobsInv ==
    /\ TypeOK
    /\ OneActivePerTarget /\ ActiveHasTask /\ CancelledIsBeingStopped /\ HandleHasUse
    /\ CallersKnowTheirJob /\ TasksAreConsistent /\ FutureIsEmpty

\* h names no outcome of a listed job but the one the table has.
Agrees(h) == \A j \in Ids : h[j] \in {"Succeeded", "Failed"} /\ j \in Listed => status[j] = h[j]

\* Whatever may become the history agrees with the table: the snapshots on their
\* way to a temporary file, and the temporary files on their way to the history.
HistoryInv ==
    /\ JobsInv
    /\ Agrees(history)
    /\ \A p \in Persisters :
          /\ pers[p].stage = "tmp" => Agrees(pers[p].snap)
          /\ pers[p].stage = "rename" /\ tmp[pers[p].file] # NoFile => Agrees(tmp[pers[p].file])
=============================================================================
