------------------------------- MODULE Kernel -------------------------------
(***************************************************************************)
(* The KernelManager of Clash TUI processes that share a home directory    *)
(* (clash-tui/src/kernel.rs, with the calls of clash-tui/src/actions/      *)
(* core.rs): start, stop, restart, foreground, the state of a core that    *)
(* another process started, the health monitor, and the two marker files   *)
(* by which the processes find each other's core.                          *)
(*                                                                         *)
(* An action is one critical section of the inner mutex, one operation on  *)
(* a marker file, one look at a process or one signal.  systemd is not     *)
(* modelled: its service is a foreground process like any other.           *)
(***************************************************************************)
EXTENDS Integers, FiniteSets

CONSTANTS
    Clients,      \* tasks that run operations of the user, one at a time
    Monitors,     \* the health monitor of each process
    ProcOf,       \* the process of an actor
    Commands,     \* the processes that run one command, and end
    KindsOf,      \* the operations of a client
    Faults,       \* spawning, files, waiting for a child and killing it may fail
    SignalFaults, \* a signal may fail: no permission, or the core is gone by now
    MaxCores,     \* bound: cores ever spawned
    MaxOps,       \* bound: operations begun
    MaxEnds,      \* bound: interfaces quit and processes killed
    Free,         \* the operation lock is not held
    NoPid, NoMarker

Actors == Clients \cup Monitors
Procs == {ProcOf[a] : a \in Actors}
Pids == 1..MaxCores
\* A foreground core is supervised, unless the environment calls it detached.
Foregrounds == {"run", "runDetached"}
AllKinds == {"status", "start", "stop", "restart"} \cup Foregrounds
HealthFailureThreshold == 3

ASSUME KernelAssumption ==
    /\ Clients \cap Monitors = {} /\ Free \notin Actors
    /\ Commands \subseteq Procs
    /\ KindsOf \in [Clients -> SUBSET AllKinds]
    /\ Faults \in BOOLEAN /\ SignalFaults \in BOOLEAN
    /\ MaxCores \in Nat \ {0} /\ MaxOps \in Nat /\ MaxEnds \in Nat
    /\ NoPid \notin Pids
    /\ NoMarker \notin [pid : Pids, owner : {"Detached", "Supervised"}]

VARIABLES
    inner,    \* KernelInner of each process: snapshot, child, current_job, failures
    oplock,   \* the operation lock of each process
    pidFile,  \* mihomo.pid
    marker,   \* mihomo-owner.json
    proc,     \* mihomo processes; a zombie waits for its parent
    pc,       \* where an actor is
    work,     \* its local variables
    ops,      \* operations begun
    ends      \* interfaces quit and processes killed

files == <<pidFile, marker>>
control == <<pc, work>>
bounds == <<ops, ends>>
vars == <<inner, oplock, files, proc, control, bounds>>

Stopped == [state |-> "Stopped", owner |-> "Stopped", pid |-> NoPid]
Fresh == [shown |-> Stopped, child |-> NoPid, job |-> FALSE, failures |-> 0]

\* op: the operation; next: where it goes after a refresh or a removal of the
\* markers; then: where it goes when the core is stopped; pid: the core it has
\* spawned, taken, or found in the pid file; seen: the snapshot it was given.
Rest == [op |-> "none", next |-> "done", then |-> "done", pid |-> NoPid, seen |-> Stopped]

In(a) == inner[ProcOf[a]]
Op(a) == work[a].op
Holds(a) == oplock[ProcOf[a]] = a
Exists(k) == proc[k] \in {"running", "zombie"}     \* process_exists
Running == {k \in Pids : proc[k] = "running"}

Init ==
    /\ inner = [p \in Procs |-> Fresh]
    /\ oplock = [p \in Procs |-> Free]
    /\ pc = [a \in Actors |-> "idle"]
    /\ work = [a \in Actors |-> Rest]
    /\ ops = 0 /\ ends = 0
    /\ \/ /\ pidFile = NoPid /\ marker = NoMarker
          /\ proc = [k \in Pids |-> "none"]
       \/ /\ pidFile = 1 /\ marker \in {NoMarker} \cup [pid : {1}, owner : {"Detached"}]
          /\ \E s \in {"running", "gone"} : proc = [k \in Pids |-> IF k = 1 THEN s ELSE "none"]

-----------------------------------------------------------------------------
(* How an actor goes on.                                                    *)

Goto(a, l) == pc' = [pc EXCEPT ![a] = l]
Keep(a, w) == work' = [work EXCEPT ![a] = w]
SetInner(a, i) == inner' = [inner EXCEPT ![ProcOf[a]] = i]

\* An operation ends; its guard is dropped.
Finish(a) ==
    /\ Goto(a, "idle") /\ Keep(a, Rest)
    /\ oplock' = IF Holds(a) THEN [oplock EXCEPT ![ProcOf[a]] = Free] ELSE oplock

RefreshThen(a, next) ==
    Goto(a, "refresh") /\ Keep(a, [work[a] EXCEPT !.next = next, !.seen = Stopped])
RemoveThen(a, w, next) ==
    Goto(a, "removePid") /\ Keep(a, [w EXCEPT !.next = next, !.pid = NoPid])

\* set_job_state, set_stopped, set_unhealthy.
JobState(i, s) == [i EXCEPT !.shown.state = s, !.job = TRUE]
StoppedInner(i) == [i EXCEPT !.shown = Stopped, !.failures = 0, !.job = FALSE]
UnhealthyInner(i) == [i EXCEPT !.shown.state = "Unhealthy", !.job = FALSE,
                               !.failures = HealthFailureThreshold]

-----------------------------------------------------------------------------
(* Beginning an operation, and the monitor's tick.                          *)

\* The calls of actions/core.rs look at the core before the manager does.
Begin(c, op) ==
    /\ pc[c] = "idle" /\ op \in KindsOf[c]
    /\ ProcOf[c] \in Commands => inner[ProcOf[c]] = Fresh
    /\ ops < MaxOps /\ ops' = ops + 1
    /\ Goto(c, IF op \in Foregrounds THEN "tryLock" ELSE "refresh")
    /\ Keep(c, [Rest EXCEPT !.op = op, !.next = "look"])
    /\ UNCHANGED <<inner, oplock, files, proc, ends>>

Tick(m) ==
    /\ pc[m] = "idle"
    /\ Goto(m, "refresh") /\ Keep(m, [Rest EXCEPT !.op = "health", !.next = "probe"])
    /\ UNCHANGED <<inner, oplock, files, proc, bounds>>

-----------------------------------------------------------------------------
(* refresh_child_exit and external_snapshot.                                *)

\* Mutant: only the exit of a core that answered is a crash.
RefreshedRunning(i) ==
    IF i.child = NoPid \/ proc[i.child] # "zombie" THEN i
    ELSE IF i.shown.state # "Running" THEN [i EXCEPT !.child = NoPid]
    ELSE [i EXCEPT !.child = NoPid, !.shown.state = "Crashed", !.shown.pid = NoPid, !.failures = 0]

\* What try_wait makes of the inner state.
Refreshed(i) ==
    IF i.child = NoPid THEN i
    ELSE IF proc[i.child] = "zombie"
    THEN IF i.shown.state \in {"Stopped", "Stopping"} THEN [i EXCEPT !.child = NoPid]
         ELSE [i EXCEPT !.child = NoPid, !.shown.state = "Crashed", !.shown.pid = NoPid,
                        !.failures = 0]
    ELSE IF i.shown.state \in {"Starting", "Restarting"} THEN [i EXCEPT !.shown.state = "Running"]
    ELSE i

TryWaitFails(i) ==
    IF Faults /\ i.child # NoPid THEN {[i EXCEPT !.shown.state = "Unhealthy"]} ELSE {}

\* The markers of a core that crashed are removed, after the mutex was released.
Refresh(a) == \E i \in {Refreshed(In(a))} \cup TryWaitFails(In(a)) :
    /\ pc[a] = "refresh"
    /\ SetInner(a, i)
    /\ proc' = IF In(a).child # i.child THEN [proc EXCEPT ![In(a).child] = "gone"] ELSE proc
    /\ Goto(a, IF i.shown # In(a).shown /\ i.shown.state = "Crashed" THEN "removePid"
               ELSE work[a].next)
    /\ IF work[a].next = "look" THEN Keep(a, [work[a] EXCEPT !.seen = i.shown]) ELSE UNCHANGED work
    /\ UNCHANGED <<oplock, files, bounds>>

\* remove_runtime_markers; its errors are ignored.
RemovePid(a) ==
    /\ pc[a] = "removePid"
    /\ \/ pidFile' = NoPid /\ Goto(a, "removeOwner")
       \/ Faults /\ pidFile # NoPid /\ Goto(a, work[a].next) /\ UNCHANGED pidFile
    /\ UNCHANGED <<inner, oplock, marker, proc, work, bounds>>

RemoveOwner(a) ==
    /\ pc[a] = "removeOwner"
    /\ marker' \in {NoMarker} \cup (IF Faults THEN {marker} ELSE {})
    /\ Goto(a, work[a].next)
    /\ UNCHANGED <<inner, oplock, pidFile, proc, work, bounds>>

\* external_snapshot: a process that knows of no core looks into the pid file.
Look(a) ==
    /\ pc[a] = "look"
    /\ \/ /\ work[a].seen.state \notin {"Stopped", "Crashed"}
          /\ Goto(a, "decide") /\ UNCHANGED work
       \/ /\ work[a].seen.state \in {"Stopped", "Crashed"} /\ pidFile = NoPid
          /\ Goto(a, "decide") /\ Keep(a, [work[a] EXCEPT !.seen = Stopped])
       \/ /\ work[a].seen.state \in {"Stopped", "Crashed"} /\ pidFile # NoPid
          /\ Goto(a, "exists") /\ Keep(a, [work[a] EXCEPT !.pid = pidFile])
    /\ UNCHANGED <<inner, oplock, files, proc, bounds>>

LookProcess(a) ==
    /\ pc[a] = "exists"
    /\ \/ Exists(work[a].pid) /\ Goto(a, "version") /\ UNCHANGED work
       \/ /\ ~Exists(work[a].pid)
          /\ RemoveThen(a, [work[a] EXCEPT !.seen = Stopped], "decide")
    /\ UNCHANGED <<inner, oplock, files, proc, bounds>>

OwnerOf(k) == IF marker # NoMarker /\ marker.pid = k THEN marker.owner ELSE "External"

\* A controller that answers makes the core Running, another one Unhealthy.
AskVersion(a) ==
    /\ pc[a] = "version"
    /\ \E s \in {"Running", "Unhealthy"} :
          Keep(a, [work[a] EXCEPT
              !.pid = NoPid,
              !.seen = [state |-> s, owner |-> OwnerOf(work[a].pid), pid |-> work[a].pid]])
    /\ Goto(a, "decide")
    /\ UNCHANGED <<inner, oplock, files, proc, bounds>>

-----------------------------------------------------------------------------
(* Deciding.                                                                *)

Active == {"Running", "Starting", "Restarting", "Unhealthy"}
Foreign(s) == s.state \in Active /\ s.owner \in {"Supervised", "External"}

\* start, stop and restart leave alone what belongs to somebody else.
Decide(c) ==
    /\ pc[c] = "decide" /\ ~Holds(c)
    /\ \/ /\ Op(c) = "status" \/ Foreign(work[c].seen)
          /\ Finish(c)
       \/ /\ Op(c) # "status" /\ ~Foreign(work[c].seen)
          /\ Goto(c, "tryLock") /\ Keep(c, [work[c] EXCEPT !.seen = Stopped]) /\ UNCHANGED oplock
    /\ UNCHANGED <<inner, files, proc, bounds>>

\* Mutant: an operation does not look whether another one is under way.
LockAnyway(c) ==
    /\ pc[c] = "tryLock"
    /\ oplock' = [oplock EXCEPT ![ProcOf[c]] = c]
    /\ RefreshThen(c, "begin")
    /\ UNCHANGED <<inner, files, proc, bounds>>

\* A busy manager refuses, and shows its state.
TryLock(c) ==
    /\ pc[c] = "tryLock"
    /\ \/ /\ oplock[ProcOf[c]] = Free
          /\ oplock' = [oplock EXCEPT ![ProcOf[c]] = c]
          /\ RefreshThen(c, "begin")
       \/ oplock[ProcOf[c]] # Free /\ Op(c) \in Foregrounds /\ Finish(c)
       \/ /\ oplock[ProcOf[c]] # Free /\ Op(c) \notin Foregrounds
          /\ RefreshThen(c, "done") /\ UNCHANGED oplock
    /\ UNCHANGED <<inner, files, proc, bounds>>

\* The states in which start does nothing.
RefusesStart == {"Running", "Starting", "Restarting", "Unhealthy"}

BeginOperation(c) ==
    /\ pc[c] = "begin"
    /\ \/ /\ Op(c) = "start" /\ In(c).shown.state \in RefusesStart
          /\ RefreshThen(c, "done") /\ UNCHANGED inner
       \/ /\ Op(c) \in Foregrounds \/ (Op(c) = "start" /\ In(c).shown.state \notin RefusesStart)
          /\ RefreshThen(c, "look") /\ UNCHANGED inner
       \/ /\ Op(c) \in {"stop", "restart"}
          /\ SetInner(c, JobState(In(c), IF Op(c) = "stop" THEN "Stopping" ELSE "Restarting"))
          /\ Goto(c, "take")
          /\ Keep(c, [work[c] EXCEPT !.then = IF Op(c) = "stop" THEN "done" ELSE "spawn"])
    /\ UNCHANGED <<oplock, files, proc, bounds>>

\* A core found through the pid file is adopted by start and refused by run.
Adopt(c) ==
    LET found == work[c].seen.state \in {"Running", "Unhealthy"} IN
    /\ pc[c] = "decide" /\ Holds(c)
    /\ \/ /\ found /\ Op(c) \in Foregrounds
          /\ Finish(c) /\ UNCHANGED inner
       \/ /\ found /\ Op(c) = "start"
          /\ SetInner(c, [In(c) EXCEPT
                 !.shown = work[c].seen, !.job = FALSE,
                 !.failures = IF work[c].seen.state = "Unhealthy" THEN HealthFailureThreshold ELSE 0])
          /\ Finish(c)
       \/ /\ ~found
          /\ SetInner(c, JobState(In(c), "Starting"))
          /\ Goto(c, "spawn") /\ UNCHANGED <<work, oplock>>
    /\ UNCHANGED <<files, proc, bounds>>

-----------------------------------------------------------------------------
(* Starting a core.                                                         *)

\* Mutant: a failed start leaves the state as it is.
StartFailed(c) == Finish(c) /\ UNCHANGED inner

SpawnFails(c) == Finish(c) /\ SetInner(c, StoppedInner(In(c)))

Spawn(c) ==
    /\ pc[c] = "spawn"
    /\ \/ \E k \in Pids :
            /\ \A j \in Pids : proc[j] = "none" <=> j >= k
            /\ proc' = [proc EXCEPT ![k] = "running"]
            /\ Goto(c, "writePid") /\ Keep(c, [work[c] EXCEPT !.pid = k])
            /\ UNCHANGED <<inner, oplock>>
       \/ (Faults \/ \A k \in Pids : proc[k] # "none") /\ SpawnFails(c) /\ UNCHANGED proc
    /\ UNCHANGED <<files, bounds>>

WritePid(c) ==
    /\ pc[c] = "writePid"
    /\ \/ pidFile' = work[c].pid /\ Goto(c, "writeOwner")
       \/ Faults /\ pidFile' \in {pidFile, NoPid} /\ Goto(c, "cleanup")
    /\ UNCHANGED <<inner, oplock, marker, proc, work, bounds>>

\* Mutant: a core that was started here is marked as a foreign one.
ForeignOwner(c) == "External"

NewOwner(c) == IF Op(c) = "run" THEN "Supervised" ELSE "Detached"

WriteOwner(c) ==
    /\ pc[c] = "writeOwner"
    /\ \/ marker' = [pid |-> work[c].pid, owner |-> NewOwner(c)] /\ Goto(c, "publish")
       \/ Faults /\ marker' \in {marker, NoMarker} /\ Goto(c, "cleanup")
    /\ UNCHANGED <<inner, oplock, pidFile, proc, work, bounds>>

Published(c) == [state |-> "Running", owner |-> NewOwner(c), pid |-> work[c].pid]

\* start and restart give the child to the manager, a foreground process waits
\* for it itself.
Publish(c) ==
    /\ pc[c] = "publish"
    /\ SetInner(c, [shown |-> Published(c), job |-> FALSE, failures |-> 0,
                    child |-> IF Op(c) \in Foregrounds THEN In(c).child ELSE work[c].pid])
    /\ \/ Op(c) \notin Foregrounds /\ Finish(c)
       \/ Op(c) \in Foregrounds /\ Goto(c, "foreground") /\ UNCHANGED <<work, oplock>>
    /\ UNCHANGED <<files, proc, bounds>>

\* A child that is dropped is not killed; tokio waits for it.
DropChild(c) == proc' = [proc EXCEPT ![work[c].pid] = IF @ = "zombie" THEN "gone" ELSE @]

\* cleanup_spawned_child, and a foreground process that is told to end: the
\* child is signalled, killed if need be, and waited for.
EndChild(c) ==
    /\ pc[c] \in {"cleanup", "shutdown"}
    /\ \/ /\ proc' = [proc EXCEPT ![work[c].pid] = "gone"]
          /\ RemoveThen(c, [work[c] EXCEPT !.then = IF pc[c] = "shutdown" THEN "removeAgain" ELSE "done"],
                        "setStopped")
          /\ UNCHANGED <<inner, oplock>>
       \/ /\ Faults \/ SignalFaults
          /\ pc[c] = "cleanup" \/ Faults
          /\ SetInner(c, UnhealthyInner(In(c))) /\ Finish(c) /\ DropChild(c)
       \/ /\ SignalFaults /\ pc[c] = "shutdown"
          /\ Finish(c) /\ DropChild(c) /\ UNCHANGED inner
    /\ UNCHANGED <<files, bounds>>

-----------------------------------------------------------------------------
(* Stopping a core.                                                         *)

\* Mutant: the child stays in the manager while it is stopped.
PeekChild(c) ==
    /\ pc[c] = "take"
    /\ Goto(c, IF In(c).child # NoPid THEN "stopChild" ELSE "findPid")
    /\ Keep(c, [work[c] EXCEPT !.pid = In(c).child])
    /\ UNCHANGED <<inner, oplock, files, proc, bounds>>

\* stop_child takes the child, or looks for a core of another process.
TakeChild(c) ==
    /\ pc[c] = "take"
    /\ \/ /\ In(c).child # NoPid
          /\ Keep(c, [work[c] EXCEPT !.pid = In(c).child])
          /\ SetInner(c, [In(c) EXCEPT !.child = NoPid])
          /\ Goto(c, "stopChild")
       \/ In(c).child = NoPid /\ Goto(c, "findPid") /\ UNCHANGED <<work, inner>>
    /\ UNCHANGED <<oplock, files, proc, bounds>>

\* The child is waited for, then killed; an error to signal it is ignored.
StopChild(c) ==
    /\ pc[c] = "stopChild"
    /\ \/ /\ proc' = [proc EXCEPT ![work[c].pid] = "gone"]
          /\ SetInner(c, StoppedInner(In(c)))
          /\ RemoveThen(c, work[c], work[c].then) /\ UNCHANGED oplock
       \/ /\ Faults
          /\ SetInner(c, StoppedInner(In(c))) \/ SetInner(c, UnhealthyInner(In(c)))
          /\ Finish(c) /\ DropChild(c)
    /\ UNCHANGED <<files, bounds>>

FindPid(c) ==
    /\ pc[c] = "findPid"
    /\ \/ /\ pidFile = NoPid
          /\ SetInner(c, StoppedInner(In(c)))
          /\ \/ work[c].then = "done" /\ Finish(c)
             \/ work[c].then = "spawn" /\ Goto(c, "spawn") /\ UNCHANGED <<work, oplock>>
       \/ /\ pidFile # NoPid
          /\ Goto(c, "signal") /\ Keep(c, [work[c] EXCEPT !.pid = pidFile])
          /\ UNCHANGED <<inner, oplock>>
    /\ UNCHANGED <<files, proc, bounds>>

\* signal_and_wait_pid: what it cannot signal it leaves, state and job included.
SignalPid(c) ==
    /\ pc[c] = "signal"
    /\ \/ /\ ~Exists(work[c].pid)
          /\ RemoveThen(c, work[c], "setStopped") /\ UNCHANGED oplock
       \/ /\ Exists(work[c].pid)
          /\ Goto(c, "waitPid") /\ UNCHANGED <<work, oplock>>
       \/ /\ Exists(work[c].pid) /\ SignalFaults
          /\ Finish(c)
    /\ UNCHANGED <<inner, files, proc, bounds>>

\* A core that exits is polled for until its parent has waited for it.
WaitPid(c) ==
    /\ pc[c] = "waitPid"
    /\ \/ /\ ~Exists(work[c].pid)
          /\ RemoveThen(c, work[c], "setStopped") /\ UNCHANGED <<inner, oplock>>
       \/ /\ Exists(work[c].pid)
          /\ SetInner(c, UnhealthyInner(In(c))) /\ Finish(c)
    /\ UNCHANGED <<files, proc, bounds>>

SetStopped(c) ==
    /\ pc[c] = "setStopped"
    /\ SetInner(c, StoppedInner(In(c)))
    /\ \/ work[c].then = "done" /\ Finish(c)
       \/ work[c].then = "spawn" /\ Goto(c, "spawn") /\ UNCHANGED <<work, oplock>>
       \/ work[c].then = "removeAgain" /\ RemoveThen(c, work[c], "done") /\ UNCHANGED oplock
    /\ UNCHANGED <<files, proc, bounds>>

\* A foreground process: its core exits, or it is told to end.
Foreground(c) ==
    /\ pc[c] = "foreground"
    /\ \/ /\ proc[work[c].pid] = "zombie"
          /\ proc' = [proc EXCEPT ![work[c].pid] = "gone"]
          /\ RemoveThen(c, work[c], "setStopped")
       \/ Goto(c, "shutdown") /\ UNCHANGED <<work, proc>>
       \/ Faults /\ RemoveThen(c, work[c], "setUnhealthy") /\ DropChild(c)
    /\ UNCHANGED <<inner, oplock, files, bounds>>

SetUnhealthy(c) ==
    /\ pc[c] = "setUnhealthy"
    /\ SetInner(c, UnhealthyInner(In(c))) /\ Finish(c)
    /\ UNCHANGED <<files, proc, bounds>>

Done(a) ==
    /\ pc[a] = "done" /\ Finish(a)
    /\ UNCHANGED <<inner, files, proc, bounds>>

-----------------------------------------------------------------------------
(* The health monitor.                                                      *)

Watched(i) == i.child # NoPid /\ i.shown.state \in {"Running", "Unhealthy"}

\* should_probe_health; a check that is not made ends with another snapshot.
Probe(m) ==
    /\ pc[m] = "probe"
    /\ \/ ~In(m).job /\ Watched(In(m)) /\ Goto(m, "ask") /\ UNCHANGED work
       \/ ~(~In(m).job /\ Watched(In(m))) /\ RefreshThen(m, "done")
    /\ UNCHANGED <<inner, oplock, files, proc, bounds>>

\* record_health_success, record_health_failure: the state is looked at again.
Record(m) ==
    LET i == In(m)
        n == IF i.failures < HealthFailureThreshold THEN i.failures + 1 ELSE i.failures
    IN
    /\ pc[m] = "ask"
    /\ \/ ~Watched(i) /\ UNCHANGED inner
       \/ Watched(i) /\ SetInner(m, [i EXCEPT !.failures = 0, !.shown.state = "Running"])
       \/ Watched(i) /\ SetInner(m, [i EXCEPT !.failures = n, !.shown.state =
                                        IF n = HealthFailureThreshold THEN "Unhealthy" ELSE @])
    /\ Goto(m, "done")
    /\ UNCHANGED <<oplock, files, proc, work, bounds>>

-----------------------------------------------------------------------------
(* Cores that exit, and processes of Clash TUI that end.                    *)

\* Somebody has to wait for core k.
OwnChild == {"writePid", "writeOwner", "publish", "cleanup", "stopChild", "foreground", "shutdown"}
HasParent(k) == \/ \E p \in Procs : inner[p].child = k
                \/ \E a \in Actors : pc[a] \in OwnChild /\ work[a].pid = k

CoreExits(k) ==
    /\ proc[k] = "running"
    /\ proc' = [proc EXCEPT ![k] = IF HasParent(k) THEN "zombie" ELSE "gone"]
    /\ UNCHANGED <<inner, oplock, files, control, bounds>>

\* Its core runs on, and the process may be started again: a command that is
\* done, an interface that is quit, or one that is killed in the middle of it.
ProcessEnds(p) ==
    LET here == {a \in Actors : ProcOf[a] = p}
        left == {inner[p].child} \cup {work[a].pid : a \in {b \in here : pc[b] \in OwnChild}}
        done == \A a \in here : pc[a] = "idle"
    IN
    /\ done => inner[p] # Fresh
    /\ IF done /\ p \in Commands THEN UNCHANGED ends ELSE ends < MaxEnds /\ ends' = ends + 1
    /\ inner' = [inner EXCEPT ![p] = Fresh]
    /\ oplock' = [oplock EXCEPT ![p] = Free]
    /\ pc' = [a \in Actors |-> IF a \in here THEN "idle" ELSE pc[a]]
    /\ work' = [a \in Actors |-> IF a \in here THEN Rest ELSE work[a]]
    /\ proc' = [k \in Pids |-> IF k \in left /\ proc[k] = "zombie" THEN "gone" ELSE proc[k]]
    /\ UNCHANGED <<files, ops>>

Step(a) ==
    \/ Refresh(a) \/ RemovePid(a) \/ RemoveOwner(a) \/ Look(a) \/ LookProcess(a) \/ AskVersion(a)
    \/ Decide(a) \/ TryLock(a) \/ BeginOperation(a) \/ Adopt(a)
    \/ Spawn(a) \/ WritePid(a) \/ WriteOwner(a) \/ Publish(a) \/ EndChild(a)
    \/ TakeChild(a) \/ StopChild(a) \/ FindPid(a) \/ SignalPid(a) \/ WaitPid(a) \/ SetStopped(a)
    \/ Foreground(a) \/ SetUnhealthy(a) \/ Done(a) \/ Probe(a) \/ Record(a)

Next ==
    \/ \E c \in Clients, op \in AllKinds : Begin(c, op)
    \/ \E m \in Monitors : Tick(m)
    \/ \E a \in Actors : Step(a)
    \/ \E k \in Pids : CoreExits(k)
    \/ \E p \in Procs : ProcessEnds(p)

Spec == Init /\ [][Next]_vars

\* A step that can be taken is taken: what it waits for has a timeout.  The
\* monitor ticks for ever.  A foreground process may wait as long as it likes.
Fairness ==
    /\ \A a \in Actors : WF_vars(pc[a] # "foreground" /\ Step(a))
    /\ \A m \in Monitors : WF_vars(Tick(m))

FairSpec == Spec /\ Fairness

-----------------------------------------------------------------------------
(* Properties.                                                              *)

States == {"Stopped", "Starting", "Running", "Stopping", "Restarting", "Crashed", "Unhealthy"}
Snapshots == [state : States, owner : {"Stopped", "Detached", "Supervised", "External"},
              pid : Pids \cup {NoPid}]
Positions == {"idle", "refresh", "removePid", "removeOwner", "look", "exists", "version", "decide",
              "tryLock", "begin", "spawn", "writePid", "writeOwner", "publish", "cleanup",
              "shutdown", "take", "stopChild", "findPid", "signal", "waitPid", "setStopped",
              "foreground", "setUnhealthy", "done", "probe", "ask"}

Inners == [shown : Snapshots, child : Pids \cup {NoPid}, job : BOOLEAN,
           failures : 0..HealthFailureThreshold]
Works == [op : AllKinds \cup {"none", "health"}, next : Positions,
          then : {"done", "spawn", "removeAgain"}, pid : Pids \cup {NoPid}, seen : Snapshots]

\* Every variable has its type.
TypeOK ==
    /\ inner \in [Procs -> Inners]
    /\ oplock \in [Procs -> Actors \cup {Free}]
    /\ pidFile \in Pids \cup {NoPid}
    /\ marker \in [pid : Pids, owner : {"Detached", "Supervised"}] \cup {NoMarker}
    /\ proc \in [Pids -> {"none", "running", "zombie", "gone"}]
    /\ pc \in [Actors -> Positions]
    /\ work \in [Actors -> Works]
    /\ ops \in 0..MaxOps /\ ends \in 0..MaxEnds

\* No manager is stuck: while nobody holds its operation lock there is no current
\* job, and the state is not one of an operation under way.  However an operation
\* ends, its error paths included, the next one finds a settled state.
SettledWhenFree ==
    \A p \in Procs : oplock[p] = Free =>
        /\ ~inner[p].job
        /\ inner[p].shown.state \notin {"Starting", "Stopping", "Restarting"}

\* A manager that has a child shows that child, unless an operation is changing it.
ChildIsShown ==
    \A p \in Procs : inner[p].child # NoPid /\ oplock[p] = Free =>
        /\ inner[p].shown.pid = inner[p].child
        /\ inner[p].shown.owner = "Detached"
        /\ inner[p].shown.state \in {"Running", "Unhealthy"}

\* At most one core runs in a home directory: start finds the core that another
\* operation, or an earlier process, has started, and none is lost by a stop.
OneCore == Cardinality(Running) <= 1

\* A child that has exited is noticed, whatever the operations do meanwhile: the
\* monitor waits for it, and the manager no longer shows it.
ExitIsNoticed == \A p \in Procs, k \in Pids :
    inner[p].child = k /\ proc[k] = "zombie" ~> inner[p].child # k /\ inner[p].shown.pid # k
=============================================================================
