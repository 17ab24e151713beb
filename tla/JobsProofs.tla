----------------------------- MODULE JobsProofs -----------------------------
(***************************************************************************)
(* Proofs about Jobs, for any number of jobs, callers and targets: the     *)
(* table first, the history file after it.                                 *)
(***************************************************************************)
EXTENDS Jobs, TLAPS

USE DEF NoJob

LEMMA StatusValues == /\ {"Pending", "Running", "Succeeded", "Failed", "Cancelled", "Absent"} = Statuses
                      /\ Live \subseteq Statuses /\ Terminal \subseteq Statuses
  BY DEF Statuses, Live, Terminal

LEMMA NothingType == Nothing \in Histories
  BY StatusValues DEF Nothing, Histories

LEMMA UpdateTypes == /\ NoUpdate \in Updates
                     /\ \A s \in Statuses : Updated(s) \in Updates
<1>1. NoUpdate \in Updates
  BY StatusValues, NothingType DEF NoUpdate, Updates
<1>2. ASSUME NEW s \in Statuses PROVE Updated(s) \in Updates
  BY StatusValues, NothingType DEF NoUpdate, Updates, Updated
<1> QED
  BY <1>1, <1>2

\* The stages of one persist keep the type of the update they carry.
LEMMA StageTypes ==
  ASSUME NEW u \in Updates, NEW h \in Histories, NEW f \in TmpNames \cup {NoFile},
         NEW g \in {"none", "snap", "tmp", "rename", "emit"}
  PROVE  /\ g # "rename" => [u EXCEPT !.stage = g] \in Updates
         /\ g # "rename" => [u EXCEPT !.stage = g, !.snap = h] \in Updates
         /\ f \in TmpNames \/ g # "rename"
            => [u EXCEPT !.stage = g, !.snap = h, !.file = f] \in Updates
  BY DEF Updates

LEMMA InitType == Init => TypeOK
  BY JobsAssumption, UpdateTypes, NothingType, StatusValues DEF Init, TypeOK, Ids

LEMMA ThenType ==
  ASSUME TypeOK, NEW p \in Persisters, NEW f \in TmpNames \cup {NoFile},
         NEW g \in {"none", "snap", "tmp", "rename", "emit"},
         f \in TmpNames \/ g # "rename", Then(p, g, f)
  PROVE  /\ pers' \in [Persisters -> Updates]
         /\ wpc' \in [Ids -> {"none", "start", "body", "end", "done", "stray"}]
<1>1. pers[p] \in Updates
  BY DEF TypeOK
<1>2. [pers[p] EXCEPT !.stage = g, !.snap = Nothing, !.file = f] \in Updates
  BY <1>1, StageTypes, NothingType
<1>3. CASE p \notin {j \in Ids : wpc[j] = "stray"}
  <2>1. pers' = [pers EXCEPT ![p] = [pers[p] EXCEPT !.stage = g, !.snap = Nothing, !.file = f]]
    BY <1>1, <1>3 DEF Then, TypeOK, Updates
  <2> QED
    BY <2>1, <1>2, <1>3 DEF Then, TypeOK
<1>4. CASE p \in {j \in Ids : wpc[j] = "stray"}
  BY <1>4, UpdateTypes DEF Then, TypeOK
<1> QED
  BY <1>3, <1>4

LEMMA NextType == TypeOK /\ [Next]_vars => TypeOK'
<1> SUFFICES ASSUME TypeOK, [Next]_vars
             PROVE  TypeOK'
  OBVIOUS
<1> USE JobsAssumption, UpdateTypes, StatusValues DEF TypeOK
<1>1. ASSUME NEW c \in Callers, NEW t \in Targets, CreateUniqueActive(c, t)
      PROVE  TypeOK'
  <2>1. nextId \in Ids /\ nextId + 1 \in 1..(MaxJobs + 1)
    BY <1>1 DEF CreateUniqueActive, Ids
  <2>2. status' \in Histories
    BY <1>1 DEF CreateUniqueActive, Histories
  <2>3. pers' \in [Persisters -> Updates]
    BY <1>1 DEF CreateUniqueActive, Persisters
  <2> QED
    BY <1>1, <2>1, <2>2, <2>3 DEF CreateUniqueActive, taskVars, diskVars
<1>2. ASSUME NEW c \in Callers, NEW j \in Ids, CancelReport(c, j)
      PROVE  TypeOK'
  <2>1. status' \in Histories
    BY <1>2 DEF CancelReport, Histories
  <2> QED
    BY <1>2, <2>1 DEF CancelReport, taskVars, diskVars
<1>3. ASSUME NEW c \in Callers, EmitCreated(c)
      PROVE  TypeOK'
  BY <1>3 DEF EmitCreated, tableVars, diskVars, Persisters
<1>4. ASSUME NEW c \in Callers, RegisterAbortHandle(c)
      PROVE  TypeOK'
  <2>1. cjob[c] \in Ids
    BY <1>4 DEF RegisterAbortHandle
  <2> QED
    BY <1>4, <2>1 DEF RegisterAbortHandle, Return, MarkAborted, diskVars
<1>5. ASSUME NEW c \in Callers, AbortTask(c)
      PROVE  TypeOK'
  <2>1. cjob[c] \in Ids
    BY <1>5 DEF AbortTask
  <2>2. pers' \in [Persisters -> Updates]
    BY <1>5 DEF AbortTask, Persisters
  <2> QED
    BY <1>5, <2>1, <2>2 DEF AbortTask, MarkAborted, tableVars, diskVars
<1>6. ASSUME NEW c \in Callers, EmitCancelled(c)
      PROVE  TypeOK'
  BY <1>6 DEF EmitCancelled, Return, tableVars, taskVars, diskVars, Persisters
<1>7. ASSUME NEW p \in Persisters, TakeSnapshot(p)
      PROVE  TypeOK'
  <2>1. pers[p] \in Updates /\ status \in Histories
    OBVIOUS
  <2>2. /\ [pers[p] EXCEPT !.stage = "tmp", !.snap = status] \in Updates
        /\ [pers[p] EXCEPT !.stage = "emit"] \in Updates
    BY <2>1, StageTypes
  <2> QED
    BY <1>7, <2>2 DEF TakeSnapshot, tableVars, taskVars, callerVars, diskVars
<1>8. ASSUME NEW p \in Persisters, WriteTmp(p)
      PROVE  TypeOK'
  <2>1. pers[p] \in Updates
    OBVIOUS
  <2>2. pers[p].snap \in Histories
    BY <2>1 DEF Updates
  <2>3. /\ pers' \in [Persisters -> Updates]
        /\ wpc' \in [Ids -> {"none", "start", "body", "end", "done", "stray"}]
    <3> HIDE DEF TypeOK
    <3> QED
      BY <1>8, ThenType DEF WriteTmp
  <2> QED
    BY <1>8, <2>2, <2>3 DEF WriteTmp, WriteFails, tableVars, callerVars
<1>9. ASSUME NEW p \in Persisters, RenameTmp(p)
      PROVE  TypeOK'
  <2>1. pers[p] \in Updates
    OBVIOUS
  <2>2. pers[p].file \in TmpNames
    BY <1>9, <2>1 DEF Updates, RenameTmp
  <2>3. /\ pers' \in [Persisters -> Updates]
        /\ wpc' \in [Ids -> {"none", "start", "body", "end", "done", "stray"}]
    <3> HIDE DEF TypeOK
    <3> QED
      BY <1>9, ThenType DEF RenameTmp
  <2>4. tmp[pers[p].file] \in Histories \cup {NoFile}
    BY <2>2
  <2>5. history' \in Histories
    BY <1>9, <2>4 DEF RenameTmp
  <2>6. writable' \in BOOLEAN
    BY <1>9 DEF RenameTmp, WriteFails
  <2>7. tmp' \in [TmpNames -> Histories \cup {NoFile}]
    BY <1>9, <2>2 DEF RenameTmp
  <2> QED
    BY <1>9, <2>3, <2>5, <2>6, <2>7 DEF RenameTmp, tableVars, callerVars
<1>10. ASSUME NEW j \in Ids, NEW s \in Statuses, UpdateJob(j, s)
       PROVE  status' \in Histories /\ pers' \in [Persisters -> Updates]
  BY <1>10 DEF UpdateJob, Histories, Persisters
<1>11. ASSUME NEW j \in Ids, StartJob(j)
       PROVE  TypeOK'
  <2>1. status[j] \in Statuses
    BY DEF Histories
  <2>2. status' \in Histories /\ pers' \in [Persisters -> Updates]
    BY <1>10, <1>11, <2>1 DEF StartJob
  <2> QED
    BY <1>11, <2>2 DEF StartJob, callerVars, diskVars
<1>12. ASSUME NEW j \in Ids, Progress(j)
       PROVE  TypeOK'
  <2>1. status[j] \in Statuses
    BY DEF Histories
  <2>2. status' \in Histories /\ pers' \in [Persisters -> Updates]
    BY <1>10, <1>12, <2>1 DEF Progress
  <2>3. progressed' \in [Ids -> 0..MaxProgress]
    BY <1>12 DEF Progress
  <2> QED
    BY <1>12, <2>2, <2>3 DEF Progress, callerVars, diskVars
<1>13. ASSUME NEW j \in Ids, NEW s \in {"Succeeded", "Failed"}, EndJob(j, s)
       PROVE  TypeOK'
  <2>1. status' \in Histories /\ pers' \in [Persisters -> Updates]
    BY <1>10, <1>13 DEF EndJob, EndedStatus
  <2> QED
    BY <1>13, <2>1 DEF EndJob, callerVars, diskVars
<1>14. ASSUME NEW j \in Ids, EmitUpdated(j)
       PROVE  TypeOK'
  <2>1. pers[j] \in Updates
    BY DEF Persisters
  <2>2. pers[j].status \in Statuses
    BY <2>1 DEF Updates
  <2> QED
    BY <1>14, <2>2 DEF EmitUpdated, tableVars, callerVars, diskVars, Persisters
<1>15. ASSUME NEW j \in Ids, RemoveAbortHandle(j)
       PROVE  TypeOK'
  BY <1>15 DEF RemoveAbortHandle, callerVars, diskVars
<1>16. ASSUME NEW j \in Ids, AbortLands(j)
       PROVE  TypeOK'
  BY <1>16 DEF AbortLands, tableVars, callerVars, diskVars, Persisters
<1>17. CASE Restart
  <2>1. Sanitized(history) \in Histories
    BY DEF Sanitized, Histories
  <2>2. status' \in Histories /\ history' \in Histories
    BY <1>17, <2>1, NothingType DEF Restart
  <2>3. /\ wpc' \in [Ids -> {"none", "start", "body", "end", "done", "stray"}]
        /\ progressed' \in [Ids -> 0..MaxProgress]
    BY <1>17 DEF Restart
  <2>4. /\ cpc' \in [Callers -> {"idle", "create", "register", "abort", "cancel"}]
        /\ cjob' \in [Callers -> Ids \cup {NoJob}]
        /\ \A c \in Callers : cpc'[c] # "idle" => cjob'[c] \in Ids
    BY <1>17 DEF Restart
  <2>5. writable' \in BOOLEAN
    BY <1>17 DEF Restart
  <2>6. pers' \in [Persisters -> Updates]
    BY <1>17 DEF Restart
  <2>7. restarts' \in 0..MaxRestarts
    BY <1>17 DEF Restart
  <2> QED
    BY <1>17, <2>2, <2>3, <2>4, <2>5, <2>6, <2>7 DEF Restart
<1>18. CASE UNCHANGED vars
  BY <1>18 DEF vars, tableVars, taskVars, callerVars, diskVars
<1> HIDE JobsAssumption, UpdateTypes, StatusValues DEF TypeOK
<1> QED
  BY <1>1, <1>2, <1>3, <1>4, <1>5, <1>6, <1>7, <1>8, <1>9, <1>11, <1>12, <1>13, <1>14,
     <1>15, <1>16, <1>17, <1>18 DEF Next, CallerStep, TaskStep, Persisters

\* Every variable of the job manager has its type in every reachable state.
THEOREM JobsTypeCorrect == Spec => []TypeOK
  BY InitType, NextType, PTL DEF Spec

\* No step but list() puts anything into a snapshot.
SnapsKept == \A p \in Persisters : pers'[p].snap \in {pers[p].snap, Nothing}

LEMMA SnapsOfUpdates == NoUpdate.snap = Nothing /\ \A s \in Statuses : Updated(s).snap = Nothing
  BY DEF NoUpdate, Updated

LEMMA SnapsKeptByReset ==
  ASSUME TypeOK, NEW p \in Persisters, NEW u \in Updates, u.snap = Nothing,
         pers' = [pers EXCEPT ![p] = u]
  PROVE  SnapsKept
  BY DEF SnapsKept, TypeOK

\* The future stays empty when files are left alone and only existing jobs and
\* their tasks change.
LEMMA FutureKept ==
  ASSUME TypeOK, FutureIsEmpty, SnapsKept, UNCHANGED <<nextId, tmp, history>>,
         \A j \in Ids : j >= nextId => status'[j] = status[j] /\ wpc'[j] = wpc[j]
  PROVE  FutureIsEmpty'
<1>1. \A j \in Ids, p \in Persisters : j >= nextId => pers'[p].snap[j] = "Absent"
  BY DEF FutureIsEmpty, SnapsKept, Nothing
<1> QED
  BY <1>1 DEF FutureIsEmpty

\* What update_job does to the table and to the snapshots.
LEMMA UpdateJobEffect ==
  ASSUME TypeOK, NEW j \in Ids, NEW s \in Statuses,
         \/ j \notin Listed /\ UNCHANGED <<status, pers>>
         \/ j \in Listed /\ UpdateJob(j, s)
  PROVE  /\ \A k \in Ids : k # j => status'[k] = status[k]
         /\ status'[j] = IF j \in Listed THEN s ELSE "Absent"
         /\ status[j] = "Absent" <=> j \notin Listed
         /\ SnapsKept
<1>1. CASE j \notin Listed /\ UNCHANGED <<status, pers>>
  BY <1>1 DEF Listed, SnapsKept
<1>2. CASE j \in Listed /\ UpdateJob(j, s)
  <2>1. SnapsKept
    BY <1>2, SnapsKeptByReset, SnapsOfUpdates, UpdateTypes DEF UpdateJob, Persisters
  <2> QED
    BY <1>2, <2>1 DEF UpdateJob, Listed, TypeOK, Histories
<1> QED
  BY <1>1, <1>2

LEMMA Numbers == TypeOK => nextId \in Int /\ Ids \subseteq Int
  BY JobsAssumption DEF TypeOK, Ids

LEMMA CreateKeepsInv ==
  ASSUME JobsInv, TypeOK',
         NEW c \in Callers, NEW t \in Targets, CreateUniqueActive(c, t)
  PROVE  JobsInv'
<1> USE JobsAssumption DEF JobsInv, TypeOK, Ids
<1>1. OneActivePerTarget'
  BY DEF OneActivePerTarget, IsLive, Live, CreateUniqueActive, taskVars, diskVars, ActiveJobs, Evicted, Listed, Updated, NoUpdate
<1>2. ActiveHasTask'
  BY DEF ActiveHasTask, CallersKnowTheirJob, TasksAreConsistent, Spawning, Runs, IsLive, Live, CreateUniqueActive, taskVars, diskVars, ActiveJobs, Evicted, Listed, Updated, NoUpdate
<1>3. CancelledIsBeingStopped'
  BY DEF CancelledIsBeingStopped, ActiveHasTask,CallersKnowTheirJob, TasksAreConsistent, Cancelling, Runs, IsLive, Live, CreateUniqueActive, taskVars, diskVars, ActiveJobs, Evicted, Listed, Updated, NoUpdate
<1>4. HandleHasUse'
  BY DEF HandleHasUse, ActiveHasTask, CallersKnowTheirJob, TasksAreConsistent, Spawning, Runs, IsLive, Live, Terminal, CreateUniqueActive, taskVars, diskVars, ActiveJobs, Evicted, Listed, Updated, NoUpdate
<1>5. CallersKnowTheirJob'
  BY DEF CallersKnowTheirJob, ActiveHasTask,TasksAreConsistent, FutureIsEmpty, Spawning, IsLive, Live, CreateUniqueActive, taskVars, diskVars, ActiveJobs, Evicted, Listed, Updated, NoUpdate
<1>6. TasksAreConsistent'
  BY DEF TasksAreConsistent, CallersKnowTheirJob, FutureIsEmpty, ActiveHasTask, Spawning, IsLive, Live, Runs, CreateUniqueActive, taskVars, diskVars, ActiveJobs, Evicted, Listed, Updated, NoUpdate
<1>7. FutureIsEmpty'
  BY DEF FutureIsEmpty, CallersKnowTheirJob, IsLive, Live, Persisters, Nothing, CreateUniqueActive, taskVars, diskVars, ActiveJobs, Evicted, Listed, Updated, NoUpdate
<1> QED
  BY <1>1, <1>2, <1>3, <1>4, <1>5, <1>6, <1>7

LEMMA EmitCreatedKeepsInv ==
  ASSUME JobsInv, TypeOK',
         NEW c \in Callers, EmitCreated(c)
  PROVE  JobsInv'
<1> USE JobsAssumption DEF JobsInv, TypeOK, Ids
<1>1. OneActivePerTarget'
  BY DEF OneActivePerTarget, IsLive, Live, EmitCreated, tableVars, diskVars
<1>2. ActiveHasTask'
  BY DEF ActiveHasTask, CallersKnowTheirJob, TasksAreConsistent, Spawning, Runs, IsLive, Live, EmitCreated, tableVars, diskVars
<1>3. CancelledIsBeingStopped'
  BY DEF CancelledIsBeingStopped, ActiveHasTask,CallersKnowTheirJob, TasksAreConsistent, Cancelling, Runs, IsLive, Live, EmitCreated, tableVars, diskVars
<1>4. HandleHasUse'
  BY DEF HandleHasUse, ActiveHasTask, CallersKnowTheirJob, TasksAreConsistent, Spawning, Runs, IsLive, Live, Terminal, EmitCreated, tableVars, diskVars
<1>5. CallersKnowTheirJob'
  BY DEF CallersKnowTheirJob, ActiveHasTask,TasksAreConsistent, FutureIsEmpty, Spawning, IsLive, Live, EmitCreated, tableVars, diskVars
<1>6. TasksAreConsistent'
  BY DEF TasksAreConsistent, CallersKnowTheirJob, FutureIsEmpty, ActiveHasTask, Spawning, IsLive, Live, Runs, EmitCreated, tableVars, diskVars
<1>7. FutureIsEmpty'
  <2>1. SnapsKept
    BY SnapsKeptByReset, SnapsOfUpdates, UpdateTypes, StatusValues DEF EmitCreated, Persisters
  <2>2. /\ UNCHANGED <<nextId, tmp, history>>
        /\ \A k \in Ids : k >= nextId => status'[k] = status[k] /\ wpc'[k] = wpc[k]
    <3>1. cjob[c] < nextId
      BY DEF EmitCreated, CallersKnowTheirJob
    <3>2. wpc' = [wpc EXCEPT ![cjob[c]] = "start"] /\ UNCHANGED <<status, nextId, tmp, history>>
      BY DEF EmitCreated, tableVars, diskVars
    <3>3. \A k \in Ids : k >= nextId => k # cjob[c]
      BY <3>1
    <3>4. wpc \in [Ids -> {"none", "start", "body", "end", "stray", "done"}]
      OBVIOUS
    <3> QED
      BY <3>2, <3>3, <3>4
  <2> QED
    BY <2>1, <2>2, FutureKept
<1> QED
  BY <1>1, <1>2, <1>3, <1>4, <1>5, <1>6, <1>7

LEMMA RegisterKeepsInv ==
  ASSUME JobsInv, TypeOK',
         NEW c \in Callers, RegisterAbortHandle(c)
  PROVE  JobsInv'
<1> USE JobsAssumption DEF JobsInv, TypeOK, Ids
<1>1. OneActivePerTarget'
  BY DEF OneActivePerTarget, IsLive, Live, RegisterAbortHandle, Return, MarkAborted, diskVars
<1>2. ActiveHasTask'
  BY DEF ActiveHasTask, CallersKnowTheirJob, TasksAreConsistent, Spawning, Runs, IsLive, Live, RegisterAbortHandle, Return, MarkAborted, diskVars
<1>3. CancelledIsBeingStopped'
  BY DEF CancelledIsBeingStopped, ActiveHasTask,CallersKnowTheirJob, TasksAreConsistent, Cancelling, Runs, IsLive, Live, RegisterAbortHandle, Return, MarkAborted, diskVars
<1>4. HandleHasUse'
  BY DEF HandleHasUse, ActiveHasTask, CallersKnowTheirJob, TasksAreConsistent, Spawning, Runs, IsLive, Live, Terminal, RegisterAbortHandle, Return, MarkAborted, diskVars
<1>5. CallersKnowTheirJob'
  BY DEF CallersKnowTheirJob, ActiveHasTask,TasksAreConsistent, FutureIsEmpty, Spawning, IsLive, Live, RegisterAbortHandle, Return, MarkAborted, diskVars
<1>6. TasksAreConsistent'
  BY DEF TasksAreConsistent, CallersKnowTheirJob, FutureIsEmpty, ActiveHasTask, Spawning, IsLive, Live, Runs, RegisterAbortHandle, Return, MarkAborted, diskVars
<1>7. FutureIsEmpty'
  BY DEF FutureIsEmpty, CallersKnowTheirJob, IsLive, Live, Persisters, Nothing, RegisterAbortHandle, Return, MarkAborted, diskVars
<1> QED
  BY <1>1, <1>2, <1>3, <1>4, <1>5, <1>6, <1>7

LEMMA CancelKeepsInv ==
  ASSUME JobsInv, TypeOK',
         NEW c \in Callers, NEW j \in Ids, CancelReport(c, j)
  PROVE  JobsInv'
<1> USE JobsAssumption DEF JobsInv, TypeOK, Ids
<1>1. OneActivePerTarget'
  BY DEF OneActivePerTarget, IsLive, Live, CancelReport, taskVars, diskVars
<1>2. ActiveHasTask'
  BY DEF ActiveHasTask, CallersKnowTheirJob, TasksAreConsistent, Spawning, Runs, IsLive, Live, CancelReport, taskVars, diskVars
<1>3. CancelledIsBeingStopped'
  BY DEF CancelledIsBeingStopped, ActiveHasTask,CallersKnowTheirJob, TasksAreConsistent, Cancelling, Runs, IsLive, Live, CancelReport, taskVars, diskVars
<1>4. HandleHasUse'
  BY DEF HandleHasUse, ActiveHasTask, CallersKnowTheirJob, TasksAreConsistent, Spawning, Runs, IsLive, Live, Terminal, CancelReport, taskVars, diskVars
<1>5. CallersKnowTheirJob'
  <2>1. j < nextId
    <3>1. status[j] # "Absent"
      BY DEF CancelReport, IsLive, Live
    <3>2. FutureIsEmpty /\ nextId \in Int /\ j \in Int
      BY Numbers
    <3> QED
      BY ONLY <3>1, <3>2, j \in Ids DEF FutureIsEmpty
  <2>2. \A d \in Callers : cpc[d] \in {"create", "register", "abort"} => cjob[d] # j
    BY DEF CancelReport, CallersKnowTheirJob
  <2>3. ~IsLive(j)' /\ \A k \in Ids : k # j => status'[k] = status[k]
    BY DEF CancelReport, IsLive, Live, Histories
  <2> QED
    BY <2>1, <2>2, <2>3 DEF CancelReport, CallersKnowTheirJob, IsLive, taskVars
<1>6. TasksAreConsistent'
  BY DEF TasksAreConsistent, CallersKnowTheirJob, FutureIsEmpty, ActiveHasTask, Spawning, IsLive, Live, Runs, CancelReport, taskVars, diskVars
<1>7. FutureIsEmpty'
  BY DEF FutureIsEmpty, CallersKnowTheirJob, IsLive, Live, Persisters, Nothing, CancelReport, taskVars, diskVars
<1> QED
  BY <1>1, <1>2, <1>3, <1>4, <1>5, <1>6, <1>7

LEMMA AbortTaskKeepsInv ==
  ASSUME JobsInv, TypeOK',
         NEW c \in Callers, AbortTask(c)
  PROVE  JobsInv'
<1> USE JobsAssumption DEF JobsInv, TypeOK, Ids
<1>1. OneActivePerTarget'
  BY DEF OneActivePerTarget, IsLive, Live, AbortTask, MarkAborted, tableVars, diskVars
<1>2. ActiveHasTask'
  BY DEF ActiveHasTask, CallersKnowTheirJob, TasksAreConsistent, Spawning, Runs, IsLive, Live, AbortTask, MarkAborted, tableVars, diskVars
<1>3. CancelledIsBeingStopped'
  BY DEF CancelledIsBeingStopped, ActiveHasTask,CallersKnowTheirJob, TasksAreConsistent, Cancelling, Runs, IsLive, Live, AbortTask, MarkAborted, tableVars, diskVars
<1>4. HandleHasUse'
  BY DEF HandleHasUse, ActiveHasTask, CallersKnowTheirJob, TasksAreConsistent, Spawning, Runs, IsLive, Live, Terminal, AbortTask, MarkAborted, tableVars, diskVars
<1>5. CallersKnowTheirJob'
  BY DEF CallersKnowTheirJob, ActiveHasTask,TasksAreConsistent, FutureIsEmpty, Spawning, IsLive, Live, AbortTask, MarkAborted, tableVars, diskVars
<1>6. TasksAreConsistent'
  BY DEF TasksAreConsistent, CallersKnowTheirJob, FutureIsEmpty, ActiveHasTask, Spawning, IsLive, Live, Runs, AbortTask, MarkAborted, tableVars, diskVars
<1>7. FutureIsEmpty'
  <2>1. SnapsKept
    BY SnapsKeptByReset, SnapsOfUpdates, UpdateTypes, StatusValues DEF AbortTask, Persisters
  <2>2. /\ UNCHANGED <<nextId, tmp, history>>
        /\ \A k \in Ids : k >= nextId => status'[k] = status[k] /\ wpc'[k] = wpc[k]
    BY DEF CallersKnowTheirJob, FutureIsEmpty, TasksAreConsistent, Runs, AbortTask, Persisters, tableVars, taskVars, diskVars
  <2> QED
    BY <2>1, <2>2, FutureKept
<1> QED
  BY <1>1, <1>2, <1>3, <1>4, <1>5, <1>6, <1>7

LEMMA EmitCancelledKeepsInv ==
  ASSUME JobsInv, TypeOK',
         NEW c \in Callers, EmitCancelled(c)
  PROVE  JobsInv'
<1> USE JobsAssumption DEF JobsInv, TypeOK, Ids
<1>1. OneActivePerTarget'
  BY DEF OneActivePerTarget, IsLive, Live, EmitCancelled, Return, tableVars, taskVars, diskVars
<1>2. ActiveHasTask'
  BY DEF ActiveHasTask, CallersKnowTheirJob, TasksAreConsistent, Spawning, Runs, IsLive, Live, EmitCancelled, Return, tableVars, taskVars, diskVars
<1>3. CancelledIsBeingStopped'
  BY DEF CancelledIsBeingStopped, ActiveHasTask,CallersKnowTheirJob, TasksAreConsistent, Cancelling, Runs, IsLive, Live, EmitCancelled, Return, tableVars, taskVars, diskVars
<1>4. HandleHasUse'
  BY DEF HandleHasUse, ActiveHasTask, CallersKnowTheirJob, TasksAreConsistent, Spawning, Runs, IsLive, Live, Terminal, EmitCancelled, Return, tableVars, taskVars, diskVars
<1>5. CallersKnowTheirJob'
  BY DEF CallersKnowTheirJob, ActiveHasTask,TasksAreConsistent, FutureIsEmpty, Spawning, IsLive, Live, EmitCancelled, Return, tableVars, taskVars, diskVars
<1>6. TasksAreConsistent'
  BY DEF TasksAreConsistent, CallersKnowTheirJob, FutureIsEmpty, ActiveHasTask, Spawning, IsLive, Live, Runs, EmitCancelled, Return, tableVars, taskVars, diskVars
<1>7. FutureIsEmpty'
  <2>1. SnapsKept
    BY SnapsKeptByReset, SnapsOfUpdates, UpdateTypes, StatusValues DEF EmitCancelled, Persisters
  <2>2. /\ UNCHANGED <<nextId, tmp, history>>
        /\ \A k \in Ids : k >= nextId => status'[k] = status[k] /\ wpc'[k] = wpc[k]
    BY DEF CallersKnowTheirJob, FutureIsEmpty, TasksAreConsistent, Runs, EmitCancelled, Persisters, tableVars, taskVars, diskVars
  <2> QED
    BY <2>1, <2>2, FutureKept
<1> QED
  BY <1>1, <1>2, <1>3, <1>4, <1>5, <1>6, <1>7

LEMMA StartKeepsInv ==
  ASSUME JobsInv, TypeOK',
         NEW j \in Ids, StartJob(j)
  PROVE  JobsInv'
<1>p. /\ TypeOK /\ OneActivePerTarget /\ ActiveHasTask /\ CancelledIsBeingStopped
      /\ HandleHasUse /\ CallersKnowTheirJob /\ TasksAreConsistent /\ FutureIsEmpty
  BY DEF JobsInv
<1>q. /\ status \in [Ids -> Statuses]
      /\ handles \subseteq Ids /\ aborting \subseteq Ids
      /\ \A c \in Callers : cpc[c] # "idle" => cjob[c] \in Ids
      /\ nextId \in Int /\ Ids \subseteq Int
  BY <1>p, Numbers DEF TypeOK, Histories
<1>a. /\ wpc[j] = "start" /\ wpc'[j] = "body"
      /\ \A k \in Ids : k # j => wpc'[k] = wpc[k]
      /\ UNCHANGED <<target, nextId, handles, aborting, reaper, cpc, cjob, tmp, history>>
  BY <1>p DEF StartJob, callerVars, diskVars, TypeOK
<1>b. (IF IsLive(j) THEN "Running" ELSE status[j]) \in Statuses
  BY <1>q, StatusValues DEF Histories
<1>c. /\ \A k \in Ids : k # j => status'[k] = status[k]
      /\ status'[j] = IF j \in Listed THEN (IF IsLive(j) THEN "Running" ELSE status[j]) ELSE "Absent"
      /\ status[j] = "Absent" <=> j \notin Listed
      /\ SnapsKept
  BY <1>p, <1>b, UpdateJobEffect DEF StartJob
<1>d. IsLive(j)' = IsLive(j) /\ (~IsLive(j) => status'[j] = status[j])
  BY <1>q, <1>c DEF IsLive, Live
<1>1. OneActivePerTarget'
  BY <1>p, <1>q, <1>a, <1>c, <1>d DEF OneActivePerTarget, IsLive, Live
<1>2. ActiveHasTask'
  BY <1>p, <1>q, <1>a, <1>c, <1>d DEF ActiveHasTask, CallersKnowTheirJob, Spawning, IsLive, Live
<1>3. CancelledIsBeingStopped'
  BY <1>p, <1>q, <1>a, <1>c, <1>d DEF CancelledIsBeingStopped, Cancelling, Runs, IsLive, Live
<1>4. HandleHasUse'
  BY <1>p, <1>q, <1>a, <1>c, <1>d DEF HandleHasUse, ActiveHasTask, CallersKnowTheirJob, Spawning, IsLive, Live
<1>5. CallersKnowTheirJob'
  BY <1>p, <1>q, <1>a, <1>c, <1>d DEF CallersKnowTheirJob, IsLive, Live
<1>6. TasksAreConsistent'
  BY <1>p, <1>q, <1>a, <1>c, <1>d DEF TasksAreConsistent, Runs, IsLive, Live
<1>7. FutureIsEmpty'
  <2>1. j < nextId
    BY <1>p, <1>q, <1>a DEF FutureIsEmpty
  <2> QED
    BY <1>p, <1>q, <1>a, <1>c, <2>1, FutureKept
<1> QED
  BY <1>1, <1>2, <1>3, <1>4, <1>5, <1>6, <1>7 DEF JobsInv

LEMMA ProgressKeepsInv ==
  ASSUME JobsInv, TypeOK',
         NEW j \in Ids, Progress(j)
  PROVE  JobsInv'
<1>p. /\ TypeOK /\ OneActivePerTarget /\ ActiveHasTask /\ CancelledIsBeingStopped
      /\ HandleHasUse /\ CallersKnowTheirJob /\ TasksAreConsistent /\ FutureIsEmpty
  BY DEF JobsInv
<1>q. /\ status \in [Ids -> Statuses]
      /\ handles \subseteq Ids /\ aborting \subseteq Ids
      /\ \A c \in Callers : cpc[c] # "idle" => cjob[c] \in Ids
      /\ nextId \in Int /\ Ids \subseteq Int
  BY <1>p, Numbers DEF TypeOK, Histories
<1>a. wpc[j] = "body" /\ UNCHANGED <<target, nextId, handles, wpc, aborting, reaper, cpc, cjob, tmp, history>>
  BY DEF Progress, callerVars, diskVars
<1>b. status[j] \in Statuses
  BY <1>q, StatusValues DEF Histories
<1>c. /\ \A k \in Ids : k # j => status'[k] = status[k]
      /\ status'[j] = IF j \in Listed THEN status[j] ELSE "Absent"
      /\ status[j] = "Absent" <=> j \notin Listed
      /\ SnapsKept
  BY <1>p, <1>b, UpdateJobEffect DEF Progress
<1>d. IsLive(j)' = IsLive(j) /\ (~IsLive(j) => status'[j] = status[j])
  BY <1>q, <1>c DEF IsLive, Live
<1>1. OneActivePerTarget'
  BY <1>p, <1>q, <1>a, <1>c, <1>d DEF OneActivePerTarget, IsLive, Live
<1>2. ActiveHasTask'
  BY <1>p, <1>q, <1>a, <1>c, <1>d DEF ActiveHasTask, CallersKnowTheirJob, Spawning, IsLive, Live
<1>3. CancelledIsBeingStopped'
  BY <1>p, <1>q, <1>a, <1>c, <1>d DEF CancelledIsBeingStopped, Cancelling, Runs, IsLive, Live
<1>4. HandleHasUse'
  BY <1>p, <1>q, <1>a, <1>c, <1>d DEF HandleHasUse, ActiveHasTask, CallersKnowTheirJob, Spawning, IsLive, Live
<1>5. CallersKnowTheirJob'
  BY <1>p, <1>q, <1>a, <1>c, <1>d DEF CallersKnowTheirJob, IsLive, Live
<1>6. TasksAreConsistent'
  BY <1>p, <1>q, <1>a, <1>c, <1>d DEF TasksAreConsistent, Runs, IsLive, Live
<1>7. FutureIsEmpty'
  <2>1. j < nextId
    BY <1>p, <1>q, <1>a DEF FutureIsEmpty
  <2> QED
    BY <1>p, <1>q, <1>a, <1>c, <2>1, FutureKept
<1> QED
  BY <1>1, <1>2, <1>3, <1>4, <1>5, <1>6, <1>7 DEF JobsInv

LEMMA EndKeepsInv ==
  ASSUME JobsInv, TypeOK',
         NEW j \in Ids, NEW s \in {"Succeeded", "Failed"}, EndJob(j, s)
  PROVE  JobsInv'
<1>p. /\ TypeOK /\ OneActivePerTarget /\ ActiveHasTask /\ CancelledIsBeingStopped
      /\ HandleHasUse /\ CallersKnowTheirJob /\ TasksAreConsistent /\ FutureIsEmpty
  BY DEF JobsInv
<1>q. /\ status \in [Ids -> Statuses]
      /\ handles \subseteq Ids /\ aborting \subseteq Ids
      /\ \A c \in Callers : cpc[c] # "idle" => cjob[c] \in Ids
      /\ nextId \in Int /\ Ids \subseteq Int
  BY <1>p, Numbers DEF TypeOK, Histories
<1>a. /\ wpc[j] = "body" /\ wpc'[j] \in {"done", "end"}
      /\ j \in Listed => wpc'[j] = "end" /\ UNCHANGED aborting
      /\ aborting' = aborting \/ aborting' = aborting \ {j}
      /\ wpc'[j] = "done" => j \notin aborting'
      /\ \A k \in Ids : k # j => wpc'[k] = wpc[k]
      /\ UNCHANGED <<target, nextId, handles, reaper, cpc, cjob, tmp, history>>
  BY <1>p DEF EndJob, callerVars, diskVars, TypeOK
<1>b. EndedStatus(j, s) \in Statuses
  BY <1>q, StatusValues DEF Histories, EndedStatus
<1>c. /\ \A k \in Ids : k # j => status'[k] = status[k]
      /\ status'[j] = IF j \in Listed THEN EndedStatus(j, s) ELSE "Absent"
      /\ status[j] = "Absent" <=> j \notin Listed
      /\ SnapsKept
  BY <1>p, <1>b, UpdateJobEffect DEF EndJob
<1>d. ~IsLive(j)' /\ (status'[j] = "Cancelled" <=> status[j] = "Cancelled")
  BY <1>q, <1>c DEF IsLive, Live, EndedStatus
<1>1. OneActivePerTarget'
  BY <1>p, <1>q, <1>a, <1>c, <1>d DEF OneActivePerTarget, IsLive, Live
<1>2. ActiveHasTask'
  BY <1>p, <1>q, <1>a, <1>c, <1>d DEF ActiveHasTask, CallersKnowTheirJob, Spawning, IsLive, Live
<1>3. CancelledIsBeingStopped'
  BY <1>p, <1>q, <1>a, <1>c, <1>d DEF CancelledIsBeingStopped, Cancelling, Runs, IsLive, Live
<1>4. HandleHasUse'
  BY <1>p, <1>q, <1>a, <1>c, <1>d DEF HandleHasUse, ActiveHasTask, CallersKnowTheirJob, Spawning, IsLive, Live
<1>5. CallersKnowTheirJob'
  BY <1>p, <1>q, <1>a, <1>c, <1>d DEF CallersKnowTheirJob, IsLive, Live
<1>6. TasksAreConsistent'
  BY <1>p, <1>q, <1>a, <1>c, <1>d DEF TasksAreConsistent, Runs, IsLive, Live
<1>7. FutureIsEmpty'
  <2>1. j < nextId
    BY <1>p, <1>q, <1>a DEF FutureIsEmpty
  <2> QED
    BY <1>p, <1>q, <1>a, <1>c, <2>1, FutureKept
<1> QED
  BY <1>1, <1>2, <1>3, <1>4, <1>5, <1>6, <1>7 DEF JobsInv

LEMMA EmitUpdatedKeepsInv ==
  ASSUME JobsInv, TypeOK',
         NEW j \in Ids, EmitUpdated(j)
  PROVE  JobsInv'
<1> USE JobsAssumption DEF JobsInv, TypeOK, Ids
<1>1. OneActivePerTarget'
  BY DEF OneActivePerTarget, IsLive, Live, EmitUpdated, tableVars, callerVars, diskVars
<1>2. ActiveHasTask'
  BY DEF ActiveHasTask, CallersKnowTheirJob, TasksAreConsistent, Spawning, Runs, IsLive, Live, EmitUpdated, tableVars, callerVars, diskVars
<1>3. CancelledIsBeingStopped'
  BY DEF CancelledIsBeingStopped, ActiveHasTask,CallersKnowTheirJob, TasksAreConsistent, Cancelling, Runs, IsLive, Live, EmitUpdated, tableVars, callerVars, diskVars
<1>4. HandleHasUse'
  BY DEF HandleHasUse, ActiveHasTask, CallersKnowTheirJob, TasksAreConsistent, Spawning, Runs, IsLive, Live, Terminal, EmitUpdated, tableVars, callerVars, diskVars
<1>5. CallersKnowTheirJob'
  BY DEF CallersKnowTheirJob, ActiveHasTask,TasksAreConsistent, FutureIsEmpty, Spawning, IsLive, Live, EmitUpdated, tableVars, callerVars, diskVars
<1>6. TasksAreConsistent'
  BY DEF TasksAreConsistent, CallersKnowTheirJob, FutureIsEmpty, ActiveHasTask, Spawning, IsLive, Live, Runs, EmitUpdated, tableVars, callerVars, diskVars
<1>7. FutureIsEmpty'
  <2>1. SnapsKept
    BY SnapsKeptByReset, SnapsOfUpdates, UpdateTypes, StatusValues DEF EmitUpdated, Persisters
  <2>2. /\ UNCHANGED <<nextId, tmp, history>>
        /\ \A k \in Ids : k >= nextId => status'[k] = status[k] /\ wpc'[k] = wpc[k]
    BY DEF CallersKnowTheirJob, FutureIsEmpty, TasksAreConsistent, Runs, EmitUpdated, Persisters, tableVars, taskVars, diskVars
  <2> QED
    BY <2>1, <2>2, FutureKept
<1> QED
  BY <1>1, <1>2, <1>3, <1>4, <1>5, <1>6, <1>7

LEMMA ReapKeepsInv ==
  ASSUME JobsInv, TypeOK',
         NEW j \in Ids, RemoveAbortHandle(j)
  PROVE  JobsInv'
<1> USE JobsAssumption DEF JobsInv, TypeOK, Ids
<1>1. OneActivePerTarget'
  BY DEF OneActivePerTarget, IsLive, Live, RemoveAbortHandle, callerVars, diskVars
<1>2. ActiveHasTask'
  BY DEF ActiveHasTask, CallersKnowTheirJob, TasksAreConsistent, Spawning, Runs, IsLive, Live, RemoveAbortHandle, callerVars, diskVars
<1>3. CancelledIsBeingStopped'
  BY DEF CancelledIsBeingStopped, ActiveHasTask,CallersKnowTheirJob, TasksAreConsistent, Cancelling, Runs, IsLive, Live, RemoveAbortHandle, callerVars, diskVars
<1>4. HandleHasUse'
  BY DEF HandleHasUse, ActiveHasTask, CallersKnowTheirJob, TasksAreConsistent, Spawning, Runs, IsLive, Live, Terminal, RemoveAbortHandle, callerVars, diskVars
<1>5. CallersKnowTheirJob'
  BY DEF CallersKnowTheirJob, ActiveHasTask,TasksAreConsistent, FutureIsEmpty, Spawning, IsLive, Live, RemoveAbortHandle, callerVars, diskVars
<1>6. TasksAreConsistent'
  BY DEF TasksAreConsistent, CallersKnowTheirJob, FutureIsEmpty, ActiveHasTask, Spawning, IsLive, Live, Runs, RemoveAbortHandle, callerVars, diskVars
<1>7. FutureIsEmpty'
  BY DEF FutureIsEmpty, CallersKnowTheirJob, IsLive, Live, Persisters, Nothing, RemoveAbortHandle, callerVars, diskVars
<1> QED
  BY <1>1, <1>2, <1>3, <1>4, <1>5, <1>6, <1>7

LEMMA AbortLandsKeepsInv ==
  ASSUME JobsInv, TypeOK',
         NEW j \in Ids, AbortLands(j)
  PROVE  JobsInv'
<1> USE JobsAssumption DEF JobsInv, TypeOK, Ids
<1>a. wpc[j] \in {"start", "body", "end"} /\ wpc'[j] \in {"done", "stray"}
  BY DEF AbortLands, TasksAreConsistent, Runs
<1>b. \A k \in Ids : k # j => wpc'[k] = wpc[k]
  BY DEF AbortLands
<1>1. OneActivePerTarget'
  BY DEF OneActivePerTarget, IsLive, Live, AbortLands, tableVars, callerVars, diskVars
<1>2. ActiveHasTask'
  BY DEF ActiveHasTask, CallersKnowTheirJob, TasksAreConsistent, Spawning, Runs, IsLive, Live, AbortLands, tableVars, callerVars, diskVars
<1>3. CancelledIsBeingStopped'
  BY DEF CancelledIsBeingStopped, ActiveHasTask,CallersKnowTheirJob, TasksAreConsistent, Cancelling, Runs, IsLive, Live, AbortLands, tableVars, callerVars, diskVars
<1>4. HandleHasUse'
  BY DEF HandleHasUse, ActiveHasTask, CallersKnowTheirJob, TasksAreConsistent, Spawning, Runs, IsLive, Live, Terminal, AbortLands, tableVars, callerVars, diskVars
<1>5. CallersKnowTheirJob'
  <2>1. \A k \in Ids : wpc'[k] = "none" <=> wpc[k] = "none"
    BY <1>a, <1>b
  <2> QED
    BY <2>1 DEF AbortLands, CallersKnowTheirJob, IsLive, tableVars, callerVars
<1>6. TasksAreConsistent'
  BY DEF TasksAreConsistent, CallersKnowTheirJob, FutureIsEmpty, ActiveHasTask, Spawning, IsLive, Live, Runs, AbortLands, tableVars, callerVars, diskVars
<1>7. FutureIsEmpty'
  <2>1. SnapsKept
    <3>1. CASE UNCHANGED pers
      BY <3>1 DEF SnapsKept
    <3>2. CASE pers' = [pers EXCEPT ![j] = NoUpdate]
      BY <3>2, SnapsKeptByReset, SnapsOfUpdates, UpdateTypes DEF Persisters
    <3> QED
      BY <3>1, <3>2 DEF AbortLands
  <2>2. /\ UNCHANGED <<nextId, tmp, history>>
        /\ \A k \in Ids : k >= nextId => status'[k] = status[k] /\ wpc'[k] = wpc[k]
    BY <1>a, <1>b DEF FutureIsEmpty, AbortLands, tableVars, diskVars
  <2> QED
    BY <2>1, <2>2, FutureKept
<1> QED
  BY <1>1, <1>2, <1>3, <1>4, <1>5, <1>6, <1>7

LEMMA PersistKeepsInv ==
  ASSUME JobsInv, TypeOK',
         NEW p \in Persisters, TakeSnapshot(p) \/ WriteTmp(p) \/ RenameTmp(p)
  PROVE  JobsInv'
<1> USE JobsAssumption DEF JobsInv, TypeOK, Ids
<1>p. /\ OneActivePerTarget /\ ActiveHasTask /\ CancelledIsBeingStopped
      /\ HandleHasUse /\ CallersKnowTheirJob /\ TasksAreConsistent
  OBVIOUS
<1>q. UNCHANGED <<status, target, nextId, handles, aborting, reaper, cpc, cjob>>
  BY DEF TakeSnapshot, WriteTmp, RenameTmp, tableVars, taskVars, callerVars
<1>r. \A k \in Ids : wpc'[k] = wpc[k] \/ (wpc[k] = "stray" /\ wpc'[k] = "done")
  BY DEF TakeSnapshot, WriteTmp, RenameTmp, Then, taskVars
<1>s. \A c \in Callers : cpc[c] # "idle" => cjob[c] \in Ids
  OBVIOUS
<1> HIDE DEF JobsInv, TypeOK
<1>1. OneActivePerTarget'
  BY <1>p, <1>q DEF OneActivePerTarget, IsLive
<1>2. ActiveHasTask'
  BY <1>p, <1>q, <1>r DEF ActiveHasTask, Spawning, IsLive
<1>3. CancelledIsBeingStopped'
  BY <1>p, <1>q, <1>r DEF CancelledIsBeingStopped, Cancelling, Runs
<1>4. HandleHasUse'
  BY <1>p, <1>q, <1>r DEF HandleHasUse, IsLive, TypeOK
<1>5. CallersKnowTheirJob'
  BY <1>p, <1>q, <1>r, <1>s DEF CallersKnowTheirJob, IsLive
<1>6. TasksAreConsistent'
  BY <1>p, <1>q, <1>r DEF TasksAreConsistent, Runs, TypeOK
<1> USE DEF JobsInv, TypeOK
<1>7. FutureIsEmpty'
  <2> SUFFICES ASSUME NEW k \in Ids, k >= nextId
               PROVE  /\ status'[k] = "Absent" /\ wpc'[k] = "none" /\ history'[k] = "Absent"
                      /\ \A q \in Persisters : pers'[q].snap[k] = "Absent"
                      /\ \A t \in TmpNames : tmp'[t] # NoFile => tmp'[t][k] = "Absent"
    BY DEF FutureIsEmpty, TakeSnapshot, WriteTmp, RenameTmp, tableVars
  <2>1. /\ status[k] = "Absent" /\ wpc[k] = "none" /\ history[k] = "Absent"
        /\ \A q \in Persisters : pers[q].snap[k] = "Absent"
        /\ \A t \in TmpNames : tmp[t] # NoFile => tmp[t][k] = "Absent"
    BY DEF FutureIsEmpty
  <2>2. pers[p] \in Updates
    OBVIOUS
  <2>3. CASE TakeSnapshot(p)
    BY <2>1, <2>2, <2>3 DEF TakeSnapshot, tableVars, taskVars, diskVars, Updates
  <2>4. ASSUME NEW g \in {"rename", "emit"}, NEW f \in TmpNames \cup {NoFile}, Then(p, g, f)
        PROVE  wpc'[k] = "none" /\ \A q \in Persisters : pers'[q].snap[k] = "Absent"
    <3>1. \A q \in Persisters : q # p => pers'[q] = pers[q]
      BY <2>4 DEF Then
    <3>2. pers'[p].snap = Nothing
      BY <2>2, <2>4, SnapsOfUpdates DEF Then, Updates
    <3>3. wpc'[k] = "none"
      BY <2>1, <2>4 DEF Then
    <3>4. Nothing[k] = "Absent"
      BY DEF Nothing
    <3>5. \A q \in Persisters : pers'[q].snap[k] = "Absent"
      BY <2>1, <3>1, <3>2, <3>4
    <3> QED
      BY <3>3, <3>5
  <2>5. CASE WriteTmp(p)
    <3>1. UNCHANGED <<status, history>>
      BY <2>5 DEF WriteTmp, tableVars
    <3>2. wpc'[k] = "none" /\ \A q \in Persisters : pers'[q].snap[k] = "Absent"
      BY <2>4, <2>5 DEF WriteTmp
    <3>3. pers[p].snap[k] = "Absent"
      BY <2>1
    <3>4. tmp' = tmp \/ \E t \in TmpNames : tmp' = [tmp EXCEPT ![t] = pers[p].snap]
      BY <2>5 DEF WriteTmp
    <3>5. \A t \in TmpNames : tmp'[t] # NoFile => tmp'[t][k] = "Absent"
      BY <2>1, <3>3, <3>4
    <3> QED
      BY <2>1, <3>1, <3>2, <3>5
  <2>6. CASE RenameTmp(p)
    BY <2>1, <2>2, <2>4, <2>6 DEF RenameTmp, tableVars, Updates
  <2> QED
    BY <2>3, <2>5, <2>6
<1> QED
  BY <1>1, <1>2, <1>3, <1>4, <1>5, <1>6, <1>7

LEMMA RestartKeepsInv ==
  ASSUME JobsInv, TypeOK',
         Restart
  PROVE  JobsInv'
<1> USE JobsAssumption DEF JobsInv, TypeOK, Ids
<1>c. \A j \in Ids : Sanitized(history)[j] \notin Live
                   /\ (j >= nextId => history[j] = "Absent" /\ Sanitized(history)[j] = "Absent")
  BY DEF Sanitized, Live, FutureIsEmpty
<1>a. \A j \in Ids : ~IsLive(j)' /\ (j >= nextId => status'[j] = "Absent")
  <2>1. status' = Sanitized(history) \/ status' = Nothing
    BY DEF Restart
  <2> QED
    BY <1>c, <2>1 DEF Nothing, IsLive, Live
<1>b. \A j \in Ids : wpc'[j] = IF j < nextId THEN "done" ELSE "none"
  BY DEF Restart
<1>1. OneActivePerTarget'
  BY <1>a DEF OneActivePerTarget
<1>2. ActiveHasTask'
  BY <1>a DEF ActiveHasTask
<1>3. CancelledIsBeingStopped'
  BY DEF CancelledIsBeingStopped, ActiveHasTask,CallersKnowTheirJob, TasksAreConsistent, Cancelling, Runs, IsLive, Live, Restart, Sanitized, Nothing
<1>4. HandleHasUse'
  BY DEF HandleHasUse, ActiveHasTask, CallersKnowTheirJob, TasksAreConsistent, Spawning, Runs, IsLive, Live, Terminal, Restart, Sanitized, Nothing
<1>5. CallersKnowTheirJob'
  BY DEF CallersKnowTheirJob, ActiveHasTask,TasksAreConsistent, FutureIsEmpty, Spawning, IsLive, Live, Restart, Sanitized, Nothing
<1>6. TasksAreConsistent'
  <2>1. aborting' = {} /\ handles' = {}
    BY DEF Restart
  <2>2. \A j \in Ids : wpc'[j] = "none" => status'[j] = "Absent"
    BY <1>a, <1>b
  <2>3. \A j \in Ids : wpc'[j] \notin {"start", "body"}
    BY <1>b
  <2> QED
    BY <2>1, <2>2, <2>3 DEF TasksAreConsistent
<1>7. FutureIsEmpty'
  <2>1. \A j \in Ids : j >= nextId => history'[j] = "Absent"
    BY <1>c DEF Restart
  <2>2. \A p \in Persisters, j \in Ids : pers'[p].snap[j] = "Absent"
    BY SnapsOfUpdates DEF Restart, Nothing
  <2>3. nextId' = nextId /\ \A t \in TmpNames : tmp'[t] = tmp[t]
    BY DEF Restart
  <2> QED
    BY <1>a, <1>b, <2>1, <2>2, <2>3 DEF FutureIsEmpty
<1> QED
  BY <1>1, <1>2, <1>3, <1>4, <1>5, <1>6, <1>7

-----------------------------------------------------------------------------
LEMMA InitInv == Init => JobsInv
<1> SUFFICES ASSUME Init PROVE JobsInv
  OBVIOUS
<1>1. TypeOK
  BY InitType
<1>2. /\ OneActivePerTarget /\ ActiveHasTask /\ CancelledIsBeingStopped /\ HandleHasUse
      /\ CallersKnowTheirJob /\ TasksAreConsistent
  BY DEF Init, Nothing, OneActivePerTarget, ActiveHasTask, CancelledIsBeingStopped, HandleHasUse,
     CallersKnowTheirJob, TasksAreConsistent, IsLive, Live, Runs
<1>3. FutureIsEmpty
  BY SnapsOfUpdates DEF Init, FutureIsEmpty, Nothing
<1> QED
  BY <1>1, <1>2, <1>3 DEF JobsInv

LEMMA StutterKeepsInv ==
  ASSUME JobsInv, UNCHANGED vars
  PROVE  JobsInv'
<1>1. TypeOK'
  BY NextType DEF JobsInv
<1>2. UNCHANGED <<status, target, nextId, handles, wpc, aborting, reaper, cpc, cjob, pers,
                  tmp, history>>
  BY DEF vars, tableVars, taskVars, callerVars, diskVars
<1>3. UNCHANGED <<OneActivePerTarget, ActiveHasTask, CancelledIsBeingStopped, HandleHasUse>>
  BY <1>2 DEF OneActivePerTarget, ActiveHasTask, CancelledIsBeingStopped, HandleHasUse, IsLive,
     Runs, Spawning, Cancelling
<1>4. UNCHANGED <<CallersKnowTheirJob, TasksAreConsistent, FutureIsEmpty>>
  BY <1>2 DEF CallersKnowTheirJob, TasksAreConsistent, FutureIsEmpty, IsLive, Runs
<1> QED
  BY <1>1, <1>3, <1>4 DEF JobsInv

LEMMA NextInv == JobsInv /\ [Next]_vars => JobsInv'
<1> SUFFICES ASSUME JobsInv, [Next]_vars
             PROVE  JobsInv'
  OBVIOUS
<1>1. TypeOK'
  BY NextType DEF JobsInv
<1>2. CASE \E c \in Callers, t \in Targets : CreateUniqueActive(c, t)
  BY <1>1, <1>2, CreateKeepsInv
<1>3. CASE \E c \in Callers, j \in Ids : CancelReport(c, j)
  BY <1>1, <1>3, CancelKeepsInv
<1>4. ASSUME NEW c \in Callers, CallerStep(c)
      PROVE  JobsInv'
  BY <1>1, <1>4, EmitCreatedKeepsInv, RegisterKeepsInv, AbortTaskKeepsInv, EmitCancelledKeepsInv,
     PersistKeepsInv DEF CallerStep, Persisters
<1>5. ASSUME NEW j \in Ids, TaskStep(j)
      PROVE  JobsInv'
  BY <1>1, <1>5, StartKeepsInv, ProgressKeepsInv, EndKeepsInv, EmitUpdatedKeepsInv,
     PersistKeepsInv DEF TaskStep, Persisters
<1>6. ASSUME NEW j \in Ids, RemoveAbortHandle(j) \/ AbortLands(j)
      PROVE  JobsInv'
  BY <1>1, <1>6, ReapKeepsInv, AbortLandsKeepsInv
<1>7. CASE Restart
  BY <1>1, <1>7, RestartKeepsInv
<1>8. CASE UNCHANGED vars
  BY <1>8, StutterKeepsInv
<1> QED
  BY <1>2, <1>3, <1>4, <1>5, <1>6, <1>7, <1>8 DEF Next

\* The inductive invariant of the job manager holds in every reachable state.
THEOREM JobsInvariant == Spec => []JobsInv
  BY InitInv, NextInv, PTL DEF Spec

\* For any number of jobs, callers and restarts: one active job per target, an
\* active job has a task, the task of a cancelled job is being stopped, and a
\* handle outlives its job only while it is being dropped.
THEOREM JobsSafe ==
  Spec => [](OneActivePerTarget /\ ActiveHasTask /\ CancelledIsBeingStopped /\ HandleHasUse)
<1>1. JobsInv => OneActivePerTarget /\ ActiveHasTask /\ CancelledIsBeingStopped /\ HandleHasUse
  BY DEF JobsInv
<1> QED
  BY <1>1, JobsInvariant, PTL

\* create_unique_active keeps its name, evictions and restarts included.
THEOREM JobsUnique == Spec => []OneActivePerTarget
  BY JobsSafe, PTL

\* The task of a cancelled job is aborted, or about to be, as long as it runs.
THEOREM JobsCancelledStop == Spec => []CancelledIsBeingStopped
  BY JobsSafe, PTL

\* No handle of an ended job stays without somebody who will drop it.
THEOREM JobsHandlesHaveUse == Spec => []HandleHasUse
  BY JobsSafe, PTL

\* Only the end of a task and a cancel write an outcome, and neither writes over
\* one: the status of a job that has ended is final until it leaves the table.
THEOREM JobsOutcomeFinal == Spec => OutcomeIsFinal
<1> DEFINE Keeps == restarts' = restarts =>
              \A j \in Ids : status[j] \in Terminal => status'[j] \in {status[j], "Absent"}
<1>1. ASSUME JobsInv, [Next]_vars
      PROVE  Keeps
  <2> SUFFICES ASSUME restarts' = restarts, NEW j \in Ids, status[j] \in Terminal
               PROVE  status'[j] \in {status[j], "Absent"}
    OBVIOUS
  <2> USE <1>1 DEF JobsInv
  <2>1. TypeOK /\ status \in [Ids -> Statuses]
    BY DEF TypeOK, Histories
  <2>2. CASE \E c \in Callers, t \in Targets : CreateUniqueActive(c, t)
    <3>1. j # nextId
      BY Numbers, <2>1 DEF FutureIsEmpty, Terminal
    <3> QED
      BY <2>2, <3>1 DEF CreateUniqueActive
  <2>3. ASSUME NEW c \in Callers, NEW k \in Ids, CancelReport(c, k)
        PROVE  status'[j] = status[j]
    BY <2>1, <2>3 DEF CancelReport, IsLive, Live, Terminal
  <2>4. ASSUME NEW k \in Ids, NEW s \in Statuses,
               \/ k \notin Listed /\ UNCHANGED <<status, pers>>
               \/ k \in Listed /\ UpdateJob(k, s),
               status[k] \in Terminal => s = status[k]
        PROVE  status'[j] = status[j]
    <3>1. CASE k \notin Listed /\ UNCHANGED <<status, pers>>
      BY <3>1
    <3>2. CASE k \in Listed /\ UpdateJob(k, s)
      BY <2>1, <2>4, <3>2 DEF UpdateJob
    <3> QED
      BY <2>4, <3>1, <3>2
  <2>5. ASSUME NEW k \in Ids, StartJob(k)
        PROVE  status'[j] = status[j]
    <3>1. (IF IsLive(k) THEN "Running" ELSE status[k]) \in Statuses
      BY <2>1, StatusValues
    <3>2. status[k] \in Terminal => (IF IsLive(k) THEN "Running" ELSE status[k]) = status[k]
      BY DEF IsLive, Live, Terminal
    <3> QED
      BY <2>4, <2>5, <3>1, <3>2 DEF StartJob
  <2>6. ASSUME NEW k \in Ids, Progress(k)
        PROVE  status'[j] = status[j]
    BY <2>1, <2>4, <2>6 DEF Progress
  <2>7. ASSUME NEW k \in Ids, NEW s \in {"Succeeded", "Failed"}, EndJob(k, s)
        PROVE  status'[j] = status[j]
    <3>1. EndedStatus(k, s) \in Statuses
      BY StatusValues DEF EndedStatus
    <3>2. status[k] \in Terminal => EndedStatus(k, s) = status[k]
      BY <2>7 DEF EndJob, EndedStatus, TasksAreConsistent, Terminal
    <3> QED
      BY <2>4, <2>7, <3>1, <3>2 DEF EndJob
  <2>8. CASE \E k \in Ids : EmitUpdated(k) \/ RemoveAbortHandle(k) \/ AbortLands(k)
    BY <2>8 DEF EmitUpdated, RemoveAbortHandle, AbortLands, tableVars
  <2>9. CASE \E p \in Persisters : TakeSnapshot(p) \/ WriteTmp(p) \/ RenameTmp(p)
    BY <2>9 DEF TakeSnapshot, WriteTmp, RenameTmp, tableVars
  <2>10. CASE \E c \in Callers : EmitCreated(c) \/ RegisterAbortHandle(c) \/ AbortTask(c) \/ EmitCancelled(c)
    BY <2>10 DEF EmitCreated, RegisterAbortHandle, AbortTask, EmitCancelled, tableVars
  <2>11. ~Restart
    <3>1. restarts \in Int
      BY <2>1, JobsAssumption DEF TypeOK
    <3>2. restarts + 1 # restarts
      BY <3>1
    <3> QED
      BY <3>2 DEF Restart
  <2>12. CASE UNCHANGED vars
    BY <2>12 DEF vars, tableVars
  <2> QED
    BY <2>2, <2>3, <2>5, <2>6, <2>7, <2>8, <2>9, <2>10, <2>11, <2>12
       DEF Next, CallerStep, TaskStep, Persisters
<1>2. JobsInv /\ [Next]_vars => [Keeps]_vars
  BY <1>1
<1> QED
  BY <1>2, JobsInvariant, PTL DEF Spec, OutcomeIsFinal

\* A job that nobody heard of has no running task, no handle, and no caller past its creation: so there
\* is nobody to announce anything but its creation.
UnheardIsNew ==
    \A j \in Ids : lastEvent[j] = "none" =>
        /\ wpc[j] \in {"none", "done"} /\ j \notin handles
        /\ \A c \in Callers : cjob[c] = j => cpc[c] \in {"idle", "create"}

\* What a step may do to the tasks, the callers and the handles of jobs that nobody heard of.
LEMMA UnheardKept ==
  ASSUME UnheardIsNew, \A j \in Ids : lastEvent'[j] = "none" => lastEvent[j] = "none",
         \A j \in Ids : lastEvent'[j] = "none" => wpc'[j] \in {wpc[j], "done"},
         \A j \in Ids : lastEvent'[j] = "none" /\ j \in handles' => j \in handles,
         \A c \in Callers, j \in Ids : lastEvent'[j] = "none" /\ cjob'[c] = j =>
            cpc'[c] \in {"idle", "create"} \/ (cjob[c] = j /\ cpc'[c] = cpc[c])
  PROVE  UnheardIsNew'
  BY DEF UnheardIsNew

\* A caller's call: only one that created the job, or found its handle, goes past "create".
LEMMA CallsKeepUnheard ==
  ASSUME TypeOK, UnheardIsNew, NEW c \in Callers,
         \/ \E t \in Targets : CreateUniqueActive(c, t)
         \/ \E j \in Ids : CancelReport(c, j)
         \/ EmitCreated(c) \/ RegisterAbortHandle(c) \/ AbortTask(c) \/ EmitCancelled(c)
  PROVE  UnheardIsNew' /\ \A j \in Ids : lastEvent[j] = "none" => lastEvent'[j] \in {"none", "Created"}
<1> USE DEF TypeOK
<1>1. cpc[c] # "idle" => cjob[c] \in Ids
  OBVIOUS
<1>2. ASSUME NEW t \in Targets, CreateUniqueActive(c, t)
      PROVE  UnheardIsNew' /\ lastEvent' = lastEvent
  <2>1. /\ lastEvent' = lastEvent /\ wpc' = wpc /\ handles' \subseteq handles
        /\ cpc' = [cpc EXCEPT ![c] = "create"] /\ cjob' = [cjob EXCEPT ![c] = nextId]
    BY <1>2 DEF CreateUniqueActive, taskVars
  <2> QED BY <2>1, UnheardKept
<1>3. ASSUME NEW i \in Ids, CancelReport(c, i)
      PROVE  UnheardIsNew' /\ lastEvent' = lastEvent
  <2>1. /\ lastEvent' = lastEvent /\ wpc' = wpc /\ handles' \subseteq handles /\ i \in handles
        /\ cpc' = [cpc EXCEPT ![c] = "abort"] /\ cjob' = [cjob EXCEPT ![c] = i]
    BY <1>3 DEF CancelReport, taskVars
  <2>2. lastEvent[i] # "none"
    BY <2>1 DEF UnheardIsNew
  <2> QED BY <2>1, <2>2, UnheardKept
<1>4. CASE EmitCreated(c)
  <2>1. /\ lastEvent' = [lastEvent EXCEPT ![cjob[c]] = "Created"] /\ wpc' = [wpc EXCEPT ![cjob[c]] = "start"]
        /\ cpc' = [cpc EXCEPT ![c] = "register"] /\ cjob' = cjob /\ handles' = handles /\ cjob[c] \in Ids
    BY <1>1, <1>4 DEF EmitCreated, tableVars
  <2>2. \A j \in Ids : lastEvent'[j] = IF j = cjob[c] THEN "Created" ELSE lastEvent[j]
    BY <2>1
  <2>3. \A j \in Ids : wpc'[j] = IF j = cjob[c] THEN "start" ELSE wpc[j]
    BY <2>1
  <2>4. \A d \in Callers : cpc'[d] = IF d = c THEN "register" ELSE cpc[d]
    BY <2>1
  <2>5. UnheardIsNew'
    BY <2>1, <2>2, <2>3, <2>4, UnheardKept
  <2> QED BY <2>2, <2>5
<1>5. CASE RegisterAbortHandle(c)
  <2>1. /\ lastEvent' = lastEvent /\ wpc' = wpc /\ handles' \subseteq handles \cup {cjob[c]} /\ cpc[c] = "register"
        /\ cpc' = [cpc EXCEPT ![c] = "idle"] /\ cjob' = [cjob EXCEPT ![c] = NoJob] /\ cjob[c] \in Ids
    BY <1>1, <1>5 DEF RegisterAbortHandle, Return
  <2>2. lastEvent[cjob[c]] # "none"
    BY <2>1 DEF UnheardIsNew
  <2>3. UnheardIsNew'
    BY <2>1, <2>2, UnheardKept
  <2> QED BY <2>1, <2>3
<1>6. CASE AbortTask(c)
  <2>1. /\ lastEvent' = lastEvent /\ wpc' = wpc /\ handles' = handles /\ cpc[c] = "abort"
        /\ cpc' = [cpc EXCEPT ![c] = "cancel"] /\ cjob' = cjob /\ cjob[c] \in Ids
    BY <1>1, <1>6 DEF AbortTask, tableVars
  <2>2. lastEvent[cjob[c]] # "none"
    BY <2>1 DEF UnheardIsNew
  <2>3. UnheardIsNew'
    BY <2>1, <2>2, UnheardKept
  <2> QED BY <2>1, <2>3
<1>7. CASE EmitCancelled(c)
  <2>1. /\ lastEvent' = [lastEvent EXCEPT ![cjob[c]] = "Cancelled"] /\ wpc' = wpc /\ handles' = handles
        /\ cpc' = [cpc EXCEPT ![c] = "idle"] /\ cjob' = [cjob EXCEPT ![c] = NoJob]
        /\ cpc[c] = "cancel" /\ cjob[c] \in Ids
    BY <1>1, <1>7 DEF EmitCancelled, Return, tableVars, taskVars
  <2>2. lastEvent[cjob[c]] # "none"
    BY <2>1 DEF UnheardIsNew
  <2>3. \A j \in Ids : lastEvent'[j] = IF j = cjob[c] THEN "Cancelled" ELSE lastEvent[j]
    BY <2>1
  <2>4. UnheardIsNew'
    BY <2>1, <2>2, <2>3, UnheardKept
  <2> QED BY <2>2, <2>3, <2>4
<1> QED BY <1>2, <1>3, <1>4, <1>5, <1>6, <1>7

\* A step of a task, of the removal of a handle, or of an abort: it is about a job that was announced.
LEMMA TasksKeepUnheard ==
  ASSUME TypeOK, TasksAreConsistent, UnheardIsNew, NEW k \in Ids,
         \/ StartJob(k) \/ Progress(k) \/ (\E s \in {"Succeeded", "Failed"} : EndJob(k, s))
         \/ EmitUpdated(k) \/ RemoveAbortHandle(k) \/ AbortLands(k)
  PROVE  UnheardIsNew' /\ \A j \in Ids : lastEvent[j] = "none" => lastEvent'[j] \in {"none", "Created"}
<1> USE DEF TypeOK
<1>1. cpc' = cpc /\ cjob' = cjob /\ handles' \subseteq handles
  BY DEF StartJob, Progress, EndJob, EmitUpdated, RemoveAbortHandle, AbortLands, tableVars, callerVars
<1>2. \A j \in Ids : j # k => wpc'[j] = wpc[j]
  BY DEF StartJob, Progress, EndJob, EmitUpdated, RemoveAbortHandle, AbortLands
<1>3. wpc'[k] # wpc[k] => wpc[k] \in {"start", "body", "end"}
  BY DEF StartJob, Progress, EndJob, EmitUpdated, RemoveAbortHandle, AbortLands, TasksAreConsistent, Runs
<1>4. CASE EmitUpdated(k)
  <2>1. lastEvent' = [lastEvent EXCEPT ![k] = pers[k].status] /\ Runs(k)
    BY <1>4 DEF EmitUpdated
  <2>2. lastEvent[k] # "none"
    BY <2>1 DEF UnheardIsNew, Runs
  <2>3. \A j \in Ids : j # k => lastEvent'[j] = lastEvent[j]
    BY <2>1
  <2>4. pers[k].status # "none" /\ lastEvent'[k] = pers[k].status
    BY <2>1 DEF Updates, Statuses, Live, Terminal, Persisters
  <2>5. UnheardIsNew'
    BY <1>1, <1>2, <2>2, <2>3, <2>4, UnheardKept
  <2> QED BY <2>2, <2>3, <2>5
<1>5. CASE ~EmitUpdated(k)
  <2>1. lastEvent' = lastEvent
    BY <1>5 DEF StartJob, Progress, EndJob, RemoveAbortHandle, AbortLands
  <2>2. lastEvent[k] # "none" \/ wpc'[k] = wpc[k]
    BY <1>3 DEF UnheardIsNew
  <2>3. UnheardIsNew'
    BY <1>1, <1>2, <2>1, <2>2, UnheardKept
  <2> QED BY <2>1, <2>3
<1> QED BY <1>4, <1>5

\* A persist, a restart, or nothing: no event at all.
LEMMA RestKeepsUnheard ==
  ASSUME TypeOK, UnheardIsNew,
         (\E p \in Persisters : TakeSnapshot(p) \/ WriteTmp(p) \/ RenameTmp(p)) \/ Restart \/ UNCHANGED vars
  PROVE  UnheardIsNew' /\ lastEvent' = lastEvent
<1> USE DEF TypeOK
<1>1. ASSUME NEW p \in Persisters, TakeSnapshot(p) \/ WriteTmp(p) \/ RenameTmp(p)
      PROVE  UnheardIsNew' /\ lastEvent' = lastEvent
  <2>1. UNCHANGED <<lastEvent, handles, cpc, cjob>>
    BY <1>1 DEF TakeSnapshot, WriteTmp, RenameTmp, tableVars, callerVars
  <2>2. \A j \in Ids : wpc'[j] \in {wpc[j], "done"}
    BY <1>1 DEF TakeSnapshot, WriteTmp, RenameTmp, Then, taskVars
  <2> QED BY <2>1, <2>2, UnheardKept
<1>2. CASE Restart
  <2>1. lastEvent' = lastEvent /\ handles' = {} /\ cpc' = [c \in Callers |-> "idle"]
    BY <1>2 DEF Restart
  <2>2. \A j \in Ids : wpc'[j] \in {"none", "done"}
    BY <1>2 DEF Restart
  <2>3. UnheardIsNew'
    BY <2>1, <2>2 DEF UnheardIsNew
  <2> QED BY <2>1, <2>3
<1>3. CASE UNCHANGED vars
  BY <1>3 DEF vars, tableVars, taskVars, callerVars, UnheardIsNew
<1> QED BY <1>1, <1>2, <1>3

\* Subscribers hear of the creation of a job before any other event of it, for any number of callers,
\* jobs and restarts: the task is spawned, and the handle registered, after JobCreated was sent.
THEOREM JobsCreatedFirst == Spec => CreatedComesFirst
<1> DEFINE First == \A j \in Ids : lastEvent[j] = "none" => lastEvent'[j] \in {"none", "Created"}
<1>1. Init => UnheardIsNew
  BY DEF Init, UnheardIsNew
<1>2. ASSUME JobsInv, UnheardIsNew, [Next]_vars
      PROVE  UnheardIsNew' /\ First
  <2>1. TypeOK /\ TasksAreConsistent
    BY <1>2 DEF JobsInv
  <2>2. CASE \E c \in Callers :
                \/ \E t \in Targets : CreateUniqueActive(c, t)
                \/ \E j \in Ids : CancelReport(c, j)
                \/ EmitCreated(c) \/ RegisterAbortHandle(c) \/ AbortTask(c) \/ EmitCancelled(c)
    BY <1>2, <2>1, <2>2, CallsKeepUnheard
  <2>3. CASE \E k \in Ids :
                \/ StartJob(k) \/ Progress(k) \/ (\E s \in {"Succeeded", "Failed"} : EndJob(k, s))
                \/ EmitUpdated(k) \/ RemoveAbortHandle(k) \/ AbortLands(k)
    BY <1>2, <2>1, <2>3, TasksKeepUnheard
  <2>4. CASE (\E p \in Persisters : TakeSnapshot(p) \/ WriteTmp(p) \/ RenameTmp(p)) \/ Restart \/ UNCHANGED vars
    <3>1. UnheardIsNew' /\ lastEvent' = lastEvent
      BY <1>2, <2>1, <2>4, RestKeepsUnheard
    <3> QED BY <3>1
  <2> QED BY <1>2, <2>2, <2>3, <2>4 DEF Next, CallerStep, TaskStep, Persisters
<1>3. JobsInv /\ UnheardIsNew /\ [Next]_vars => [First]_vars
  BY <1>2
<1>4. JobsInv /\ UnheardIsNew /\ [Next]_vars => UnheardIsNew'
  BY <1>2
<1> QED
  BY <1>1, <1>3, <1>4, JobsInvariant, PTL DEF Spec, CreatedComesFirst

-----------------------------------------------------------------------------
(***************************************************************************)
(* The history file invents no outcome, whatever fails, overlaps or dies:  *)
(* HistoryInv is inductive.  The lemmas follow an outcome from the table   *)
(* to a snapshot, to a temporary file, to the history.                     *)
(***************************************************************************)

\* What a step may do to the table so that lists of outcomes stay true: nothing
\* becomes listed but the next job, and an outcome stays while it is listed.
TableKept ==
    \A j \in Ids :
        /\ j < nextId /\ status[j] = "Absent" => status'[j] = "Absent"
        /\ status[j] \in {"Succeeded", "Failed"} => status'[j] \in {status[j], "Absent"}

\* h names no job that is not created yet.
OfThePast(h) == \A j \in Ids : j >= nextId => h[j] = "Absent"

\* h will agree with the table after the step.
AgreesAfter(h) ==
    \A j \in Ids : h[j] \in {"Succeeded", "Failed"} /\ j \in Listed' => status'[j] = h[j]

LEMMA AgreesKept ==
  ASSUME TypeOK, NEW h \in Histories, Agrees(h), OfThePast(h), TableKept
  PROVE  AgreesAfter(h)
<1> SUFFICES ASSUME NEW j \in Ids, h[j] \in {"Succeeded", "Failed"}, j \in Listed'
             PROVE  status'[j] = h[j]
  BY DEF AgreesAfter
<1>1. j < nextId
  BY Numbers DEF OfThePast
<1>2. status'[j] # "Absent"
  BY DEF Listed
<1>3. status[j] = h[j]
  BY <1>1, <1>2 DEF Agrees, Listed, TableKept
<1> QED
  BY <1>2, <1>3 DEF TableKept

LEMMA UpdateKeepsTable ==
  ASSUME TypeOK, NEW k \in Ids, NEW s \in Statuses,
         \/ k \notin Listed /\ UNCHANGED <<status, pers>>
         \/ k \in Listed /\ UpdateJob(k, s),
         status[k] \in {"Succeeded", "Failed"} => s = status[k]
  PROVE  /\ TableKept
         /\ \A p \in Persisters : pers'[p] = pers[p] \/ pers'[p].stage = "snap"
<1>1. CASE k \notin Listed /\ UNCHANGED <<status, pers>>
  BY <1>1 DEF TableKept
<1>2. CASE k \in Listed /\ UpdateJob(k, s)
  <2>1. status' = [status EXCEPT ![k] = s] /\ pers' = [pers EXCEPT ![k] = Updated(s)]
    BY <1>2 DEF UpdateJob
  <2>2. status \in [Ids -> Statuses] /\ pers \in [Persisters -> Updates]
    BY DEF TypeOK, Histories
  <2>3. Updated(s).stage = "snap"
    BY DEF Updated, NoUpdate
  <2>4. status[k] # "Absent"
    BY <1>2 DEF Listed
  <2>5. TableKept
    BY <2>1, <2>2, <2>4 DEF TableKept
  <2> QED
    BY <2>1, <2>2, <2>3, <2>5
<1> QED
  BY <1>1, <1>2

LEMMA CarriersOfThePast ==
  ASSUME HistoryInv
  PROVE  /\ TypeOK
         /\ history \in Histories /\ OfThePast(history)
         /\ \A p \in Persisters :
               /\ pers[p].snap \in Histories /\ OfThePast(pers[p].snap)
               /\ pers[p].stage = "rename" =>
                     /\ pers[p].file \in TmpNames
                     /\ tmp[pers[p].file] # NoFile =>
                           tmp[pers[p].file] \in Histories /\ OfThePast(tmp[pers[p].file])
<1> USE DEF HistoryInv, JobsInv
<1>1. TypeOK /\ FutureIsEmpty
  OBVIOUS
<1>2. history \in Histories /\ \A p \in Persisters : pers[p] \in Updates
  BY <1>1 DEF TypeOK
<1>3. \A p \in Persisters : /\ pers[p].snap \in Histories
                            /\ pers[p].stage = "rename" => pers[p].file \in TmpNames
  BY <1>2 DEF Updates
<1>4. \A t \in TmpNames : tmp[t] # NoFile => tmp[t] \in Histories
  BY <1>1 DEF TypeOK
<1> QED
  BY <1>1, <1>2, <1>3, <1>4 DEF FutureIsEmpty, OfThePast

LEMMA CarriersKept ==
  ASSUME HistoryInv, TableKept
  PROVE  /\ AgreesAfter(history)
         /\ \A p \in Persisters :
               /\ pers[p].stage = "tmp" => AgreesAfter(pers[p].snap)
               /\ pers[p].stage = "rename" /\ tmp[pers[p].file] # NoFile => AgreesAfter(tmp[pers[p].file])
<1> USE CarriersOfThePast DEF HistoryInv
<1>1. AgreesAfter(history)
  BY AgreesKept
<1>2. ASSUME NEW p \in Persisters, pers[p].stage = "tmp"
      PROVE  AgreesAfter(pers[p].snap)
  BY <1>2, AgreesKept
<1>3. ASSUME NEW p \in Persisters, pers[p].stage = "rename", tmp[pers[p].file] # NoFile
      PROVE  AgreesAfter(tmp[pers[p].file])
  BY <1>3, AgreesKept
<1> QED
  BY <1>1, <1>2, <1>3

\* HistoryInv of the next state, with the primes carried inwards.
LEMMA AfterStep ==
  ASSUME JobsInv', AgreesAfter(history'),
         \A p \in Persisters :
            /\ pers'[p].stage = "tmp" => AgreesAfter(pers'[p].snap)
            /\ pers'[p].stage = "rename" /\ tmp'[pers'[p].file] # NoFile => AgreesAfter(tmp'[pers'[p].file])
  PROVE  HistoryInv'
BY DEF HistoryInv, Agrees, AgreesAfter

\* A step that leaves the files alone and writes no snapshot.
LEMMA FilesKept ==
  ASSUME HistoryInv, JobsInv', TableKept, UNCHANGED <<tmp, history>>,
         \A p \in Persisters : pers'[p] = pers[p] \/ pers'[p].stage \notin {"tmp", "rename"}
  PROVE  HistoryInv'
BY CarriersKept, AfterStep

-----------------------------------------------------------------------------
(* The steps that leave the files alone.                                    *)

LEMMA SameTable ==
  ASSUME UNCHANGED status
  PROVE  TableKept
BY DEF TableKept

LEMMA StagesOfResets ==
  /\ NoUpdate.stage = "none"
  /\ \A s \in Statuses : Updated(s).stage = "snap"
BY DEF NoUpdate, Updated

\* A persister that starts, or forgets, its update.
LEMMA OthersKept ==
  ASSUME TypeOK, NEW q \in Persisters, NEW u, u.stage \notin {"tmp", "rename"},
         pers' = [pers EXCEPT ![q] = u]
  PROVE  \A p \in Persisters : pers'[p] = pers[p] \/ pers'[p].stage \notin {"tmp", "rename"}
BY DEF TypeOK

LEMMA CallersKeepHistory ==
  ASSUME HistoryInv, JobsInv', NEW c \in Callers,
         \/ \E t \in Targets : CreateUniqueActive(c, t)
         \/ \E j \in Ids : CancelReport(c, j)
         \/ EmitCreated(c) \/ RegisterAbortHandle(c) \/ AbortTask(c) \/ EmitCancelled(c)
  PROVE  HistoryInv'
<1> USE DEF HistoryInv
<1>0. TypeOK /\ status \in [Ids -> Statuses] /\ c \in Persisters
  BY DEF JobsInv, TypeOK, Histories, Persisters
<1>1. ASSUME NEW t \in Targets, CreateUniqueActive(c, t)
      PROVE  HistoryInv'
  <2>1. TableKept
    <3>1. status[nextId] = "Absent" \/ nextId \notin Ids
      BY Numbers, <1>0 DEF JobsInv, FutureIsEmpty
    <3> QED
      BY <1>0, <1>1, <3>1, Numbers DEF CreateUniqueActive, TableKept
  <2>2. \A p \in Persisters : pers'[p] = pers[p] \/ pers'[p].stage \notin {"tmp", "rename"}
    BY <1>0, <1>1, StagesOfResets, StatusValues, OthersKept DEF CreateUniqueActive
  <2>3. UNCHANGED <<tmp, history>>
    BY <1>1 DEF CreateUniqueActive, diskVars
  <2> QED
    BY <2>1, <2>2, <2>3, FilesKept
<1>2. ASSUME NEW j \in Ids, CancelReport(c, j)
      PROVE  HistoryInv'
  <2>1. TableKept
    BY <1>0, <1>2 DEF CancelReport, TableKept, IsLive, Live
  <2>2. \A p \in Persisters : pers'[p] = pers[p] \/ pers'[p].stage \notin {"tmp", "rename"}
    BY <1>0, <1>2, StagesOfResets, StatusValues, OthersKept DEF CancelReport
  <2>3. UNCHANGED <<tmp, history>>
    BY <1>2 DEF CancelReport, diskVars
  <2> QED
    BY <2>1, <2>2, <2>3, FilesKept
<1>3. CASE EmitCreated(c) \/ RegisterAbortHandle(c) \/ AbortTask(c) \/ EmitCancelled(c)
  <2>1. UNCHANGED <<status, tmp, history>>
    BY <1>3 DEF EmitCreated, RegisterAbortHandle, AbortTask, EmitCancelled, tableVars, diskVars
  <2>2. \A p \in Persisters : pers'[p] = pers[p] \/ pers'[p].stage \notin {"tmp", "rename"}
    <3>1. CASE EmitCreated(c) \/ EmitCancelled(c)
      BY <1>0, <3>1, StagesOfResets, OthersKept DEF EmitCreated, EmitCancelled
    <3>2. CASE RegisterAbortHandle(c)
      BY <3>2 DEF RegisterAbortHandle
    <3>3. CASE AbortTask(c)
      BY <1>0, <3>3, StagesOfResets, StatusValues, OthersKept DEF AbortTask
    <3> QED
      BY <1>3, <3>1, <3>2, <3>3
  <2> QED
    BY <2>1, <2>2, SameTable, FilesKept
<1> QED
  BY <1>1, <1>2, <1>3

LEMMA TasksKeepHistory ==
  ASSUME HistoryInv, JobsInv', NEW j \in Ids,
         \/ StartJob(j) \/ Progress(j)
         \/ \E s \in {"Succeeded", "Failed"} : EndJob(j, s)
         \/ EmitUpdated(j) \/ RemoveAbortHandle(j) \/ AbortLands(j)
  PROVE  HistoryInv'
<1> USE DEF HistoryInv
<1>0. TypeOK /\ status \in [Ids -> Statuses] /\ j \in Persisters /\ TasksAreConsistent
  BY DEF JobsInv, TypeOK, Histories, Persisters
<1>1. ASSUME NEW s \in Statuses,
             \/ j \notin Listed /\ UNCHANGED <<status, pers>>
             \/ j \in Listed /\ UpdateJob(j, s),
             status[j] \in {"Succeeded", "Failed"} => s = status[j],
             UNCHANGED <<tmp, history>>
      PROVE  HistoryInv'
  BY <1>0, <1>1, UpdateKeepsTable, FilesKept
<1>2. CASE StartJob(j)
  <2>1. (IF IsLive(j) THEN "Running" ELSE status[j]) \in Statuses
    BY <1>0, StatusValues
  <2>2. status[j] \in {"Succeeded", "Failed"} => (IF IsLive(j) THEN "Running" ELSE status[j]) = status[j]
    BY DEF IsLive, Live
  <2> QED
    BY <1>1, <1>2, <2>1, <2>2 DEF StartJob, diskVars
<1>3. CASE Progress(j)
  BY <1>0, <1>1, <1>3 DEF Progress, diskVars
<1>4. ASSUME NEW s \in {"Succeeded", "Failed"}, EndJob(j, s)
      PROVE  HistoryInv'
  <2>1. EndedStatus(j, s) \in Statuses
    BY StatusValues DEF EndedStatus
  <2>2. status[j] \notin {"Succeeded", "Failed"}
    BY <1>0, <1>4 DEF EndJob, TasksAreConsistent
  <2> QED
    BY <1>1, <1>4, <2>1, <2>2 DEF EndJob, diskVars
<1>5. CASE EmitUpdated(j) \/ RemoveAbortHandle(j) \/ AbortLands(j)
  <2>1. UNCHANGED <<status, tmp, history>>
    BY <1>5 DEF EmitUpdated, RemoveAbortHandle, AbortLands, tableVars, diskVars
  <2>2. UNCHANGED pers \/ pers' = [pers EXCEPT ![j] = NoUpdate]
    BY <1>5 DEF EmitUpdated, RemoveAbortHandle, AbortLands
  <2>3. \A p \in Persisters : pers'[p] = pers[p] \/ pers'[p].stage \notin {"tmp", "rename"}
    BY <1>0, <2>2, StagesOfResets, OthersKept
  <2> QED
    BY <2>1, <2>3, SameTable, FilesKept
<1> QED
  BY <1>2, <1>3, <1>4, <1>5

-----------------------------------------------------------------------------
(* The steps of a persist, and a restart.                                   *)

LEMMA SnapshotKeepsHistory ==
  ASSUME HistoryInv, JobsInv', NEW p \in Persisters, TakeSnapshot(p)
  PROVE  HistoryInv'
<1> USE DEF HistoryInv
<1>1. pers \in [Persisters -> Updates] /\ TypeOK
  BY DEF JobsInv, TypeOK
<1>2. UNCHANGED <<status, tmp, history>> /\ TableKept
  BY SameTable DEF TakeSnapshot, tableVars, diskVars
<1>3. \A q \in Persisters : q # p => pers'[q] = pers[q]
  BY <1>1 DEF TakeSnapshot
<1>4. pers'[p].stage = "emit" \/ (pers'[p].stage = "tmp" /\ pers'[p].snap = status)
  BY <1>1 DEF TakeSnapshot, Updates
<1>5. AgreesAfter(status)
  BY <1>2 DEF AgreesAfter
<1> QED
  BY <1>2, <1>3, <1>4, <1>5, CarriersKept, AfterStep

\* Whatever file operation p ended, it holds a snapshot no longer.
LEMMA ThenStage ==
  ASSUME TypeOK, NEW p \in Persisters, NEW stage \in {"rename", "emit"}, NEW file, Then(p, stage, file)
  PROVE  /\ \A q \in Persisters : q # p => pers'[q] = pers[q]
         /\ pers'[p].stage # "tmp"
         /\ pers'[p].stage = "rename" => stage = "rename" /\ pers'[p].file = file
<1>1. pers \in [Persisters -> Updates]
  BY DEF TypeOK
<1>2. CASE pers' = [pers EXCEPT ![p].stage = stage, ![p].snap = Nothing, ![p].file = file]
  BY <1>1, <1>2 DEF Updates
<1>3. CASE pers' = [pers EXCEPT ![p] = NoUpdate]
  BY <1>1, <1>3, StagesOfResets
<1> QED
  BY <1>2, <1>3 DEF Then

LEMMA WriteKeepsHistory ==
  ASSUME HistoryInv, JobsInv', NEW p \in Persisters, WriteTmp(p)
  PROVE  HistoryInv'
<1> USE DEF HistoryInv
<1>1. TypeOK /\ tmp \in [TmpNames -> Histories \cup {NoFile}]
  BY DEF JobsInv, TypeOK
<1>2. UNCHANGED <<status, history>> /\ TableKept
  BY SameTable DEF WriteTmp, tableVars
<1>3. AgreesAfter(pers[p].snap)
  BY <1>2, CarriersKept DEF WriteTmp
<1>4. ASSUME NEW t \in TmpNames, tmp' = [tmp EXCEPT ![t] = pers[p].snap], Then(p, "rename", t)
      PROVE  HistoryInv'
  <2>1. /\ \A q \in Persisters : q # p => pers'[q] = pers[q]
        /\ pers'[p].stage # "tmp"
        /\ pers'[p].stage = "rename" => pers'[p].file = t
    BY <1>1, <1>4, ThenStage
  <2>2. \A f \in TmpNames : f # t => tmp'[f] = tmp[f]
    BY <1>1, <1>4
  <2>3. tmp'[t] = pers[p].snap
    BY <1>1, <1>4
  <2>4. ASSUME NEW q \in Persisters, pers'[q].stage = "rename", tmp'[pers'[q].file] # NoFile
        PROVE  AgreesAfter(tmp'[pers'[q].file])
    <3>1. CASE q = p
      BY <1>3, <2>1, <2>3, <2>4, <3>1
    <3>2. CASE q # p
      <4>1. pers'[q] = pers[q] /\ pers[q].file \in TmpNames
        BY <2>1, <2>4, <3>2, CarriersOfThePast
      <4> QED
        BY <1>2, <1>3, <2>2, <2>3, <2>4, <4>1, CarriersKept
    <3> QED
      BY <3>1, <3>2
  <2>5. ASSUME NEW q \in Persisters, pers'[q].stage = "tmp"
        PROVE  AgreesAfter(pers'[q].snap)
    BY <1>2, <2>1, <2>5, CarriersKept
  <2> QED
    BY <1>2, <2>4, <2>5, CarriersKept, AfterStep
<1>5. CASE Then(p, "emit", NoFile) /\ UNCHANGED tmp
  BY <1>1, <1>2, <1>5, ThenStage, CarriersKept, AfterStep
<1> QED
  BY <1>4, <1>5 DEF WriteTmp

LEMMA RenameKeepsHistory ==
  ASSUME HistoryInv, JobsInv', NEW p \in Persisters, RenameTmp(p)
  PROVE  HistoryInv'
<1> USE DEF HistoryInv
<1>1. TypeOK /\ tmp \in [TmpNames -> Histories \cup {NoFile}]
  BY DEF JobsInv, TypeOK
<1>2. UNCHANGED status /\ TableKept
  BY SameTable DEF RenameTmp, tableVars
<1>3. /\ \A q \in Persisters : q # p => pers'[q] = pers[q]
      /\ pers'[p].stage \notin {"tmp", "rename"}
  BY <1>1, ThenStage DEF RenameTmp
<1>4. AgreesAfter(history')
  BY <1>2, CarriersKept DEF RenameTmp
<1>5. \A f \in TmpNames : tmp'[f] \in {tmp[f], NoFile}
  BY <1>1 DEF RenameTmp
<1>6. ASSUME NEW q \in Persisters, pers'[q].stage = "rename", tmp'[pers'[q].file] # NoFile
      PROVE  AgreesAfter(tmp'[pers'[q].file])
  <2>1. pers'[q] = pers[q] /\ pers[q].file \in TmpNames
    BY <1>3, <1>6, CarriersOfThePast
  <2> QED
    BY <1>2, <1>5, <1>6, <2>1, CarriersKept
<1>7. ASSUME NEW q \in Persisters, pers'[q].stage = "tmp"
      PROVE  AgreesAfter(pers'[q].snap)
  BY <1>2, <1>3, <1>7, CarriersKept
<1> QED
  BY <1>4, <1>6, <1>7, AfterStep

LEMMA RestartKeepsHistory ==
  ASSUME HistoryInv, JobsInv', Restart
  PROVE  HistoryInv'
<1>1. history \in Histories
  BY CarriersOfThePast
<1>2. AgreesAfter(history')
  <2>1. CASE status' = Sanitized(history) /\ history' \in {Sanitized(history), history}
    BY <1>1, <2>1 DEF AgreesAfter, Sanitized, Live
  <2>2. CASE status' = Nothing
    BY <2>2 DEF AgreesAfter, Nothing, Listed
  <2> QED
    BY <2>1, <2>2 DEF Restart
<1>3. \A p \in Persisters : pers'[p].stage = "none"
  BY StagesOfResets DEF Restart
<1> QED
  BY <1>2, <1>3, AfterStep

-----------------------------------------------------------------------------
\* The strengthened invariant holds in every reachable state, file faults and
\* overlapping persists included.
THEOREM HistoryInvariant == Spec => []HistoryInv
<1>1. Init => HistoryInv
  <2> SUFFICES ASSUME Init PROVE HistoryInv
    OBVIOUS
  <2>1. Agrees(history) /\ \A p \in Persisters : pers[p].stage = "none"
    BY StagesOfResets DEF Init, Agrees, Nothing, Listed
  <2> QED
    BY <2>1, InitInv DEF HistoryInv
<1>2. HistoryInv /\ [Next]_vars => HistoryInv'
  <2> SUFFICES ASSUME HistoryInv, [Next]_vars PROVE HistoryInv'
    OBVIOUS
  <2>1. JobsInv'
    BY NextInv DEF HistoryInv
  <2>2. CASE \E p \in Persisters : TakeSnapshot(p) \/ WriteTmp(p) \/ RenameTmp(p)
    BY <2>1, <2>2, SnapshotKeepsHistory, WriteKeepsHistory, RenameKeepsHistory
  <2>3. ASSUME NEW c \in Callers,
               \/ \E t \in Targets : CreateUniqueActive(c, t)
               \/ \E j \in Ids : CancelReport(c, j)
               \/ EmitCreated(c) \/ RegisterAbortHandle(c) \/ AbortTask(c) \/ EmitCancelled(c)
        PROVE  HistoryInv'
    BY <2>1, <2>3, CallersKeepHistory
  <2>4. ASSUME NEW j \in Ids,
               \/ StartJob(j) \/ Progress(j)
               \/ \E s \in {"Succeeded", "Failed"} : EndJob(j, s)
               \/ EmitUpdated(j) \/ RemoveAbortHandle(j) \/ AbortLands(j)
        PROVE  HistoryInv'
    BY <2>1, <2>4, TasksKeepHistory
  <2>5. CASE Restart
    BY <2>1, <2>5, RestartKeepsHistory
  <2>6. CASE UNCHANGED vars
    <3>1. UNCHANGED <<status, tmp, history, pers>>
      BY <2>6 DEF vars, tableVars, diskVars
    <3> QED
      BY <2>1, <3>1, SameTable, FilesKept
  <2> QED
    BY <2>2, <2>3, <2>4, <2>5, <2>6 DEF Next, CallerStep, TaskStep, Persisters
<1> QED
  BY <1>1, <1>2, PTL DEF Spec

\* The history file never says of a listed job that it succeeded or failed when
\* the table says otherwise.
THEOREM HistoryTellsNoLies == Spec => []HistoryOutcomeIsReal
<1>1. HistoryInv => HistoryOutcomeIsReal
  BY DEF HistoryInv, Agrees, HistoryOutcomeIsReal
<1> QED
  BY <1>1, HistoryInvariant, PTL
=============================================================================
