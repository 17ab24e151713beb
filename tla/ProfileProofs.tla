--------------------------- MODULE ProfileProofs ---------------------------
(***************************************************************************)
(* Proofs about ProfileTransaction: its types; that the profile lock is    *)
(* held by exactly the actors in a transaction; and what a transaction     *)
(* does to the files, for any set of actors, processes and profiles, with  *)
(* every fault and cancellation.                                           *)
(*                                                                         *)
(* What a step does to the control of an actor (where it is, what it works *)
(* on, the lock) is kept apart from what it does to the files: Control and *)
(* Data are the two halves of ProfileInv.                                  *)
(***************************************************************************)
EXTENDS ProfileTransaction, TLAPS

In(l, w) == l \notin {"idle", "wait"} /\ w.op.kind \in Locked /\ ~w.stray

Fits(l, w) == /\ l \in Positions /\ w \in Works
              /\ l # "idle" => w.op.kind # "none"
              /\ WellFormed(l, w)

Control ==
    /\ pc \in [Actors -> Positions] /\ work \in [Actors -> Works]
    /\ lock \in [Procs -> Actors \cup {Free}]
    /\ \A a \in Actors : Fits(pc[a], work[a])
    /\ \A a \in Actors : In(pc[a], work[a]) <=> Holds(a)

Data ==
    /\ catalog \in Catalogs \cup {Torn}
    /\ file \in [Uids -> Contents]
    /\ runtime \in Runtimes
    /\ core \in [running : BOOLEAN, conf : Runtimes]
    /\ ops \in 0..MaxOps
    /\ base \in [Actors -> [catalog : Catalogs \cup {Torn}, file : [Uids -> Contents],
                            runtime : Runtimes, conf : Runtimes]]
    /\ dirty \subseteq Actors
    /\ saved \in [Uids -> Selections \cup {NoSel}]

LEMMA Halves == ProfileInv <=> Control /\ Data
  BY DEF ProfileInv, TypeOK, Control, Data, Fits, LockIsHeldInTransactions, InTransaction, In,
         Kind, Stray

\* A step of a that leaves the lock alone and takes a to (l, w).
Moves(a, l, w) == /\ pc' = [pc EXCEPT ![a] = l] /\ work' = [work EXCEPT ![a] = w]
                  /\ lock' = lock

LEMMA MoveKeepsControl ==
    ASSUME Control, NEW a \in Actors, NEW l, NEW w, Moves(a, l, w),
           Fits(l, w), In(l, w) <=> Holds(a)
    PROVE  Control'
<1>1. pc' \in [Actors -> Positions] /\ work' \in [Actors -> Works]
  BY DEF Control, Moves, Fits
<1>2. /\ pc'[a] = l /\ work'[a] = w
      /\ \A b \in Actors \ {a} : pc'[b] = pc[b] /\ work'[b] = work[b]
  BY DEF Control, Moves
<1>3. \A b \in Actors : Holds(b)' <=> Holds(b)
  BY DEF Holds, Moves
<1>4. \A b \in Actors : Fits(pc'[b], work'[b])
  BY <1>2 DEF Control
<1>5. \A b \in Actors : In(pc'[b], work'[b]) <=> Holds(b)'
  BY <1>2, <1>3 DEF Control
<1>6. (\A b \in Actors : Fits(pc[b], work[b]))'
  BY <1>4 DEF Fits, WellFormed
<1>7. (\A b \in Actors : In(pc[b], work[b]) <=> Holds(b))'
  BY <1>5 DEF In
<1> QED BY <1>1, <1>6, <1>7 DEF Control, Moves
-----------------------------------------------------------------------------
(* The ways an actor goes on.                                               *)

Busy == Positions \ {"idle", "wait", "current"}
Later == Busy \ {"capture", "snapshot", "load"}

LEMMA FallbackType == Fallback \in Runtimes
  BY DEF Fallback, Runtimes, Contents

LEMMA RestFits == Fits("idle", Rest) /\ ~In("idle", Rest)
<1>1. EmptyCatalog \in Catalogs
  BY DEF EmptyCatalog, Catalogs
<1>2. NoOp \in Requests
  BY DEF NoOp, Requests, Contents
<1>3. Fallback \in Runtimes /\ NoFiles \in [Uids -> Contents]
  BY FallbackType DEF NoFiles, Contents
<1>4. Rest \in Works
  BY <1>1, <1>2, <1>3 DEF Rest, Works
<1>5. Rest.op.kind = "none"
  BY DEF Rest, NoOp
<1> QED BY <1>4, <1>5 DEF Fits, WellFormed, Positions, In, Locked

LEMMA ReturnKeeps ==
    ASSUME Control, NEW a \in Actors, ~Holds(a), Return(a), lock' = lock
    PROVE  Control'
<1>1. Moves(a, "idle", Rest)
  BY DEF Return, Goto, Keep, Moves
<1> QED BY <1>1, RestFits, MoveKeepsControl

\* Work on the same operation continues at a position that asks for no kind.
LEMMA StepKeeps ==
    ASSUME Control, NEW a \in Actors, pc[a] \in Busy,
           NEW l \in Later, NEW w \in Works, w.op = work[a].op, w.stray = work[a].stray,
           Moves(a, l, w)
    PROVE  Control'
<1>1. Fits(pc[a], work[a]) /\ (In(pc[a], work[a]) <=> Holds(a))
  BY DEF Control
<1>2. Fits(l, w)
  BY <1>1 DEF Fits, WellFormed, Later, Busy
<1>3. In(l, w) <=> Holds(a)
  BY <1>1 DEF In, Later, Busy
<1> QED BY <1>2, <1>3, MoveKeepsControl

LEMMA GotoKeeps ==
    ASSUME Control, NEW a \in Actors, pc[a] \in Busy, NEW l \in Later,
           Goto(a, l), UNCHANGED <<work, lock>>
    PROVE  Control'
<1>1. work[a] \in Works /\ Moves(a, l, work[a])
  BY DEF Control, Goto, Moves
<1> QED BY <1>1, StepKeeps

LEMMA StayKeeps ==
    ASSUME Control, UNCHANGED <<pc, work, lock>>
    PROVE  Control'
  BY DEF Control, Fits, WellFormed, In, Holds

\* What a snapshot names are profiles.
LEMMA SnapshotType ==
    ASSUME NEW op, NEW cat, op.uid \in Uids
    PROVE  SnapshotUids(op, cat) \subseteq Uids
  BY CatalogAssumption DEF SnapshotUids, DeletedUids

LEMMA FailKeeps ==
    ASSUME Control, NEW a \in Actors, pc[a] \in Busy, Fail(a), lock' = lock
    PROVE  Control'
<1>1. Fits(pc[a], work[a]) /\ (In(pc[a], work[a]) <=> Holds(a)) /\ work[a] \in Works
  BY DEF Control
<1>2. CASE (Kind(a) \notin Locked \/ Stray(a)) /\ Return(a)
  <2>1. ~Holds(a)
    BY <1>1, <1>2 DEF In, Kind, Stray
  <2> QED BY <1>2, <2>1, ReturnKeeps
<1>3. CASE /\ Kind(a) \in Locked
           /\ Goto(a, "trunc")
           /\ Keep(a, [work[a] EXCEPT !.rb = TRUE, !.mem = work[a].bytes,
                                      !.todo = SnapshotUids(work[a].op, work[a].before)])
  <2> DEFINE w == [work[a] EXCEPT !.rb = TRUE, !.mem = work[a].bytes,
                                  !.todo = SnapshotUids(work[a].op, work[a].before)]
  <2>1. SnapshotUids(work[a].op, work[a].before) \subseteq Uids
    BY <1>1, <1>3, SnapshotType DEF Fits, WellFormed, Kind
  <2>2. w \in Works /\ w.op = work[a].op /\ w.stray = work[a].stray
    BY <1>1, <2>1 DEF Works
  <2>3. Moves(a, "trunc", w) /\ "trunc" \in Later
    BY <1>3 DEF Goto, Keep, Moves, Later, Busy, Positions
  <2> HIDE DEF w
  <2> QED BY <2>2, <2>3, StepKeeps
<1>4. CASE Goto(a, "rollbackFailed") /\ UNCHANGED work
  <2>1. "rollbackFailed" \in Later
    BY DEF Later, Busy, Positions, Outcomes
  <2> QED BY <1>4, <2>1, GotoKeeps
<1> QED BY <1>2, <1>3, <1>4 DEF Fail

LEMMA LeaveKeeps ==
    ASSUME Control, NEW a \in Actors, pc[a] \in Busy, Leave(a), lock' = lock
    PROVE  Control'
<1>1. Fits(pc[a], work[a]) /\ (In(pc[a], work[a]) <=> Holds(a))
  BY DEF Control
<1>2. CASE Kind(a) \in Locked /\ ~Stray(a)
  <2>1. End(a) \in Later
    BY <1>2 DEF End, Later, Busy, Positions, Outcomes
  <2>2. Goto(a, End(a)) /\ UNCHANGED work
    BY <1>2 DEF Leave
  <2> QED BY <2>1, <2>2, GotoKeeps
<1>3. CASE ~(Kind(a) \in Locked /\ ~Stray(a))
  <2>1. ~Holds(a)
    BY <1>1, <1>3 DEF In, Kind, Stray
  <2>2. Return(a)
    BY <1>3 DEF Leave
  <2> QED BY <2>1, <2>2, ReturnKeeps
<1> QED BY <1>2, <1>3

LEMMA AfterKeeps ==
    ASSUME Control, NEW a \in Actors, pc[a] \in Busy, NEW l \in Later, After(a, l), lock' = lock
    PROVE  Control'
<1>1. In(pc[a], work[a]) <=> Holds(a)
  BY DEF Control
<1>2. CASE Stray(a)
  <2>1. ~Holds(a) /\ Return(a)
    BY <1>1, <1>2 DEF In, Stray, After
  <2> QED BY <2>1, ReturnKeeps
<1>3. CASE ~Stray(a)
  <2>1. Goto(a, l) /\ UNCHANGED work
    BY <1>3 DEF After
  <2> QED BY <2>1, GotoKeeps
<1> QED BY <1>2, <1>3
-----------------------------------------------------------------------------
(* Control: beginning an operation, the lock, and the end.                  *)

LEMMA TakeKeeps ==
    ASSUME Control, NEW a \in Actors, TakeLock(a), NEW w, Fits("capture", w), In("capture", w),
           pc' = [pc EXCEPT ![a] = "capture"], work' = [work EXCEPT ![a] = w]
    PROVE  Control'
<1>1. pc' \in [Actors -> Positions] /\ work' \in [Actors -> Works]
      /\ lock' \in [Procs -> Actors \cup {Free}]
  BY DEF Control, Fits, TakeLock
<1>2. /\ pc'[a] = "capture" /\ work'[a] = w
      /\ \A b \in Actors \ {a} : pc'[b] = pc[b] /\ work'[b] = work[b]
  BY DEF Control
<1>3. ProcOf[a] \in Procs /\ lock[ProcOf[a]] = Free /\ lock'[ProcOf[a]] = a
  BY DEF Procs, Control, TakeLock
<1>4. \A b \in Actors : lock'[ProcOf[b]] = b <=> b = a \/ lock[ProcOf[b]] = b
  BY <1>3, TransactionAssumption DEF Procs, Control, TakeLock
<1>5. \A b \in Actors : Fits(pc'[b], work'[b])
  BY <1>2 DEF Control
<1>6. \A b \in Actors : In(pc'[b], work'[b]) <=> lock'[ProcOf[b]] = b
  BY <1>2, <1>4 DEF Control, Holds
<1>7. (\A b \in Actors : Fits(pc[b], work[b]))'
  BY <1>5 DEF Fits, WellFormed
<1>8. (\A b \in Actors : In(pc[b], work[b]) <=> Holds(b))'
  BY <1>6 DEF In, Holds
<1> QED BY <1>1, <1>7, <1>8 DEF Control

LEMMA UnlockKeeps ==
    ASSUME Control, NEW a \in Actors, Unlock(a), NEW l, NEW w, Fits(l, w), ~In(l, w),
           pc' = [pc EXCEPT ![a] = l], work' = [work EXCEPT ![a] = w]
    PROVE  Control'
<1>1. pc' \in [Actors -> Positions] /\ work' \in [Actors -> Works]
      /\ lock' \in [Procs -> Actors \cup {Free}]
  BY DEF Control, Fits, Unlock
<1>2. /\ pc'[a] = l /\ work'[a] = w
      /\ \A b \in Actors \ {a} : pc'[b] = pc[b] /\ work'[b] = work[b]
  BY DEF Control
<1>3. \A b \in Actors : ProcOf[b] \in Procs
  BY DEF Procs
<1>4. \A b \in Actors : lock'[ProcOf[b]] = b <=> b # a /\ lock[ProcOf[b]] = b
  BY <1>3, TransactionAssumption DEF Control, Unlock, Holds
<1>5. \A b \in Actors : Fits(pc'[b], work'[b])
  BY <1>2 DEF Control
<1>6. \A b \in Actors : In(pc'[b], work'[b]) <=> lock'[ProcOf[b]] = b
  BY <1>2, <1>4 DEF Control, Holds
<1>7. (\A b \in Actors : Fits(pc[b], work[b]))'
  BY <1>5 DEF Fits, WellFormed
<1>8. (\A b \in Actors : In(pc[b], work[b]) <=> Holds(b))'
  BY <1>6 DEF In, Holds
<1> QED BY <1>1, <1>7, <1>8 DEF Control

\* A fresh request is work to be done.
LEMMA RequestFits ==
    ASSUME NEW op \in Requests
    PROVE  [Rest EXCEPT !.op = op] \in Works /\ [Rest EXCEPT !.op = op].op = op
           /\ [Rest EXCEPT !.op = op].stray = FALSE /\ [Rest EXCEPT !.op = op].rb = FALSE
  BY RestFits DEF Fits, Rest, Works

LEMMA BeginUpdateKeeps ==
    ASSUME Control, NEW t \in Tasks, NEW u \in Uids, NEW v \in Versions, BeginUpdate(t, u, v)
    PROVE  Control'
<1> DEFINE op == [Request("update", u) EXCEPT !.ver = v]
           w == [Rest EXCEPT !.op = op]
<1>1. op \in Requests /\ op.kind = "update" /\ op.uid = u /\ op.ver = v
  BY DEF Request, NoOp, Requests, Locked, Contents
<1>2. w \in Works /\ w.op = op /\ ~w.stray /\ ~w.rb
  BY <1>1, RequestFits
<1>3. t \in Actors /\ Moves(t, "wait", w)
  BY DEF Actors, BeginUpdate, Goto, Keep, Moves, locking
<1>4. ~Holds(t)
  BY <1>3 DEF Control, BeginUpdate, Begin, In
<1>5. Fits("wait", w) /\ ~In("wait", w)
  BY <1>1, <1>2 DEF Fits, WellFormed, In, Positions
<1> QED BY <1>3, <1>4, <1>5, MoveKeepsControl

LEMMA WaitLockKeeps ==
    ASSUME Control, NEW t \in Tasks, WaitLock(t)
    PROVE  Control'
<1>1. t \in Actors /\ Fits("wait", work[t])
  BY DEF Actors, Control, WaitLock
<1>2. Fits("capture", work[t]) /\ In("capture", work[t])
  BY <1>1 DEF Fits, WellFormed, In, Positions, Locked
<1>3. TakeLock(t) /\ pc' = [pc EXCEPT ![t] = "capture"] /\ work' = [work EXCEPT ![t] = work[t]]
  BY <1>1 DEF WaitLock, Goto, Control
<1> QED BY <1>1, <1>2, <1>3, TakeKeeps

LEMMA BeginTransactionKeeps ==
    ASSUME Control, NEW c \in Clients, NEW kind \in Locked, NEW u \in Uids,
           NEW v \in Contents, NEW start \in BOOLEAN, BeginTransaction(c, kind, u, v, start),
           kind \in {"update", "import", "activate"} => v \in Versions
    PROVE  Control'
<1> DEFINE op == [Request(kind, u) EXCEPT !.ver = v, !.start = start]
           w == [Rest EXCEPT !.op = op]
<1>1. op \in Requests /\ op.kind = kind /\ op.uid = u /\ op.ver = v
  BY DEF Request, NoOp, Requests, Contents
<1>2. w \in Works /\ w.op = op /\ ~w.stray
  BY <1>1, RequestFits
<1>3. c \in Actors
  BY DEF Actors
<1>4. Fits("capture", w) /\ In("capture", w)
  BY <1>1, <1>2 DEF Fits, WellFormed, In, Positions, Locked
<1>5. TakeLock(c) /\ pc' = [pc EXCEPT ![c] = "capture"] /\ work' = [work EXCEPT ![c] = w]
  BY DEF BeginTransaction, Goto, Keep
<1> QED BY <1>3, <1>4, <1>5, TakeKeeps

LEMMA BeginUnlockedKeeps ==
    ASSUME Control, NEW c \in Clients, pc[c] = "idle", NEW op \in Requests,
           NEW l \in {"current", "load", "start"}, Moves(c, l, [Rest EXCEPT !.op = op]),
           op.kind = CASE l = "current" -> "select" [] l = "load" -> "importLocal"
                       [] l = "start" -> "start",
           l = "load" => op.uid \in Uids /\ op.ver \in Versions
    PROVE  Control'
<1> DEFINE w == [Rest EXCEPT !.op = op]
<1>1. w \in Works /\ w.op = op /\ c \in Actors
  BY RequestFits DEF Actors
<1>2. ~Holds(c)
  BY <1>1 DEF Control, In
<1>3. Fits(l, w) /\ ~In(l, w)
  BY <1>1 DEF Fits, WellFormed, In, Positions, Locked
<1>4. Moves(c, l, w)
  OBVIOUS
<1> HIDE DEF w
<1> QED BY <1>1, <1>2, <1>3, <1>4, MoveKeepsControl

LEMMA ReleaseKeeps ==
    ASSUME Control, NEW a \in Actors, Release(a)
    PROVE  Control'
<1>1. Unlock(a) /\ pc' = [pc EXCEPT ![a] = "idle"] /\ work' = [work EXCEPT ![a] = Rest]
  BY DEF Release, Return, Goto, Keep
<1> QED BY <1>1, RestFits, UnlockKeeps

LEMMA AbortKeeps ==
    ASSUME Control, NEW t \in Tasks, Abort(t)
    PROVE  Control'
<1>1. t \in Actors /\ Unlock(t) /\ Fits(pc[t], work[t]) /\ pc[t] # "idle"
  BY DEF Abort, Actors, Control
<1>2. CASE Return(t)
  BY <1>1, <1>2, RestFits, UnlockKeeps DEF Return, Goto, Keep
<1>3. CASE /\ pc[t] \in {"file", "trunc", "fill", "write", "reload", "files"}
           /\ Keep(t, [work[t] EXCEPT !.stray = TRUE]) /\ UNCHANGED pc
  <2> DEFINE w == [work[t] EXCEPT !.stray = TRUE]
  <2>1. w \in Works /\ w.op = work[t].op /\ w.stray
    BY <1>1 DEF Fits, Works
  <2>2. Fits(pc[t], w) /\ ~In(pc[t], w)
    BY <1>1, <1>3, <2>1 DEF Fits, WellFormed, In
  <2>3. pc' = [pc EXCEPT ![t] = pc[t]] /\ work' = [work EXCEPT ![t] = w]
    BY <1>3 DEF Keep, Control
  <2> HIDE DEF w
  <2> QED BY <1>1, <2>2, <2>3, UnlockKeeps
<1> QED BY <1>2, <1>3 DEF Abort
-----------------------------------------------------------------------------
(* What the operations make of a catalog is a catalog.                      *)

LEMMA ReadsType ==
    ASSUME Data
    PROVE  Reads \ {Torn} \subseteq Catalogs
<1>1. EmptyCatalog \in Catalogs
  BY DEF EmptyCatalog, Catalogs
<1> QED BY <1>1 DEF Reads, Data

LEMMA PatchedRevisionType ==
    ASSUME NEW cat \in Catalogs, NEW u \in Uids, Has(cat, u), NEW v \in Versions
    PROVE  PatchUpdated(cat, u, v) \in Catalogs
<1>1. cat.item[u] \in Entries
  BY DEF Has, Catalogs
<1>2. [cat.item[u] EXCEPT !.rev = v] \in Entries
  BY <1>1 DEF Entries
<1> QED BY <1>2 DEF PatchUpdated, Catalogs

LEMMA PatchedSelectionType ==
    ASSUME NEW cat \in Catalogs, NEW u \in Uids, Has(cat, u), NEW s \in Selections \cup {NoSel}
    PROVE  PatchSelected(cat, u, s) \in Catalogs
<1>1. cat.item[u] \in Entries
  BY DEF Has, Catalogs
<1>2. [cat.item[u] EXCEPT !.sel = s] \in Entries
  BY <1>1 DEF Entries
<1> QED BY <1>2 DEF PatchSelected, Catalogs

LEMMA AppendType ==
    ASSUME NEW cat \in Catalogs, NEW u \in Uids, NEW v \in Versions
    PROVE  AppendMetadata(cat, u, v) \in Catalogs
<1>1. [rev |-> v, sel |-> NoSel] \in Entries
  BY DEF Entries
<1> QED BY <1>1 DEF AppendMetadata, Catalogs

LEMMA DeleteType ==
    ASSUME NEW cat \in Catalogs, NEW u \in Uids, NEW next \in NextCurrents(cat, u)
    PROVE  DeleteItem(cat, u, next) \in Catalogs /\ DeletedUids(cat, u) \subseteq Uids
<1>1. next \in Uids \cup {NoUid}
  BY CatalogAssumption DEF NextCurrents, Mains, Catalogs
<1> QED BY <1>1, CatalogAssumption DEF DeleteItem, DeletedUids, Catalogs

LEMMA MutatedType ==
    ASSUME NEW cat \in Catalogs, NEW op \in Requests, NEW new \in Mutated(op, cat),
           op.kind \in Locked \cup {"select", "importLocal"}, op.uid \in Uids,
           op.kind \in {"update", "select"} => Has(cat, op.uid),
           op.kind \in {"update", "import", "activate", "importLocal"} => op.ver \in Versions
    PROVE  new \in Catalogs
<1>1. CASE op.kind = "update"
  <2>1. new = PatchUpdated(cat, op.uid, op.ver)
    BY <1>1 DEF Mutated
  <2>2. \A v \in Versions : PatchUpdated(cat, op.uid, v) \in Catalogs
    BY <1>1, PatchedRevisionType
  <2> QED BY <1>1, <2>1, <2>2
<1>2. CASE op.kind = "switch"
  BY <1>2 DEF Mutated, SwitchCurrent, Catalogs
<1>3. CASE op.kind = "delete"
  <2>1. PICK n \in NextCurrents(cat, op.uid) : new = DeleteItem(cat, op.uid, n)
    BY <1>3 DEF Mutated
  <2> QED BY <2>1, DeleteType
<1>4. CASE op.kind = "select"
  <2>1. op.sel \in Selections \cup {NoSel}
    BY DEF Requests
  <2>2. new = PatchSelected(cat, op.uid, op.sel)
    BY <1>4 DEF Mutated
  <2>3. \A s \in Selections \cup {NoSel} : PatchSelected(cat, op.uid, s) \in Catalogs
    BY <1>4, PatchedSelectionType
  <2> QED BY <2>1, <2>2, <2>3
<1>5. CASE op.kind \in Importing
  <2>1. new = AppendMetadata(cat, op.uid, op.ver)
    BY <1>5 DEF Mutated, Importing
  <2>2. op.ver \in Versions
    BY <1>5 DEF Importing
  <2> QED BY <2>1, <2>2, AppendType
<1> QED BY <1>1, <1>2, <1>3, <1>4, <1>5 DEF Locked, Importing

LEMMA GeneratedType ==
    ASSUME NEW cat \in Catalogs, NEW files \in [Uids -> Contents]
    PROVE  Generated(cat, files) \in Runtimes
  BY RestFits DEF Generated, Fallback, Runtimes, Catalogs, Contents
-----------------------------------------------------------------------------
(* Control: the steps of an operation.                                      *)

LEMMA CaptureKeeps ==
    ASSUME Control, Data, NEW a \in Actors, Capture(a)
    PROVE  Control'
<1>1. pc[a] = "capture" /\ pc[a] \in Busy /\ lock' = lock /\ UNCHANGED others
  BY DEF Capture, Busy, Positions, others, locking
<1>2. CASE Goto(a, "failed") /\ UNCHANGED work
  <2>1. "failed" \in Later
    BY DEF Later, Busy, Positions, Outcomes
  <2> QED BY <1>1, <1>2, <2>1, GotoKeeps
<1>3. ASSUME NEW cat \in Reads \ {Torn}, Goto(a, "snapshot"),
             Keep(a, [work[a] EXCEPT !.before = cat])
      PROVE  Control'
  <2> DEFINE w == [work[a] EXCEPT !.before = cat]
  <2>1. Fits(pc[a], work[a]) /\ (In(pc[a], work[a]) <=> Holds(a)) /\ work[a] \in Works
    BY DEF Control
  <2>2. w \in Works /\ w.op = work[a].op /\ w.stray = work[a].stray
    BY <1>3, <2>1, ReadsType DEF Works
  <2>3. Fits("snapshot", w)
    BY <1>1, <2>1, <2>2 DEF Fits, WellFormed, Positions
  <2>4. In("snapshot", w) <=> Holds(a)
    BY <1>1, <2>1, <2>2 DEF In
  <2>5. Moves(a, "snapshot", w)
    BY <1>1, <1>3 DEF Goto, Keep, Moves
  <2> HIDE DEF w
  <2> QED BY <2>3, <2>4, <2>5, MoveKeepsControl
<1> QED BY <1>2, <1>3 DEF Capture

LEMMA CaptureFilesKeeps ==
    ASSUME Control, Data, NEW a \in Actors, CaptureFiles(a)
    PROVE  Control'
<1> DEFINE held == SnapshotUids(work[a].op, work[a].before)
           files == [u \in Uids |-> IF u \in held THEN file[u] ELSE NoFile]
           w == [work[a] EXCEPT !.bytes = catalog, !.files = files]
<1>1. pc[a] = "snapshot" /\ pc[a] \in Busy /\ lock' = lock
  BY DEF CaptureFiles, Busy, Positions, others, locking
<1>2. CASE Goto(a, "failed") /\ UNCHANGED work
  <2>1. "failed" \in Later
    BY DEF Later, Busy, Positions, Outcomes
  <2> QED BY <1>1, <1>2, <2>1, GotoKeeps
<1>3. CASE Goto(a, "load") /\ Keep(a, w)
  <2>1. Fits(pc[a], work[a]) /\ (In(pc[a], work[a]) <=> Holds(a)) /\ work[a] \in Works
    BY DEF Control
  <2>2. files \in [Uids -> Contents]
    BY DEF Data, Contents
  <2>3. catalog \in Catalogs \cup {Torn}
    BY DEF Data
  <2> HIDE DEF files
  <2>4. w \in Works /\ w.op = work[a].op /\ w.stray = work[a].stray
    BY <2>1, <2>2, <2>3 DEF Works
  <2> HIDE DEF w
  <2>5. Fits("load", w)
    BY <1>1, <2>1, <2>4 DEF Fits, WellFormed, Positions
  <2>6. In("load", w) <=> Holds(a)
    BY <1>1, <2>1, <2>4 DEF In
  <2>7. Moves(a, "load", w)
    BY <1>1, <1>3 DEF Goto, Keep, Moves
  <2> QED BY <2>5, <2>6, <2>7, MoveKeepsControl
<1> QED BY <1>2, <1>3 DEF CaptureFiles

LEMMA FindCurrentKeeps ==
    ASSUME Control, Data, NEW a \in Actors, FindCurrent(a)
    PROVE  Control'
<1>1. /\ pc[a] = "current" /\ lock' = lock
      /\ Fits(pc[a], work[a]) /\ work[a] \in Works /\ Kind(a) = "select"
  BY DEF FindCurrent, others, locking, Control, Fits, WellFormed, Kind
<1>2. ~Holds(a)
  BY <1>1 DEF Control, In, Kind, Locked
<1>3. CASE Return(a)
  BY <1>1, <1>2, <1>3, ReturnKeeps
<1>4. ASSUME NEW cat \in Reads \ {Torn}, cat.current # NoUid, Goto(a, "load"),
             Keep(a, [work[a] EXCEPT !.op.uid = cat.current])
      PROVE  Control'
  <2> DEFINE w == [work[a] EXCEPT !.op.uid = cat.current]
  <2>1. cat.current \in Uids
    BY <1>4, ReadsType DEF Catalogs
  <2>2. work[a].op \in Requests
    BY <1>1 DEF Works
  <2>3. [work[a].op EXCEPT !.uid = cat.current] \in Requests
    BY <2>1, <2>2 DEF Requests
  <2>4. w \in Works
    BY <1>1, <2>3 DEF Works
  <2>5. w.op.kind = "select" /\ w.op.uid = cat.current
    BY <1>1, <2>2 DEF Works, Requests, Kind
  <2>6. Moves(a, "load", w)
    BY <1>1, <1>4 DEF Goto, Keep, Moves
  <2> HIDE DEF w
  <2>7. Fits("load", w) /\ ~In("load", w)
    BY <2>1, <2>4, <2>5 DEF Fits, WellFormed, Positions, In, Locked
  <2> QED BY <1>2, <2>6, <2>7, MoveKeepsControl
<1> QED BY <1>3, <1>4 DEF FindCurrent

LEMMA LoadKeeps ==
    ASSUME Control, Data, NEW a \in Actors, LoadAndMutate(a)
    PROVE  Control'
<1>1. /\ pc[a] = "load" /\ pc[a] \in Busy /\ lock' = lock
      /\ Fits(pc[a], work[a]) /\ work[a] \in Works
  BY DEF LoadAndMutate, Busy, Positions, others, locking, Control
<1>2. CASE Fail(a)
  BY <1>1, <1>2, FailKeeps
<1>3. ASSUME NEW cat \in Reads \ {Torn}, ~MutationFails(a, cat),
             NEW l \in {"file", "trunc"}, Goto(a, l), NEW new \in Mutated(work[a].op, cat),
             Keep(a, [work[a] EXCEPT !.mem = new,
                 !.todo = IF Kind(a) = "delete" THEN DeletedUids(cat, Uid(a)) ELSE {}])
      PROVE  Control'
  <2> DEFINE todo == IF Kind(a) = "delete" THEN DeletedUids(cat, Uid(a)) ELSE {}
             w == [work[a] EXCEPT !.mem = new, !.todo = todo]
  <2>1. cat \in Catalogs
    BY <1>3, ReadsType
  <2>2. /\ work[a].op \in Requests /\ work[a].op.uid \in Uids
        /\ work[a].op.kind \in Locked \cup {"select", "importLocal"}
        /\ work[a].op.kind \in {"update", "import", "activate", "importLocal"}
              => work[a].op.ver \in Versions
    BY <1>1 DEF Fits, WellFormed, Works
  <2>3. work[a].op.kind \in {"update", "select"} => Has(cat, work[a].op.uid)
    BY <1>3 DEF MutationFails, Importing, Kind, Uid
  <2>4. new \in Catalogs
    BY <1>3, <2>1, <2>2, <2>3, MutatedType
  <2>5. todo \subseteq Uids
    BY <2>2, CatalogAssumption DEF DeletedUids, Uid
  <2>6. w \in Works /\ w.op = work[a].op /\ w.stray = work[a].stray
    <3> HIDE DEF todo
    <3> QED BY <1>1, <2>4, <2>5 DEF Works
  <2>7. Moves(a, l, w) /\ l \in Later
    BY <1>1, <1>3 DEF Goto, Keep, Moves, Later, Busy, Positions
  <2> HIDE DEF w
  <2> QED BY <1>1, <2>6, <2>7, StepKeeps
<1> QED BY <1>2, <1>3 DEF LoadAndMutate

LEMMA WriteFileKeeps ==
    ASSUME Control, NEW a \in Actors, WriteFile(a)
    PROVE  Control'
<1>1. pc[a] \in Busy /\ lock' = lock /\ "trunc" \in Later
  BY DEF WriteFile, Later, Busy, Positions, locking
<1> QED BY <1>1, AfterKeeps, FailKeeps DEF WriteFile

LEMMA TruncateKeeps ==
    ASSUME Control, NEW a \in Actors, TruncateCatalog(a)
    PROVE  Control'
<1>1. pc[a] \in Busy /\ lock' = lock /\ {"fill", "fill2"} \subseteq Later
  BY DEF TruncateCatalog, Later, Busy, Positions, locking
<1>2. CASE Goto(a, IF pc[a] = "trunc" THEN "fill" ELSE "fill2") /\ UNCHANGED work
  BY <1>1, <1>2, GotoKeeps
<1>3. CASE Fail(a)
  BY <1>1, <1>3, FailKeeps
<1> QED BY <1>2, <1>3 DEF TruncateCatalog

LEMMA FillKeeps ==
    ASSUME Control, NEW a \in Actors, FillCatalog(a)
    PROVE  Control'
<1>1. pc[a] \in Busy /\ lock' = lock /\ AfterFill(a) \in Later
  BY DEF FillCatalog, AfterFill, Later, Busy, Positions, locking
<1>2. CASE Kind(a) \in Locked /\ After(a, AfterFill(a))
  BY <1>1, <1>2, AfterKeeps
<1>3. CASE Kind(a) \notin Locked /\ Return(a)
  <2>1. ~Holds(a)
    BY <1>3 DEF Control, In, Kind
  <2> QED BY <1>1, <1>3, <2>1, ReturnKeeps
<1>4. CASE Fail(a)
  BY <1>1, <1>4, FailKeeps
<1> QED BY <1>2, <1>3, <1>4 DEF FillCatalog

LEMMA SwitchImportedKeeps ==
    ASSUME Control, Data, NEW a \in Actors, SwitchImported(a)
    PROVE  Control'
<1>1. /\ pc[a] \in Busy /\ lock' = lock /\ "trunc2" \in Later
      /\ work[a] \in Works /\ work[a].op \in Requests
  BY DEF SwitchImported, Later, Busy, Positions, others, locking, Control, Works
<1>2. CASE Fail(a)
  BY <1>1, <1>2, FailKeeps
<1>3. ASSUME NEW cat \in Reads \ {Torn}, Goto(a, "trunc2"),
             Keep(a, [work[a] EXCEPT !.mem = SwitchCurrent(cat, Uid(a))])
      PROVE  Control'
  <2> DEFINE mem == SwitchCurrent(cat, Uid(a))
             w == [work[a] EXCEPT !.mem = mem]
  <2>1. cat \in Catalogs /\ Uid(a) \in Uids \cup {NoUid}
    BY <1>1, <1>3, ReadsType DEF Requests, Uid
  <2>2. mem \in Catalogs
    BY <2>1 DEF SwitchCurrent, Catalogs
  <2> HIDE DEF mem
  <2>3. w \in Works /\ w.op = work[a].op /\ w.stray = work[a].stray
    BY <1>1, <2>2 DEF Works
  <2>4. Moves(a, "trunc2", w)
    BY <1>1, <1>3 DEF Goto, Keep, Moves, mem
  <2> HIDE DEF w
  <2> QED BY <1>1, <2>3, <2>4, StepKeeps
<1> QED BY <1>2, <1>3 DEF SwitchImported

LEMMA FilesKeeps ==
    ASSUME Control, NEW a \in Actors, RemoveOrRestoreFile(a)
    PROVE  Control'
<1>1. /\ pc[a] \in Busy /\ lock' = lock /\ pc[a] = "files"
      /\ {"files", "refresh"} \subseteq Later /\ work[a] \in Works
  BY DEF RemoveOrRestoreFile, Later, Busy, Positions, locking, Control
<1>2. CASE Goto(a, "refresh") /\ UNCHANGED work
  BY <1>1, <1>2, GotoKeeps
<1>3. CASE Stray(a) /\ Return(a)
  <2>1. ~Holds(a)
    BY <1>3 DEF Control, In, Stray
  <2> QED BY <1>1, <1>3, <2>1, ReturnKeeps
<1>4. ASSUME NEW u, Keep(a, [work[a] EXCEPT !.todo = @ \ {u}]), UNCHANGED pc
      PROVE  Control'
  <2> DEFINE w == [work[a] EXCEPT !.todo = @ \ {u}]
  <2>1. w \in Works /\ w.op = work[a].op /\ w.stray = work[a].stray
    BY <1>1 DEF Works
  <2>2. Moves(a, "files", w)
    BY <1>1, <1>4 DEF Keep, Moves, Control
  <2> HIDE DEF w
  <2> QED BY <1>1, <2>1, <2>2, StepKeeps
<1>5. CASE Fail(a)
  BY <1>1, <1>5, FailKeeps
<1> QED BY <1>2, <1>3, <1>4, <1>5 DEF RemoveOrRestoreFile

LEMMA RefreshKeeps ==
    ASSUME Control, NEW a \in Actors, Refresh(a)
    PROVE  Control'
<1>1. /\ pc[a] \in Busy /\ pc[a] = "refresh" /\ lock' = lock /\ "generate" \in Later
      /\ Fits(pc[a], work[a])
  BY DEF Refresh, Later, Busy, Positions, others, locking, Control
<1>2. CASE Fail(a)
  BY <1>1, <1>2, FailKeeps
<1>3. CASE Goto(a, "generate") /\ UNCHANGED work
  BY <1>1, <1>3, GotoKeeps
<1>4. CASE Goto(a, End(a)) /\ UNCHANGED work
  <2>1. CASE Kind(a) \in Locked
    <3>1. End(a) \in Later
      BY <2>1 DEF End, Later, Busy, Positions, Outcomes
    <3> QED BY <1>1, <1>4, <3>1, GotoKeeps
  <2>2. CASE Kind(a) \notin Locked
    <3>1. End(a) = "idle" /\ ~Holds(a)
      BY <2>2 DEF End, Control, In, Kind
    <3>2. Moves(a, "idle", work[a])
      BY <1>1, <1>4, <3>1 DEF Goto, Moves, Control
    <3>3. Fits("idle", work[a]) /\ ~In("idle", work[a])
      BY <1>1 DEF Fits, WellFormed, In, Positions
    <3> QED BY <3>1, <3>2, <3>3, MoveKeepsControl
  <2> QED BY <2>1, <2>2
<1> QED BY <1>2, <1>3, <1>4 DEF Refresh

LEMMA GenerateKeeps ==
    ASSUME Control, Data, NEW a \in Actors, Generate(a)
    PROVE  Control'
<1>1. /\ pc[a] \in Busy /\ lock' = lock /\ {"write", "startWrite"} \subseteq Later
      /\ work[a] \in Works
  BY DEF Generate, Later, Busy, Positions, others, locking, Control
<1>2. CASE Fail(a)
  BY <1>1, <1>2, FailKeeps
<1>3. ASSUME NEW cat \in Reads \ {Torn}, NEW l \in {"write", "startWrite"}, Goto(a, l),
             Keep(a, [work[a] EXCEPT !.rt = Generated(cat, file)])
      PROVE  Control'
  <2> DEFINE w == [work[a] EXCEPT !.rt = Generated(cat, file)]
  <2>1. cat \in Catalogs /\ file \in [Uids -> Contents]
    BY <1>3, ReadsType DEF Data
  <2>2. Generated(cat, file) \in Runtimes
    BY <2>1, GeneratedType
  <2>3. w \in Works /\ w.op = work[a].op /\ w.stray = work[a].stray
    BY <1>1, <2>2 DEF Works
  <2>4. Moves(a, l, w)
    BY <1>1, <1>3 DEF Goto, Keep, Moves
  <2> HIDE DEF w
  <2> QED BY <1>1, <1>3, <2>3, <2>4, StepKeeps
<1> QED BY <1>2, <1>3 DEF Generate

LEMMA RuntimeKeeps ==
    ASSUME Control, NEW a \in Actors,
           WriteRuntime(a) \/ Validate(a) \/ Apply(a) \/ Reload(a) \/ StartCore(a) \/ SpawnCore(a)
    PROVE  Control'
<1>1. lock' = lock /\ pc[a] \in Busy
  BY DEF WriteRuntime, Validate, Apply, Reload, StartCore, SpawnCore, others, locking,
         Busy, Positions
<1>2. {"validate", "spawn", "apply", "reload", "start", "startGenerate"} \subseteq Later
  BY DEF Later, Busy, Positions
<1>3. CASE \E l \in Later : After(a, l)
  BY <1>1, <1>3, AfterKeeps
<1>4. CASE \E l \in Later : Goto(a, l) /\ UNCHANGED work
  BY <1>1, <1>4, GotoKeeps
<1>5. CASE Leave(a) \/ Fail(a)
  BY <1>1, <1>5, LeaveKeeps, FailKeeps
<1>6. CASE WriteRuntime(a)
  BY <1>2, <1>3, <1>5, <1>6 DEF WriteRuntime
<1>7. CASE Validate(a) \/ Apply(a) \/ StartCore(a)
  BY <1>2, <1>4, <1>5, <1>7 DEF Validate, Apply, StartCore
<1>8. CASE Reload(a) \/ SpawnCore(a)
  BY <1>5, <1>8 DEF Reload, SpawnCore
<1> QED BY <1>6, <1>7, <1>8
-----------------------------------------------------------------------------
(* Data: the files, the core and the history variables.                     *)

LEMMA NothingWritten ==
    ASSUME Data, UNCHANGED <<catalog, file, runtime, core, dirty, saved>>,
           ops' = ops \/ (ops < MaxOps /\ ops' = ops + 1),
           base' = base \/ \E a \in Actors : TakeLock(a)
    PROVE  Data'
<1>1. ops' \in 0..MaxOps
  BY TransactionAssumption DEF Data
<1>2. base' \in [Actors -> [catalog : Catalogs \cup {Torn}, file : [Uids -> Contents],
                            runtime : Runtimes, conf : Runtimes]]
  BY DEF Data, TakeLock
<1> QED BY <1>1, <1>2 DEF Data

LEMMA UnlockData ==
    ASSUME Data, NEW a \in Actors, Unlock(a),
           UNCHANGED <<catalog, file, runtime, core, ops, saved>>
    PROVE  Data'
<1>1. NoBase \in [catalog : Catalogs \cup {Torn}, file : [Uids -> Contents],
                  runtime : Runtimes, conf : Runtimes]
  BY RestFits DEF NoBase, Fits, Rest, Works
<1>2. base' \in [Actors -> [catalog : Catalogs \cup {Torn}, file : [Uids -> Contents],
                            runtime : Runtimes, conf : Runtimes]]
  BY <1>1 DEF Data, Unlock
<1> QED BY <1>2 DEF Data, Unlock

\* What a step wrote has the type of what it replaced.
LEMMA Written ==
    ASSUME Data, NEW a \in Actors, Touch(a) \/ UNCHANGED dirty, UNCHANGED <<base, ops>>,
           catalog' \in Catalogs \cup {Torn}, file' \in [Uids -> Contents],
           runtime' \in Runtimes, core' \in [running : BOOLEAN, conf : Runtimes],
           saved' \in [Uids -> Selections \cup {NoSel}]
    PROVE  Data'
<1>1. dirty' \subseteq Actors
  BY DEF Data, Touch
<1> QED BY <1>1 DEF Data

LEMMA FileData ==
    ASSUME Control, Data, NEW a \in Actors, WriteFile(a) \/ RemoveOrRestoreFile(a)
    PROVE  Data'
<1>1. work[a] \in Works /\ work[a].op.ver \in Contents /\ work[a].files \in [Uids -> Contents]
  BY DEF Control, Works, Requests
<1>2. file \in [Uids -> Contents] /\ {NoFile, Partial} \subseteq Contents
  BY DEF Data, Contents
<1>3. CASE WriteFile(a)
  <2>1. \A c \in Contents : [file EXCEPT ![Uid(a)] = c] \in [Uids -> Contents]
    BY <1>2
  <2>2. \/ file' = [file EXCEPT ![Uid(a)] = work[a].op.ver]
        \/ file' = file
        \/ file' = [file EXCEPT ![Uid(a)] = Partial]
    BY <1>3 DEF WriteFile
  <2>3. file' \in [Uids -> Contents]
    BY <1>1, <1>2, <2>1, <2>2
  <2> QED BY <1>3, <2>3, Written DEF WriteFile, locking, Data
<1>4. CASE RemoveOrRestoreFile(a)
  <2>1. \/ file' = file
        \/ \E u \in work[a].todo : \E c \in {work[a].files[u], NoFile, Partial} :
              file' = [file EXCEPT ![u] = c]
    BY <1>4 DEF RemoveOrRestoreFile
  <2>2. \A u \in work[a].todo : work[a].files[u] \in Contents
    BY <1>1 DEF Works
  <2>3. file' \in [Uids -> Contents]
    BY <1>2, <2>1, <2>2
  <2> QED BY <1>4, <2>3, Written DEF RemoveOrRestoreFile, locking, Data
<1> QED BY <1>3, <1>4

LEMMA CatalogData ==
    ASSUME Control, Data, NEW a \in Actors, TruncateCatalog(a) \/ FillCatalog(a)
    PROVE  Data'
<1>1. work[a].mem \in Catalogs \cup {Torn} /\ work[a].op \in Requests
  BY DEF Control, Works
<1>2. CASE TruncateCatalog(a)
  <2>1. catalog' \in Catalogs \cup {Torn}
    BY <1>2 DEF TruncateCatalog, Data
  <2> QED BY <1>2, <2>1, Written DEF TruncateCatalog, locking, Data
<1>3. CASE FillCatalog(a)
  <2>1. catalog' \in Catalogs \cup {Torn}
    BY <1>1, <1>3 DEF FillCatalog, Data
  <2>2. saved' \in [Uids -> Selections \cup {NoSel}]
    <3>1. CASE UNCHANGED saved
      BY <3>1 DEF Data
    <3>2. CASE saved' = [u \in Uids |->
                IF RolledBack(a) THEN saved[u]
                ELSE IF Kind(a) = "select" /\ u = Uid(a) THEN work[a].op.sel
                ELSE IF Kind(a) \in Importing /\ u = Uid(a) THEN NoSel
                ELSE IF Kind(a) = "delete" /\ u \in work[a].todo THEN NoSel
                ELSE saved[u]]
      BY <1>1, <3>2 DEF Data, Requests
    <3> QED BY <1>3, <3>1, <3>2 DEF FillCatalog
  <2> QED BY <1>3, <2>1, <2>2, Written DEF FillCatalog, locking, Data
<1> QED BY <1>2, <1>3

LEMMA CoreData ==
    ASSUME Control, Data, NEW a \in Actors, WriteRuntime(a) \/ Reload(a) \/ SpawnCore(a)
    PROVE  Data'
<1>1. work[a].rt \in Runtimes
  BY DEF Control, Works
<1>2. CASE WriteRuntime(a)
  <2>1. runtime' \in Runtimes
    BY <1>1, <1>2 DEF WriteRuntime, Data
  <2> QED BY <1>2, <2>1, Written DEF WriteRuntime, locking, Data
<1>3. CASE Reload(a) \/ SpawnCore(a)
  <2>1. \/ core' = core
        \/ core' = [core EXCEPT !.conf = runtime]
        \/ core' = [running |-> TRUE, conf |-> runtime]
    BY <1>3 DEF Reload, SpawnCore
  <2>2. core \in [running : BOOLEAN, conf : Runtimes] /\ runtime \in Runtimes
    BY DEF Data
  <2>3. [core EXCEPT !.conf = runtime] \in [running : BOOLEAN, conf : Runtimes]
    BY <2>2
  <2>4. [running |-> TRUE, conf |-> runtime] \in [running : BOOLEAN, conf : Runtimes]
    BY <2>2
  <2>5. core' \in [running : BOOLEAN, conf : Runtimes]
    BY <2>1, <2>2, <2>3, <2>4
  <2> QED BY <1>3, <2>5, Written DEF Reload, SpawnCore, locking, Data
<1> QED BY <1>2, <1>3
-----------------------------------------------------------------------------
(* The invariant, action by action.                                         *)

LEMMA InitKeeps ==
    ASSUME Init
    PROVE  Control /\ Data
<1>1. Fits("idle", Rest) /\ ~In("idle", Rest)
  BY RestFits
<1>2. pc \in [Actors -> Positions] /\ work \in [Actors -> Works]
      /\ lock \in [Procs -> Actors \cup {Free}]
  BY <1>1 DEF Init, Fits
<1>3. \A a \in Actors : ProcOf[a] \in Procs /\ pc[a] = "idle" /\ work[a] = Rest
  BY DEF Init, Procs
<1>4. \A a \in Actors : ~Holds(a)
  BY <1>3, TransactionAssumption DEF Init, Holds
<1>5. Control
  BY <1>1, <1>2, <1>3, <1>4 DEF Control
<1>6. catalog \in Catalogs
  BY RestFits DEF Init, Fits, Rest, Works
<1>7. file \in [Uids -> Contents]
  <2>1. \A u \in Uids : Has(catalog, u) => catalog.item[u].rev \in Contents
    BY <1>6 DEF Has, Catalogs, Entries, Contents
  <2> QED BY <2>1 DEF Init, Contents
<1>8. runtime \in Runtimes
  BY <1>6, <1>7, GeneratedType DEF Init
<1>9. core \in [running : BOOLEAN, conf : Runtimes]
  <2>1. \A r \in Runtimes : /\ [running |-> FALSE, conf |-> r] \in [running : BOOLEAN, conf : Runtimes]
                            /\ [running |-> TRUE, conf |-> r] \in [running : BOOLEAN, conf : Runtimes]
    OBVIOUS
  <2>2. core = [running |-> FALSE, conf |-> Fallback] \/ core = [running |-> TRUE, conf |-> runtime]
    BY DEF Init
  <2> QED BY <1>8, <2>1, <2>2, FallbackType
<1>10. ops \in 0..MaxOps /\ dirty \subseteq Actors /\ saved \in [Uids -> Selections \cup {NoSel}]
  BY TransactionAssumption DEF Init
<1>11. base \in [Actors -> [catalog : Catalogs \cup {Torn}, file : [Uids -> Contents],
                           runtime : Runtimes, conf : Runtimes]]
  <2>1. NoBase \in [catalog : Catalogs \cup {Torn}, file : [Uids -> Contents],
                    runtime : Runtimes, conf : Runtimes]
    BY RestFits DEF NoBase, Fits, Rest, Works
  <2> QED BY <2>1 DEF Init
<1> QED BY <1>5, <1>6, <1>7, <1>8, <1>9, <1>10, <1>11 DEF Data

LEMMA StepActionKeeps ==
    ASSUME Control, Data, NEW a \in Actors, Step(a)
    PROVE  Control' /\ Data'
<1>1. CASE Capture(a) \/ CaptureFiles(a) \/ FindCurrent(a) \/ LoadAndMutate(a)
           \/ SwitchImported(a) \/ Refresh(a) \/ Generate(a)
  <2>1. UNCHANGED others
    BY <1>1 DEF Capture, CaptureFiles, FindCurrent, LoadAndMutate, SwitchImported, Refresh,
                Generate
  <2>2. Data'
    BY <2>1, NothingWritten DEF others, locking
  <2> QED BY <1>1, <2>2, CaptureKeeps, CaptureFilesKeeps, FindCurrentKeeps, LoadKeeps,
             SwitchImportedKeeps, RefreshKeeps, GenerateKeeps
<1>2. CASE Validate(a) \/ Apply(a) \/ StartCore(a)
  <2>1. UNCHANGED others
    BY <1>2 DEF Validate, Apply, StartCore
  <2>2. Data'
    BY <2>1, NothingWritten DEF others, locking
  <2> QED BY <1>2, <2>2, RuntimeKeeps
<1>3. CASE WriteFile(a) \/ RemoveOrRestoreFile(a)
  BY <1>3, FileData, WriteFileKeeps, FilesKeeps
<1>4. CASE TruncateCatalog(a) \/ FillCatalog(a)
  BY <1>4, CatalogData, TruncateKeeps, FillKeeps
<1>5. CASE WriteRuntime(a) \/ Reload(a) \/ SpawnCore(a)
  BY <1>5, CoreData, RuntimeKeeps
<1>6. CASE Release(a)
  BY <1>6, ReleaseKeeps, UnlockData DEF Release
<1> QED BY <1>1, <1>2, <1>3, <1>4, <1>5, <1>6 DEF Step

LEMMA TransactionKeeps ==
    ASSUME Control, Data, NEW c \in Clients, NEW kind \in Locked \ {"update"}, NEW u \in Uids,
           NEW v \in Contents, NEW start \in BOOLEAN, BeginTransaction(c, kind, u, v, start),
           kind \in {"import", "activate"} => v \in Versions
    PROVE  Control' /\ Data'
<1>1. Control'
  BY BeginTransactionKeeps
<1>2. Data'
  BY NothingWritten DEF BeginTransaction, Begin, Actors
<1> QED BY <1>1, <1>2

LEMMA SwitchKeeps ==
    ASSUME Control, Data, NEW c \in Clients, NEW u \in Uids, NEW start \in BOOLEAN,
           BeginSwitch(c, u, start) \/ BeginDelete(c, u)
    PROVE  Control' /\ Data'
<1>1. NoFile \in Contents /\ {"switch", "delete"} \subseteq Locked \ {"update"}
  BY DEF Contents, Locked
<1> QED BY <1>1, TransactionKeeps DEF BeginSwitch, BeginDelete

LEMMA ImportKeeps ==
    ASSUME Control, Data, NEW c \in Clients, NEW u \in Uids, NEW v \in Versions,
           BeginImport(c, u, v) \/ \E start \in BOOLEAN : BeginActivate(c, u, v, start)
    PROVE  Control' /\ Data'
<1>1. v \in Contents /\ {"import", "activate"} \subseteq Locked \ {"update"}
  BY DEF Contents, Locked
<1> QED BY <1>1, TransactionKeeps DEF BeginImport, BeginActivate

LEMMA BeginOtherKeeps ==
    ASSUME Control, Data, NEW c \in Clients,
           \/ \E s \in Selections : BeginSelect(c, s)
           \/ \E u \in Uids, v \in Versions : BeginImportLocal(c, u, v)
           \/ BeginStart(c)
    PROVE  Control' /\ Data'
<1>1. pc[c] = "idle" /\ UNCHANGED <<catalog, file, runtime, core, locking, dirty, saved>>
      /\ ops < MaxOps /\ ops' = ops + 1
  BY DEF BeginSelect, BeginImportLocal, BeginStart, Begin
<1>2. Data'
  BY <1>1, NothingWritten DEF locking
<1>3. CASE \E s \in Selections : BeginSelect(c, s)
  <2>1. PICK s \in Selections : BeginSelect(c, s)
    BY <1>3
  <2> DEFINE op == [Request("select", NoUid) EXCEPT !.sel = s]
  <2>2. op \in Requests /\ op.kind = "select"
    BY DEF Request, NoOp, Requests, Contents
  <2>3. Moves(c, "current", [Rest EXCEPT !.op = op])
    BY <1>1, <2>1 DEF BeginSelect, Goto, Keep, Moves, locking
  <2> HIDE DEF op
  <2> QED BY <1>1, <1>2, <2>2, <2>3, BeginUnlockedKeeps
<1>4. CASE \E u \in Uids, v \in Versions : BeginImportLocal(c, u, v)
  <2>1. PICK u \in Uids, v \in Versions : BeginImportLocal(c, u, v)
    BY <1>4
  <2> DEFINE op == [Request("importLocal", u) EXCEPT !.ver = v]
  <2>2. op \in Requests /\ op.kind = "importLocal" /\ op.uid = u /\ op.ver = v
    BY DEF Request, NoOp, Requests, Contents
  <2>3. Moves(c, "load", [Rest EXCEPT !.op = op])
    BY <1>1, <2>1 DEF BeginImportLocal, Goto, Keep, Moves, locking
  <2> HIDE DEF op
  <2> QED BY <1>1, <1>2, <2>2, <2>3, BeginUnlockedKeeps
<1>5. CASE BeginStart(c)
  <2> DEFINE op == Request("start", NoUid)
  <2>1. op \in Requests /\ op.kind = "start"
    BY DEF Request, NoOp, Requests, Contents
  <2>2. Moves(c, "start", [Rest EXCEPT !.op = op])
    BY <1>1, <1>5 DEF BeginStart, Goto, Keep, Moves, locking
  <2> HIDE DEF op
  <2> QED BY <1>1, <1>2, <2>1, <2>2, BeginUnlockedKeeps
<1> QED BY <1>3, <1>4, <1>5

LEMMA NextKeeps ==
    ASSUME Control, Data, [Next]_vars
    PROVE  Control' /\ Data'
<1>1. CASE UNCHANGED vars
  BY <1>1, StayKeeps, NothingWritten DEF vars, control, locking
<1>2. ASSUME NEW t \in Tasks, NEW u \in Uids, NEW v \in Versions, BeginUpdate(t, u, v)
      PROVE  Control' /\ Data'
  BY <1>2, BeginUpdateKeeps, NothingWritten DEF BeginUpdate, Begin, locking
<1>3. ASSUME NEW t \in Tasks, WaitLock(t)
      PROVE  Control' /\ Data'
  BY <1>3, WaitLockKeeps, NothingWritten DEF WaitLock, Actors
<1>4. ASSUME NEW a \in Actors, Step(a)
      PROVE  Control' /\ Data'
  BY <1>4, StepActionKeeps
<1>5. ASSUME NEW t \in Tasks, Abort(t)
      PROVE  Control' /\ Data'
  BY <1>5, AbortKeeps, UnlockData DEF Abort, Actors
<1>6. CASE CoreStops
  <2>1. Control'
    BY <1>6, StayKeeps DEF CoreStops, control, locking
  <2>2. core' \in [running : BOOLEAN, conf : Runtimes]
    BY <1>6, FallbackType DEF CoreStops
  <2> QED BY <1>6, <2>1, <2>2 DEF CoreStops, locking, Data
<1>7. ASSUME NEW c \in Clients, NEW u \in Uids, NEW start \in BOOLEAN, BeginSwitch(c, u, start)
      PROVE  Control' /\ Data'
  BY <1>7, SwitchKeeps
<1>8. ASSUME NEW c \in Clients, NEW u \in Uids, BeginDelete(c, u)
      PROVE  Control' /\ Data'
  BY <1>8, SwitchKeeps
<1>9. ASSUME NEW c \in Clients, NEW u \in Uids, NEW v \in Versions,
             \/ BeginImport(c, u, v)
             \/ \E start \in BOOLEAN : BeginActivate(c, u, v, start)
      PROVE  Control' /\ Data'
  BY <1>9, ImportKeeps
<1>10. ASSUME NEW c \in Clients,
              \/ \E s \in Selections : BeginSelect(c, s)
              \/ \E u \in Uids, v \in Versions : BeginImportLocal(c, u, v)
              \/ BeginStart(c)
      PROVE  Control' /\ Data'
  BY <1>10, BeginOtherKeeps
<1> QED BY <1>1, <1>2, <1>3, <1>4, <1>5, <1>6, <1>7, <1>8, <1>9, <1>10 DEF Next
-----------------------------------------------------------------------------
(* The theorems.                                                            *)

\* The inductive invariant: the types, the work that fits the position, and the
\* lock that is held in transactions.
THEOREM ProfileInvariant == Spec => []ProfileInv
<1>1. Init => ProfileInv
  BY InitKeeps, Halves
<1>2. ProfileInv /\ [Next]_vars => ProfileInv'
  <2>1. ProfileInv' <=> Control' /\ Data'
    BY DEF ProfileInv, TypeOK, Control, Data, Fits, LockIsHeldInTransactions, InTransaction, In,
           Kind, Stray
  <2> QED BY <2>1, Halves, NextKeeps
<1> QED BY <1>1, <1>2, PTL DEF Spec

\* Every variable keeps its type, whatever is aborted or fails.
THEOREM ProfileTypeCorrect == Spec => []TypeOK
<1>1. ProfileInv => TypeOK
  BY DEF ProfileInv
<1> QED BY <1>1, ProfileInvariant, PTL

\* The lock of a process is held by exactly the actors in a transaction: two
\* transactions of a process never overlap, and none leaves the lock behind.
THEOREM ProfileLock == Spec => []LockIsHeldInTransactions
<1>1. ProfileInv => LockIsHeldInTransactions
  BY DEF ProfileInv
<1> QED BY <1>1, ProfileInvariant, PTL

-----------------------------------------------------------------------------
(***************************************************************************)
(* What a transaction does to the files: a rollback restores, a commit has *)
(* applied what it changed, and, where nothing else writes, transactions   *)
(* are the atomic operations of AtomicProfiles.                            *)
(*                                                                         *)
(* Track says, at every position of an actor that holds the lock and that  *)
(* nobody disturbed, what has become of the catalog, the files, the        *)
(* runtime configuration and the core since the lock was taken.            *)
(***************************************************************************)

\* What a reader makes of profiles.yaml, and of that the generator.
ReadOf(c) == IF c = Torn THEN EmptyCatalog ELSE c
Made(c, f) == Generated(ReadOf(c), f)

Writing == {"update", "import", "activate"}
Snapped(w) == SnapshotUids(w.op, w.before)
Applied(w) == Applies(w.op, w.before, w.before)

\* What a mutation that did not fail found, and what it makes of catalog and files.
Possible(op, p, f) ==
    /\ op.kind \in {"update", "switch", "delete"} => Has(p, op.uid)
    /\ op.kind \in {"import", "activate"} => ~Has(p, op.uid) /\ f[op.uid] = NoFile
Target(op, p) ==
    IF op.kind = "activate" THEN {SwitchCurrent(AppendMetadata(p, op.uid, op.ver), op.uid)}
    ELSE Mutated(op, p)
FileNow(op, f) == IF op.kind \in Writing THEN [f EXCEPT ![op.uid] = op.ver] ELSE f
Without(f, gone) == [d \in Uids |-> IF d \in gone THEN NoFile ELSE f[d]]
FileThen(w, f) == IF w.op.kind = "delete" THEN Without(f, Snapped(w)) ELSE FileNow(w.op, f)

Starting == {"start", "startGenerate", "startWrite", "spawn"}
Applying == {"generate", "write", "validate", "apply", "reload"} \cup Starting
Before == {"capture", "snapshot", "load", "file", "failed"}
Saving == {"file", "trunc", "fill"}
Activating == {"switch", "trunc2", "fill2"}
Ending == {"refresh", "committed"} \cup Applying
Restoring == {"trunc", "fill", "files"}
Restored == {"refresh", "generate", "write", "validate", "apply", "reload", "rolledBack"}

Bases == [catalog : Catalogs \cup {Torn}, file : [Uids -> Contents],
          runtime : Runtimes, conf : Runtimes]

\* The snapshot holds what there was when the lock was taken.
Taken(l, w, b) ==
    /\ l \notin {"capture", "failed"} => w.before = ReadOf(b.catalog)
    /\ l \notin {"capture", "snapshot", "failed"} =>
          w.bytes = b.catalog /\ \A u \in Snapped(w) : w.files[u] = b.file[u]

\* The files of a transaction on its way.
Forward(l, w, b, c, f) ==
    LET p == ReadOf(b.catalog) IN
    /\ l \in Before \cup Saving \cup Activating \cup {"files"} \cup Ending
    /\ l \in Before => c = b.catalog /\ f = b.file
    /\ l \in Saving \cup Activating \cup {"files"} \cup Ending => Possible(w.op, p, b.file)
    /\ l = "file" => w.op.kind \in Writing
    /\ l \in Saving =>
          w.mem \in Mutated(w.op, p) /\ (w.op.kind = "delete" => w.todo = Snapped(w))
    /\ l = "trunc" => c = b.catalog
    /\ l \in {"fill", "fill2"} => c = Torn
    /\ l \in {"trunc", "fill"} \cup Activating => f = FileNow(w.op, b.file)
    /\ l \in Activating => w.op.kind = "activate"
    /\ l \in {"switch", "trunc2"} => c \in Mutated(w.op, p)
    /\ l \in {"trunc2", "fill2"} => w.mem \in Target(w.op, p)
    /\ l = "files" => /\ w.op.kind = "delete" /\ c \in Mutated(w.op, p)
                      /\ w.todo \subseteq Snapped(w) /\ f = Without(b.file, Snapped(w) \ w.todo)
    /\ l \in Ending => c \in Target(w.op, p) /\ f = FileThen(w, b.file)

\* The files of a transaction on its way back.
Backward(l, w, b, c, f) ==
    /\ l \in Restoring \cup Restored \cup {"rollbackFailed"}
    /\ l \in {"trunc", "fill"} => w.mem = b.catalog /\ w.todo = Snapped(w)
    /\ l = "fill" => c = Torn
    /\ l \in Restoring => /\ w.todo \subseteq Snapped(w)
                          /\ \A u \in Uids \ w.todo : f[u] = b.file[u]
    /\ l = "files" => c = b.catalog
    /\ l \in Restored \/ (l = "rollbackFailed" /\ IoFaults # "always") =>
          c = b.catalog /\ f = b.file

\* The runtime configuration and the core.
Still(b, r, k) == r = b.runtime /\ (k.running => k.conf = b.conf)
Ran(l, w, b, c, f, r, k) ==
    /\ l \in Before \cup Saving \cup Activating \cup {"files", "refresh"} =>
          Still(b, r, k) \/ (w.rb /\ Applied(w))
    /\ l \in Applying => Applied(w)
    /\ l \in {"write", "startWrite"} => w.rt = Made(c, f)
    /\ l \in {"validate", "apply", "reload"} \cup Starting => r = Made(c, f)
    /\ l \in Starting => ~k.running
    /\ l \in {"committed", "rolledBack"} =>
          IF Applied(w) THEN r = Made(c, f) /\ (k.running => k.conf = r) ELSE Still(b, r, k)

Track(l, w, b, c, f, r, k) ==
    /\ Taken(l, w, b)
    /\ IF w.rb THEN Backward(l, w, b, c, f) ELSE Forward(l, w, b, c, f)
    /\ Ran(l, w, b, c, f, r, k)

Tracked == \A a \in Actors : Alone(a) => Track(pc[a], work[a], base[a], catalog, file, runtime, core)
-----------------------------------------------------------------------------
(* Where an actor is that holds the lock undisturbed.                       *)

LEMMA Here ==
    ASSUME ProfileInv, Tracked, NEW a \in Actors, Alone(a)
    PROVE  /\ Control /\ Data
           /\ pc[a] \in Positions \ {"idle", "wait", "current"}
           /\ work[a] \in Works /\ work[a].op \in Requests
           /\ work[a].op.kind \in Locked /\ ~work[a].stray /\ work[a].op.uid \in Uids
           /\ work[a].op.kind \in Writing => work[a].op.ver \in Versions
           /\ base[a] \in Bases
           /\ Track(pc[a], work[a], base[a], catalog, file, runtime, core)
<1>1. Control /\ Data
  BY Halves
<1>2. Fits(pc[a], work[a]) /\ In(pc[a], work[a])
  BY <1>1 DEF Control, Alone
<1>3. work[a].op.kind # "select"
  BY <1>2 DEF In, Locked
<1>4. base[a] \in Bases
  BY <1>1 DEF Data, Bases
<1>5. work[a].op \in Requests
  BY <1>2 DEF Fits, Works
<1> QED BY <1>1, <1>2, <1>3, <1>4, <1>5 DEF Fits, WellFormed, In, Tracked, Writing

\* The steps of an actor that keep the lock where it is.
Working(a) == Step(a) /\ ~Release(a)

LEMMA OnlyMine ==
    ASSUME ProfileInv, NEW a \in Actors, Working(a)
    PROVE  /\ lock' = lock /\ base' = base
           /\ \A b \in Actors \ {a} : pc'[b] = pc[b] /\ work'[b] = work[b]
           /\ Touch(a) \/ UNCHANGED <<catalog, file, runtime, core, dirty>>
<1>1. pc \in [Actors -> Positions] /\ work \in [Actors -> Works]
  BY DEF ProfileInv, TypeOK
<1>2. \A l : Goto(a, l) => \A b \in Actors \ {a} : pc'[b] = pc[b]
  BY <1>1 DEF Goto
<1>3. \A w : Keep(a, w) => \A b \in Actors \ {a} : work'[b] = work[b]
  BY <1>1 DEF Keep
<1>4. Fail(a) \/ Leave(a) \/ Return(a) \/ (\E l : After(a, l)) =>
          \A b \in Actors \ {a} : pc'[b] = pc[b] /\ work'[b] = work[b]
  BY <1>2, <1>3 DEF Fail, Leave, Return, After
<1>5. CASE Capture(a) \/ CaptureFiles(a) \/ FindCurrent(a) \/ LoadAndMutate(a)
           \/ SwitchImported(a) \/ Refresh(a) \/ Generate(a)
  BY <1>2, <1>3, <1>4, <1>5
     DEF Capture, CaptureFiles, FindCurrent, LoadAndMutate, SwitchImported, Refresh, Generate,
         others, locking
<1>6. CASE Validate(a) \/ Apply(a) \/ StartCore(a) \/ WriteRuntime(a) \/ Reload(a) \/ SpawnCore(a)
  BY <1>2, <1>3, <1>4, <1>6
     DEF Validate, Apply, StartCore, WriteRuntime, Reload, SpawnCore, others, locking
<1>7. CASE WriteFile(a) \/ RemoveOrRestoreFile(a) \/ TruncateCatalog(a) \/ FillCatalog(a)
  BY <1>2, <1>3, <1>4, <1>7
     DEF WriteFile, RemoveOrRestoreFile, TruncateCatalog, FillCatalog, locking
<1> QED BY <1>5, <1>6, <1>7 DEF Working, Step

\* Whoever writes disturbs the others that hold a lock; so what they were sure of
\* still holds, or they are no longer undisturbed.
LEMMA Frame ==
    ASSUME ProfileInv, Tracked, NEW a \in Actors, Working(a),
           Alone(a) => Track(pc'[a], work'[a], base[a], catalog', file', runtime', core')
    PROVE  Tracked'
<1>1. /\ lock' = lock /\ base' = base
      /\ \A b \in Actors \ {a} : pc'[b] = pc[b] /\ work'[b] = work[b]
      /\ Touch(a) \/ UNCHANGED <<catalog, file, runtime, core, dirty>>
  BY OnlyMine
<1> SUFFICES ASSUME NEW b \in Actors, Alone(b)'
             PROVE  Track(pc'[b], work'[b], base'[b], catalog', file', runtime', core')
  BY DEF Tracked, Track, Taken, Forward, Backward, Ran, Still, Made, ReadOf, Snapped, Applied,
         Possible, FileThen
<1>2. Holds(b) /\ b \notin dirty'
  BY <1>1 DEF Alone, Holds
<1>3. b \notin dirty
  BY <1>1, <1>2 DEF Touch
<1>4. CASE b = a
  BY <1>1, <1>2, <1>3, <1>4 DEF Alone
<1>5. CASE b # a
  <2>1. UNCHANGED <<catalog, file, runtime, core>>
    BY <1>1, <1>2, <1>5 DEF Touch
  <2>2. Track(pc[b], work[b], base[b], catalog, file, runtime, core)
    BY <1>2, <1>3 DEF Tracked, Alone
  <2> QED BY <1>1, <1>5, <2>1, <2>2
<1> QED BY <1>4, <1>5
\* What a step of a has to show.
Follows(a) == Track(pc'[a], work'[a], base[a], catalog', file', runtime', core')

-----------------------------------------------------------------------------
(* The ways an actor goes on.                                               *)

LEMMA Goes ==
    ASSUME ProfileInv, NEW a \in Actors
    PROVE  /\ \A l : Goto(a, l) => pc'[a] = l
           /\ \A w : Keep(a, w) => work'[a] = w
  BY DEF ProfileInv, TypeOK, Goto, Keep

\* The steps forward touch no profile file outside the snapshot.
LEMMA SnapshotCovers ==
    ASSUME NEW l, NEW w, NEW b \in Bases, NEW c, NEW f, Forward(l, w, b, c, f),
           w.op.kind \in Locked, w.op.uid \in Uids
    PROVE  \A u \in Uids \ Snapped(w) : f[u] = b.file[u]
<1>1. b.file \in [Uids -> Contents]
  BY DEF Bases
<1>2. w.op.kind \in Writing => w.op.uid \in Snapped(w)
  BY DEF Snapped, SnapshotUids, Writing
<1>3. \A u \in Uids \ Snapped(w) : FileNow(w.op, b.file)[u] = b.file[u]
  BY <1>1, <1>2 DEF FileNow
<1>4. \A u \in Uids \ Snapped(w), d \in SUBSET Snapped(w) : Without(b.file, d)[u] = b.file[u]
  BY <1>1 DEF Without
<1>5. \A u \in Uids \ Snapped(w) : FileThen(w, b.file)[u] = b.file[u]
  BY <1>3, <1>4 DEF FileThen
<1>6. l = "files" => f = Without(b.file, Snapped(w) \ w.todo)
  BY DEF Forward
<1>7. Snapped(w) \ w.todo \in SUBSET Snapped(w)
  OBVIOUS
<1> QED BY <1>3, <1>4, <1>5, <1>6, <1>7
        DEF Forward, Before, Saving, Activating, Ending

LEMMA Covered ==
    ASSUME ProfileInv, Tracked, NEW a \in Actors, Alone(a), ~work[a].rb
    PROVE  \A u \in Uids \ Snapped(work[a]) : file[u] = base[a].file[u]
<1>1. /\ work[a].op.kind \in Locked /\ work[a].op.uid \in Uids /\ base[a] \in Bases
      /\ Track(pc[a], work[a], base[a], catalog, file, runtime, core)
  BY Here
<1>2. Forward(pc[a], work[a], base[a], catalog, file)
  BY <1>1 DEF Track
<1>3. \A l, w, c, f : \A b \in Bases :
          Forward(l, w, b, c, f) /\ w.op.kind \in Locked /\ w.op.uid \in Uids =>
              \A u \in Uids \ Snapped(w) : f[u] = b.file[u]
  BY SnapshotCovers
<1> QED BY <1>1, <1>2, <1>3

\* Until it commits, a transaction either has left the configuration alone or is
\* one that applies.
LEMMA StillOrApplied ==
    ASSUME NEW l, NEW w, NEW b, NEW c, NEW f, NEW r, NEW k, Ran(l, w, b, c, f, r, k),
           l \in Before \cup Saving \cup Activating \cup {"files", "refresh"} \cup Applying
    PROVE  Still(b, r, k) \/ Applied(w)
  BY DEF Ran

\* An error forward begins the rollback, an error of the rollback ends it.
LEMMA FailTracks ==
    ASSUME ProfileInv, NEW a \in Actors, Fail(a), work[a] \in Works,
           work[a].op.kind \in Locked, ~work[a].stray,
           NEW b, NEW c, NEW f, NEW r, NEW k,
           Taken(pc[a], work[a], b), pc[a] \notin {"capture", "snapshot", "failed"},
           ~work[a].rb => /\ \A u \in Uids \ Snapped(work[a]) : f[u] = b.file[u]
                          /\ Still(b, r, k) \/ Applied(work[a]),
           work[a].rb /\ IoFaults # "always" => c = b.catalog /\ f = b.file
    PROVE  Track(pc'[a], work'[a], b, c, f, r, k)
<1>1. CASE work[a].rb
  <2>1. pc'[a] = "rollbackFailed" /\ work'[a] = work[a]
    BY <1>1, Goes DEF Fail, Kind, Stray, RolledBack
  <2>2. Taken("rollbackFailed", work[a], b)
    BY DEF Taken
  <2>3. Backward("rollbackFailed", work[a], b, c, f)
    BY <1>1 DEF Backward, Restoring, Restored
  <2>4. Ran("rollbackFailed", work[a], b, c, f, r, k)
    BY DEF Ran, Before, Saving, Activating, Applying, Starting
  <2> QED BY <1>1, <2>1, <2>2, <2>3, <2>4 DEF Track
<1>2. CASE ~work[a].rb
  <2> DEFINE w == [work[a] EXCEPT !.rb = TRUE, !.mem = work[a].bytes, !.todo = Snapped(work[a])]
  <2>1. pc'[a] = "trunc" /\ work'[a] = w
    BY <1>2, Goes DEF Fail, Kind, Stray, RolledBack, Snapped
  <2>2. /\ w.op = work[a].op /\ w.before = work[a].before /\ w.bytes = work[a].bytes
        /\ w.files = work[a].files /\ w.rb = TRUE /\ w.mem = work[a].bytes
        /\ w.todo = Snapped(work[a])
    BY DEF Works
  <2> HIDE DEF w
  <2>3. Snapped(w) = Snapped(work[a]) /\ (Applied(w) <=> Applied(work[a]))
    BY <2>2 DEF Snapped, Applied
  <2>4. work[a].bytes = b.catalog /\ Taken("trunc", w, b)
    BY <2>2, <2>3 DEF Taken
  <2>5. Backward("trunc", w, b, c, f)
    BY <1>2, <2>2, <2>3, <2>4 DEF Backward, Restoring, Restored
  <2>6. Ran("trunc", w, b, c, f, r, k)
    BY <1>2, <2>2, <2>3 DEF Ran, Before, Saving, Activating, Applying, Starting
  <2> QED BY <2>1, <2>2, <2>4, <2>5, <2>6 DEF Track
<1> QED BY <1>1, <1>2

\* An error that leaves catalog and files as they were.
LEMMA FailsHere ==
    ASSUME ProfileInv, Tracked, NEW a \in Actors, Alone(a), Fail(a),
           UNCHANGED <<catalog, file>>, UNCHANGED <<runtime, core>> \/ pc[a] \in Applying,
           pc[a] \notin {"capture", "snapshot", "failed", "committed"},
           work[a].rb /\ IoFaults # "always" => pc[a] \in Restored
    PROVE  Follows(a)
<1>1. /\ work[a] \in Works /\ work[a].op.kind \in Locked /\ ~work[a].stray
      /\ Track(pc[a], work[a], base[a], catalog, file, runtime, core)
  BY Here
<1>2. Taken(pc[a], work[a], base[a]) /\ Ran(pc[a], work[a], base[a], catalog, file, runtime, core)
  BY <1>1 DEF Track
<1>3. CASE ~work[a].rb
  <2>1. Forward(pc[a], work[a], base[a], catalog, file)
    BY <1>1, <1>3 DEF Track
  <2>2. \A u \in Uids \ Snapped(work[a]) : file[u] = base[a].file[u]
    BY <1>3, Covered
  <2>3. Still(base[a], runtime, core) \/ Applied(work[a])
    BY <1>2, <2>1, StillOrApplied DEF Forward, Ending
  <2>4. Still(base[a], runtime', core') \/ Applied(work[a])
    BY <1>2, <2>3 DEF Still, Ran
  <2> QED BY <1>1, <1>2, <1>3, <2>2, <2>4, FailTracks DEF Follows
<1>4. CASE work[a].rb
  <2>1. Backward(pc[a], work[a], base[a], catalog, file)
    BY <1>1, <1>4 DEF Track
  <2>2. IoFaults # "always" => catalog = base[a].catalog /\ file = base[a].file
    BY <1>4, <2>1 DEF Backward
  <2> QED BY <1>1, <1>2, <1>4, <2>2, FailTracks DEF Follows
<1> QED BY <1>3, <1>4

\* What the mutations make is a catalog that reads as itself.
LEMMA TargetType ==
    ASSUME NEW op \in Requests, op.kind \in Locked, op.uid \in Uids,
           op.kind \in Writing => op.ver \in Versions,
           NEW p \in Catalogs, NEW f, Possible(op, p, f)
    PROVE  Mutated(op, p) \cup Target(op, p) \subseteq Catalogs
<1>1. Mutated(op, p) \subseteq Catalogs
  <2> SUFFICES ASSUME NEW new \in Mutated(op, p) PROVE new \in Catalogs
    OBVIOUS
  <2>1. op.kind \in {"update", "select"} => Has(p, op.uid)
    BY DEF Possible, Locked
  <2>2. op.kind \in {"update", "import", "activate", "importLocal"} => op.ver \in Versions
    BY DEF Writing, Locked
  <2> QED BY <2>1, <2>2, MutatedType
<1>2. CASE op.kind = "activate"
  <2>1. AppendMetadata(p, op.uid, op.ver) \in Catalogs
    BY <1>2, AppendType DEF Writing
  <2>2. SwitchCurrent(AppendMetadata(p, op.uid, op.ver), op.uid) \in Catalogs
    BY <2>1 DEF SwitchCurrent, Catalogs
  <2> QED BY <1>1, <1>2, <2>2 DEF Target
<1> QED BY <1>1, <1>2 DEF Target

LEMMA ReadOfType ==
    ASSUME NEW c \in Catalogs \cup {Torn}
    PROVE  ReadOf(c) \in Catalogs
  BY RestFits DEF ReadOf, Fits, Rest, Works

LEMMA ReadsItself ==
    ASSUME NEW c \in Catalogs
    PROVE  ReadOf(c) = c /\ c # Torn
  BY TransactionAssumption DEF ReadOf

-----------------------------------------------------------------------------
(* The steps that only read.                                                *)

LEMMA ReadsOne == Reads \ {Torn} \subseteq {ReadOf(catalog)}
  BY DEF Reads, ReadOf

LEMMA CaptureTracks ==
    ASSUME ProfileInv, Tracked, NEW a \in Actors, Alone(a), Capture(a)
    PROVE  Follows(a)
<1>1. /\ pc[a] = "capture" /\ work[a] \in Works
      /\ Track("capture", work[a], base[a], catalog, file, runtime, core)
  BY Here DEF Capture
<1>2. /\ ~work[a].rb /\ catalog = base[a].catalog /\ file = base[a].file
      /\ Still(base[a], runtime, core)
  BY <1>1 DEF Track, Forward, Backward, Ran, Before, Restoring, Restored
<1>3. UNCHANGED <<catalog, file, runtime, core>>
  BY DEF Capture, others
<1>4. CASE Goto(a, "failed") /\ UNCHANGED work
  <2>1. pc'[a] = "failed" /\ work'[a] = work[a]
    BY <1>4, Goes
  <2> QED BY <1>2, <1>3, <2>1
          DEF Follows, Track, Taken, Forward, Ran, Before, Saving, Activating, Ending, Applying,
              Starting
<1>5. ASSUME NEW cat \in Reads \ {Torn}, Goto(a, "snapshot"),
             Keep(a, [work[a] EXCEPT !.before = cat])
      PROVE  Follows(a)
  <2>1. pc'[a] = "snapshot" /\ work'[a].before = cat /\ work'[a].rb = work[a].rb
    BY <1>1, <1>5, Goes DEF Works
  <2>2. cat = ReadOf(catalog)
    BY <1>5, ReadsOne
  <2> QED BY <1>2, <1>3, <2>1, <2>2
          DEF Follows, Track, Taken, Forward, Ran, Before, Saving, Activating, Ending, Applying,
              Starting
<1> QED BY <1>4, <1>5 DEF Capture

LEMMA CaptureFilesTracks ==
    ASSUME ProfileInv, Tracked, NEW a \in Actors, Alone(a), CaptureFiles(a)
    PROVE  Follows(a)
<1>1. /\ pc[a] = "snapshot" /\ work[a] \in Works
      /\ work[a].op.kind \in Locked /\ work[a].op.uid \in Uids
      /\ Track("snapshot", work[a], base[a], catalog, file, runtime, core)
  BY Here DEF CaptureFiles
<1>2. /\ ~work[a].rb /\ catalog = base[a].catalog /\ file = base[a].file
      /\ Still(base[a], runtime, core) /\ work[a].before = ReadOf(base[a].catalog)
  BY <1>1 DEF Track, Taken, Forward, Backward, Ran, Before, Restoring, Restored
<1>3. UNCHANGED <<catalog, file, runtime, core>>
  BY DEF CaptureFiles, others
<1>4. CASE Goto(a, "failed") /\ UNCHANGED work
  <2>1. pc'[a] = "failed" /\ work'[a] = work[a]
    BY <1>4, Goes
  <2> QED BY <1>2, <1>3, <2>1
          DEF Follows, Track, Taken, Forward, Ran, Before, Saving, Activating, Ending, Applying,
              Starting
<1>5. ASSUME Goto(a, "load"),
             Keep(a, [work[a] EXCEPT !.bytes = catalog,
                 !.files = [u \in Uids |-> IF u \in Snapped(work[a]) THEN file[u] ELSE NoFile]])
      PROVE  Follows(a)
  <2>1. /\ pc'[a] = "load" /\ work'[a].before = work[a].before /\ work'[a].op = work[a].op
        /\ work'[a].bytes = catalog /\ work'[a].rb = work[a].rb
        /\ work'[a].files = [u \in Uids |-> IF u \in Snapped(work[a]) THEN file[u] ELSE NoFile]
    BY <1>1, <1>5, Goes DEF Works
  <2>2. Snapped(work'[a]) = Snapped(work[a]) /\ Snapped(work[a]) \subseteq Uids
    BY <1>1, <2>1, SnapshotType DEF Snapped
  <2>3. Taken("load", work'[a], base[a])
    BY <1>2, <2>1, <2>2 DEF Taken
  <2> QED BY <1>2, <1>3, <2>1, <2>3
          DEF Follows, Track, Forward, Ran, Before, Saving, Activating, Ending, Applying,
              Starting
<1> QED BY <1>4, <1>5 DEF CaptureFiles, Snapped

LEMMA LoadTracks ==
    ASSUME ProfileInv, Tracked, NEW a \in Actors, Alone(a), LoadAndMutate(a)
    PROVE  Follows(a)
<1>1. /\ pc[a] = "load" /\ work[a] \in Works /\ work[a].op \in Requests
      /\ work[a].op.kind \in Locked /\ work[a].op.uid \in Uids
      /\ Track("load", work[a], base[a], catalog, file, runtime, core)
  BY Here DEF LoadAndMutate
<1>2. /\ ~work[a].rb /\ catalog = base[a].catalog /\ file = base[a].file
      /\ Still(base[a], runtime, core) /\ work[a].before = ReadOf(base[a].catalog)
      /\ Taken("load", work[a], base[a])
  BY <1>1 DEF Track, Taken, Forward, Backward, Ran, Before, Restoring, Restored
<1>3. UNCHANGED <<catalog, file, runtime, core>>
  BY DEF LoadAndMutate, others
<1>4. CASE Fail(a)
  BY <1>1, <1>2, <1>3, <1>4, FailsHere
<1>5. ASSUME NEW cat \in Reads \ {Torn}, ~MutationFails(a, cat),
             Goto(a, IF Kind(a) \in Importing \cup {"update"} THEN "file" ELSE "trunc"),
             NEW new \in Mutated(work[a].op, cat),
             Keep(a, [work[a] EXCEPT
                 !.mem = new,
                 !.todo = IF Kind(a) = "delete" THEN DeletedUids(cat, Uid(a)) ELSE {}])
      PROVE  Follows(a)
  <2> DEFINE op == work[a].op
  <2>1. cat = ReadOf(catalog)
    BY <1>5, ReadsOne
  <2>2. /\ pc'[a] = IF op.kind \in Writing THEN "file" ELSE "trunc"
        /\ work'[a].op = op /\ work'[a].before = work[a].before /\ work'[a].mem = new
        /\ work'[a].bytes = work[a].bytes /\ work'[a].files = work[a].files
        /\ work'[a].rb = work[a].rb
        /\ op.kind = "delete" => work'[a].todo = DeletedUids(cat, op.uid)
    BY <1>1, <1>5, Goes DEF Works, Importing, Writing, Kind, Uid, Locked
  <2> HIDE DEF op
  <2>3. Snapped(work'[a]) = Snapped(work[a])
        /\ (op.kind = "delete" => Snapped(work[a]) = DeletedUids(cat, op.uid))
    BY <1>2, <2>1, <2>2 DEF Snapped, SnapshotUids, op
  <2>4. Possible(op, cat, file)
    BY <1>2, <1>5, <2>1 DEF Possible, MutationFails, Importing, Kind, Uid, op
  <2>5. Taken(pc'[a], work'[a], base[a])
    BY <1>2, <2>2, <2>3 DEF Taken
  <2>6. op.kind \notin Writing => FileNow(op, file) = file
    BY DEF FileNow
  <2>7. Forward(pc'[a], work'[a], base[a], catalog, file)
    BY <1>2, <1>5, <2>1, <2>2, <2>3, <2>4, <2>6
       DEF Forward, Before, Saving, Activating, Ending, Applying, Starting, op
  <2>8. Ran(pc'[a], work'[a], base[a], catalog, file, runtime, core)
    BY <1>2, <2>2 DEF Ran, Applying, Starting
  <2> QED BY <1>2, <1>3, <2>2, <2>5, <2>7, <2>8 DEF Follows, Track
<1> QED BY <1>4, <1>5 DEF LoadAndMutate
-----------------------------------------------------------------------------
(* The steps that write profile files and the catalog.                      *)

LEMMA WriteFileTracks ==
    ASSUME ProfileInv, Tracked, NEW a \in Actors, Alone(a), WriteFile(a)
    PROVE  Follows(a)
<1>1. /\ pc[a] = "file" /\ work[a] \in Works /\ work[a].op.kind \in Locked
      /\ ~work[a].stray /\ work[a].op.uid \in Uids /\ file \in [Uids -> Contents]
      /\ Track("file", work[a], base[a], catalog, file, runtime, core)
  BY Here DEF WriteFile, Data
<1>2. /\ ~work[a].rb /\ catalog = base[a].catalog /\ file = base[a].file
      /\ Still(base[a], runtime, core) /\ Taken("file", work[a], base[a])
      /\ Forward("file", work[a], base[a], catalog, file) /\ work[a].op.kind \in Writing
  BY <1>1 DEF Track, Forward, Backward, Ran, Before, Restoring, Restored
<1>3. UNCHANGED <<catalog, runtime, core>>
  BY DEF WriteFile
<1>4. CASE file' = [file EXCEPT ![Uid(a)] = work[a].op.ver] /\ After(a, "trunc")
  <2>1. pc'[a] = "trunc" /\ work'[a] = work[a]
    BY <1>1, <1>4, Goes DEF After, Stray
  <2>2. file' = FileNow(work[a].op, base[a].file)
    BY <1>2, <1>4 DEF FileNow, Uid
  <2>3. Forward("trunc", work[a], base[a], catalog, file')
    BY <1>2, <2>2 DEF Forward, Before, Saving, Activating, Ending, Applying, Starting
  <2>4. Ran("trunc", work[a], base[a], catalog, file', runtime, core)
    BY <1>2 DEF Ran, Applying, Starting
  <2> QED BY <1>2, <1>3, <2>1, <2>3, <2>4 DEF Follows, Track, Taken
<1>5. CASE file' \in {file, [file EXCEPT ![Uid(a)] = Partial]} /\ Fail(a)
  <2>1. work[a].op.uid \in Snapped(work[a])
    BY <1>2 DEF Snapped, SnapshotUids, Writing
  <2>2. \A u \in Uids \ Snapped(work[a]) : file'[u] = base[a].file[u]
    BY <1>1, <1>2, <1>5, <2>1 DEF Uid
  <2> QED BY <1>1, <1>2, <1>3, <1>5, <2>2, FailTracks DEF Follows
<1> QED BY <1>4, <1>5 DEF WriteFile

LEMMA TruncateTracks ==
    ASSUME ProfileInv, Tracked, NEW a \in Actors, Alone(a), TruncateCatalog(a)
    PROVE  Follows(a)
<1>1. Track(pc[a], work[a], base[a], catalog, file, runtime, core)
  BY Here
<1>2. UNCHANGED <<file, runtime, core>> /\ pc[a] \in {"trunc", "trunc2"}
  BY DEF TruncateCatalog
<1>3. CASE IoMayFail(a) /\ Fail(a) /\ UNCHANGED catalog
  BY <1>2, <1>3, FailsHere DEF IoMayFail, RolledBack
<1>4. CASE /\ catalog' = Torn
           /\ Goto(a, IF pc[a] = "trunc" THEN "fill" ELSE "fill2") /\ UNCHANGED work
  <2>1. pc'[a] = (IF pc[a] = "trunc" THEN "fill" ELSE "fill2") /\ work'[a] = work[a]
    BY <1>4, Goes
  <2>2. Taken(pc'[a], work[a], base[a])
    BY <1>1, <1>2, <2>1 DEF Track, Taken
  <2>3. Ran(pc'[a], work[a], base[a], catalog', file, runtime, core)
    BY <1>1, <1>2, <2>1 DEF Track, Ran, Before, Saving, Activating, Applying, Starting
  <2>4. ~work[a].rb => Forward(pc'[a], work[a], base[a], catalog', file)
    BY <1>1, <1>2, <1>4, <2>1
       DEF Track, Forward, Before, Saving, Activating, Ending, Applying, Starting
  <2>5. work[a].rb => Backward(pc'[a], work[a], base[a], catalog', file)
    BY <1>1, <1>2, <1>4, <2>1 DEF Track, Backward, Restoring, Restored
  <2> QED BY <1>2, <2>1, <2>2, <2>3, <2>4, <2>5 DEF Follows, Track
<1> QED BY <1>3, <1>4 DEF TruncateCatalog

LEMMA FillTracks ==
    ASSUME ProfileInv, Tracked, NEW a \in Actors, Alone(a), FillCatalog(a)
    PROVE  Follows(a)
<1>1. /\ Track(pc[a], work[a], base[a], catalog, file, runtime, core)
      /\ ~work[a].stray /\ work[a].op.kind \in Locked /\ base[a] \in Bases
  BY Here
<1>2. UNCHANGED <<file, runtime, core>> /\ pc[a] \in {"fill", "fill2"}
  BY DEF FillCatalog
<1>3. CASE IoMayFail(a) /\ Fail(a) /\ UNCHANGED catalog
  BY <1>2, <1>3, FailsHere DEF IoMayFail, RolledBack
<1>4. CASE /\ catalog' \in {work[a].mem} \cup (IF catalog = Torn THEN {} ELSE {Torn})
           /\ After(a, AfterFill(a))
  <2>1. pc'[a] = AfterFill(a) /\ work'[a] = work[a]
    BY <1>1, <1>4, Goes DEF After, Stray
  <2>2. catalog = Torn
    BY <1>1, <1>2 DEF Track, Forward, Backward, Restoring, Restored
  <2>3. catalog' = work[a].mem
    BY <1>4, <2>2
  <2>4. AfterFill(a) \in {"switch", "files", "refresh"}
    BY DEF AfterFill
  <2>5. Taken(pc'[a], work[a], base[a])
    BY <1>1, <1>2, <2>1, <2>4 DEF Track, Taken
  <2>6. Ran(pc'[a], work[a], base[a], catalog', file, runtime, core)
    BY <1>1, <1>2, <2>1, <2>4 DEF Track, Ran, Before, Saving, Activating, Applying, Starting
  <2>7. CASE work[a].rb
    <3>1. pc'[a] = "files" /\ pc[a] = "fill"
      BY <1>1, <1>2, <2>1, <2>7
         DEF AfterFill, RolledBack, Track, Backward, Restoring, Restored
    <3>2. Backward("files", work[a], base[a], catalog', file)
      BY <1>1, <2>3, <2>7, <3>1 DEF Track, Backward, Restoring, Restored
    <3> QED BY <1>2, <2>1, <2>5, <2>6, <2>7, <3>1, <3>2 DEF Follows, Track
  <2>8. CASE ~work[a].rb
    <3>1. Forward(pc[a], work[a], base[a], catalog, file)
      BY <1>1, <2>8 DEF Track
    <3>2. base[a].file = Without(base[a].file, {})
      BY <1>1 DEF Bases, Without
    <3>3. Snapped(work[a]) \ Snapped(work[a]) = {}
      OBVIOUS
    <3>4. CASE pc[a] = "fill" /\ Kind(a) = "activate"
      <4>1. pc'[a] = "switch"
        BY <2>1, <2>8, <3>4 DEF AfterFill, RolledBack
      <4>2. Forward("switch", work[a], base[a], catalog', file)
        BY <2>3, <3>1, <3>4
           DEF Forward, Before, Saving, Activating, Ending, Applying, Starting, Kind
      <4> QED BY <1>2, <2>1, <2>5, <2>6, <2>8, <4>1, <4>2 DEF Follows, Track
    <3>5. CASE pc[a] = "fill" /\ Kind(a) = "delete"
      <4>1. pc'[a] = "files"
        BY <2>1, <2>8, <3>5 DEF AfterFill, RolledBack
      <4>2. file = Without(base[a].file, Snapped(work[a]) \ work[a].todo)
        BY <3>1, <3>2, <3>3, <3>5 DEF Forward, Saving, FileNow, Writing, Kind
      <4>3. Forward("files", work[a], base[a], catalog', file)
        BY <2>3, <3>1, <3>5, <4>2
           DEF Forward, Before, Saving, Activating, Ending, Applying, Starting, Kind
      <4> QED BY <1>2, <2>1, <2>5, <2>6, <2>8, <4>1, <4>3 DEF Follows, Track
    <3>6. CASE pc[a] = "fill2" \/ Kind(a) \notin {"activate", "delete"}
      <4>1. Kind(a) # "delete"
        BY <3>1, <3>6 DEF Forward, Activating, Kind
      <4>2. pc'[a] = "refresh"
        BY <1>2, <2>1, <2>8, <3>6, <4>1 DEF AfterFill, RolledBack
      <4>3. file = FileThen(work[a], base[a].file)
        BY <1>2, <3>1, <4>1 DEF Forward, Activating, FileThen, Kind
      <4>4. work[a].mem \in Target(work[a].op, ReadOf(base[a].catalog))
        BY <1>2, <3>1, <3>6 DEF Forward, Saving, Activating, Target, Kind
      <4>5. Forward("refresh", work[a], base[a], catalog', file)
        BY <1>2, <2>3, <3>1, <4>3, <4>4
           DEF Forward, Before, Saving, Activating, Ending, Applying, Starting
      <4> QED BY <1>2, <2>1, <2>5, <2>6, <2>8, <4>2, <4>5 DEF Follows, Track
    <3> QED BY <1>2, <3>4, <3>5, <3>6
  <2> QED BY <2>7, <2>8
<1> QED BY <1>1, <1>3, <1>4 DEF FillCatalog, Kind

LEMMA SwitchImportedTracks ==
    ASSUME ProfileInv, Tracked, NEW a \in Actors, Alone(a), SwitchImported(a)
    PROVE  Follows(a)
<1>1. /\ pc[a] = "switch" /\ work[a] \in Works /\ work[a].op \in Requests
      /\ work[a].op.kind \in Locked /\ work[a].op.uid \in Uids
      /\ work[a].op.kind \in Writing => work[a].op.ver \in Versions
      /\ base[a].catalog \in Catalogs \cup {Torn}
      /\ Track("switch", work[a], base[a], catalog, file, runtime, core)
  BY Here DEF SwitchImported, Bases
<1>2. UNCHANGED <<catalog, file, runtime, core>>
  BY DEF SwitchImported, others
<1>3. CASE Fail(a)
  <2>1. ~work[a].rb
    BY <1>1 DEF Track, Backward, Restoring, Restored
  <2> QED BY <1>1, <1>2, <1>3, <2>1, FailsHere
<1>4. ASSUME NEW cat \in Reads \ {Torn}, Goto(a, "trunc2"),
             Keep(a, [work[a] EXCEPT !.mem = SwitchCurrent(cat, Uid(a))])
      PROVE  Follows(a)
  <2> DEFINE op == work[a].op
             p == ReadOf(base[a].catalog)
  <2>1. /\ ~work[a].rb /\ Taken("switch", work[a], base[a])
        /\ Forward("switch", work[a], base[a], catalog, file)
        /\ Still(base[a], runtime, core)
    BY <1>1 DEF Track, Backward, Ran, Activating, Restoring, Restored
  <2>2. Possible(op, p, base[a].file) /\ op.kind = "activate" /\ catalog \in Mutated(op, p)
    BY <2>1 DEF Forward, Activating
  <2>3. catalog \in Catalogs
    BY <1>1, <2>2, ReadOfType, TargetType
  <2>4. cat = catalog
    BY <1>4, <2>3, ReadsOne, ReadsItself
  <2>5. catalog = AppendMetadata(p, op.uid, op.ver)
    BY <2>2 DEF Mutated
  <2>6. /\ pc'[a] = "trunc2" /\ work'[a].mem = SwitchCurrent(catalog, op.uid)
        /\ work'[a].op = op /\ work'[a].before = work[a].before /\ work'[a].rb = work[a].rb
        /\ work'[a].bytes = work[a].bytes /\ work'[a].files = work[a].files
    BY <1>1, <1>4, <2>4, Goes DEF Works, Uid
  <2>7. work'[a].mem \in Target(op, p)
    BY <2>2, <2>5, <2>6 DEF Target
  <2> HIDE DEF op, p
  <2>8. Snapped(work'[a]) = Snapped(work[a])
    BY <2>6 DEF Snapped, op
  <2>9. Taken("trunc2", work'[a], base[a])
    BY <2>1, <2>6, <2>8 DEF Taken
  <2>10. Forward("trunc2", work'[a], base[a], catalog, file)
    BY <2>1, <2>2, <2>6, <2>7
       DEF Forward, Before, Saving, Activating, Ending, Applying, Starting, op, p
  <2>11. Ran("trunc2", work'[a], base[a], catalog, file, runtime, core)
    BY <2>1 DEF Ran, Applying, Starting
  <2> QED BY <1>2, <2>1, <2>6, <2>9, <2>10, <2>11 DEF Follows, Track
<1> QED BY <1>3, <1>4 DEF SwitchImported
LEMMA FilesTracks ==
    ASSUME ProfileInv, Tracked, NEW a \in Actors, Alone(a), RemoveOrRestoreFile(a)
    PROVE  Follows(a)
<1>1. /\ work[a] \in Works /\ work[a].op.kind \in Locked /\ ~work[a].stray
      /\ base[a] \in Bases /\ file \in [Uids -> Contents]
      /\ work[a].todo \subseteq Uids
      /\ Track("files", work[a], base[a], catalog, file, runtime, core)
  BY Here DEF RemoveOrRestoreFile, Data, Works
<1>2. UNCHANGED <<catalog, runtime, core>> /\ pc[a] = "files"
  BY DEF RemoveOrRestoreFile
<1>3. base[a].file \in [Uids -> Contents]
  BY <1>1 DEF Bases
<1>4. CASE work[a].todo = {} /\ Goto(a, "refresh") /\ UNCHANGED <<work, file>>
  <2>1. pc'[a] = "refresh" /\ work'[a] = work[a]
    BY <1>4, Goes
  <2>2. Taken("refresh", work[a], base[a])
    BY <1>1 DEF Track, Taken
  <2>3. Ran("refresh", work[a], base[a], catalog, file, runtime, core)
    BY <1>1 DEF Track, Ran, Before, Saving, Activating, Applying, Starting
  <2>4. CASE work[a].rb
    <3>1. Backward("files", work[a], base[a], catalog, file)
      BY <1>1, <2>4 DEF Track
    <3>2. \A u \in Uids : file[u] = base[a].file[u]
      BY <1>4, <3>1 DEF Backward, Restoring
    <3>3. file = base[a].file
      BY <1>1, <1>3, <3>2
    <3>4. Backward("refresh", work[a], base[a], catalog, file)
      BY <3>1, <3>3 DEF Backward, Restoring, Restored
    <3> QED BY <1>2, <1>4, <2>1, <2>2, <2>3, <2>4, <3>4 DEF Follows, Track
  <2>5. CASE ~work[a].rb
    <3>1. Forward("files", work[a], base[a], catalog, file)
      BY <1>1, <2>5 DEF Track
    <3>2. Snapped(work[a]) \ work[a].todo = Snapped(work[a])
      BY <1>4
    <3>3. file = FileThen(work[a], base[a].file) /\ work[a].op.kind = "delete"
      BY <3>1, <3>2 DEF Forward, FileThen
    <3>4. Forward("refresh", work[a], base[a], catalog, file)
      BY <3>1, <3>3
         DEF Forward, Before, Saving, Activating, Ending, Applying, Starting, Target
    <3> QED BY <1>2, <1>4, <2>1, <2>2, <2>3, <2>5, <3>4 DEF Follows, Track
  <2> QED BY <2>4, <2>5
<1>5. ASSUME NEW u \in work[a].todo,
             file' = [file EXCEPT ![u] = IF RolledBack(a) THEN work[a].files[u] ELSE NoFile],
             Keep(a, [work[a] EXCEPT !.todo = @ \ {u}]), UNCHANGED pc
      PROVE  Follows(a)
  <2>1. /\ pc'[a] = "files" /\ work'[a].todo = work[a].todo \ {u}
        /\ work'[a].op = work[a].op /\ work'[a].before = work[a].before
        /\ work'[a].rb = work[a].rb /\ work'[a].mem = work[a].mem
        /\ work'[a].bytes = work[a].bytes /\ work'[a].files = work[a].files
    BY <1>1, <1>2, <1>5, Goes DEF Works
  <2>2. Snapped(work'[a]) = Snapped(work[a]) /\ (Applied(work'[a]) <=> Applied(work[a]))
    BY <2>1 DEF Snapped, Applied
  <2>3. Taken("files", work'[a], base[a])
    BY <1>1, <2>1, <2>2 DEF Track, Taken
  <2>4. Ran("files", work'[a], base[a], catalog, file', runtime, core)
    BY <1>1, <2>1, <2>2 DEF Track, Ran, Before, Saving, Activating, Applying, Starting
  <2>5. CASE work[a].rb
    <3>1. Backward("files", work[a], base[a], catalog, file) /\ Taken("files", work[a], base[a])
      BY <1>1, <2>5 DEF Track
    <3>2. work[a].todo \subseteq Snapped(work[a]) /\ catalog = base[a].catalog
          /\ \A d \in Uids \ work[a].todo : file[d] = base[a].file[d]
      BY <3>1 DEF Backward, Restoring
    <3>3. work[a].files[u] = base[a].file[u]
      BY <3>1, <3>2 DEF Taken
    <3>4. \A d \in Uids \ (work[a].todo \ {u}) : file'[d] = base[a].file[d]
      BY <1>1, <1>5, <2>5, <3>2, <3>3 DEF RolledBack
    <3>5. Backward("files", work'[a], base[a], catalog, file')
      BY <2>1, <2>2, <3>2, <3>4 DEF Backward, Restoring, Restored
    <3> QED BY <1>2, <2>1, <2>3, <2>4, <2>5, <3>5 DEF Follows, Track
  <2>6. CASE ~work[a].rb
    <3>1. Forward("files", work[a], base[a], catalog, file)
      BY <1>1, <2>6 DEF Track
    <3>2. file = Without(base[a].file, Snapped(work[a]) \ work[a].todo)
          /\ work[a].todo \subseteq Snapped(work[a])
      BY <3>1 DEF Forward
    <3>3. file' = Without(base[a].file, Snapped(work[a]) \ (work[a].todo \ {u}))
      BY <1>1, <1>5, <2>6, <3>2 DEF Without, RolledBack
    <3>4. Forward("files", work'[a], base[a], catalog, file')
      BY <2>1, <2>2, <3>1, <3>2, <3>3
         DEF Forward, Before, Saving, Activating, Ending, Applying, Starting
    <3> QED BY <1>2, <2>1, <2>3, <2>4, <2>6, <3>4 DEF Follows, Track
  <2> QED BY <2>5, <2>6
<1>6. ASSUME NEW u \in work[a].todo, IoMayFail(a), Fail(a),
             file' \in {file} \cup (IF RolledBack(a) THEN {[file EXCEPT ![u] = Partial]} ELSE {})
      PROVE  Follows(a)
  <2>1. CASE work[a].rb
    <3>1. IoFaults = "always" /\ Taken("files", work[a], base[a])
      BY <1>1, <1>6, <2>1 DEF IoMayFail, RolledBack, Track
    <3> QED BY <1>1, <1>2, <1>6, <2>1, <3>1, FailTracks DEF Follows
  <2>2. CASE ~work[a].rb
    <3>1. file' = file
      BY <1>6, <2>2 DEF RolledBack
    <3> QED BY <1>2, <1>6, <2>2, <3>1, FailsHere
  <2> QED BY <2>1, <2>2
<1> QED BY <1>1, <1>4, <1>5, <1>6 DEF RemoveOrRestoreFile, Stray
-----------------------------------------------------------------------------
(* Applying the configuration.                                              *)

\* The policy decides the same before and after the mutation, and again in a
\* rollback: what it looks at, the current uid, an update does not change.
LEMMA PolicyAgrees ==
    ASSUME NEW op, NEW p, NEW c, c = p \/ (c \in Target(op, p) /\ op.kind \in Locked)
    PROVE  Applies(op, p, c) <=> Applies(op, p, p)
<1>1. CASE op.kind = "update" /\ c \in Target(op, p)
  <2>1. c = PatchUpdated(p, op.uid, op.ver)
    BY <1>1 DEF Target, Mutated
  <2>2. c.current = p.current
    BY <2>1 DEF PatchUpdated
  <2> QED BY <2>2 DEF Applies
<1> QED BY <1>1 DEF Applies

\* The outcome of a transaction whose configuration is settled.
LEMMA EndTracks ==
    ASSUME ProfileInv, Tracked, NEW a \in Actors, Alone(a),
           pc[a] \in {"refresh", "apply", "reload", "start", "spawn"},
           pc'[a] = End(a), work'[a] = work[a], UNCHANGED <<catalog, file>>,
           IF Applied(work[a])
           THEN runtime' = Made(catalog, file) /\ (core'.running => core'.conf = runtime')
           ELSE Still(base[a], runtime', core')
    PROVE  Follows(a)
<1>1. /\ work[a].op.kind \in Locked
      /\ Track(pc[a], work[a], base[a], catalog, file, runtime, core)
  BY Here
<1>2. pc'[a] = IF work[a].rb THEN "rolledBack" ELSE "committed"
  BY <1>1 DEF End, Kind, RolledBack
<1>3. Taken(pc'[a], work[a], base[a])
  BY <1>1, <1>2 DEF Track, Taken
<1>4. Ran(pc'[a], work[a], base[a], catalog, file, runtime', core')
  BY <1>2 DEF Ran, Before, Saving, Activating, Applying, Starting
<1>5. ~work[a].rb => Forward("committed", work[a], base[a], catalog, file)
  BY <1>1 DEF Track, Forward, Before, Saving, Activating, Ending, Applying, Starting
<1>6. work[a].rb => Backward("rolledBack", work[a], base[a], catalog, file)
  BY <1>1 DEF Track, Backward, Restoring, Restored
<1> QED BY <1>2, <1>3, <1>4, <1>5, <1>6 DEF Follows, Track

\* On the way through the configuration the files stay what they are.
LEMMA ApplyTracks ==
    ASSUME ProfileInv, Tracked, NEW a \in Actors, Alone(a),
           pc[a] \in {"refresh"} \cup Applying, pc'[a] \in Applying,
           work[a].rb => pc'[a] \in Restored,
           work'[a].op = work[a].op, work'[a].before = work[a].before,
           work'[a].rb = work[a].rb, work'[a].bytes = work[a].bytes,
           work'[a].files = work[a].files, UNCHANGED <<catalog, file>>,
           Ran(pc'[a], work'[a], base[a], catalog', file', runtime', core')
    PROVE  Follows(a)
<1>1. Track(pc[a], work[a], base[a], catalog, file, runtime, core)
  BY Here
<1>2. Snapped(work'[a]) = Snapped(work[a])
  BY DEF Snapped
<1>3. FileThen(work'[a], base[a].file) = FileThen(work[a], base[a].file)
  BY <1>2 DEF FileThen
<1>4. Taken(pc'[a], work'[a], base[a])
  BY <1>1, <1>2 DEF Track, Taken, Applying, Starting
<1>5. ~work[a].rb => Forward(pc'[a], work'[a], base[a], catalog, file)
  <2> SUFFICES ASSUME ~work[a].rb PROVE Forward(pc'[a], work'[a], base[a], catalog, file)
    OBVIOUS
  <2>1. Forward(pc[a], work[a], base[a], catalog, file)
    BY <1>1 DEF Track
  <2>2. /\ Possible(work[a].op, ReadOf(base[a].catalog), base[a].file)
        /\ catalog \in Target(work[a].op, ReadOf(base[a].catalog))
        /\ file = FileThen(work[a], base[a].file)
    BY <2>1 DEF Forward, Ending
  <2> QED BY <1>3, <2>2 DEF Forward, Before, Saving, Activating, Ending, Applying, Starting
<1>6. work[a].rb => Backward(pc'[a], work'[a], base[a], catalog, file)
  BY <1>1 DEF Track, Backward, Restoring, Restored, Applying, Starting
<1> QED BY <1>4, <1>5, <1>6 DEF Follows, Track

\* Where the rollback is, once the files are restored.
LEMMA RolledBackAt ==
    ASSUME ProfileInv, Tracked, NEW a \in Actors, Alone(a), work[a].rb,
           pc[a] \in {"refresh"} \cup Applying
    PROVE  pc[a] \in Restored \ Starting
<1>1. Track(pc[a], work[a], base[a], catalog, file, runtime, core)
  BY Here
<1> QED BY <1>1 DEF Track, Backward, Restoring, Restored, Applying, Starting

LEMMA RefreshTracks ==
    ASSUME ProfileInv, Tracked, NEW a \in Actors, Alone(a), Refresh(a)
    PROVE  Follows(a)
<1>1. /\ pc[a] = "refresh" /\ work[a] \in Works /\ work[a].op \in Requests
      /\ work[a].op.kind \in Locked /\ work[a].op.uid \in Uids
      /\ work[a].op.kind \in Writing => work[a].op.ver \in Versions
      /\ base[a].catalog \in Catalogs \cup {Torn}
      /\ Track("refresh", work[a], base[a], catalog, file, runtime, core)
  BY Here DEF Refresh, Bases
<1>2. UNCHANGED <<catalog, file, runtime, core>>
  BY DEF Refresh, others
<1>3. CASE Fail(a)
  BY <1>1, <1>2, <1>3, FailsHere DEF Restored
<1>4. ASSUME NEW cat \in Reads \ {Torn}, UNCHANGED work,
             Goto(a, IF Applies(work[a].op, work[a].before, cat) THEN "generate" ELSE End(a))
      PROVE  Follows(a)
  <2> DEFINE op == work[a].op
             p == ReadOf(base[a].catalog)
  <2>1. cat = ReadOf(catalog) /\ work[a].before = p
    BY <1>1, <1>4, ReadsOne DEF Track, Taken
  <2>2. cat = p \/ cat \in Target(op, p)
    <3>1. CASE work[a].rb
      BY <1>1, <2>1, <3>1 DEF Track, Backward, Restored, Restoring
    <3>2. CASE ~work[a].rb
      <4>1. Possible(op, p, base[a].file) /\ catalog \in Target(op, p)
        BY <1>1, <3>2 DEF Track, Forward, Ending
      <4>2. catalog \in Catalogs
        BY <1>1, <4>1, ReadOfType, TargetType
      <4> QED BY <2>1, <4>1, <4>2, ReadsItself
    <3> QED BY <3>1, <3>2
  <2>3. Applies(op, p, cat) <=> Applied(work[a])
    BY <1>1, <2>1, <2>2, PolicyAgrees DEF Applied
  <2>4. Still(base[a], runtime, core) \/ Applied(work[a])
    BY <1>1 DEF Track, Ran
  <2>5. CASE Applied(work[a])
    <3>1. pc'[a] = "generate"
      BY <1>4, <2>1, <2>3, <2>5, Goes
    <3>2. Ran("generate", work[a], base[a], catalog, file, runtime, core)
      BY <2>5 DEF Ran, Before, Saving, Activating, Applying, Starting
    <3>3. "generate" \in Applying /\ "generate" \in Restored
      BY DEF Applying, Restored
    <3> QED BY <1>1, <1>2, <1>4, <3>1, <3>2, <3>3, ApplyTracks
  <2>6. CASE ~Applied(work[a])
    <3>1. pc'[a] = End(a) /\ work'[a] = work[a]
      BY <1>4, <2>1, <2>3, <2>6, Goes
    <3>2. Still(base[a], runtime', core')
      BY <1>2, <2>4, <2>6
    <3> QED BY <1>1, <1>2, <2>6, <3>1, <3>2, EndTracks
  <2> QED BY <2>5, <2>6
<1> QED BY <1>3, <1>4 DEF Refresh

LEMMA GenerateTracks ==
    ASSUME ProfileInv, Tracked, NEW a \in Actors, Alone(a), Generate(a)
    PROVE  Follows(a)
<1>1. /\ work[a] \in Works /\ pc[a] \in {"generate", "startGenerate"}
      /\ Track(pc[a], work[a], base[a], catalog, file, runtime, core)
  BY Here DEF Generate
<1>2. /\ UNCHANGED <<catalog, file, runtime, core>> /\ pc[a] \in {"refresh"} \cup Applying
      /\ work[a].rb => pc[a] \in Restored \ Starting
  BY <1>1, RolledBackAt DEF Generate, others, Applying, Starting
<1>3. CASE Fail(a)
  BY <1>1, <1>2, <1>3, FailsHere
<1>4. ASSUME NEW cat \in Reads \ {Torn},
             Goto(a, IF pc[a] = "generate" THEN "write" ELSE "startWrite"),
             Keep(a, [work[a] EXCEPT !.rt = Generated(cat, file)])
      PROVE  Follows(a)
  <2>1. cat = ReadOf(catalog)
    BY <1>4, ReadsOne
  <2>2. /\ pc'[a] = (IF pc[a] = "generate" THEN "write" ELSE "startWrite")
        /\ work'[a].rt = Made(catalog, file)
        /\ work'[a].op = work[a].op /\ work'[a].before = work[a].before
        /\ work'[a].rb = work[a].rb /\ work'[a].bytes = work[a].bytes
        /\ work'[a].files = work[a].files
    BY <1>1, <1>4, <2>1, Goes DEF Works, Made
  <2>3. Applied(work[a]) /\ (Applied(work'[a]) <=> Applied(work[a]))
    BY <1>1, <2>2 DEF Track, Ran, Applying, Starting, Applied
  <2>4. Ran(pc'[a], work'[a], base[a], catalog, file, runtime, core)
    BY <1>1, <2>2, <2>3 DEF Track, Ran, Before, Saving, Activating, Applying, Starting
  <2>5. work[a].rb => pc[a] = "generate"
    BY <1>1, <1>2 DEF Starting
  <2>6. pc'[a] \in Applying /\ (work[a].rb => pc'[a] \in Restored)
    BY <2>2, <2>5 DEF Applying, Restored, Starting
  <2> QED BY <1>2, <2>2, <2>4, <2>6, ApplyTracks
<1> QED BY <1>3, <1>4 DEF Generate

LEMMA WriteRuntimeTracks ==
    ASSUME ProfileInv, Tracked, NEW a \in Actors, Alone(a), WriteRuntime(a)
    PROVE  Follows(a)
<1>1. /\ ~work[a].stray /\ pc[a] \in {"write", "startWrite"}
      /\ Track(pc[a], work[a], base[a], catalog, file, runtime, core)
  BY Here DEF WriteRuntime
<1>2. /\ UNCHANGED <<catalog, file, core>> /\ pc[a] \in {"refresh"} \cup Applying
      /\ work[a].rb => pc[a] \in Restored \ Starting
  BY <1>1, RolledBackAt DEF WriteRuntime, Applying, Starting
<1>3. CASE Fail(a)
  BY <1>1, <1>2, <1>3, FailsHere
<1>4. CASE runtime' = work[a].rt /\ After(a, IF pc[a] = "write" THEN "validate" ELSE "spawn")
  <2>1. pc'[a] = (IF pc[a] = "write" THEN "validate" ELSE "spawn") /\ work'[a] = work[a]
    BY <1>1, <1>4, Goes DEF After, Stray
  <2>2. runtime' = Made(catalog, file) /\ Applied(work[a])
    BY <1>1, <1>4 DEF Track, Ran, Applying, Starting
  <2>3. Ran(pc'[a], work[a], base[a], catalog, file, runtime', core)
    BY <1>1, <2>1, <2>2 DEF Track, Ran, Before, Saving, Activating, Applying, Starting
  <2>4. work[a].rb => pc[a] = "write"
    BY <1>1, <1>2 DEF Starting
  <2>5. pc'[a] \in Applying /\ (work[a].rb => pc'[a] \in Restored)
    BY <2>1, <2>4 DEF Applying, Restored, Starting
  <2> QED BY <1>2, <2>1, <2>3, <2>5, ApplyTracks
<1> QED BY <1>3, <1>4 DEF WriteRuntime

\* Validate, Apply and StartCore decide; Reload and SpawnCore change the core.
LEMMA DecideTracks ==
    ASSUME ProfileInv, Tracked, NEW a \in Actors, Alone(a),
           Validate(a) \/ Apply(a) \/ StartCore(a)
    PROVE  Follows(a)
<1>1. /\ work[a].op.kind \in Locked /\ ~work[a].stray /\ pc[a] \in {"validate", "apply", "start"}
      /\ Track(pc[a], work[a], base[a], catalog, file, runtime, core)
  BY Here DEF Validate, Apply, StartCore
<1>2. /\ UNCHANGED <<catalog, file, runtime, core>> /\ pc[a] \in {"refresh"} \cup Applying
      /\ work[a].rb => pc[a] \in Restored \ Starting
  BY <1>1, RolledBackAt DEF Validate, Apply, StartCore, others, Applying, Starting
<1>3. /\ Applied(work[a]) /\ runtime = Made(catalog, file)
      /\ pc[a] = "start" => ~core.running
  BY <1>1 DEF Track, Ran, Applying, Starting
<1>4. CASE Fail(a)
  BY <1>1, <1>2, <1>4, FailsHere
<1>5. ASSUME NEW l \in {"apply", "reload", "start", "startGenerate"}, Goto(a, l), UNCHANGED work,
             l \in Starting => ~core.running /\ ~work[a].rb
      PROVE  Follows(a)
  <2>1. pc'[a] = l /\ work'[a] = work[a]
    BY <1>5, Goes
  <2>2. Ran(l, work[a], base[a], catalog, file, runtime, core)
    BY <1>3, <1>5 DEF Ran, Before, Saving, Activating, Applying, Starting
  <2>3. l \in Applying /\ (work[a].rb => l \in Restored)
    BY <1>5 DEF Applying, Restored, Starting
  <2> QED BY <1>2, <2>1, <2>2, <2>3, ApplyTracks
<1>6. CASE pc[a] \in {"apply", "start"} /\ ~core.running /\ Leave(a)
  <2>1. pc'[a] = End(a) /\ work'[a] = work[a]
    BY <1>1, <1>6, Goes DEF Leave, Kind, Stray
  <2> QED BY <1>2, <1>3, <1>6, <2>1, EndTracks
<1>7. CASE Validate(a)
  BY <1>4, <1>5, <1>7 DEF Validate, Starting
<1>8. CASE Apply(a)
  <2>1. CASE core.running /\ Goto(a, "reload") /\ UNCHANGED work
    BY <1>5, <2>1 DEF Starting
  <2>2. CASE ~core.running /\ ~RolledBack(a) /\ Goto(a, "start") /\ UNCHANGED work
    BY <1>5, <2>2 DEF RolledBack
  <2> QED BY <1>6, <1>8, <2>1, <2>2 DEF Apply
<1>9. CASE StartCore(a)
  <2>1. ~core.running /\ ~work[a].rb
    BY <1>2, <1>3, <1>9 DEF StartCore, Starting
  <2> QED BY <1>5, <1>9, <2>1 DEF StartCore
<1> QED BY <1>7, <1>8, <1>9

LEMMA ReloadTracks ==
    ASSUME ProfileInv, Tracked, NEW a \in Actors, Alone(a), Reload(a) \/ SpawnCore(a)
    PROVE  Follows(a)
<1>1. /\ work[a].op.kind \in Locked /\ ~work[a].stray /\ pc[a] \in {"reload", "spawn"}
      /\ core \in [running : BOOLEAN, conf : Runtimes]
      /\ Track(pc[a], work[a], base[a], catalog, file, runtime, core)
  BY Here DEF Reload, SpawnCore, Data
<1>2. /\ UNCHANGED <<catalog, file, runtime>> /\ pc[a] \in {"refresh"} \cup Applying
      /\ work[a].rb => pc[a] \in Restored \ Starting
  BY <1>1, RolledBackAt DEF Reload, SpawnCore, Applying, Starting
<1>3. /\ Applied(work[a]) /\ runtime = Made(catalog, file)
      /\ pc[a] = "spawn" => ~core.running
  BY <1>1 DEF Track, Ran, Applying, Starting
<1>4. CASE Fail(a)
  <2>1. pc[a] \in Applying
    BY <1>1 DEF Applying, Starting
  <2> QED BY <1>1, <1>2, <1>4, <2>1, FailsHere
<1>5. CASE Leave(a) /\ core'.conf = runtime
  <2>1. pc'[a] = End(a) /\ work'[a] = work[a]
    BY <1>1, <1>5, Goes DEF Leave, Kind, Stray
  <2> QED BY <1>1, <1>2, <1>3, <1>5, <2>1, EndTracks
<1>6. CASE Reload(a)
  BY <1>1, <1>4, <1>5, <1>6 DEF Reload
<1>7. CASE SpawnCore(a)
  <2>1. ~core.running
    BY <1>3, <1>7 DEF SpawnCore
  <2> QED BY <1>4, <1>5, <1>7, <2>1 DEF SpawnCore
<1> QED BY <1>6, <1>7
-----------------------------------------------------------------------------
(* Tracked is an invariant.                                                 *)

LEMMA TrackedStart ==
    ASSUME Init
    PROVE  Tracked
<1>1. \A a \in Actors : ~Holds(a)
  <2>1. \A a \in Actors : ProcOf[a] \in Procs
    BY DEF Procs
  <2> QED BY <2>1, TransactionAssumption DEF Init, Holds
<1> QED BY <1>1 DEF Tracked, Alone

LEMMA WorkingTracks ==
    ASSUME ProfileInv, Tracked, NEW a \in Actors, Working(a), Alone(a)
    PROVE  Follows(a)
<1>1. ~FindCurrent(a)
  BY Here DEF FindCurrent
<1> QED BY <1>1, CaptureTracks, CaptureFilesTracks, LoadTracks, WriteFileTracks, TruncateTracks,
           FillTracks, SwitchImportedTracks, FilesTracks, RefreshTracks, GenerateTracks,
           WriteRuntimeTracks, DecideTracks, ReloadTracks DEF Working, Step

\* An actor that has just taken the lock has changed nothing.
LEMMA TakeTracks ==
    ASSUME ProfileInv, Tracked, NEW a \in Actors, TakeLock(a), Goto(a, "capture"),
           ~work'[a].rb, \A b \in Actors \ {a} : work'[b] = work[b],
           UNCHANGED <<catalog, file, runtime, core, dirty>>
    PROVE  Tracked'
<1>1. /\ base \in [Actors -> Bases] /\ pc \in [Actors -> Positions]
      /\ lock \in [Procs -> Actors \cup {Free}]
  BY DEF ProfileInv, TypeOK, Bases
<1>2. /\ pc'[a] = "capture"
      /\ base'[a] = [catalog |-> catalog, file |-> file, runtime |-> runtime, conf |-> core.conf]
      /\ \A b \in Actors \ {a} : pc'[b] = pc[b] /\ base'[b] = base[b]
  BY <1>1 DEF TakeLock, Goto
<1> SUFFICES ASSUME NEW b \in Actors, Alone(b)'
             PROVE  Track(pc'[b], work'[b], base'[b], catalog', file', runtime', core')
  BY DEF Tracked, Track, Taken, Forward, Backward, Ran, Still, Made, ReadOf, Snapped, Applied,
         Possible, FileThen
<1>3. CASE b = a
  BY <1>2, <1>3
     DEF Track, Taken, Forward, Ran, Still, Before, Saving, Activating, Ending, Applying, Starting
<1>4. CASE b # a
  <2>1. ProcOf[a] \in Procs /\ ProcOf[b] \in Procs
    BY DEF Procs
  <2>2. Alone(b)
    BY <1>1, <1>4, <2>1 DEF Alone, Holds, TakeLock
  <2>3. Track(pc[b], work[b], base[b], catalog, file, runtime, core)
    BY <2>2 DEF Tracked
  <2> QED BY <1>2, <1>4, <2>3
<1> QED BY <1>3, <1>4

\* An actor that gives up the lock, and one that never had it, is of no interest.
LEMMA LooseTracks ==
    ASSUME ProfileInv, Tracked, NEW a \in Actors, \A b \in Actors \ {a} : Holds(b)' => Holds(b),
           ~Holds(a)',
           \A b \in Actors \ {a} : pc'[b] = pc[b] /\ work'[b] = work[b] /\ base'[b] = base[b]
                                   /\ (b \in dirty => b \in dirty'),
           UNCHANGED <<catalog, file, runtime, core>>
    PROVE  Tracked'
<1> SUFFICES ASSUME NEW b \in Actors, Alone(b)'
             PROVE  Track(pc'[b], work'[b], base'[b], catalog', file', runtime', core')
  BY DEF Tracked, Track, Taken, Forward, Backward, Ran, Still, Made, ReadOf, Snapped, Applied,
         Possible, FileThen
<1>1. b # a /\ Alone(b)
  BY DEF Alone
<1>2. Track(pc[b], work[b], base[b], catalog, file, runtime, core)
  BY <1>1 DEF Tracked
<1> QED BY <1>1, <1>2

LEMMA UnlockTracks ==
    ASSUME ProfileInv, Tracked, NEW a \in Actors, Unlock(a),
           \A b \in Actors \ {a} : pc'[b] = pc[b] /\ work'[b] = work[b],
           UNCHANGED <<catalog, file, runtime, core>>
    PROVE  Tracked'
<1>1. base \in [Actors -> Bases] /\ lock \in [Procs -> Actors \cup {Free}]
  BY DEF ProfileInv, TypeOK, Bases
<1>2. \A b \in Actors : ProcOf[b] \in Procs
  BY DEF Procs
<1>3. ~Holds(a)' /\ \A b \in Actors \ {a} : Holds(b)' => Holds(b)
  BY <1>1, <1>2, TransactionAssumption DEF Unlock, Holds
<1>4. \A b \in Actors \ {a} : base'[b] = base[b] /\ (b \in dirty => b \in dirty')
  BY <1>1 DEF Unlock
<1> QED BY <1>3, <1>4, LooseTracks

LEMMA BeginTracks ==
    ASSUME ProfileInv, Tracked, NEW a \in Actors, pc[a] = "idle", NEW l, NEW w, Goto(a, l),
           Keep(a, w), UNCHANGED <<catalog, file, runtime, core, locking, dirty>>
    PROVE  Tracked'
<1>1. ~Holds(a)
  BY Halves DEF Control, In
<1>2. pc \in [Actors -> Positions] /\ work \in [Actors -> Works]
  BY DEF ProfileInv, TypeOK
<1>3. \A b \in Actors \ {a} : pc'[b] = pc[b] /\ work'[b] = work[b]
  BY <1>2 DEF Goto, Keep
<1>4. \A b \in Actors : (Holds(b)' <=> Holds(b)) /\ base'[b] = base[b]
  BY DEF Holds, locking
<1> QED BY <1>1, <1>3, <1>4, LooseTracks

LEMMA TransactionTracks ==
    ASSUME ProfileInv, Tracked, NEW c \in Clients, NEW kind, NEW u, NEW v, NEW start,
           BeginTransaction(c, kind, u, v, start)
    PROVE  Tracked'
<1>1. c \in Actors /\ work \in [Actors -> Works]
  BY DEF Actors, ProfileInv, TypeOK
<1>2. ~work'[c].rb /\ \A b \in Actors \ {c} : work'[b] = work[b]
  BY <1>1 DEF BeginTransaction, Keep, Rest
<1> QED BY <1>1, <1>2, TakeTracks DEF BeginTransaction

LEMMA CoreStopsTracks ==
    ASSUME ProfileInv, Tracked, CoreStops
    PROVE  Tracked'
<1> SUFFICES ASSUME NEW b \in Actors, Alone(b)'
             PROVE  Track(pc'[b], work'[b], base'[b], catalog', file', runtime', core')
  BY DEF Tracked, Track, Taken, Forward, Backward, Ran, Still, Made, ReadOf, Snapped, Applied,
         Possible, FileThen
<1>1. /\ pc' = pc /\ work' = work /\ base' = base /\ UNCHANGED <<catalog, file, runtime>>
      /\ ~core'.running /\ Alone(b)
  BY DEF CoreStops, control, locking, Alone, Holds
<1>2. Track(pc[b], work[b], base[b], catalog, file, runtime, core)
  BY <1>1 DEF Tracked
<1>3. Ran(pc[b], work[b], base[b], catalog, file, runtime, core')
  BY <1>1, <1>2 DEF Track, Ran, Still
<1> QED BY <1>1, <1>2, <1>3 DEF Track

LEMMA TrackedNext ==
    ASSUME ProfileInv, Tracked, [Next]_vars
    PROVE  Tracked'
<1>1. CASE UNCHANGED vars
  BY <1>1 DEF vars, control, locking, Tracked, Alone, Holds, Track, Taken, Forward, Backward, Ran,
              Still, Made, ReadOf, Snapped, Applied, Possible, FileThen
<1>2. ASSUME NEW t \in Tasks, NEW u \in Uids, NEW v \in Versions, BeginUpdate(t, u, v)
      PROVE  Tracked'
  BY <1>2, BeginTracks DEF BeginUpdate, Begin, Actors
<1>3. ASSUME NEW t \in Tasks, WaitLock(t)
      PROVE  Tracked'
  <2>1. t \in Actors /\ pc[t] = "wait"
    BY <1>3 DEF Actors, WaitLock
  <2>2. ~work[t].rb
    BY <2>1 DEF ProfileInv, WellFormed
  <2> QED BY <1>3, <2>1, <2>2, TakeTracks DEF WaitLock
<1>4. ASSUME NEW a \in Actors, Step(a)
      PROVE  Tracked'
  <2>1. CASE Working(a)
    BY <2>1, WorkingTracks, Frame DEF Follows
  <2>2. CASE Release(a)
    <3>1. pc \in [Actors -> Positions] /\ work \in [Actors -> Works]
      BY DEF ProfileInv, TypeOK
    <3>2. \A b \in Actors \ {a} : pc'[b] = pc[b] /\ work'[b] = work[b]
      BY <2>2, <3>1 DEF Release, Return, Goto, Keep
    <3> QED BY <2>2, <3>2, UnlockTracks DEF Release
  <2> QED BY <1>4, <2>1, <2>2 DEF Working
<1>5. ASSUME NEW t \in Tasks, Abort(t)
      PROVE  Tracked'
  <2>1. t \in Actors /\ pc \in [Actors -> Positions] /\ work \in [Actors -> Works]
    BY DEF Actors, ProfileInv, TypeOK
  <2>2. \A b \in Actors \ {t} : pc'[b] = pc[b] /\ work'[b] = work[b]
    BY <1>5, <2>1 DEF Abort, Return, Goto, Keep
  <2> QED BY <1>5, <2>1, <2>2, UnlockTracks DEF Abort
<1>6. CASE CoreStops
  BY <1>6, CoreStopsTracks
<1>7. ASSUME NEW c \in Clients, NEW u \in Uids, NEW start \in BOOLEAN,
             BeginSwitch(c, u, start) \/ BeginDelete(c, u)
      PROVE  Tracked'
  BY <1>7, TransactionTracks DEF BeginSwitch, BeginDelete
<1>8. ASSUME NEW c \in Clients, NEW u \in Uids, NEW v \in Versions,
             \/ BeginImport(c, u, v)
             \/ \E start \in BOOLEAN : BeginActivate(c, u, v, start)
      PROVE  Tracked'
  BY <1>8, TransactionTracks DEF BeginImport, BeginActivate
<1>9. ASSUME NEW c \in Clients,
             \/ \E s \in Selections : BeginSelect(c, s)
             \/ \E u \in Uids, v \in Versions : BeginImportLocal(c, u, v)
             \/ BeginStart(c)
      PROVE  Tracked'
  BY <1>9, BeginTracks DEF BeginSelect, BeginImportLocal, BeginStart, Begin, Actors
<1> QED BY <1>1, <1>2, <1>3, <1>4, <1>5, <1>6, <1>7, <1>8, <1>9 DEF Next
-----------------------------------------------------------------------------
(* The current profile is never an enhancement.                             *)

\* A request names what the user could name, and every catalog an actor works on
\* has a main profile for its current one.
Asked(op) ==
    /\ op.kind \in Kinds \cup {"none"}
    /\ op.kind \in Writing => op.uid \in Remote
    /\ op.kind = "importLocal" => op.uid \in Local
    /\ op.kind = "switch" => op.uid \in Switchable
Main(c) == c # Torn => c.current \in Remote \cup Local \cup {NoUid}
Sane(l, w) == /\ Asked(w.op) /\ (l = "switch" => w.op.kind = "activate")
              /\ Main(w.before) /\ Main(w.bytes) /\ Main(w.mem)
Named == /\ Main(catalog)
         /\ \A a \in Actors : Sane(pc[a], work[a]) /\ Main(base[a].catalog)

\* The user interfaces offer subscriptions and local profiles to switch to; the
\* store itself does not ask.
SwitchesMain == Switchable \subseteq Remote \cup Local

LEMMA RestSane == Main(EmptyCatalog) /\ \A l : l # "switch" => Sane(l, Rest)
  BY DEF Main, EmptyCatalog, Sane, Rest, NoOp, Asked, Writing

LEMMA MutatedMain ==
    ASSUME SwitchesMain, NEW op, Asked(op), NEW cat \in Catalogs, Main(cat), cat # Torn,
           op.kind \in AllKinds \ {"start"}, NEW new \in Mutated(op, cat)
    PROVE  Main(new)
<1>1. cat.current \in Remote \cup Local \cup {NoUid}
  BY DEF Main
<1>2. CASE op.kind \in {"update", "select"}
  <2>1. new.current = cat.current
    BY <1>2 DEF Mutated, PatchUpdated, PatchSelected, Catalogs
  <2> QED BY <1>1, <2>1 DEF Main
<1>3. CASE op.kind = "switch"
  <2>1. new.current = op.uid
    BY <1>3 DEF Mutated, SwitchCurrent, Catalogs
  <2> QED BY <1>3, <2>1 DEF Main, Asked, SwitchesMain
<1>4. CASE op.kind = "delete"
  <2>1. PICK n \in NextCurrents(cat, op.uid) : new = DeleteItem(cat, op.uid, n)
    BY <1>4 DEF Mutated
  <2>2. n \in Remote \cup Local \cup {NoUid}
    BY <1>1 DEF NextCurrents, Mains
  <2>3. new.current = n
    BY <2>1 DEF DeleteItem
  <2> QED BY <2>2, <2>3 DEF Main
<1>5. CASE op.kind \in Importing
  <2>1. new = AppendMetadata(cat, op.uid, op.ver)
    BY <1>5 DEF Mutated, Importing
  <2>2. new.current \in {cat.current, op.uid}
    BY <2>1 DEF AppendMetadata
  <2>3. op.uid \in Remote \cup Local
    BY <1>5 DEF Asked, Importing, Writing
  <2> QED BY <1>1, <2>2, <2>3 DEF Main
<1> QED BY <1>2, <1>3, <1>4, <1>5 DEF AllKinds, Locked, Importing

LEMMA FailSane ==
    ASSUME ProfileInv, NEW a \in Actors, Fail(a), Sane(pc[a], work[a])
    PROVE  Sane(pc'[a], work'[a])
<1>1. work \in [Actors -> Works] /\ work[a] \in Works
  BY DEF ProfileInv, TypeOK
<1>2. CASE Return(a)
  BY <1>2, Goes, RestSane DEF Return
<1>3. CASE Goto(a, "rollbackFailed") /\ UNCHANGED work
  BY <1>3, Goes DEF Sane
<1>4. CASE /\ Goto(a, "trunc")
           /\ Keep(a, [work[a] EXCEPT !.rb = TRUE, !.mem = work[a].bytes,
                                      !.todo = SnapshotUids(work[a].op, work[a].before)])
  <2> DEFINE todo == SnapshotUids(work[a].op, work[a].before)
             w == [work[a] EXCEPT !.rb = TRUE, !.mem = work[a].bytes, !.todo = todo]
  <2>1. pc'[a] = "trunc" /\ work'[a] = w
    BY <1>4, Goes
  <2>2. /\ w.op = work[a].op /\ w.before = work[a].before
        /\ w.mem = work[a].bytes /\ w.bytes = work[a].bytes
    <3> HIDE DEF todo
    <3> QED BY <1>1 DEF Works
  <2> HIDE DEF w
  <2> QED BY <2>1, <2>2 DEF Sane
<1> QED BY <1>2, <1>3, <1>4 DEF Fail

LEMMA GoesSane ==
    ASSUME ProfileInv, NEW a \in Actors, Sane(pc[a], work[a]), NEW l, l # "switch",
           Leave(a) \/ After(a, l) \/ Return(a) \/ (Goto(a, l) /\ UNCHANGED work)
    PROVE  Sane(pc'[a], work'[a])
<1>1. CASE Return(a)
  BY <1>1, Goes, RestSane DEF Return
<1>2. CASE \E m : m # "switch" /\ Goto(a, m) /\ UNCHANGED work
  BY <1>2, Goes DEF Sane
<1>3. End(a) # "switch"
  BY DEF End
<1> QED BY <1>1, <1>2, <1>3 DEF Leave, After

\* A reader gets a catalog that has a main profile for its current one.
LEMMA ReadsMain ==
    ASSUME ProfileInv, Named, NEW cat \in Reads \ {Torn}
    PROVE  cat \in Catalogs /\ cat # Torn /\ Main(cat)
<1>1. cat \in Catalogs
  BY Halves, ReadsType
<1> QED BY <1>1, RestSane DEF Reads, Named

LEMMA ReadingSane ==
    ASSUME SwitchesMain, ProfileInv, Named, NEW a \in Actors,
           \/ Capture(a) \/ CaptureFiles(a) \/ FindCurrent(a) \/ LoadAndMutate(a)
           \/ SwitchImported(a) \/ Refresh(a) \/ Generate(a)
    PROVE  Sane(pc'[a], work'[a])
<1>1. /\ work[a] \in Works /\ work[a].op \in Requests /\ Sane(pc[a], work[a])
      /\ Main(catalog) /\ WellFormed(pc[a], work[a])
  BY DEF ProfileInv, TypeOK, Works, Named
<1>2. CASE Fail(a)
  BY <1>1, <1>2, FailSane
<1>3. CASE \E l \in Positions \ {"switch"} : Goto(a, l) /\ UNCHANGED work
  BY <1>1, <1>3, GoesSane
<1>4. CASE Capture(a)
  <2>1. ASSUME NEW cat \in Reads \ {Torn}, Goto(a, "snapshot"),
               Keep(a, [work[a] EXCEPT !.before = cat])
        PROVE  Sane(pc'[a], work'[a])
    <3>1. /\ pc'[a] = "snapshot" /\ work'[a].op = work[a].op /\ work'[a].before = cat
          /\ work'[a].mem = work[a].mem /\ work'[a].bytes = work[a].bytes
      BY <1>1, <2>1, Goes DEF Works
    <3> QED BY <1>1, <2>1, <3>1, ReadsMain DEF Sane
  <2>2. "failed" \in Positions \ {"switch"}
    BY DEF Positions, Outcomes
  <2> QED BY <1>3, <1>4, <2>1, <2>2 DEF Capture
<1>5. CASE CaptureFiles(a)
  <2> DEFINE files == [u \in Uids |-> IF u \in Snapped(work[a]) THEN file[u] ELSE NoFile]
  <2>1. ASSUME Goto(a, "load"), Keep(a, [work[a] EXCEPT !.bytes = catalog, !.files = files])
        PROVE  Sane(pc'[a], work'[a])
    <3> HIDE DEF files
    <3>1. /\ pc'[a] = "load" /\ work'[a].op = work[a].op /\ work'[a].before = work[a].before
          /\ work'[a].mem = work[a].mem /\ work'[a].bytes = catalog
      BY <1>1, <2>1, Goes DEF Works
    <3> QED BY <1>1, <3>1 DEF Sane
  <2>2. "failed" \in Positions \ {"switch"}
    BY DEF Positions, Outcomes
  <2> QED BY <1>3, <1>5, <2>1, <2>2 DEF CaptureFiles, Snapped
<1>6. CASE FindCurrent(a)
  <2>1. ASSUME NEW cat, Goto(a, "load"), Keep(a, [work[a] EXCEPT !.op.uid = cat.current])
        PROVE  Sane(pc'[a], work'[a])
    <3>1. work[a].op.kind = "select"
      BY <1>1, <1>6 DEF FindCurrent, WellFormed
    <3>2. /\ pc'[a] = "load" /\ work'[a].op = [work[a].op EXCEPT !.uid = cat.current]
          /\ work'[a].before = work[a].before
          /\ work'[a].mem = work[a].mem /\ work'[a].bytes = work[a].bytes
      BY <1>1, <2>1, Goes DEF Works
    <3>3. work'[a].op.kind = "select"
      BY <1>1, <3>1, <3>2 DEF Requests
    <3> QED BY <1>1, <3>1, <3>2, <3>3 DEF Sane, Asked, Writing
  <2> QED BY <1>1, <1>6, <2>1, GoesSane DEF FindCurrent
<1>7. CASE LoadAndMutate(a)
  <2>1. ASSUME NEW cat \in Reads \ {Torn}, NEW l \in {"file", "trunc"}, Goto(a, l),
               NEW new \in Mutated(work[a].op, cat), NEW todo,
               Keep(a, [work[a] EXCEPT !.mem = new, !.todo = todo])
        PROVE  Sane(pc'[a], work'[a])
    <3>1. /\ pc'[a] = l /\ work'[a].op = work[a].op /\ work'[a].before = work[a].before
          /\ work'[a].mem = new /\ work'[a].bytes = work[a].bytes
      BY <1>1, <2>1, Goes DEF Works
    <3>2. work[a].op.kind \in AllKinds \ {"start"}
      BY <1>1, <1>7 DEF LoadAndMutate, WellFormed, AllKinds, Locked
    <3>3. Main(new)
      BY <1>1, <2>1, <3>2, ReadsMain, MutatedMain DEF Sane
    <3> QED BY <1>1, <2>1, <3>1, <3>3 DEF Sane
  <2> QED BY <1>2, <1>7, <2>1 DEF LoadAndMutate
<1>8. CASE SwitchImported(a)
  <2>1. ASSUME NEW cat \in Reads \ {Torn}, Goto(a, "trunc2"),
               Keep(a, [work[a] EXCEPT !.mem = SwitchCurrent(cat, Uid(a))])
        PROVE  Sane(pc'[a], work'[a])
    <3>1. /\ pc'[a] = "trunc2" /\ work'[a].op = work[a].op /\ work'[a].before = work[a].before
          /\ work'[a].mem = SwitchCurrent(cat, work[a].op.uid) /\ work'[a].bytes = work[a].bytes
      BY <1>1, <2>1, Goes DEF Works, Uid
    <3>2. work[a].op.uid \in Remote
      BY <1>1, <1>8 DEF SwitchImported, Sane, Asked, Writing
    <3>3. work'[a].mem.current = work[a].op.uid
      BY <2>1, <3>1, ReadsMain DEF SwitchCurrent, Catalogs
    <3> QED BY <1>1, <3>1, <3>2, <3>3 DEF Sane, Main
  <2> QED BY <1>2, <1>8, <2>1 DEF SwitchImported
<1>9. CASE Refresh(a)
  <2>1. "generate" # "switch" /\ End(a) # "switch"
    BY DEF End
  <2> QED BY <1>1, <1>2, <1>9, <2>1, GoesSane DEF Refresh
<1>10. CASE Generate(a)
  <2>1. ASSUME NEW cat, NEW l \in {"write", "startWrite"}, Goto(a, l),
               Keep(a, [work[a] EXCEPT !.rt = Generated(cat, file)])
        PROVE  Sane(pc'[a], work'[a])
    <3>1. /\ pc'[a] = l /\ work'[a].op = work[a].op /\ work'[a].before = work[a].before
          /\ work'[a].mem = work[a].mem /\ work'[a].bytes = work[a].bytes
      BY <1>1, <2>1, Goes DEF Works
    <3> QED BY <1>1, <2>1, <3>1 DEF Sane
  <2> QED BY <1>2, <1>10, <2>1 DEF Generate
<1> QED BY <1>4, <1>5, <1>6, <1>7, <1>8, <1>9, <1>10

LEMMA WritingSane ==
    ASSUME ProfileInv, Named, NEW a \in Actors,
           \/ WriteFile(a) \/ TruncateCatalog(a) \/ FillCatalog(a) \/ RemoveOrRestoreFile(a)
           \/ WriteRuntime(a) \/ Validate(a) \/ Apply(a) \/ Reload(a) \/ StartCore(a)
           \/ SpawnCore(a)
    PROVE  Sane(pc'[a], work'[a]) /\ Main(catalog')
<1>1. work[a] \in Works /\ Sane(pc[a], work[a]) /\ Main(catalog)
  BY DEF ProfileInv, TypeOK, Named
<1>2. Fail(a) \/ Leave(a) \/ Return(a) => Sane(pc'[a], work'[a])
  BY <1>1, FailSane, GoesSane
<1>3. \A l \in Positions \ {"switch"} :
          After(a, l) \/ (Goto(a, l) /\ UNCHANGED work) => Sane(pc'[a], work'[a])
  BY <1>1, GoesSane
<1>4. {"trunc", "fill", "fill2", "files", "refresh", "validate", "apply", "reload", "start",
       "startGenerate", "spawn"} \subseteq Positions \ {"switch"}
  BY DEF Positions
<1>5. Main(catalog')
  BY <1>1 DEF WriteFile, TruncateCatalog, FillCatalog, RemoveOrRestoreFile, WriteRuntime, Validate,
              Apply, Reload, StartCore, SpawnCore, others, Main, Sane
<1>6. CASE WriteFile(a) \/ TruncateCatalog(a)
  BY <1>2, <1>3, <1>4, <1>5, <1>6 DEF WriteFile, TruncateCatalog
<1>7. CASE FillCatalog(a)
  <2>1. CASE After(a, AfterFill(a)) /\ AfterFill(a) # "switch"
    <3>1. AfterFill(a) \in {"files", "refresh"}
      BY <2>1 DEF AfterFill
    <3> QED BY <1>3, <1>4, <1>5, <2>1, <3>1
  <2>2. CASE After(a, AfterFill(a)) /\ AfterFill(a) = "switch"
    <3>1. Kind(a) = "activate"
      BY <2>2 DEF AfterFill
    <3>2. CASE Return(a)
      BY <1>2, <1>5, <3>2
    <3>3. CASE Goto(a, "switch") /\ UNCHANGED work
      BY <1>1, <1>5, <3>1, <3>3, Goes DEF Sane, Kind
    <3> QED BY <2>2, <3>2, <3>3 DEF After
  <2> QED BY <1>2, <1>5, <1>7, <2>1, <2>2 DEF FillCatalog
<1>8. CASE RemoveOrRestoreFile(a)
  <2>1. ASSUME NEW u, Keep(a, [work[a] EXCEPT !.todo = @ \ {u}]), UNCHANGED pc
        PROVE  Sane(pc'[a], work'[a])
    <3>1. /\ pc'[a] = pc[a] /\ work'[a].op = work[a].op /\ work'[a].before = work[a].before
          /\ work'[a].mem = work[a].mem /\ work'[a].bytes = work[a].bytes
      BY <1>1, <2>1, Goes DEF Works
    <3> QED BY <1>1, <3>1 DEF Sane
  <2> QED BY <1>2, <1>3, <1>4, <1>5, <1>8, <2>1 DEF RemoveOrRestoreFile
<1>9. CASE WriteRuntime(a) \/ Validate(a) \/ Reload(a) \/ SpawnCore(a)
  BY <1>2, <1>3, <1>4, <1>5, <1>9 DEF WriteRuntime, Validate, Reload, SpawnCore
<1>10. CASE Apply(a) \/ StartCore(a)
  BY <1>2, <1>3, <1>4, <1>5, <1>10 DEF Apply, StartCore
<1> QED BY <1>6, <1>7, <1>8, <1>9, <1>10

LEMMA NamedStart ==
    ASSUME Init
    PROVE  Named
<1>1. Main(catalog)
  BY RestSane DEF Init, Main, Mains
<1>2. \A a \in Actors : pc[a] = "idle" /\ work[a] = Rest /\ base[a] = NoBase
  BY DEF Init
<1> QED BY <1>1, <1>2, RestSane DEF Named, NoBase

\* A step that changes one actor.
LEMMA NamedFrame ==
    ASSUME ProfileInv, Named, NEW a \in Actors, Main(catalog'), Sane(pc'[a], work'[a]),
           \A b \in Actors \ {a} : pc'[b] = pc[b] /\ work'[b] = work[b] /\ base'[b] = base[b],
           Main(base'[a].catalog)
    PROVE  Named'
<1>1. \A b \in Actors : Sane(pc'[b], work'[b]) /\ Main(base'[b].catalog)
  BY DEF Named
<1> QED BY <1>1 DEF Named, Sane, Main, Asked

LEMMA BeginSane ==
    ASSUME ProfileInv, Named, NEW a \in Actors, NEW l, l # "switch", NEW op, Asked(op),
           Goto(a, l), Keep(a, [Rest EXCEPT !.op = op]), catalog' = catalog,
           base' = base \/ TakeLock(a)
    PROVE  Named'
<1>1. pc \in [Actors -> Positions] /\ work \in [Actors -> Works] /\ base \in [Actors -> Bases]
  BY DEF ProfileInv, TypeOK, Bases
<1>2. work'[a] = [Rest EXCEPT !.op = op] /\ pc'[a] = l
  BY Goes
<1>3. Sane(l, work'[a])
  BY <1>2, RestSane DEF Rest, Sane
<1>4. Main(base'[a].catalog)
  BY <1>1 DEF TakeLock, Named
<1>5. \A b \in Actors \ {a} : pc'[b] = pc[b] /\ work'[b] = work[b] /\ base'[b] = base[b]
  BY <1>1 DEF Goto, Keep, TakeLock
<1>6. Main(catalog')
  BY DEF Named
<1> QED BY <1>2, <1>3, <1>4, <1>5, <1>6, NamedFrame

LEMMA UnlockNamed ==
    ASSUME ProfileInv, Named, NEW a \in Actors, Unlock(a), catalog' = catalog,
           Sane(pc'[a], work'[a]),
           \A b \in Actors \ {a} : pc'[b] = pc[b] /\ work'[b] = work[b]
    PROVE  Named'
<1>1. base \in [Actors -> Bases]
  BY DEF ProfileInv, TypeOK, Bases
<1>2. Main(base'[a].catalog)
  BY <1>1, RestSane DEF Unlock, NoBase
<1>3. \A b \in Actors \ {a} : base'[b] = base[b]
  BY <1>1 DEF Unlock
<1>4. Main(catalog')
  BY DEF Named
<1> QED BY <1>2, <1>3, <1>4, NamedFrame

LEMMA NamedNext ==
    ASSUME SwitchesMain, ProfileInv, Named, [Next]_vars
    PROVE  Named'
<1>1. pc \in [Actors -> Positions] /\ work \in [Actors -> Works]
  BY DEF ProfileInv, TypeOK
<1>2. CASE UNCHANGED vars \/ CoreStops
  BY <1>2 DEF vars, CoreStops, control, locking, Named, Main, Sane, Asked
<1>3. ASSUME NEW t \in Tasks, NEW u \in Uids, NEW v \in Versions, BeginUpdate(t, u, v)
      PROVE  Named'
  <2> DEFINE op == [Request("update", u) EXCEPT !.ver = v]
  <2>1. op.kind = "update" /\ op.uid = u
    BY DEF Request, NoOp
  <2>2. Asked(op) /\ t \in Actors
    BY <1>3, <2>1 DEF Asked, BeginUpdate, Begin, Actors, Writing
  <2> HIDE DEF op
  <2>3. Goto(t, "wait") /\ Keep(t, [Rest EXCEPT !.op = op]) /\ catalog' = catalog /\ base' = base
    BY <1>3 DEF BeginUpdate, locking, op
  <2> QED BY <2>2, <2>3, BeginSane
<1>4. ASSUME NEW t \in Tasks, WaitLock(t)
      PROVE  Named'
  <2>1. t \in Actors /\ base \in [Actors -> Bases]
    BY DEF Actors, ProfileInv, TypeOK, Bases
  <2>2. pc'[t] = "capture" /\ work'[t] = work[t]
        /\ \A b \in Actors \ {t} : pc'[b] = pc[b] /\ work'[b] = work[b] /\ base'[b] = base[b]
    BY <1>1, <1>4, <2>1 DEF WaitLock, Goto, TakeLock
  <2>3. Sane(pc'[t], work'[t]) /\ Main(catalog') /\ Main(base'[t].catalog)
    BY <1>4, <2>1, <2>2 DEF Named, Sane, WaitLock, TakeLock
  <2> QED BY <2>1, <2>2, <2>3, NamedFrame
<1>5. ASSUME NEW c \in Clients, NEW kind, NEW u \in Uids, NEW v, NEW start,
             BeginTransaction(c, kind, u, v, start),
             kind \in Writing => u \in Remote, kind = "switch" => u \in Switchable,
             kind # "importLocal"
      PROVE  Named'
  <2> DEFINE op == [Request(kind, u) EXCEPT !.ver = v, !.start = start]
  <2>1. op.kind = kind /\ op.uid = u
    BY DEF Request, NoOp
  <2>2. Asked(op) /\ c \in Actors
    BY <1>5, <2>1 DEF Asked, BeginTransaction, Begin, Actors
  <2> HIDE DEF op
  <2>3. /\ Goto(c, "capture") /\ Keep(c, [Rest EXCEPT !.op = op]) /\ catalog' = catalog
        /\ TakeLock(c)
    BY <1>5 DEF BeginTransaction, op
  <2> QED BY <2>2, <2>3, BeginSane
<1>6. ASSUME NEW c \in Clients, NEW u \in Uids, NEW start \in BOOLEAN,
             BeginSwitch(c, u, start) \/ BeginDelete(c, u)
      PROVE  Named'
  BY <1>5, <1>6 DEF BeginSwitch, BeginDelete, Writing
<1>7. ASSUME NEW c \in Clients, NEW u \in Uids, NEW v \in Versions,
             BeginImport(c, u, v) \/ (\E start \in BOOLEAN : BeginActivate(c, u, v, start))
      PROVE  Named'
  BY <1>5, <1>7 DEF BeginImport, BeginActivate
<1>8. ASSUME NEW c \in Clients, NEW u \in Uids, NEW v \in Versions, BeginImportLocal(c, u, v)
      PROVE  Named'
  <2> DEFINE op == [Request("importLocal", u) EXCEPT !.ver = v]
  <2>1. op.kind = "importLocal" /\ op.uid = u
    BY DEF Request, NoOp
  <2>2. Asked(op) /\ c \in Actors
    BY <1>8, <2>1 DEF Asked, BeginImportLocal, Begin, Actors, Writing
  <2> HIDE DEF op
  <2>3. Goto(c, "load") /\ Keep(c, [Rest EXCEPT !.op = op]) /\ catalog' = catalog /\ base' = base
    BY <1>8 DEF BeginImportLocal, locking, op
  <2> QED BY <2>2, <2>3, BeginSane
<1>9. ASSUME NEW c \in Clients, NEW s \in Selections, BeginSelect(c, s)
      PROVE  Named'
  <2> DEFINE op == [Request("select", NoUid) EXCEPT !.sel = s]
  <2>1. op.kind = "select"
    BY DEF Request, NoOp
  <2>2. Asked(op) /\ c \in Actors
    BY <1>9, <2>1 DEF Asked, BeginSelect, Begin, Actors, Writing
  <2> HIDE DEF op
  <2>3. /\ Goto(c, "current") /\ Keep(c, [Rest EXCEPT !.op = op]) /\ catalog' = catalog
        /\ base' = base
    BY <1>9 DEF BeginSelect, locking, op
  <2> QED BY <2>2, <2>3, BeginSane
<1>10. ASSUME NEW c \in Clients, BeginStart(c)
       PROVE  Named'
  <2> DEFINE op == Request("start", NoUid)
  <2>1. op.kind = "start"
    BY DEF Request, NoOp
  <2>2. Asked(op) /\ c \in Actors
    BY <1>10, <2>1 DEF Asked, BeginStart, Begin, Actors, Writing
  <2> HIDE DEF op
  <2>3. Goto(c, "start") /\ Keep(c, [Rest EXCEPT !.op = op]) /\ catalog' = catalog /\ base' = base
    BY <1>10 DEF BeginStart, locking, op
  <2> QED BY <2>2, <2>3, BeginSane
<1>11. ASSUME NEW a \in Actors, Step(a)
       PROVE  Named'
  <2>1. CASE Working(a)
    <3>1. base' = base /\ \A b \in Actors \ {a} : pc'[b] = pc[b] /\ work'[b] = work[b]
      BY <2>1, OnlyMine
    <3>2. Main(base[a].catalog) /\ Main(catalog)
      BY DEF Named
    <3>3. Sane(pc'[a], work'[a]) /\ Main(catalog')
      <4>1. CASE \/ Capture(a) \/ CaptureFiles(a) \/ FindCurrent(a) \/ LoadAndMutate(a)
                 \/ SwitchImported(a) \/ Refresh(a) \/ Generate(a)
        <5>1. catalog' = catalog
          BY <4>1 DEF Capture, CaptureFiles, FindCurrent, LoadAndMutate, SwitchImported, Refresh,
                      Generate, others
        <5> QED BY <3>2, <4>1, <5>1, ReadingSane
      <4>2. CASE ~(\/ Capture(a) \/ CaptureFiles(a) \/ FindCurrent(a) \/ LoadAndMutate(a)
                   \/ SwitchImported(a) \/ Refresh(a) \/ Generate(a))
        BY <2>1, <4>2, WritingSane DEF Working, Step
      <4> QED BY <4>1, <4>2
    <3> QED BY <3>1, <3>2, <3>3, NamedFrame
  <2>2. CASE Release(a)
    <3>1. /\ pc'[a] = "idle" /\ work'[a] = Rest
          /\ \A b \in Actors \ {a} : pc'[b] = pc[b] /\ work'[b] = work[b]
      BY <1>1, <2>2 DEF Release, Return, Goto, Keep
    <3> QED BY <2>2, <3>1, RestSane, UnlockNamed DEF Release
  <2> QED BY <1>11, <2>1, <2>2 DEF Working
<1>12. ASSUME NEW t \in Tasks, Abort(t)
       PROVE  Named'
  <2>1. t \in Actors /\ \A b \in Actors \ {t} : pc'[b] = pc[b] /\ work'[b] = work[b]
    BY <1>1, <1>12 DEF Actors, Abort, Return, Goto, Keep
  <2>2. CASE Return(t)
    BY <1>12, <2>1, <2>2, Goes, RestSane, UnlockNamed DEF Abort, Return
  <2>3. CASE Keep(t, [work[t] EXCEPT !.stray = TRUE]) /\ UNCHANGED pc
    <3>1. work[t] \in Works /\ Sane(pc[t], work[t])
      BY <1>1, <2>1 DEF Named
    <3>2. /\ pc'[t] = pc[t] /\ work'[t].op = work[t].op /\ work'[t].before = work[t].before
          /\ work'[t].mem = work[t].mem /\ work'[t].bytes = work[t].bytes
      BY <2>1, <2>3, <3>1, Goes DEF Works
    <3>3. Sane(pc'[t], work'[t])
      BY <3>1, <3>2 DEF Sane
    <3> QED BY <1>12, <2>1, <3>3, UnlockNamed DEF Abort
  <2> QED BY <1>12, <2>2, <2>3 DEF Abort
<1> QED BY <1>2, <1>3, <1>4, <1>6, <1>7, <1>8, <1>9, <1>10, <1>11, <1>12 DEF Next
-----------------------------------------------------------------------------
(* The theorems about one transaction.                                      *)

\* The inductive invariant of all of them.
THEOREM TransactionsTracked == Spec => [](ProfileInv /\ Tracked)
<1>1. Init => ProfileInv /\ Tracked
  BY InitKeeps, Halves, TrackedStart
<1>2. ProfileInv /\ Tracked /\ ProfileInv' /\ [Next]_vars => Tracked'
  BY TrackedNext
<1> QED BY <1>1, <1>2, ProfileInvariant, PTL DEF Spec

\* A rollback that reports success has put back the catalog and every profile file
\* and has left nothing of the new profile in the runtime configuration or in a
\* running core, whatever failed before it, and whatever other processes do
\* elsewhere, as long as nobody wrote in between.
THEOREM RollbackRestoresAll == Spec => []RollbackRestores
<1>1. ProfileInv /\ Tracked => RollbackRestores
  <2> SUFFICES ASSUME ProfileInv, Tracked, NEW a \in Actors, pc[a] = "rolledBack", Alone(a)
               PROVE  /\ catalog = base[a].catalog /\ file = base[a].file
                      /\ catalog # Torn =>
                            /\ runtime \in {Generated(catalog, file), base[a].runtime}
                            /\ core.running =>
                                  core.conf \in {Generated(catalog, file), base[a].conf}
    BY DEF RollbackRestores
  <2>1. Track("rolledBack", work[a], base[a], catalog, file, runtime, core)
    BY Here
  <2>2. catalog = base[a].catalog /\ file = base[a].file
    BY <2>1 DEF Track, Forward, Backward, Before, Saving, Activating, Ending, Applying, Starting,
                Restored
  <2>3. \/ runtime = Made(catalog, file) /\ (core.running => core.conf = runtime)
        \/ Still(base[a], runtime, core)
    BY <2>1 DEF Track, Ran
  <2> QED BY <2>2, <2>3 DEF Made, ReadOf, Still
<1> QED BY <1>1, TransactionsTracked, PTL

\* Deleting a profile that is not current, or updating one, leaves what the
\* generator makes of the others as it was.
LEMMA OthersGeneratedAlike ==
    ASSUME NEW w, NEW p \in Catalogs, NEW c \in Mutated(w.op, p), NEW f \in [Uids -> Contents],
           w.op.kind \in {"update", "delete"}, w.op.uid \in Uids, w.before = p, ~Applied(w),
           Main(p), p # Torn
    PROVE  Generated(c, FileThen(w, f)) = Generated(p, f)
<1>1. p.current # w.op.uid
  BY DEF Applied, Applies
<1>2. p.current \in Remote \cup Local \cup {NoUid}
  BY DEF Main
<1>3. CASE w.op.kind = "update"
  <2>1. c.current = p.current
    BY <1>3 DEF Mutated, PatchUpdated, Catalogs
  <2>2. FileThen(w, f) = [f EXCEPT ![w.op.uid] = w.op.ver]
    BY <1>3 DEF FileThen, FileNow, Writing
  <2>3. p.current # NoUid => FileThen(w, f)[p.current] = f[p.current]
    BY <1>1, <1>2, <2>2, CatalogAssumption
  <2> QED BY <2>1, <2>3 DEF Generated
<1>4. CASE w.op.kind = "delete"
  <2>1. NextCurrents(p, w.op.uid) = {p.current}
    BY <1>1 DEF NextCurrents
  <2>2. c.current = p.current
    BY <1>4, <2>1 DEF Mutated, DeleteItem
  <2>3. p.current # NoUid => p.current \in Uids /\ p.current \notin DeletedUids(p, w.op.uid)
    BY <1>1, <1>2, CatalogAssumption DEF DeletedUids
  <2>4. FileThen(w, f) = Without(f, DeletedUids(p, w.op.uid))
    BY <1>4 DEF FileThen, Snapped, SnapshotUids
  <2>5. p.current # NoUid => FileThen(w, f)[p.current] = f[p.current]
    BY <2>3, <2>4 DEF Without
  <2> QED BY <2>2, <2>5 DEF Generated
<1> QED BY <1>3, <1>4

\* A transaction that commits and has changed what the core should run has written
\* that as the runtime configuration, and a running core has loaded it, if the user
\* switches to subscriptions and local profiles only.
THEOREM CommitApplies == ASSUME SwitchesMain PROVE Spec => []CommitAppliesCurrent
<1>1. ProfileInv /\ Tracked /\ Named => CommitAppliesCurrent
  <2> SUFFICES ASSUME ProfileInv, Tracked, Named, NEW a \in Actors,
                      pc[a] = "committed", Alone(a), Torn \notin {catalog, base[a].catalog},
                      Kind(a) # "import",
                      \/ Kind(a) \in {"switch", "activate"}
                      \/ Generated(catalog, file) # Generated(base[a].catalog, base[a].file)
               PROVE  runtime = Generated(catalog, file) /\ (core.running => core.conf = runtime)
    BY DEF CommitAppliesCurrent
  <2>1. /\ Track("committed", work[a], base[a], catalog, file, runtime, core)
        /\ base[a] \in Bases /\ work[a].op.kind \in Locked /\ work[a].op.uid \in Uids
    BY Here
  <2>2. /\ catalog \in Target(work[a].op, ReadOf(base[a].catalog))
        /\ file = FileThen(work[a], base[a].file)
        /\ work[a].before = ReadOf(base[a].catalog)
    BY <2>1 DEF Track, Taken, Forward, Backward, Ending, Restoring, Restored
  <2>3. ReadOf(catalog) = catalog /\ ReadOf(base[a].catalog) = base[a].catalog
    BY DEF ReadOf
  <2>4. Applied(work[a])
    <3> SUFFICES ASSUME ~Applied(work[a]) PROVE FALSE
      OBVIOUS
    <3>1. work[a].op.kind \in {"update", "delete"}
      BY <2>1 DEF Applied, Applies, Locked, Kind
    <3>2. /\ base[a].catalog \in Catalogs /\ base[a].file \in [Uids -> Contents]
          /\ Main(base[a].catalog) /\ base[a].catalog # Torn
      BY <2>1 DEF Bases, Named
    <3>3. catalog \in Mutated(work[a].op, base[a].catalog)
      BY <2>2, <2>3, <3>1 DEF Target
    <3>4. Generated(catalog, file) = Generated(base[a].catalog, base[a].file)
      BY <2>1, <2>2, <2>3, <3>1, <3>2, <3>3, OthersGeneratedAlike
    <3> QED BY <3>1, <3>4 DEF Kind
  <2> QED BY <2>1, <2>3, <2>4 DEF Track, Ran, Made
<1>2. Init => Named
  BY NamedStart
<1>3. ProfileInv /\ Named /\ [Next]_vars => Named'
  BY NamedNext
<1> QED BY <1>1, <1>2, <1>3, TransactionsTracked, PTL DEF Spec
-----------------------------------------------------------------------------
(* Atomicity.  One process, only operations that take the lock, no cancelled  *)
(* job, and no file operation that fails in a rollback.                     *)

Tidy == /\ Kinds \subseteq Locked /\ ~Aborts /\ IoFaults # "always"
        /\ \A a, b \in Actors : ProcOf[a] = ProcOf[b]

\* Whoever is busy holds the lock, nobody disturbs, and profiles.yaml is torn only
\* while somebody holds the lock.
TidyInv ==
    /\ \A a \in Actors : pc[a] \in {"idle", "wait"} \/ Holds(a)
    /\ dirty = {}
    /\ \A a \in Actors : Holds(a) => base[a].catalog # Torn
    /\ catalog = Torn => \E a \in Actors : Holds(a)

TransactionInv == ProfileInv /\ Tracked /\ Named /\ TidyInv

LEMMA OneHolder ==
    ASSUME Tidy, NEW a \in Actors, NEW b \in Actors, Holds(a), Holds(b)
    PROVE  a = b
  BY DEF Tidy, Holds

LEMMA FreeLock ==
    ASSUME Tidy, NEW a \in Actors, lock[ProcOf[a]] = Free
    PROVE  \A b \in Actors : ~Holds(b)
  BY TransactionAssumption DEF Tidy, Holds

\* What a transaction has made of the files when it releases the lock.
LEMMA Outcome ==
    ASSUME Tidy, TransactionInv, NEW a \in Actors, pc[a] \in Outcomes
    PROVE  /\ Holds(a) /\ base[a].catalog \in Catalogs /\ catalog \in Catalogs
           /\ \/ catalog = base[a].catalog /\ file = base[a].file
              \/ /\ catalog \in Target(work[a].op, base[a].catalog)
                 /\ file = FileThen(work[a], base[a].file)
                 /\ Possible(work[a].op, base[a].catalog, base[a].file)
                 /\ work[a].before = base[a].catalog
<1>1. Alone(a) /\ base[a].catalog # Torn
  BY DEF TransactionInv, TidyInv, Outcomes, Alone
<1>2. /\ Track(pc[a], work[a], base[a], catalog, file, runtime, core)
      /\ work[a].op \in Requests /\ work[a].op.kind \in Locked /\ work[a].op.uid \in Uids
      /\ work[a].op.kind \in Writing => work[a].op.ver \in Versions
      /\ base[a] \in Bases
  BY <1>1, Here DEF TransactionInv
<1>3. base[a].catalog \in Catalogs /\ ReadOf(base[a].catalog) = base[a].catalog
  BY <1>1, <1>2 DEF Bases, ReadOf
<1>4. CASE work[a].rb
  <2>1. catalog = base[a].catalog /\ file = base[a].file
    BY <1>2, <1>4 DEF Track, Backward, Restored, Restoring, Outcomes, Tidy
  <2> QED BY <1>1, <1>3, <2>1 DEF Alone
<1>5. CASE ~work[a].rb
  <2>1. Forward(pc[a], work[a], base[a], catalog, file) /\ Taken(pc[a], work[a], base[a])
    BY <1>2, <1>5 DEF Track
  <2>2. pc[a] \in {"failed", "committed"}
    BY <2>1 DEF Forward, Before, Saving, Activating, Ending, Applying, Starting, Outcomes
  <2>3. CASE pc[a] = "failed"
    BY <1>1, <1>3, <2>1, <2>3 DEF Forward, Before, Alone
  <2>4. CASE pc[a] = "committed"
    <3>1. /\ catalog \in Target(work[a].op, base[a].catalog)
          /\ file = FileThen(work[a], base[a].file)
          /\ Possible(work[a].op, base[a].catalog, base[a].file)
          /\ work[a].before = base[a].catalog
      BY <1>3, <2>1, <2>4 DEF Forward, Ending, Taken
    <3>2. catalog \in Catalogs
      BY <1>2, <1>3, <3>1, TargetType
    <3> QED BY <1>1, <1>3, <3>1, <3>2 DEF Alone
  <2> QED BY <2>2, <2>3, <2>4
<1> QED BY <1>4, <1>5

\* In a tidy world a busy actor is in a transaction.
LEMMA WorkerHolds ==
    ASSUME TransactionInv, NEW a \in Actors, Step(a)
    PROVE  Holds(a)
<1>1. pc[a] \notin {"idle", "wait"}
  BY DEF Step, Capture, CaptureFiles, FindCurrent, LoadAndMutate, WriteFile, TruncateCatalog,
         FillCatalog, SwitchImported, RemoveOrRestoreFile, Refresh, Generate, WriteRuntime,
         Validate, Apply, Reload, StartCore, SpawnCore, Release, Outcomes
<1> QED BY <1>1 DEF TransactionInv, TidyInv

LEMMA TidyStart ==
    ASSUME Init
    PROVE  TidyInv
<1>1. \A a \in Actors : ~Holds(a) /\ pc[a] = "idle"
  <2>1. \A a \in Actors : ProcOf[a] \in Procs
    BY DEF Procs
  <2> QED BY <2>1, TransactionAssumption DEF Init, Holds
<1>2. catalog # Torn
  BY InitKeeps, TransactionAssumption DEF Init
<1> QED BY <1>1, <1>2 DEF TidyInv, Init

\* Taking the lock, and asking for it.
LEMMA TakeTidy ==
    ASSUME Tidy, TransactionInv, NEW a \in Actors, TakeLock(a), Goto(a, "capture"),
           UNCHANGED <<catalog, dirty>>
    PROVE  TidyInv'
<1>1. \A b \in Actors : ~Holds(b)
  BY FreeLock DEF TakeLock
<1>2. base \in [Actors -> Bases] /\ pc \in [Actors -> Positions]
      /\ lock \in [Procs -> Actors \cup {Free}] /\ ProcOf[a] \in Procs
  BY DEF TransactionInv, ProfileInv, TypeOK, Bases, Procs
<1>3. Holds(a)' /\ pc'[a] = "capture" /\ base'[a].catalog = catalog /\ catalog # Torn
  BY <1>1, <1>2 DEF TakeLock, Goto, Holds, TransactionInv, TidyInv
<1>4. \A b \in Actors \ {a} : pc'[b] = pc[b] /\ base'[b] = base[b]
  BY <1>2 DEF TakeLock, Goto
<1>5. \A b \in Actors \ {a} : ~Holds(b)'
  BY <1>1, <1>2, <1>3 DEF TakeLock, Holds, Tidy
<1> QED BY <1>1, <1>3, <1>4, <1>5 DEF TransactionInv, TidyInv

LEMMA TidyNext ==
    ASSUME Tidy, TransactionInv, [Next]_vars
    PROVE  TidyInv'
<1>1. pc \in [Actors -> Positions] /\ lock \in [Procs -> Actors \cup {Free}]
      /\ \A b \in Actors : ProcOf[b] \in Procs
  BY DEF TransactionInv, ProfileInv, TypeOK, Procs
<1>2. CASE UNCHANGED vars \/ CoreStops
  BY <1>2 DEF vars, CoreStops, control, locking, TransactionInv, TidyInv, Holds
<1>3. ASSUME NEW t \in Tasks, NEW u \in Uids, NEW v \in Versions, BeginUpdate(t, u, v)
      PROVE  TidyInv'
  <2>1. pc'[t] = "wait" /\ \A b \in Actors \ {t} : pc'[b] = pc[b]
    BY <1>1, <1>3 DEF BeginUpdate, Goto, Actors
  <2> QED BY <1>3, <2>1 DEF BeginUpdate, locking, TransactionInv, TidyInv, Holds
<1>4. ASSUME NEW t \in Tasks, WaitLock(t)
      PROVE  TidyInv'
  BY <1>4, TakeTidy DEF WaitLock, Actors
<1>5. ASSUME NEW c \in Clients, NEW kind, NEW u, NEW v, NEW start,
             BeginTransaction(c, kind, u, v, start)
      PROVE  TidyInv'
  BY <1>5, TakeTidy DEF BeginTransaction, Actors
<1>6. ASSUME NEW c \in Clients, NEW u \in Uids, NEW start \in BOOLEAN,
             BeginSwitch(c, u, start) \/ BeginDelete(c, u)
      PROVE  TidyInv'
  BY <1>5, <1>6 DEF BeginSwitch, BeginDelete
<1>7. ASSUME NEW c \in Clients, NEW u \in Uids, NEW v \in Versions,
             BeginImport(c, u, v) \/ (\E start \in BOOLEAN : BeginActivate(c, u, v, start))
      PROVE  TidyInv'
  BY <1>5, <1>7 DEF BeginImport, BeginActivate
<1>8. ~(\E c \in Clients : \/ \E s \in Selections : BeginSelect(c, s)
                           \/ \E u \in Uids, v \in Versions : BeginImportLocal(c, u, v)
                           \/ BeginStart(c))
  BY DEF BeginSelect, BeginImportLocal, BeginStart, Begin, Tidy, Locked
<1>9. ASSUME NEW a \in Actors, Step(a)
      PROVE  TidyInv'
  <2>1. Holds(a)
    BY <1>9, WorkerHolds
  <2>2. \A b \in Actors \ {a} : ~Holds(b)
    BY <2>1, OneHolder
  <2>3. CASE Working(a)
    <3>1. /\ lock' = lock /\ base' = base /\ \A b \in Actors \ {a} : pc'[b] = pc[b]
          /\ dirty' = {}
      BY <2>2, <2>3, OnlyMine DEF Touch, TransactionInv, TidyInv
    <3> QED BY <2>1, <2>2, <3>1 DEF TransactionInv, TidyInv, Holds
  <2>4. CASE Release(a)
    <3>1. catalog # Torn
      BY <2>4, Outcome, TransactionAssumption DEF Release
    <3>2. \A b \in Actors : ~Holds(b)'
      BY <1>1, <2>1, <2>2, <2>4, TransactionAssumption DEF Release, Unlock, Holds, Tidy
    <3>3. pc'[a] = "idle" /\ \A b \in Actors \ {a} : pc'[b] = pc[b]
      BY <1>1, <2>4 DEF Release, Return, Goto
    <3>4. dirty' = {} /\ catalog' = catalog
      BY <2>4 DEF Release, Unlock, TransactionInv, TidyInv
    <3> QED BY <2>2, <3>1, <3>2, <3>3, <3>4 DEF TransactionInv, TidyInv
  <2> QED BY <1>9, <2>3, <2>4 DEF Working
<1>10. ~(\E t \in Tasks : Abort(t))
  BY DEF Abort, Tidy
<1> QED BY <1>2, <1>3, <1>4, <1>6, <1>7, <1>8, <1>9, <1>10 DEF Next
-----------------------------------------------------------------------------
(* The refinement.                                                          *)

\* AtomicProfiles speaks of the same catalogs.
LEMMA SameCatalog ==
    /\ \A c, u : Atomic!Has(c, u) <=> Has(c, u)
    /\ \A c : Atomic!Mains(c) = Mains(c)
    /\ \A c, u : Atomic!DeletedUids(c, u) = DeletedUids(c, u)
    /\ \A c, u : Atomic!NextCurrents(c, u) = NextCurrents(c, u)
    /\ \A c, u, n : Atomic!DeleteItem(c, u, n) = DeleteItem(c, u, n)
    /\ \A c, u : Atomic!SwitchCurrent(c, u) = SwitchCurrent(c, u)
    /\ \A c, u, v : Atomic!AppendMetadata(c, u, v) = AppendMetadata(c, u, v)
    /\ \A c, u, v : Atomic!PatchUpdated(c, u, v) = PatchUpdated(c, u, v)
    /\ Atomic!Catalogs = Catalogs /\ Atomic!Contents = Contents
  BY DEF Atomic!Has, Atomic!Mains, Atomic!DeletedUids, Atomic!NextCurrents, Atomic!DeleteItem,
         Atomic!SwitchCurrent, Atomic!AppendMetadata, Atomic!PatchUpdated, Atomic!Catalogs,
         Atomic!Contents, Atomic!Entries, Has, Mains, DeletedUids, NextCurrents, DeleteItem,
         SwitchCurrent, AppendMetadata, PatchUpdated, Catalogs, Contents, Entries

LEMMA StoreFree ==
    ASSUME \A a \in Actors : ~Holds(a)
    PROVE  Store = [catalog |-> catalog, file |-> file]
  BY DEF Store, Holders

LEMMA StoreHeld ==
    ASSUME Tidy, NEW a \in Actors, Holds(a)
    PROVE  Store = [catalog |-> base[a].catalog, file |-> base[a].file]
<1>1. \A b \in Actors : Holds(b) <=> b = a
  BY OneHolder
<1>2. Holders = {a}
  BY <1>1 DEF Holders
<1>3. (CHOOSE b \in {a} : TRUE) = a
  OBVIOUS
<1> QED BY <1>2, <1>3 DEF Store

LEMMA StoreStart ==
    ASSUME Init
    PROVE  Atomic!Init
<1>1. \A a \in Actors : ~Holds(a)
  <2>1. \A a \in Actors : ProcOf[a] \in Procs
    BY DEF Procs
  <2> QED BY <2>1, TransactionAssumption DEF Init, Holds
<1>2. Store = [catalog |-> catalog, file |-> file]
  BY <1>1, StoreFree
<1>3. catalog \in Catalogs /\ file \in [Uids -> Contents]
  BY InitKeeps DEF Init, Data
<1>4. Store \in Atomic!Stores
  BY <1>2, <1>3, SameCatalog DEF Atomic!Stores
<1>5. catalog.current # NoUid => catalog.current \in Mains(catalog)
  BY DEF Init, EmptyCatalog
<1>6. \A u \in Uids : Has(catalog, u) => file[u] \in Versions
  BY <1>3 DEF Init, Has, Catalogs, Entries
<1>7. Atomic!Sound(Store)
  BY <1>2, <1>5, <1>6, SameCatalog DEF Atomic!Sound
<1> QED BY <1>4, <1>7 DEF Atomic!Init

\* A released transaction is one step of AtomicProfiles, or none.
LEMMA ReleaseImplements ==
    ASSUME SwitchesMain, Tidy, TransactionInv, NEW a \in Actors, Release(a)
    PROVE  [Atomic!Next]_Store
<1> DEFINE op == work[a].op
           p == base[a].catalog
           f == base[a].file
<1>1. pc[a] \in Outcomes /\ Holds(a) /\ base[a] \in Bases /\ work[a].op \in Requests
      /\ work[a].op.kind \in Locked /\ work[a].op.uid \in Uids
      /\ (work[a].op.kind \in Writing => work[a].op.ver \in Versions)
  <2>1. pc[a] \in Outcomes
    BY DEF Release
  <2>2. Alone(a)
    BY <2>1, Outcome DEF Alone, TransactionInv, TidyInv
  <2> QED BY <2>1, <2>2, Here DEF TransactionInv, Alone
<1>2. Store = [catalog |-> p, file |-> f]
  BY <1>1, StoreHeld
<1>3. Store' = [catalog |-> catalog, file |-> file]
  <2>1. lock \in [Procs -> Actors \cup {Free}] /\ \A b \in Actors : ProcOf[b] \in Procs
    BY DEF TransactionInv, ProfileInv, TypeOK, Procs
  <2>2. \A b \in Actors \ {a} : ~Holds(b)
    BY <1>1, OneHolder
  <2>3. \A b \in Actors : ~Holds(b)'
    BY <1>1, <2>1, <2>2, TransactionAssumption DEF Release, Unlock, Holds, Tidy
  <2>4. catalog' = catalog /\ file' = file
    BY DEF Release
  <2>5. Holders' = {}
    BY <2>3 DEF Holders
  <2> QED BY <2>4, <2>5 DEF Store
<1>4. CASE catalog = p /\ file = f
  BY <1>2, <1>3, <1>4
<1>5. CASE /\ catalog \in Target(op, p) /\ file = FileThen(work[a], f)
           /\ Possible(op, p, f) /\ work[a].before = p
  <2>1. Asked(op)
    BY DEF TransactionInv, Named, Sane
  <2>2. Store.catalog = p /\ Store.file = f
    BY <1>2
  <2>3. CASE op.kind = "update"
    <3>1. /\ catalog = PatchUpdated(p, op.uid, op.ver) /\ file = [f EXCEPT ![op.uid] = op.ver]
          /\ op.uid \in Remote /\ Has(p, op.uid) /\ op.ver \in Versions
      BY <1>1, <1>5, <2>1, <2>3 DEF Target, Mutated, FileThen, FileNow, Possible, Asked, Writing
    <3> HIDE DEF op, p, f
    <3>2. Atomic!Update(op.uid, op.ver)
      BY <1>3, <2>2, <3>1, SameCatalog DEF Atomic!Update
    <3> QED BY <1>1, <3>1, <3>2 DEF Atomic!Next, op
  <2>4. CASE op.kind = "switch"
    <3>1. /\ catalog = SwitchCurrent(p, op.uid) /\ file = f
          /\ op.uid \in Remote \cup Local /\ Has(p, op.uid)
      BY <1>1, <1>5, <2>1, <2>4
         DEF Target, Mutated, FileThen, FileNow, Possible, Asked, Writing, SwitchesMain
    <3> HIDE DEF op, p, f
    <3>2. Atomic!Switch(op.uid)
      BY <1>2, <1>3, <3>1, SameCatalog DEF Atomic!Switch
    <3> QED BY <1>1, <3>1, <3>2 DEF Atomic!Next, op
  <2>5. CASE op.kind \in {"import", "activate"}
    <3>1. /\ catalog = IF op.kind = "activate"
                       THEN SwitchCurrent(AppendMetadata(p, op.uid, op.ver), op.uid)
                       ELSE AppendMetadata(p, op.uid, op.ver)
          /\ file = [f EXCEPT ![op.uid] = op.ver]
          /\ op.uid \in Remote /\ ~Has(p, op.uid) /\ f[op.uid] = NoFile /\ op.ver \in Versions
      BY <1>1, <1>5, <2>1, <2>5 DEF Target, Mutated, FileThen, FileNow, Possible, Asked, Writing
    <3> HIDE DEF op, p, f
    <3>2. Atomic!Import(op.uid, op.ver, op.kind = "activate")
      BY <1>3, <2>2, <3>1, SameCatalog DEF Atomic!Import
    <3>3. (op.kind = "activate") \in BOOLEAN
      OBVIOUS
    <3> QED BY <1>1, <3>1, <3>2, <3>3 DEF Atomic!Next, op
  <2>6. CASE op.kind = "delete"
    <3>1. /\ \E n \in NextCurrents(p, op.uid) : catalog = DeleteItem(p, op.uid, n)
          /\ Has(p, op.uid)
      BY <1>5, <2>6 DEF Target, Mutated, Possible
    <3>2. file = [d \in Uids |-> IF d \in DeletedUids(p, op.uid) THEN NoFile ELSE f[d]]
      BY <1>5, <2>6 DEF FileThen, Without, Snapped, SnapshotUids
    <3> HIDE DEF op, p, f
    <3>3. Atomic!Delete(op.uid)
      BY <1>3, <2>2, <3>1, <3>2, SameCatalog DEF Atomic!Delete
    <3> QED BY <1>1, <3>3 DEF Atomic!Next, op
  <2> QED BY <1>1, <2>3, <2>4, <2>5, <2>6 DEF Locked
<1> QED BY <1>4, <1>5, Outcome DEF Release

\* Every other step leaves the store as AtomicProfiles sees it.
LEMMA StepImplements ==
    ASSUME SwitchesMain, Tidy, TransactionInv, [Next]_vars
    PROVE  [Atomic!Next]_Store
<1>1. CASE UNCHANGED <<lock, base, catalog, file>>
  <2>1. Store' = Store
    BY <1>1 DEF Store, Holders, Holds
  <2> QED BY <2>1
<1>2. ASSUME NEW a \in Actors, TakeLock(a), UNCHANGED <<catalog, file>>
      PROVE  [Atomic!Next]_Store
  <2>1. base \in [Actors -> Bases] /\ lock \in [Procs -> Actors \cup {Free}]
        /\ \A b \in Actors : ProcOf[b] \in Procs
    BY DEF TransactionInv, ProfileInv, TypeOK, Bases, Procs
  <2>2. \A b \in Actors : ~Holds(b)
    BY <1>2, FreeLock DEF TakeLock
  <2>3. \A b \in Actors : Holds(b)' <=> b = a
    BY <1>2, <2>1, <2>2 DEF TakeLock, Holds, Tidy
  <2>4. Holders' = {a}
    BY <2>3 DEF Holders
  <2>5. base'[a].catalog = catalog /\ base'[a].file = file
    BY <1>2, <2>1 DEF TakeLock
  <2>6. (CHOOSE b \in {a} : TRUE) = a
    OBVIOUS
  <2>7. Store' = [catalog |-> catalog, file |-> file]
    BY <2>4, <2>5, <2>6 DEF Store
  <2>8. Store = [catalog |-> catalog, file |-> file]
    BY <2>2, StoreFree
  <2> QED BY <2>7, <2>8
<1>3. ASSUME NEW a \in Actors, Step(a)
      PROVE  [Atomic!Next]_Store
  <2>1. Holds(a)
    BY <1>3, WorkerHolds
  <2>2. CASE Working(a)
    <3>1. lock' = lock /\ base' = base
      BY <2>2, OnlyMine DEF TransactionInv
    <3>2. Holders' = Holders /\ Holders # {}
      BY <2>1, <3>1 DEF Holders, Holds
    <3>3. Store' = Store
      BY <3>1, <3>2 DEF Store
    <3> QED BY <3>3
  <2>3. CASE Release(a)
    BY <2>3, ReleaseImplements
  <2> QED BY <1>3, <2>2, <2>3 DEF Working
<1>4. CASE UNCHANGED vars \/ CoreStops
  BY <1>1, <1>4 DEF vars, CoreStops, control, locking
<1>5. ASSUME NEW c \in Clients, NEW kind, NEW u, NEW v, NEW start,
             BeginTransaction(c, kind, u, v, start)
      PROVE  [Atomic!Next]_Store
  BY <1>2, <1>5 DEF BeginTransaction, Actors
<1>6. ASSUME NEW t \in Tasks, WaitLock(t)
      PROVE  [Atomic!Next]_Store
  BY <1>2, <1>6 DEF WaitLock, Actors
<1>7. ASSUME NEW t \in Tasks, NEW u \in Uids, NEW v \in Versions, BeginUpdate(t, u, v)
      PROVE  [Atomic!Next]_Store
  BY <1>1, <1>7 DEF BeginUpdate, locking
<1>8. ASSUME NEW c \in Clients,
             \/ \E u \in Uids, start \in BOOLEAN : BeginSwitch(c, u, start)
             \/ \E u \in Uids : BeginDelete(c, u)
             \/ \E u \in Uids, v \in Versions :
                   BeginImport(c, u, v) \/ \E start \in BOOLEAN : BeginActivate(c, u, v, start)
      PROVE  [Atomic!Next]_Store
  BY <1>5, <1>8 DEF BeginSwitch, BeginDelete, BeginImport, BeginActivate
<1>9. ASSUME NEW c \in Clients,
             \/ \E u \in Uids, v \in Versions : BeginImportLocal(c, u, v)
             \/ \E s \in Selections : BeginSelect(c, s)
             \/ BeginStart(c)
      PROVE  [Atomic!Next]_Store
  BY <1>1, <1>9 DEF BeginImportLocal, BeginSelect, BeginStart, locking
<1>10. ~(\E t \in Tasks : Abort(t))
  BY DEF Abort, Tidy
<1> QED BY <1>3, <1>4, <1>6, <1>7, <1>8, <1>9, <1>10 DEF Next

\* The invariant of the tidy world.
THEOREM TidyInvariant == ASSUME SwitchesMain, Tidy PROVE Spec => []TransactionInv
<1>1. Init => Named /\ TidyInv
  BY NamedStart, TidyStart
<1>2. TransactionInv /\ [Next]_vars => Named' /\ TidyInv'
  BY NamedNext, TidyNext DEF TransactionInv
<1>3. TransactionInv <=> (ProfileInv /\ Tracked) /\ Named /\ TidyInv
  BY DEF TransactionInv
<1> QED BY <1>1, <1>2, <1>3, TransactionsTracked, PTL DEF Spec

\* Transactions are atomic: whatever fails on the way, and however often updates
\* wait for the lock, the files change as if every operation were one step that
\* happens or does not.
THEOREM TransactionsRefine == ASSUME SwitchesMain, Tidy PROVE Spec => TransactionsAreAtomic
<1>1. Init => Atomic!Init
  BY StoreStart
<1>2. TransactionInv /\ [Next]_vars => [Atomic!Next]_Store
  BY StepImplements
<1> QED BY <1>1, <1>2, TidyInvariant, PTL DEF Spec, TransactionsAreAtomic, Atomic!Spec

\* The theorems about AtomicProfiles, read for the store.
Promise == INSTANCE AtomicProofs WITH store <- Store

\* The constants of the store are constants AtomicProfiles allows.
LEMMA PromiseAssumption == Promise!CatalogAssumption
  BY CatalogAssumption DEF Promise!CatalogAssumption, Promise!Entries, Entries

\* The two instances of AtomicProfiles, the model's and the proofs', say the same.
LEMMA SamePromise ==
    /\ Atomic!Init => Promise!Init
    /\ [Atomic!Next]_Store => [Promise!Next]_Store
    /\ Promise!AlwaysSound => Atomic!Sound(Store)
<1>1. /\ \A c, u : Promise!Has(c, u) <=> Atomic!Has(c, u)
      /\ \A c : Promise!Mains(c) = Atomic!Mains(c)
      /\ \A c, u : Promise!DeletedUids(c, u) = Atomic!DeletedUids(c, u)
      /\ \A c, u : Promise!NextCurrents(c, u) = Atomic!NextCurrents(c, u)
      /\ \A c, u, n : Promise!DeleteItem(c, u, n) = Atomic!DeleteItem(c, u, n)
      /\ \A c, u : Promise!SwitchCurrent(c, u) = Atomic!SwitchCurrent(c, u)
      /\ \A c, u, v : Promise!AppendMetadata(c, u, v) = Atomic!AppendMetadata(c, u, v)
      /\ \A c, u, v : Promise!PatchUpdated(c, u, v) = Atomic!PatchUpdated(c, u, v)
      /\ Promise!Stores = Atomic!Stores
  BY DEF Atomic!Has, Atomic!Mains, Atomic!DeletedUids, Atomic!NextCurrents, Atomic!DeleteItem,
         Atomic!SwitchCurrent, Atomic!AppendMetadata, Atomic!PatchUpdated, Atomic!Catalogs,
         Atomic!Contents, Atomic!Entries, Atomic!Stores,
         Promise!Has, Promise!Mains, Promise!DeletedUids, Promise!NextCurrents,
         Promise!DeleteItem, Promise!SwitchCurrent, Promise!AppendMetadata,
         Promise!PatchUpdated, Promise!Catalogs, Promise!Contents, Promise!Entries,
         Promise!Stores
<1>2. \A s : Promise!Sound(s) <=> Atomic!Sound(s)
  BY <1>1 DEF Promise!Sound, Atomic!Sound
<1>3. Atomic!Init => Promise!Init
  BY <1>1, <1>2 DEF Promise!Init, Atomic!Init
<1>4. /\ \A u, v : Atomic!Update(u, v) => Promise!Update(u, v)
      /\ \A u : Atomic!Switch(u) => Promise!Switch(u)
      /\ \A u, v, b : Atomic!Import(u, v, b) => Promise!Import(u, v, b)
      /\ \A u : Atomic!Delete(u) => Promise!Delete(u)
  BY <1>1 DEF Atomic!Update, Atomic!Switch, Atomic!Import, Atomic!Delete,
              Promise!Update, Promise!Switch, Promise!Import, Promise!Delete
<1>5. Atomic!Next => Promise!Next
  BY <1>4 DEF Atomic!Next, Promise!Next
<1> QED BY <1>2, <1>3, <1>5 DEF Promise!AlwaysSound

\* In a tidy world no import, switch, update or delete, whether it commits or is
\* rolled back, leaves a current profile without entry or without a complete file:
\* it follows from what AtomicProfiles promises and the refinement.
THEOREM NeverMisleading == ASSUME SwitchesMain, Tidy PROVE Spec => []NoMisleadingCurrent
<1>1. TransactionInv /\ Atomic!Sound(Store) => NoMisleadingCurrent
  <2> SUFFICES ASSUME TransactionInv, Atomic!Sound(Store), Quiet
               PROVE  NoMisleadingCurrent
    BY DEF NoMisleadingCurrent
  <2>1. \A a \in Actors : ~Holds(a)
    BY DEF Quiet, TransactionInv, ProfileInv, LockIsHeldInTransactions, InTransaction
  <2>2. Store = [catalog |-> catalog, file |-> file]
    BY <2>1, StoreFree
  <2>3. catalog.current # NoUid => catalog.current \in Mains(catalog)
        /\ \A u \in Uids : Has(catalog, u) => file[u] \in Versions
    BY <2>2, SameCatalog DEF Atomic!Sound
  <2> QED BY <2>3, CatalogAssumption DEF NoMisleadingCurrent, Mains
<1>2. Atomic!Init => Promise!Init
  BY SamePromise
<1>3. [Atomic!Next]_Store => [Promise!Next]_Store
  BY SamePromise
<1>4. Promise!AlwaysSound => Atomic!Sound(Store)
  BY SamePromise
<1>5. Promise!Spec => []Promise!AlwaysSound
  BY PromiseAssumption, Promise!AtomicSound, PTL
<1> QED BY <1>1, <1>2, <1>3, <1>4, <1>5, TransactionsRefine, TidyInvariant, PTL
        DEF TransactionsAreAtomic, Atomic!Spec, Promise!Spec
=============================================================================
