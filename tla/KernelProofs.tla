---------------------------- MODULE KernelProofs ----------------------------
(***************************************************************************)
(* Proofs about Kernel, for any actors, processes, operations and cores.   *)
(***************************************************************************)
EXTENDS Kernel, FiniteSetTheorems, TLAPS

-----------------------------------------------------------------------------
(* The inductive invariant, of an actor at position l with the variables w, *)
(* which holds the lock of its process or not (h), and of a manager i.      *)

Passing == {"refresh", "removePid", "removeOwner"}

\* Where an actor is, or where a refresh or a removal of the markers leads it.
Heading(l, w) == IF l \in Passing THEN w.next ELSE l

\* Only the holder of the operation lock gets here; from "spawn" on it has taken
\* the child away, or found none; a busy one settles the state before it leaves.
LockedPositions ==
    {"begin", "spawn", "writePid", "writeOwner", "publish", "cleanup", "shutdown", "take", "stopChild",
     "findPid", "signal", "waitPid", "setStopped", "foreground", "setUnhealthy"}
ChildlessPositions == LockedPositions \ {"begin", "take"}
BusyPositions == LockedPositions \ {"begin", "foreground", "shutdown", "setUnhealthy"}
LookPositions == {"look", "exists", "version", "decide"}

Changing == {"Starting", "Stopping", "Restarting"}
Answering == {"Running", "Unhealthy"}
Unsettled(i) == i.job \/ i.shown.state \in Changing

\* What an actor remembers fits its position.
PlacedAt(l, w, h) ==
    /\ l = "idle" => ~h
    /\ l = "refresh" => w.next \in {"look", "begin", "done", "probe"}
    /\ l \in {"removePid", "removeOwner"} =>
          w.next \in {"look", "begin", "done", "probe", "decide", "spawn", "setStopped", "setUnhealthy"}
    /\ l \in OwnChild \cup {"exists", "version", "signal", "waitPid"} => w.pid \in Pids
    /\ l \in {"take", "stopChild"} => w.then # "removeAgain"

\* The lock, and the child it protects: a holder that looks for a core of another
\* process has seen what the manager shows.
GuardedAt(l, w, h, child) ==
    /\ Heading(l, w) \in LockedPositions => h
    /\ Heading(l, w) \in ChildlessPositions => child = NoPid
    /\ h /\ Heading(l, w) \in LookPositions =>
          /\ w.op = "start" => child = NoPid
          /\ l # "refresh" => child = NoPid \/ w.seen.state \in Answering
          /\ Heading(l, w) \in {"exists", "version"} => child = NoPid
          /\ l # "refresh" /\ ~SignalFaults => w.seen.state \notin Changing

\* A manager shows its child, and an operation under way settles its state.
ManagedAt(i, h, l, w) ==
    /\ i.child # NoPid =>
          /\ i.shown.pid = i.child
          /\ i.shown.owner = "Detached"
          /\ i.shown.state \in Answering \/ (h /\ l = "take" /\ i.shown.state \in Changing)
    /\ Unsettled(i) /\ ~SignalFaults => h /\ Heading(l, w) \in BusyPositions

Placed(a) == PlacedAt(pc[a], work[a], Holds(a))
Guarded(a) == GuardedAt(pc[a], work[a], Holds(a), In(a).child)
Managed(p) ==
    /\ oplock[p] # Free => ProcOf[oplock[p]] = p
    /\ ManagedAt(inner[p], oplock[p] # Free, pc[oplock[p]], work[oplock[p]])

KernelInv ==
    /\ TypeOK
    /\ \A a \in Actors : Placed(a) /\ Guarded(a)
    /\ \A p \in Procs : Managed(p)

-----------------------------------------------------------------------------
(* A step of one actor.                                                     *)

\* The variables that no part of the invariant but the types is about.
World ==
    /\ pidFile \in Pids \cup {NoPid}
    /\ marker \in [pid : Pids, owner : {"Detached", "Supervised"}] \cup {NoMarker}
    /\ proc \in [Pids -> {"none", "running", "zombie", "gone"}]
    /\ ops \in 0..MaxOps /\ ends \in 0..MaxEnds

\* Actor a goes to l with the variables w, its manager is i, and o holds its lock.
Moved(a, l, w, i, o) ==
    /\ pc' = [pc EXCEPT ![a] = l]
    /\ work' = [work EXCEPT ![a] = w]
    /\ inner' = [inner EXCEPT ![ProcOf[a]] = i]
    /\ oplock' = [oplock EXCEPT ![ProcOf[a]] = o]

\* What an actor without the lock may do to a manager.
Harmless(i, j) ==
    /\ Unsettled(j) => Unsettled(i)
    /\ j.child # NoPid =>
          /\ j.child = i.child /\ j.shown.pid = i.shown.pid /\ j.shown.owner = i.shown.owner
          /\ j.shown.state \in Answering \cup {i.shown.state}

\* The lock is kept, taken, released, or of no concern.
Allowed(a, l, w, i, o) ==
    \/ o = a /\ oplock[ProcOf[a]] \in {a, Free} /\ ManagedAt(i, TRUE, l, w)
       /\ (oplock[ProcOf[a]] = Free => i.child \in {In(a).child, NoPid})
    \/ o = Free /\ Holds(a) /\ ManagedAt(i, FALSE, l, w)
    \/ o = oplock[ProcOf[a]] /\ ~Holds(a) /\ Harmless(In(a), i)

\* The process of an actor is a process, and no actor is Free.
LEMMA ActorFacts ==
    ASSUME NEW a \in Actors
    PROVE  ProcOf[a] \in Procs /\ a # Free
BY KernelAssumption DEF Procs, Actors

\* A move that is right where it happens leaves the other actors and processes right.
LEMMA Moves ==
    ASSUME KernelInv, NEW a \in Actors, NEW l \in Positions, NEW w \in Works, NEW i \in Inners,
           NEW o \in Actors \cup {Free},
           Moved(a, l, w, i, o), World', PlacedAt(l, w, o = a), GuardedAt(l, w, o = a, i.child),
           Allowed(a, l, w, i, o)
    PROVE  KernelInv'
<1> DEFINE P == ProcOf[a]
<1>0. P \in Procs /\ a # Free /\ Free \notin Actors
  BY ActorFacts, KernelAssumption
<1>1. TypeOK'
  BY <1>0 DEF KernelInv, TypeOK, Moved, World
<1>2. /\ pc'[a] = l /\ work'[a] = w /\ inner'[P] = i /\ oplock'[P] = o
      /\ \A b \in Actors \ {a} : pc'[b] = pc[b] /\ work'[b] = work[b]
      /\ \A p \in Procs \ {P} : inner'[p] = inner[p] /\ oplock'[p] = oplock[p]
  BY <1>0 DEF KernelInv, TypeOK, Moved
<1>3. o \in {oplock[P], a, Free} /\ (o # oplock[P] => oplock[P] \in {a, Free})
      /\ (o = Free => oplock[P] \in {a, Free})
  BY <1>0 DEF Allowed, Holds
<1>4. ASSUME NEW b \in Actors  PROVE (Placed(b) /\ Guarded(b))'
  <2>1. CASE b = a
    BY <1>2, <2>1 DEF Placed, Guarded, Holds, In
  <2>2. CASE b # a
    <3>1. Placed(b) /\ Guarded(b)
      BY DEF KernelInv
    <3>2. pc'[b] = pc[b] /\ work'[b] = work[b]
      BY <1>2, <2>2
    <3>3. (oplock'[ProcOf[b]] = b) <=> Holds(b)
      BY <1>0, <1>2, <1>3, <2>2, ActorFacts DEF Holds
    <3>4. CASE ProcOf[b] # P
      <4>1. inner'[ProcOf[b]] = inner[ProcOf[b]]
        BY <1>2, <3>4, ActorFacts
      <4> QED  BY <3>1, <3>2, <3>3, <4>1 DEF Placed, Guarded, Holds, In
    <3>5. CASE ProcOf[b] = P
      <4>1. Holds(b) => i.child \in {In(b).child, NoPid}
        BY <1>0, <2>2, <3>5 DEF Allowed, Holds, Harmless, In
      <4>2. GuardedAt(pc[b], work[b], Holds(b), i.child)
        BY <3>1, <4>1 DEF Guarded, GuardedAt, ChildlessPositions
      <4> QED  BY <1>2, <3>1, <3>2, <3>3, <3>5, <4>2 DEF Placed, Guarded, Holds, In
    <3> QED  BY <3>4, <3>5
  <2> QED  BY <2>1, <2>2
<1>5. ASSUME NEW p \in Procs  PROVE Managed(p)'
  <2>1. Managed(p) /\ (oplock[p] # Free => oplock[p] \in Actors)
    BY DEF KernelInv, TypeOK
  <2>2. CASE p # P
    <3>1. inner'[p] = inner[p] /\ oplock'[p] = oplock[p]
      BY <1>2, <2>2
    <3>2. oplock[p] # a
      BY <1>0, <2>1, <2>2 DEF Managed
    <3>3. oplock[p] # Free => pc'[oplock[p]] = pc[oplock[p]] /\ work'[oplock[p]] = work[oplock[p]]
      BY <1>2, <2>1, <3>2
    <3> QED  BY <2>1, <3>1, <3>3 DEF Managed, ManagedAt
  <2>3. CASE p = P
    <3>1. CASE o = a
      <4>1. ManagedAt(i, TRUE, l, w)
        BY <1>0, <3>1 DEF Allowed, Holds
      <4> QED  BY <1>0, <1>2, <2>3, <3>1, <4>1 DEF Managed
    <3>2. CASE o = Free /\ Holds(a)
      <4>1. ManagedAt(i, FALSE, l, w)
        BY <1>0, <3>2 DEF Allowed
      <4> QED  BY <1>2, <2>3, <3>2, <4>1 DEF Managed, ManagedAt
    <3>3. CASE o = oplock[P] /\ ~Holds(a)
      <4>1. Harmless(inner[P], i)
        BY <1>0, <3>3 DEF Allowed, In, Holds
      <4>2. o # Free => pc'[o] = pc[o] /\ work'[o] = work[o]
        BY <1>2, <3>3 DEF Holds
      <4>3. ManagedAt(i, o # Free, pc[o], work[o])
        BY <2>1, <2>3, <3>3, <4>1 DEF Managed, ManagedAt, Harmless
      <4>4. ManagedAt(i, o # Free, pc'[o], work'[o])
        BY <4>2, <4>3 DEF ManagedAt
      <4>5. o # Free => ProcOf[o] = P
        BY <2>1, <2>3, <3>3 DEF Managed
      <4> QED  BY <1>2, <2>3, <4>4, <4>5 DEF Managed
    <3> QED  BY <3>1, <3>2, <3>3 DEF Allowed
  <2> QED  BY <2>2, <2>3
<1> QED  BY <1>1, <1>4, <1>5 DEF KernelInv

\* The invariant, where an actor is.
LEMMA Here ==
    ASSUME KernelInv, NEW a \in Actors
    PROVE  /\ pc[a] \in Positions /\ work[a] \in Works /\ In(a) \in Inners
           /\ oplock[ProcOf[a]] \in Actors \cup {Free} /\ a # Free /\ ProcOf[a] \in Procs
           /\ PlacedAt(pc[a], work[a], Holds(a))
           /\ GuardedAt(pc[a], work[a], Holds(a), In(a).child)
           /\ Holds(a) => ManagedAt(In(a), TRUE, pc[a], work[a])
           /\ oplock[ProcOf[a]] = Free => ManagedAt(In(a), FALSE, "idle", Rest)
           /\ World
<1>1. a # Free /\ ProcOf[a] \in Procs
  BY ActorFacts
<1>2. TypeOK /\ Placed(a) /\ Guarded(a) /\ Managed(ProcOf[a])
  BY <1>1 DEF KernelInv
<1>3. Holds(a) => ManagedAt(In(a), TRUE, pc[a], work[a])
  BY <1>1, <1>2 DEF Managed, Holds, In
<1>4. oplock[ProcOf[a]] = Free => ManagedAt(In(a), FALSE, "idle", Rest)
  BY <1>2 DEF Managed, ManagedAt, In
<1> QED  BY <1>1, <1>2, <1>3, <1>4 DEF TypeOK, World, Placed, Guarded, In

\* What an update at a point leaves alone, it writes again.
LEMMA Rewritten ==
    ASSUME KernelInv, NEW a \in Actors
    PROVE  /\ pc = [pc EXCEPT ![a] = pc[a]] /\ work = [work EXCEPT ![a] = work[a]]
           /\ inner = [inner EXCEPT ![ProcOf[a]] = In(a)]
           /\ oplock = [oplock EXCEPT ![ProcOf[a]] = oplock[ProcOf[a]]]
BY ActorFacts DEF KernelInv, TypeOK, In

\* A step that keeps the lock as it is.
LEMMA Walks ==
    ASSUME KernelInv, NEW a \in Actors, NEW l \in Positions, NEW w \in Works, NEW i \in Inners,
           pc' = [pc EXCEPT ![a] = l], work' = [work EXCEPT ![a] = w],
           inner' = [inner EXCEPT ![ProcOf[a]] = i], UNCHANGED oplock, World',
           PlacedAt(l, w, Holds(a)), GuardedAt(l, w, Holds(a), i.child),
           Holds(a) => ManagedAt(i, TRUE, l, w),
           ~Holds(a) => Harmless(In(a), i)
    PROVE  KernelInv'
<1> DEFINE o == oplock[ProcOf[a]]
<1>1. Moved(a, l, w, i, o)
  BY Rewritten DEF Moved
<1>2. o \in Actors \cup {Free}
  BY Here
<1>3. (o = a) <=> Holds(a)
  BY DEF Holds
<1>4. Allowed(a, l, w, i, o)
  BY <1>3, ActorFacts DEF Allowed, Holds
<1>5. PlacedAt(l, w, o = a) /\ GuardedAt(l, w, o = a, i.child)
  BY <1>3 DEF PlacedAt, GuardedAt
<1> HIDE DEF o
<1> QED  BY <1>1, <1>2, <1>4, <1>5, Moves

\* A step that leaves the manager alone too.
LEMMA Strolls ==
    ASSUME KernelInv, NEW a \in Actors, NEW l \in Positions, NEW w \in Works,
           pc' = [pc EXCEPT ![a] = l], work' = [work EXCEPT ![a] = w], UNCHANGED <<inner, oplock>>,
           World', PlacedAt(l, w, Holds(a)), GuardedAt(l, w, Holds(a), In(a).child),
           Holds(a) => ManagedAt(In(a), TRUE, l, w)
    PROVE  KernelInv'
<1>1. inner' = [inner EXCEPT ![ProcOf[a]] = In(a)] /\ In(a) \in Inners
  BY Rewritten, Here
<1>2. Harmless(In(a), In(a))
  BY DEF Harmless
<1> QED  BY <1>1, <1>2, Walks

\* An operation that ends leaves a settled state.
LEMMA Finishes ==
    ASSUME KernelInv, NEW a \in Actors, NEW i \in Inners,
           Finish(a), inner' = [inner EXCEPT ![ProcOf[a]] = i], World',
           Holds(a) => ManagedAt(i, FALSE, "idle", Rest),
           ~Holds(a) => Harmless(In(a), i)
    PROVE  KernelInv'
<1>1. "idle" \in Positions /\ Rest \in Works
  BY DEF Positions, Rest, Works, Snapshots, Stopped, States
<1>2. \A c : PlacedAt("idle", Rest, FALSE) /\ GuardedAt("idle", Rest, FALSE, c)
  BY DEF PlacedAt, GuardedAt, Heading, Passing, LockedPositions, ChildlessPositions, LookPositions, OwnChild
<1>3. CASE Holds(a)
  <2>1. Moved(a, "idle", Rest, i, Free)
    BY <1>3 DEF Finish, Goto, Keep, Moved
  <2>2. Allowed(a, "idle", Rest, i, Free)
    BY <1>3 DEF Allowed, ManagedAt
  <2>3. (Free = a) <=> FALSE
    BY ActorFacts
  <2>4. PlacedAt("idle", Rest, Free = a) /\ GuardedAt("idle", Rest, Free = a, i.child)
    BY <1>2, <2>3
  <2> QED  BY <1>1, <2>1, <2>2, <2>4, Moves
<1>4. CASE ~Holds(a)
  <2>1. UNCHANGED oplock
    BY <1>4 DEF Finish
  <2>2. PlacedAt("idle", Rest, Holds(a)) /\ GuardedAt("idle", Rest, Holds(a), i.child)
    BY <1>2, <1>4 DEF PlacedAt, GuardedAt
  <2> QED  BY <1>1, <1>4, <2>1, <2>2, Walks DEF Finish, Goto, Keep
<1> QED  BY <1>3, <1>4

\* The writes to a manager: what they set and what they leave.
LEMMA Writes ==
    ASSUME NEW i \in Inners
    PROVE  /\ \A s \in States :
                /\ JobState(i, s) \in Inners /\ JobState(i, s).child = i.child
                /\ JobState(i, s).shown.state = s /\ JobState(i, s).job
                /\ JobState(i, s).shown.pid = i.shown.pid /\ JobState(i, s).shown.owner = i.shown.owner
           /\ StoppedInner(i) \in Inners /\ StoppedInner(i).child = i.child
           /\ StoppedInner(i).shown = Stopped /\ ~StoppedInner(i).job
           /\ UnhealthyInner(i) \in Inners /\ UnhealthyInner(i).child = i.child
           /\ UnhealthyInner(i).shown.state = "Unhealthy" /\ ~UnhealthyInner(i).job
<1>1. i.shown \in Snapshots /\ Stopped \in Snapshots
      /\ {0, HealthFailureThreshold} \subseteq 0..HealthFailureThreshold
  BY DEF Inners, Snapshots, Stopped, States, HealthFailureThreshold
<1>2. \A s \in States : [i.shown EXCEPT !.state = s] \in Snapshots
  BY <1>1 DEF Snapshots
<1>3. \A s \in States :
        /\ JobState(i, s) \in Inners /\ JobState(i, s).child = i.child
        /\ JobState(i, s).shown.state = s /\ JobState(i, s).job
        /\ JobState(i, s).shown.pid = i.shown.pid /\ JobState(i, s).shown.owner = i.shown.owner
  BY <1>1, <1>2 DEF JobState, Inners, Snapshots
<1>4. StoppedInner(i) \in Inners /\ StoppedInner(i).child = i.child
      /\ StoppedInner(i).shown = Stopped /\ ~StoppedInner(i).job
  BY <1>1 DEF StoppedInner, Inners
<1>5. UnhealthyInner(i) \in Inners /\ UnhealthyInner(i).child = i.child
      /\ UnhealthyInner(i).shown.state = "Unhealthy" /\ ~UnhealthyInner(i).job
  <2> DEFINE u == [i.shown EXCEPT !.state = "Unhealthy"]
  <2>1. u \in Snapshots /\ u.state = "Unhealthy"
    BY <1>1, <1>2 DEF Snapshots, States
  <2>2. UnhealthyInner(i) = [i EXCEPT !.shown = u, !.job = FALSE, !.failures = HealthFailureThreshold]
    BY <1>1 DEF UnhealthyInner, Inners, Snapshots
  <2> HIDE DEF u
  <2> QED  BY <1>1, <2>1, <2>2 DEF Inners
<1> QED  BY <1>3, <1>4, <1>5

-----------------------------------------------------------------------------
(* Every action keeps the invariant.                                        *)

\* The manager may see its child gone, or cannot tell.
LEMMA Waited ==
    ASSUME NEW i \in Inners, NEW j \in {Refreshed(i)} \cup TryWaitFails(i)
    PROVE  /\ j \in Inners /\ j.child \in {i.child, NoPid} /\ j.job = i.job
           /\ j.shown.state \in Answering \cup {i.shown.state, "Crashed"}
           /\ j.child # NoPid => j.shown.pid = i.shown.pid /\ j.shown.owner = i.shown.owner
                                /\ j.shown.state \in Answering \cup {i.shown.state}
           /\ i.child = NoPid => j = i
<1>1. i.shown \in Snapshots /\ NoPid \in Pids \cup {NoPid} /\ 0 \in 0..HealthFailureThreshold
  BY DEF Inners, HealthFailureThreshold
<1>2. CASE j = i
  BY <1>1, <1>2
<1>3. CASE j = [i EXCEPT !.child = NoPid]
  BY <1>1, <1>3 DEF Inners
<1>4. CASE j = [i EXCEPT !.child = NoPid, !.shown.state = "Crashed", !.shown.pid = NoPid, !.failures = 0]
           /\ i.child # NoPid
  <2>1. [i.shown EXCEPT !.state = "Crashed", !.pid = NoPid] \in Snapshots
    BY <1>1 DEF Snapshots, States
  <2>2. j = [i EXCEPT !.child = NoPid, !.shown = [i.shown EXCEPT !.state = "Crashed", !.pid = NoPid], !.failures = 0]
    BY <1>1, <1>4 DEF Inners, Snapshots
  <2>3. j \in Inners /\ j.child = NoPid /\ j.job = i.job
    BY <1>1, <2>1, <2>2 DEF Inners
  <2>4. j.shown.state = "Crashed"
    BY <1>1, <2>2 DEF Inners, Snapshots
  <2> QED  BY <1>4, <2>3, <2>4
<1>5. ASSUME NEW s \in Answering, j = [i EXCEPT !.shown.state = s], i.child # NoPid
      PROVE  /\ j \in Inners /\ j.child = i.child /\ j.job = i.job /\ j.shown.state = s
             /\ j.shown.pid = i.shown.pid /\ j.shown.owner = i.shown.owner
  <2>1. [i.shown EXCEPT !.state = s] \in Snapshots
    BY <1>1 DEF Snapshots, States, Answering
  <2> QED  BY <1>1, <1>5, <2>1 DEF Inners, Snapshots
<1>6. CASE j \in TryWaitFails(i)
  BY <1>5, <1>6 DEF TryWaitFails, Answering
<1>7. CASE j = Refreshed(i)
  BY <1>2, <1>3, <1>4, <1>5, <1>7 DEF Refreshed, Answering
<1> QED  BY <1>6, <1>7

\* An operation begins, and the monitor ticks, without the lock.
LEMMA BeginKeeps ==
    ASSUME KernelInv, NEW c \in Clients, NEW op \in AllKinds, Begin(c, op)
    PROVE  KernelInv'
<1> DEFINE l == IF op \in Foregrounds THEN "tryLock" ELSE "refresh"
           w == [Rest EXCEPT !.op = op, !.next = "look"]
<1>1. c \in Actors /\ ~Holds(c)
  BY Here DEF Actors, PlacedAt, Begin
<1>2. l \in Positions /\ w \in Works /\ w.next = "look"
  BY DEF Positions, Works, Rest, Stopped, Snapshots, States
<1>3. World'
  <2>1. World
    BY <1>1, Here
  <2>2. ops' \in 0..MaxOps
    BY <2>1, KernelAssumption DEF World, Begin
  <2> QED  BY <2>1, <2>2 DEF World, Begin, files
<1>4. PlacedAt(l, w, Holds(c)) /\ GuardedAt(l, w, Holds(c), In(c).child)
  BY <1>1, <1>2 DEF PlacedAt, GuardedAt, Heading, Passing, LockedPositions, ChildlessPositions,
     LookPositions, OwnChild
<1>5. pc' = [pc EXCEPT ![c] = l] /\ work' = [work EXCEPT ![c] = w] /\ UNCHANGED <<inner, oplock>>
  BY DEF Begin, Goto, Keep
<1> HIDE DEF l, w
<1> QED  BY <1>1, <1>2, <1>3, <1>4, <1>5, Strolls

LEMMA TickKeeps ==
    ASSUME KernelInv, NEW m \in Monitors, Tick(m)
    PROVE  KernelInv'
<1> DEFINE l == "refresh"
           w == [Rest EXCEPT !.op = "health", !.next = "probe"]
<1>1. m \in Actors /\ ~Holds(m)
  BY Here DEF Actors, PlacedAt, Tick
<1>2. l \in Positions /\ w \in Works /\ w.next = "probe"
  BY DEF Positions, Works, Rest, Stopped, Snapshots, States
<1>3. World'
  BY <1>1, Here DEF World, Tick, files, bounds
<1>4. PlacedAt(l, w, Holds(m)) /\ GuardedAt(l, w, Holds(m), In(m).child)
  BY <1>1, <1>2 DEF PlacedAt, GuardedAt, Heading, Passing, LockedPositions, ChildlessPositions,
     LookPositions, OwnChild
<1>5. pc' = [pc EXCEPT ![m] = l] /\ work' = [work EXCEPT ![m] = w] /\ UNCHANGED <<inner, oplock>>
  BY DEF Tick, Goto, Keep
<1> HIDE DEF l, w
<1> QED  BY <1>1, <1>2, <1>3, <1>4, <1>5, Strolls

\* A refresh shows a child that answers, or none, to whoever asked for it.
LEMMA RefreshKeeps ==
    ASSUME KernelInv, NEW a \in Actors, Refresh(a)
    PROVE  KernelInv'
<1>1. PICK i \in {Refreshed(In(a))} \cup TryWaitFails(In(a)) :
        /\ pc[a] = "refresh"
        /\ SetInner(a, i)
        /\ proc' = IF In(a).child # i.child THEN [proc EXCEPT ![In(a).child] = "gone"] ELSE proc
        /\ Goto(a, IF i.shown # In(a).shown /\ i.shown.state = "Crashed" THEN "removePid" ELSE work[a].next)
        /\ IF work[a].next = "look" THEN Keep(a, [work[a] EXCEPT !.seen = i.shown]) ELSE UNCHANGED work
        /\ UNCHANGED <<oplock, files, bounds>>
  BY DEF Refresh
<1> DEFINE l == IF i.shown # In(a).shown /\ i.shown.state = "Crashed" THEN "removePid" ELSE work[a].next
           w == IF work[a].next = "look" THEN [work[a] EXCEPT !.seen = i.shown] ELSE work[a]
           h == Holds(a)
<1>2. /\ In(a) \in Inners /\ work[a] \in Works /\ World
      /\ work[a].next \in {"look", "begin", "done", "probe"}
      /\ GuardedAt("refresh", work[a], h, In(a).child)
      /\ h => ManagedAt(In(a), TRUE, "refresh", work[a])
  BY <1>1, Here DEF PlacedAt
<1>3. /\ i \in Inners /\ i.child \in {In(a).child, NoPid} /\ i.job = In(a).job
      /\ i.shown.state \in Answering \cup {In(a).shown.state, "Crashed"}
      /\ i.child # NoPid => /\ i.shown.pid = In(a).shown.pid /\ i.shown.owner = In(a).shown.owner
                            /\ i.shown.state \in Answering \cup {In(a).shown.state}
      /\ In(a).child = NoPid => i = In(a)
  BY <1>2, Waited
<1>4. l \in {"removePid", work[a].next} /\ l \in Positions /\ i.shown \in Snapshots
  BY <1>2, <1>3 DEF Positions, Inners
<1>5. w \in Works /\ w.next = work[a].next /\ w.op = work[a].op /\ w.pid = work[a].pid
      /\ (w.next = "look" => w.seen = i.shown)
  BY <1>2, <1>4 DEF Works
<1>6. World'
  BY <1>1, <1>2 DEF World, files, bounds
<1>7. PlacedAt(l, w, h)
  BY <1>2, <1>4, <1>5 DEF PlacedAt, OwnChild
<1>8. Heading(l, w) = work[a].next /\ l # "refresh"
  BY <1>2, <1>4, <1>5 DEF Heading, Passing
<1>9. h => ~Unsettled(In(a)) \/ SignalFaults
  BY <1>2 DEF ManagedAt, Heading, Passing, BusyPositions, LockedPositions
<1>10. h => (i.child # NoPid => i.shown.pid = i.child /\ i.shown.owner = "Detached" /\ i.shown.state \in Answering)
  BY <1>2, <1>3 DEF ManagedAt
<1>11. h => ~Unsettled(i) \/ SignalFaults
  BY <1>3, <1>9 DEF Unsettled, Changing, Answering
<1>12. GuardedAt(l, w, h, i.child)
  BY <1>2, <1>3, <1>5, <1>8, <1>10, <1>11 DEF GuardedAt, Heading, Passing, LockedPositions, ChildlessPositions,
     LookPositions, Unsettled
<1>13. h => ManagedAt(i, TRUE, l, w)
  BY <1>10, <1>11 DEF ManagedAt
<1>14. Harmless(In(a), i)
  BY <1>3 DEF Harmless, Unsettled, Changing, Answering
<1>15. pc' = [pc EXCEPT ![a] = l] /\ work' = [work EXCEPT ![a] = w]
       /\ inner' = [inner EXCEPT ![ProcOf[a]] = i] /\ UNCHANGED oplock
  BY <1>1, Rewritten DEF Goto, Keep, SetInner
<1> HIDE DEF l, w
<1> QED  BY <1>3, <1>4, <1>5, <1>6, <1>7, <1>12, <1>13, <1>14, <1>15, Walks

\* The markers are removed on the way to another position.
LEMMA PassesOn ==
    ASSUME KernelInv, NEW a \in Actors, NEW l \in {"removeOwner", work[a].next},
           pc[a] \in {"removePid", "removeOwner"}, Goto(a, l), UNCHANGED <<work, inner, oplock>>, World'
    PROVE  KernelInv'
<1>1. /\ work[a] \in Works /\ work' = [work EXCEPT ![a] = work[a]]
      /\ PlacedAt(pc[a], work[a], Holds(a)) /\ GuardedAt(pc[a], work[a], Holds(a), In(a).child)
      /\ Holds(a) => ManagedAt(In(a), TRUE, pc[a], work[a])
  BY Here, Rewritten
<1>2. l \in Positions
  BY <1>1 DEF Positions, Works
<1>3. work[a].next \in {"look", "begin", "done", "probe", "decide", "spawn", "setStopped", "setUnhealthy"}
  BY <1>1 DEF PlacedAt
<1>4. Heading(l, work[a]) = Heading(pc[a], work[a])
  BY <1>3 DEF Heading, Passing
<1>5. PlacedAt(l, work[a], Holds(a))
  BY <1>1, <1>3 DEF PlacedAt, OwnChild
<1>6. GuardedAt(l, work[a], Holds(a), In(a).child)
  BY <1>1, <1>3, <1>4 DEF GuardedAt
<1>7. Holds(a) => ManagedAt(In(a), TRUE, l, work[a])
  BY <1>1, <1>3, <1>4 DEF ManagedAt
<1> QED  BY <1>1, <1>2, <1>5, <1>6, <1>7, Strolls DEF Goto

LEMMA RemovalKeeps ==
    ASSUME KernelInv, NEW a \in Actors, RemovePid(a) \/ RemoveOwner(a)
    PROVE  KernelInv'
<1>1. World
  BY Here
<1>2. CASE RemovePid(a)
  <2>1. World'
    BY <1>1, <1>2 DEF World, RemovePid, bounds
  <2> QED  BY <1>2, <2>1, PassesOn DEF RemovePid
<1>3. CASE RemoveOwner(a)
  <2>1. World'
    BY <1>1, <1>3 DEF World, RemoveOwner, bounds
  <2> QED  BY <1>3, <2>1, PassesOn DEF RemoveOwner
<1> QED  BY <1>2, <1>3

\* Whoever looks for a core of another process sees that, or what it was shown.
LEMMA LookKeeps ==
    ASSUME KernelInv, NEW a \in Actors, Look(a) \/ LookProcess(a) \/ AskVersion(a)
    PROVE  KernelInv'
<1> DEFINE h == Holds(a)
           child == In(a).child
<1>1. /\ work[a] \in Works /\ World /\ Stopped \in Snapshots /\ NoPid \in Pids \cup {NoPid}
      /\ GuardedAt(pc[a], work[a], h, child)
      /\ PlacedAt(pc[a], work[a], h)
      /\ h => ManagedAt(In(a), TRUE, pc[a], work[a])
  BY Here DEF Stopped, Snapshots, States
<1>2. World' /\ UNCHANGED <<inner, oplock>> /\ pc[a] \in {"look", "exists", "version"}
  BY <1>1 DEF World, Look, LookProcess, AskVersion, files, bounds
<1>3. h => \A l \in Positions, w \in Works : ManagedAt(In(a), TRUE, l, w)
  BY <1>1, <1>2 DEF ManagedAt, Heading, Passing, BusyPositions, LockedPositions
<1>4. ASSUME NEW l \in {"exists", "version", "decide", "removePid"}, NEW w \in Works,
             Goto(a, l), Keep(a, w), l = "removePid" => w.next = "decide",
             l \in {"exists", "version"} => w.pid \in Pids,
             h => /\ w.op = work[a].op
                  /\ child = NoPid \/ (l = "decide" /\ w.op # "start" /\ w.seen.state \in Answering)
                  /\ ~SignalFaults => w.seen.state \notin Changing
      PROVE  KernelInv'
  <2>1. PlacedAt(l, w, h)
    BY <1>4 DEF PlacedAt, OwnChild
  <2>2. GuardedAt(l, w, h, child)
    BY <1>4 DEF GuardedAt, Heading, Passing, LockedPositions, ChildlessPositions, LookPositions
  <2>3. l \in Positions
    BY DEF Positions
  <2> QED  BY <1>2, <1>3, <1>4, <2>1, <2>2, <2>3, Strolls DEF Goto, Keep
<1>5. CASE Look(a)
  <2>1. h => /\ work[a].op = "start" => child = NoPid
             /\ child = NoPid \/ work[a].seen.state \in Answering
             /\ ~SignalFaults => work[a].seen.state \notin Changing
    BY <1>1, <1>5 DEF Look, GuardedAt, Heading, Passing, LookPositions
  <2>2. CASE work[a].seen.state \notin {"Stopped", "Crashed"}
    <3>1. Goto(a, "decide") /\ Keep(a, work[a])
      BY <1>5, <2>2, Rewritten DEF Look, Keep
    <3> QED  BY <1>1, <1>4, <2>1, <3>1
  <2>3. CASE work[a].seen.state \in {"Stopped", "Crashed"} /\ pidFile = NoPid
    <3> DEFINE w == [work[a] EXCEPT !.seen = Stopped]
    <3>1. Goto(a, "decide") /\ Keep(a, w)
      BY <1>5, <2>3 DEF Look
    <3>2. w \in Works /\ w.op = work[a].op /\ w.seen.state = "Stopped"
      BY <1>1 DEF Works, Stopped
    <3>3. h => child = NoPid
      BY <2>1, <2>3 DEF Answering
    <3> HIDE DEF w
    <3> QED  BY <1>4, <3>1, <3>2, <3>3 DEF Changing
  <2>4. CASE work[a].seen.state \in {"Stopped", "Crashed"} /\ pidFile # NoPid
    <3> DEFINE w == [work[a] EXCEPT !.pid = pidFile]
    <3>1. Goto(a, "exists") /\ Keep(a, w)
      BY <1>5, <2>4 DEF Look
    <3>2. w \in Works /\ w.op = work[a].op /\ w.seen = work[a].seen /\ w.pid \in Pids
      BY <1>1, <2>4 DEF Works, World
    <3>3. h => child = NoPid
      BY <2>1, <2>4 DEF Answering
    <3> HIDE DEF w
    <3> QED  BY <1>4, <2>4, <3>1, <3>2, <3>3 DEF Changing
  <2> QED  BY <2>2, <2>3, <2>4
<1>6. CASE LookProcess(a) \/ AskVersion(a)
  <2>1. h => /\ child = NoPid
             /\ ~SignalFaults => work[a].seen.state \notin Changing
    BY <1>1, <1>6 DEF LookProcess, AskVersion, GuardedAt, Heading, Passing, LookPositions
  <2>2. work[a].pid \in Pids
    BY <1>1, <1>6 DEF LookProcess, AskVersion, PlacedAt
  <2>3. CASE LookProcess(a) /\ Exists(work[a].pid)
    <3>1. Goto(a, "version") /\ Keep(a, work[a])
      BY <2>3, Rewritten DEF LookProcess, Keep
    <3> QED  BY <1>1, <1>4, <2>1, <2>2, <3>1
  <2>4. CASE LookProcess(a) /\ ~Exists(work[a].pid)
    <3> DEFINE w == [[work[a] EXCEPT !.seen = Stopped] EXCEPT !.next = "decide", !.pid = NoPid]
    <3>1. Goto(a, "removePid") /\ Keep(a, w)
      BY <2>4 DEF LookProcess, RemoveThen
    <3>2. w \in Works /\ w.op = work[a].op /\ w.seen.state = "Stopped" /\ w.next = "decide"
      BY <1>1 DEF Works, Stopped, Positions
    <3> HIDE DEF w
    <3> QED  BY <1>4, <2>1, <3>1, <3>2 DEF Changing
  <2>5. CASE AskVersion(a)
    <3>1. PICK s \in {"Running", "Unhealthy"} :
            Keep(a, [work[a] EXCEPT
              !.pid = NoPid, !.seen = [state |-> s, owner |-> OwnerOf(work[a].pid), pid |-> work[a].pid]])
      BY <2>5 DEF AskVersion
    <3> DEFINE seen == [state |-> s, owner |-> OwnerOf(work[a].pid), pid |-> work[a].pid]
               w == [work[a] EXCEPT !.pid = NoPid, !.seen = seen]
    <3>2. OwnerOf(work[a].pid) \in {"Detached", "Supervised", "External"}
      BY <1>1 DEF OwnerOf, World
    <3>3. seen \in Snapshots /\ seen.state = s
      BY <2>2, <3>2 DEF Snapshots, States
    <3> HIDE DEF seen
    <3>4. w \in Works /\ w.op = work[a].op /\ w.seen = seen
      BY <1>1, <3>3 DEF Works
    <3>5. Goto(a, "decide") /\ Keep(a, w)
      BY <2>5, <3>1 DEF AskVersion, seen
    <3> HIDE DEF w
    <3> QED  BY <1>4, <2>1, <3>3, <3>4, <3>5 DEF Changing
  <2> QED  BY <1>6, <2>3, <2>4, <2>5
<1> QED  BY <1>5, <1>6

\* An operation that is not changing anything may end any time.
LEMMA GivesUp ==
    ASSUME KernelInv, NEW a \in Actors, Finish(a), UNCHANGED inner, World',
           pc[a] # "take", Heading(pc[a], work[a]) \notin BusyPositions
    PROVE  KernelInv'
<1>1. inner' = [inner EXCEPT ![ProcOf[a]] = In(a)] /\ In(a) \in Inners
  BY Rewritten, Here
<1>2. Harmless(In(a), In(a))
  BY DEF Harmless
<1>3. Holds(a) => ManagedAt(In(a), FALSE, "idle", Rest)
  BY Here DEF ManagedAt
<1> QED  BY <1>1, <1>2, <1>3, Finishes

\* The lock, of those who are where only its holder gets.
LEMMA Held ==
    ASSUME KernelInv, NEW a \in Actors, Heading(pc[a], work[a]) \in LockedPositions
    PROVE  /\ Holds(a) /\ oplock[ProcOf[a]] = a
           /\ Heading(pc[a], work[a]) \in ChildlessPositions => In(a).child = NoPid
BY Here DEF GuardedAt, Holds

\* A holder without a child goes on, settles what it leaves unsettled, or ends.
LEMMA Proceeds ==
    ASSUME KernelInv, NEW a \in Actors, NEW l \in Positions, NEW w \in Works, NEW i \in Inners,
           Holds(a), i.child = NoPid, Goto(a, l), Keep(a, w), SetInner(a, i), UNCHANGED oplock, World',
           PlacedAt(l, w, TRUE), Heading(l, w) \notin LookPositions,
           Unsettled(i) /\ ~SignalFaults => Heading(l, w) \in BusyPositions
    PROVE  KernelInv'
<1>1. GuardedAt(l, w, Holds(a), i.child)
  BY DEF GuardedAt
<1>2. ManagedAt(i, TRUE, l, w)
  BY DEF ManagedAt
<1>3. PlacedAt(l, w, Holds(a))
  BY DEF PlacedAt
<1> QED  BY <1>1, <1>2, <1>3, Walks DEF Goto, Keep, SetInner

LEMMA Ends ==
    ASSUME KernelInv, NEW a \in Actors, NEW i \in Inners, Holds(a), i.child = NoPid,
           ~Unsettled(i), Finish(a), SetInner(a, i), World'
    PROVE  KernelInv'
<1>1. ManagedAt(i, FALSE, "idle", Rest)
  BY DEF ManagedAt
<1> QED  BY <1>1, Finishes DEF SetInner

LEMMA DecideKeeps ==
    ASSUME KernelInv, NEW c \in Actors, Decide(c)
    PROVE  KernelInv'
<1>1. World' /\ work[c] \in Works /\ Stopped \in Snapshots /\ pc[c] = "decide" /\ ~Holds(c) /\ UNCHANGED inner
  BY Here DEF World, Decide, files, bounds, Snapshots, Stopped, States
<1>2. CASE Finish(c)
  BY <1>1, <1>2, GivesUp DEF Heading, Passing, BusyPositions, LockedPositions
<1>3. CASE Goto(c, "tryLock") /\ Keep(c, [work[c] EXCEPT !.seen = Stopped]) /\ UNCHANGED oplock
  <2> DEFINE w == [work[c] EXCEPT !.seen = Stopped]
  <2>1. w \in Works /\ "tryLock" \in Positions
    BY <1>1 DEF Works, Positions
  <2>2. PlacedAt("tryLock", w, Holds(c)) /\ GuardedAt("tryLock", w, Holds(c), In(c).child)
    BY <1>1 DEF PlacedAt, GuardedAt, Heading, Passing, LockedPositions, ChildlessPositions, OwnChild
  <2> HIDE DEF w
  <2> QED  BY <1>1, <1>3, <2>1, <2>2, Strolls DEF Goto, Keep, w
<1> QED  BY <1>2, <1>3 DEF Decide

\* The lock is taken when it is free, and then the state is settled.
LEMMA TryLockKeeps ==
    ASSUME KernelInv, NEW c \in Actors, TryLock(c)
    PROVE  KernelInv'
<1> DEFINE wait(n) == [work[c] EXCEPT !.next = n, !.seen = Stopped]
<1>1. /\ World' /\ work[c] \in Works /\ In(c) \in Inners /\ Stopped \in Snapshots /\ pc[c] = "tryLock"
      /\ UNCHANGED inner
      /\ Holds(c) => ManagedAt(In(c), TRUE, "tryLock", work[c])
      /\ oplock[ProcOf[c]] = Free => ManagedAt(In(c), FALSE, "idle", Rest)
  BY Here DEF World, TryLock, files, bounds, Snapshots, Stopped, States
<1>2. \A n \in {"begin", "done"} : wait(n) \in Works /\ wait(n).next = n
  BY <1>1 DEF Works, Positions
<1>3. "refresh" \in Positions
  BY DEF Positions
<1>4. CASE Finish(c)
  BY <1>1, <1>4, GivesUp DEF Heading, Passing, BusyPositions, LockedPositions
<1>5. CASE RefreshThen(c, "done") /\ UNCHANGED oplock
  <2>1. PlacedAt("refresh", wait("done"), Holds(c)) /\ GuardedAt("refresh", wait("done"), Holds(c), In(c).child)
    BY <1>2 DEF PlacedAt, GuardedAt, Heading, Passing, LockedPositions, ChildlessPositions, OwnChild, LookPositions
  <2>2. Holds(c) => ManagedAt(In(c), TRUE, "refresh", wait("done"))
    BY <1>1 DEF ManagedAt, Heading, Passing, BusyPositions, LockedPositions
  <2>3. wait("done") \in Works
    BY <1>2
  <2> QED  BY <1>1, <1>3, <1>5, <2>1, <2>2, <2>3, Strolls DEF RefreshThen, Goto, Keep
<1>6. CASE oplock[ProcOf[c]] = Free /\ oplock' = [oplock EXCEPT ![ProcOf[c]] = c] /\ RefreshThen(c, "begin")
  <2> DEFINE w == wait("begin")
  <2>1. Moved(c, "refresh", w, In(c), c)
    BY <1>1, <1>6, Rewritten DEF Moved, RefreshThen, Goto, Keep
  <2>2. w \in Works /\ w.next = "begin"
    BY <1>2
  <2>3. PlacedAt("refresh", w, c = c) /\ GuardedAt("refresh", w, c = c, In(c).child)
    BY <2>2 DEF PlacedAt, GuardedAt, Heading, Passing, LockedPositions, ChildlessPositions, OwnChild, LookPositions
  <2>4. ManagedAt(In(c), TRUE, "refresh", w)
    BY <1>1, <1>6 DEF ManagedAt
  <2>5. Allowed(c, "refresh", w, In(c), c)
    BY <1>6, <2>4 DEF Allowed
  <2> HIDE DEF w
  <2> QED  BY <1>1, <1>3, <2>1, <2>2, <2>3, <2>5, Moves
<1> QED  BY <1>4, <1>5, <1>6 DEF TryLock

\* A start that goes on has no child: a manager with one shows that it answers.
LEMMA BeginOperationKeeps ==
    ASSUME KernelInv, NEW c \in Actors, BeginOperation(c)
    PROVE  KernelInv'
<1> DEFINE wait(n) == [work[c] EXCEPT !.next = n, !.seen = Stopped]
<1>1. /\ World' /\ work[c] \in Works /\ In(c) \in Inners /\ Stopped \in Snapshots /\ pc[c] = "begin"
      /\ UNCHANGED oplock
  BY Here DEF World, BeginOperation, files, bounds, Snapshots, Stopped, States
<1>2. Holds(c) /\ ManagedAt(In(c), TRUE, "begin", work[c])
  BY <1>1, Held, Here DEF Heading, Passing, LockedPositions
<1>3. In(c).child # NoPid => In(c).shown.pid = In(c).child /\ In(c).shown.owner = "Detached"
                             /\ In(c).shown.state \in Answering
  BY <1>2 DEF ManagedAt
<1>4. ~SignalFaults => ~Unsettled(In(c))
  BY <1>2 DEF ManagedAt, Heading, Passing, BusyPositions
<1>5. ASSUME NEW n \in {"look", "done"}, RefreshThen(c, n), UNCHANGED inner,
             n = "look" /\ Op(c) = "start" => In(c).child = NoPid
      PROVE  KernelInv'
  <2> DEFINE w == wait(n)
  <2>1. w \in Works /\ w.next = n /\ w.op = Op(c) /\ "refresh" \in Positions
    BY <1>1 DEF Works, Positions, Op
  <2> HIDE DEF w
  <2>2. PlacedAt("refresh", w, Holds(c))
    BY <2>1 DEF PlacedAt, OwnChild
  <2>3. GuardedAt("refresh", w, Holds(c), In(c).child)
    BY <1>5, <2>1 DEF GuardedAt, Heading, Passing, LockedPositions, ChildlessPositions, LookPositions
  <2>4. ManagedAt(In(c), TRUE, "refresh", w)
    BY <1>3, <1>4 DEF ManagedAt
  <2> QED  BY <1>1, <1>5, <2>1, <2>2, <2>3, <2>4, Strolls DEF RefreshThen, Goto, Keep, w
<1>6. CASE Op(c) = "start" /\ In(c).shown.state \in RefusesStart /\ RefreshThen(c, "done") /\ UNCHANGED inner
  BY <1>5, <1>6
<1>7. CASE /\ Op(c) \in Foregrounds \/ (Op(c) = "start" /\ In(c).shown.state \notin RefusesStart)
           /\ RefreshThen(c, "look") /\ UNCHANGED inner
  BY <1>3, <1>5, <1>7 DEF Foregrounds, RefusesStart, Answering
<1>8. CASE /\ Op(c) \in {"stop", "restart"}
           /\ SetInner(c, JobState(In(c), IF Op(c) = "stop" THEN "Stopping" ELSE "Restarting"))
           /\ Goto(c, "take")
           /\ Keep(c, [work[c] EXCEPT !.then = IF Op(c) = "stop" THEN "done" ELSE "spawn"])
  <2> DEFINE s == IF Op(c) = "stop" THEN "Stopping" ELSE "Restarting"
             i == JobState(In(c), s)
             t == IF Op(c) = "stop" THEN "done" ELSE "spawn"
             w == [work[c] EXCEPT !.then = t]
  <2>1. s \in States /\ s \in Changing /\ t \in {"done", "spawn"}
    BY DEF States, Changing
  <2> HIDE DEF s, t
  <2>2. /\ i \in Inners /\ i.child = In(c).child /\ i.shown.state = s
        /\ i.shown.pid = In(c).shown.pid /\ i.shown.owner = In(c).shown.owner
    BY <1>1, <2>1, Writes
  <2>3. w \in Works /\ w.then = t /\ "take" \in Positions
    BY <1>1, <2>1 DEF Works, Positions
  <2>4. SetInner(c, i) /\ Goto(c, "take") /\ Keep(c, w)
    BY <1>8 DEF s, t
  <2> HIDE DEF i, w
  <2>5. PlacedAt("take", w, Holds(c))
    BY <2>1, <2>3 DEF PlacedAt, OwnChild
  <2>6. GuardedAt("take", w, Holds(c), i.child)
    BY <1>2 DEF GuardedAt, Heading, Passing, ChildlessPositions, LookPositions
  <2>7. ManagedAt(i, TRUE, "take", w)
    BY <1>3, <2>1, <2>2 DEF ManagedAt, Heading, Passing, BusyPositions, LockedPositions
  <2> QED  BY <1>1, <1>2, <2>2, <2>3, <2>4, <2>5, <2>6, <2>7, Walks DEF Goto, Keep, SetInner
<1> QED  BY <1>6, <1>7, <1>8 DEF BeginOperation

LEMMA AdoptKeeps ==
    ASSUME KernelInv, NEW c \in Actors, Adopt(c)
    PROVE  KernelInv'
<1>1. /\ World' /\ work[c] \in Works /\ In(c) \in Inners /\ pc[c] = "decide" /\ Holds(c)
      /\ GuardedAt("decide", work[c], Holds(c), In(c).child)
  BY Here DEF World, Adopt, files, bounds
<1>2. /\ Op(c) = "start" => In(c).child = NoPid
      /\ In(c).child = NoPid \/ work[c].seen.state \in Answering
  BY <1>1 DEF GuardedAt, Heading, Passing, LookPositions, Op
<1>3. CASE Finish(c) /\ UNCHANGED inner
  BY <1>1, <1>3, GivesUp DEF Heading, Passing, BusyPositions, LockedPositions
<1>4. CASE /\ work[c].seen.state \in Answering /\ Op(c) = "start" /\ Finish(c)
           /\ SetInner(c, [In(c) EXCEPT
                 !.shown = work[c].seen, !.job = FALSE,
                 !.failures = IF work[c].seen.state = "Unhealthy" THEN HealthFailureThreshold ELSE 0])
  <2> DEFINE n == IF work[c].seen.state = "Unhealthy" THEN HealthFailureThreshold ELSE 0
             i == [In(c) EXCEPT !.shown = work[c].seen, !.job = FALSE, !.failures = n]
  <2>1. n \in 0..HealthFailureThreshold
    BY DEF HealthFailureThreshold
  <2> HIDE DEF n
  <2>2. i \in Inners /\ i.child = In(c).child /\ i.shown = work[c].seen /\ ~i.job
    BY <1>1, <2>1 DEF Inners, Works
  <2>3. SetInner(c, i)
    BY <1>4 DEF n
  <2> HIDE DEF i
  <2>4. ~Unsettled(i)
    BY <1>4, <2>2 DEF Unsettled, Changing, Answering
  <2> QED  BY <1>1, <1>2, <1>4, <2>2, <2>3, <2>4, Ends
<1>5. CASE /\ work[c].seen.state \notin Answering /\ SetInner(c, JobState(In(c), "Starting"))
           /\ Goto(c, "spawn") /\ UNCHANGED <<work, oplock>>
  <2>1. JobState(In(c), "Starting") \in Inners /\ JobState(In(c), "Starting").child = NoPid
    BY <1>1, <1>2, <1>5, Writes DEF States
  <2>2. PlacedAt("spawn", work[c], TRUE) /\ "spawn" \in Positions
    BY DEF PlacedAt, OwnChild, Positions
  <2>3. Heading("spawn", work[c]) \in BusyPositions /\ Heading("spawn", work[c]) \notin LookPositions
    BY DEF Heading, Passing, BusyPositions, LockedPositions, LookPositions
  <2>4. Keep(c, work[c])
    BY <1>5, Rewritten DEF Keep
  <2> QED  BY <1>1, <1>5, <2>1, <2>2, <2>3, <2>4, Proceeds
<1> QED  BY <1>3, <1>4, <1>5 DEF Adopt, Answering

\* The holder, without a child: it starts a core, and gives it to the manager.
LEMMA SpawnKeeps ==
    ASSUME KernelInv, NEW c \in Actors, Spawn(c) \/ WritePid(c) \/ WriteOwner(c)
    PROVE  KernelInv'
<1>1. /\ World /\ work[c] \in Works /\ In(c) \in Inners
      /\ PlacedAt(pc[c], work[c], Holds(c)) /\ pc[c] \in {"spawn", "writePid", "writeOwner"}
  BY Here, Rewritten DEF Spawn, WritePid, WriteOwner
<1>2. Holds(c) /\ In(c).child = NoPid
  BY <1>1, Held DEF Heading, Passing, LockedPositions, ChildlessPositions
<1>3. ASSUME NEW l \in {"writePid", "writeOwner", "publish", "cleanup"}, NEW w \in Works, w.pid \in Pids,
             Goto(c, l), Keep(c, w), UNCHANGED <<inner, oplock>>, World'
      PROVE  KernelInv'
  <2>1. PlacedAt(l, w, TRUE)
    BY <1>3 DEF PlacedAt
  <2>2. l \in Positions /\ Heading(l, w) \in BusyPositions \ LookPositions
    BY <1>3 DEF Positions, Heading, Passing, BusyPositions, LockedPositions, LookPositions
  <2>3. SetInner(c, In(c))
    BY <1>3, Rewritten DEF SetInner
  <2> QED  BY <1>1, <1>2, <1>3, <2>1, <2>2, <2>3, Proceeds
<1>4. CASE Spawn(c)
  <2>1. World'
    BY <1>1, <1>4 DEF World, Spawn, files, bounds
  <2>2. CASE SpawnFails(c)
    <3>1. StoppedInner(In(c)) \in Inners /\ StoppedInner(In(c)).child = NoPid /\ ~Unsettled(StoppedInner(In(c)))
      BY <1>1, <1>2, Writes DEF Unsettled, Changing, Stopped
    <3> QED  BY <1>2, <2>1, <2>2, <3>1, Ends DEF SpawnFails
  <2>3. ASSUME NEW k \in Pids, Goto(c, "writePid"), Keep(c, [work[c] EXCEPT !.pid = k]), UNCHANGED <<inner, oplock>>
        PROVE  KernelInv'
    <3> DEFINE w == [work[c] EXCEPT !.pid = k]
    <3>1. w \in Works /\ w.pid = k
      BY <1>1 DEF Works
    <3> HIDE DEF w
    <3> QED  BY <1>3, <2>1, <2>3, <3>1 DEF w
  <2> QED  BY <1>4, <2>2, <2>3 DEF Spawn
<1>5. CASE WritePid(c) \/ WriteOwner(c)
  <2>1. work[c].pid \in Pids
    BY <1>1, <1>5 DEF PlacedAt, OwnChild, WritePid, WriteOwner
  <2>2. World'
    BY <1>1, <1>5, <2>1 DEF World, WritePid, WriteOwner, NewOwner, bounds
  <2>3. Keep(c, work[c]) /\ UNCHANGED <<inner, oplock>>
    BY <1>5, Rewritten DEF Keep, WritePid, WriteOwner
  <2>4. Goto(c, "writeOwner") \/ Goto(c, "publish") \/ Goto(c, "cleanup")
    BY <1>5 DEF WritePid, WriteOwner
  <2> QED  BY <1>1, <1>3, <2>1, <2>2, <2>3, <2>4
<1> QED  BY <1>4, <1>5

LEMMA PublishKeeps ==
    ASSUME KernelInv, NEW c \in Actors, Publish(c)
    PROVE  KernelInv'
<1> DEFINE child == IF Op(c) \in Foregrounds THEN In(c).child ELSE work[c].pid
           i == [shown |-> Published(c), job |-> FALSE, failures |-> 0, child |-> child]
<1>1. World' /\ work[c] \in Works /\ pc[c] = "publish" /\ work[c].pid \in Pids /\ SetInner(c, i)
  BY Here DEF World, Publish, files, bounds, PlacedAt, OwnChild
<1>2. Holds(c) /\ In(c).child = NoPid
  BY <1>1, Held DEF Heading, Passing, LockedPositions, ChildlessPositions
<1>3. Published(c) \in Snapshots /\ Published(c).state = "Running" /\ Published(c).pid = work[c].pid
      /\ (Op(c) \notin Foregrounds => Published(c).owner = "Detached")
  BY <1>1 DEF Published, NewOwner, Snapshots, States, Foregrounds
<1>4. 0 \in 0..HealthFailureThreshold
  BY DEF HealthFailureThreshold
<1>5. child \in Pids \cup {NoPid} /\ (Op(c) \in Foregrounds => child = NoPid)
      /\ (Op(c) \notin Foregrounds => child = work[c].pid)
  BY <1>1, <1>2
<1> HIDE DEF child
<1>6. i \in Inners /\ i.child = child /\ i.shown = Published(c) /\ ~i.job
  BY <1>3, <1>4, <1>5 DEF Inners
<1> HIDE DEF i
<1>7. ~Unsettled(i)
  BY <1>3, <1>6 DEF Unsettled, Changing
<1>8. CASE Op(c) \notin Foregrounds /\ Finish(c)
  <2>1. ManagedAt(i, FALSE, "idle", Rest)
    BY <1>3, <1>5, <1>6, <1>7, <1>8 DEF ManagedAt, Answering
  <2> QED  BY <1>1, <1>2, <1>6, <1>8, <2>1, Finishes DEF SetInner
<1>9. CASE Op(c) \in Foregrounds /\ Goto(c, "foreground") /\ UNCHANGED <<work, oplock>>
  <2>1. PlacedAt("foreground", work[c], TRUE) /\ "foreground" \in Positions
    BY <1>1 DEF PlacedAt, Positions
  <2>2. Heading("foreground", work[c]) \notin LookPositions
    BY DEF Heading, Passing, LookPositions
  <2>3. Keep(c, work[c])
    BY <1>9, Rewritten DEF Keep
  <2> QED  BY <1>1, <1>2, <1>5, <1>6, <1>7, <1>9, <2>1, <2>2, <2>3, Proceeds
<1> QED  BY <1>8, <1>9 DEF Publish

\* At its positions the holder has no child; one that is not busy has settled its state.
LEMMA Childless ==
    ASSUME KernelInv, NEW c \in Actors, pc[c] \in ChildlessPositions
    PROVE  /\ Holds(c) /\ In(c).child = NoPid /\ In(c) \in Inners /\ work[c] \in Works /\ World
           /\ PlacedAt(pc[c], work[c], TRUE)
           /\ UNCHANGED work => Keep(c, work[c])
           /\ UNCHANGED inner => SetInner(c, In(c))
           /\ pc[c] \notin BusyPositions /\ ~SignalFaults => ~Unsettled(In(c))
<1>1. Heading(pc[c], work[c]) = pc[c] /\ pc[c] \in LockedPositions
  BY DEF Heading, Passing, LockedPositions, ChildlessPositions
<1>2. Holds(c) /\ In(c).child = NoPid
  BY <1>1, Held
<1>3. In(c) \in Inners /\ work[c] \in Works /\ World
  BY Here
<1>4. PlacedAt(pc[c], work[c], Holds(c)) /\ ManagedAt(In(c), TRUE, pc[c], work[c])
  BY <1>2, Here
<1>5. PlacedAt(pc[c], work[c], TRUE)
  BY <1>2, <1>4 DEF PlacedAt
<1>6. UNCHANGED work => Keep(c, work[c])
  BY Rewritten DEF Keep
<1>7. UNCHANGED inner => SetInner(c, In(c))
  BY Rewritten DEF SetInner
<1>8. pc[c] \notin BusyPositions /\ ~SignalFaults => ~Unsettled(In(c))
  BY <1>1, <1>4 DEF ManagedAt
<1> QED  BY <1>2, <1>3, <1>5, <1>6, <1>7, <1>8

\* A manager whose state was settled.
LEMMA Settled ==
    ASSUME NEW i \in Inners
    PROVE  /\ StoppedInner(i) \in Inners /\ StoppedInner(i).child = i.child /\ ~Unsettled(StoppedInner(i))
           /\ UnhealthyInner(i) \in Inners /\ UnhealthyInner(i).child = i.child /\ ~Unsettled(UnhealthyInner(i))
BY Writes DEF Unsettled, Changing, Stopped

LEMMA Removes ==
    ASSUME KernelInv, NEW c \in Actors, Holds(c), NEW w \in Works, NEW i \in Inners, i.child = NoPid,
           NEW next \in {"done", "spawn", "setStopped", "setUnhealthy"},
           RemoveThen(c, w, next), SetInner(c, i), UNCHANGED oplock, World',
           Unsettled(i) /\ ~SignalFaults => next \in {"spawn", "setStopped"}
    PROVE  KernelInv'
<1> DEFINE u == [w EXCEPT !.next = next, !.pid = NoPid]
<1>1. u \in Works /\ u.next = next /\ "removePid" \in Positions
  BY DEF Works, Positions
<1>2. Goto(c, "removePid") /\ Keep(c, u)
  BY DEF RemoveThen
<1> HIDE DEF u
<1>3. Heading("removePid", u) = next
  BY <1>1 DEF Heading, Passing
<1>4. PlacedAt("removePid", u, TRUE)
  BY <1>1 DEF PlacedAt, OwnChild
<1>5. next \notin LookPositions
  BY DEF LookPositions
<1>6. Unsettled(i) /\ ~SignalFaults => next \in BusyPositions
  BY DEF BusyPositions, LockedPositions
<1> QED  BY <1>1, <1>2, <1>3, <1>4, <1>5, <1>6, Proceeds

\* It goes on where it does not settle the state.
LEMMA GoesOn ==
    ASSUME KernelInv, NEW c \in Actors, Holds(c), NEW w \in Works, NEW i \in Inners, i.child = NoPid,
           NEW l \in {"spawn", "stopChild", "findPid", "signal", "waitPid", "shutdown"},
           Goto(c, l), Keep(c, w), SetInner(c, i), UNCHANGED oplock, World',
           l \in {"signal", "waitPid", "stopChild", "shutdown"} => w.pid \in Pids,
           l = "stopChild" => w.then # "removeAgain",
           Unsettled(i) /\ ~SignalFaults => l # "shutdown"
    PROVE  KernelInv'
<1>1. PlacedAt(l, w, TRUE)
  BY DEF PlacedAt, OwnChild
<1>2. l \in Positions /\ Heading(l, w) = l
  BY DEF Positions, Heading, Passing
<1>3. l \notin LookPositions /\ (l # "shutdown" => l \in BusyPositions)
  BY DEF LookPositions, BusyPositions, LockedPositions
<1> QED  BY <1>1, <1>2, <1>3, Proceeds

LEMMA EndChildKeeps ==
    ASSUME KernelInv, NEW c \in Actors, EndChild(c)
    PROVE  KernelInv'
<1>1. pc[c] \in {"cleanup", "shutdown"} /\ pc[c] \in ChildlessPositions
  BY DEF EndChild, ChildlessPositions, LockedPositions
<1>2. /\ Holds(c) /\ In(c).child = NoPid /\ In(c) \in Inners /\ work[c] \in Works
      /\ UNCHANGED inner => SetInner(c, In(c))
  BY <1>1, Childless
<1>3. World'
  <2>1. World
    BY <1>1, Childless
  <2> QED  BY <2>1 DEF World, EndChild, DropChild, files, bounds
<1>4. CASE UNCHANGED <<inner, oplock>> /\
           RemoveThen(c, [work[c] EXCEPT !.then = IF pc[c] = "shutdown" THEN "removeAgain" ELSE "done"], "setStopped")
  <2> DEFINE w == [work[c] EXCEPT !.then = IF pc[c] = "shutdown" THEN "removeAgain" ELSE "done"]
  <2>1. w \in Works
    BY <1>2 DEF Works
  <2> HIDE DEF w
  <2> QED  BY <1>2, <1>3, <1>4, <2>1, Removes DEF w
<1>5. CASE SetInner(c, UnhealthyInner(In(c))) /\ Finish(c)
  BY <1>2, <1>3, <1>5, Settled, Ends
<1>6. CASE pc[c] = "shutdown" /\ Finish(c) /\ UNCHANGED inner
  BY <1>3, <1>6, GivesUp DEF Heading, Passing, BusyPositions, LockedPositions
<1> QED  BY <1>4, <1>5, <1>6 DEF EndChild

\* The child is taken away before it is stopped.
LEMMA TakeChildKeeps ==
    ASSUME KernelInv, NEW c \in Actors, TakeChild(c)
    PROVE  KernelInv'
<1>1. /\ World' /\ In(c) \in Inners /\ work[c] \in Works /\ pc[c] = "take" /\ UNCHANGED oplock
      /\ work[c].then # "removeAgain"
  BY Here DEF World, TakeChild, files, bounds, PlacedAt
<1>2. Holds(c)
  BY <1>1, Held DEF Heading, Passing, LockedPositions
<1>3. CASE /\ In(c).child # NoPid /\ Keep(c, [work[c] EXCEPT !.pid = In(c).child])
           /\ SetInner(c, [In(c) EXCEPT !.child = NoPid]) /\ Goto(c, "stopChild")
  <2> DEFINE w == [work[c] EXCEPT !.pid = In(c).child]
             i == [In(c) EXCEPT !.child = NoPid]
  <2>1. w \in Works /\ w.pid \in Pids /\ w.then # "removeAgain"
    BY <1>1, <1>3 DEF Works, Inners
  <2>2. i \in Inners /\ i.child = NoPid
    BY <1>1 DEF Inners
  <2> HIDE DEF w, i
  <2> QED  BY <1>1, <1>2, <1>3, <2>1, <2>2, GoesOn DEF w, i
<1>4. CASE In(c).child = NoPid /\ Goto(c, "findPid") /\ UNCHANGED <<work, inner>>
  <2>1. Keep(c, work[c]) /\ SetInner(c, In(c))
    BY <1>4, Rewritten DEF Keep, SetInner
  <2> QED  BY <1>1, <1>2, <1>4, <2>1, GoesOn
<1> QED  BY <1>3, <1>4 DEF TakeChild

LEMMA StopChildKeeps ==
    ASSUME KernelInv, NEW c \in Actors, StopChild(c)
    PROVE  KernelInv'
<1>1. pc[c] = "stopChild" /\ pc[c] \in ChildlessPositions
  BY DEF StopChild, ChildlessPositions, LockedPositions
<1>2. Holds(c) /\ In(c).child = NoPid /\ In(c) \in Inners /\ work[c] \in Works
  BY <1>1, Childless
<1>3. World'
  <2>1. World
    BY <1>1, Childless
  <2> QED  BY <2>1 DEF World, StopChild, DropChild, files, bounds
<1>4. work[c].then \in {"done", "spawn"}
  BY <1>1, <1>2, Childless DEF PlacedAt, Works
<1>5. CASE SetInner(c, StoppedInner(In(c))) /\ RemoveThen(c, work[c], work[c].then) /\ UNCHANGED oplock
  BY <1>2, <1>3, <1>4, <1>5, Settled, Removes
<1>6. CASE /\ SetInner(c, StoppedInner(In(c))) \/ SetInner(c, UnhealthyInner(In(c)))
           /\ Finish(c)
  BY <1>2, <1>3, <1>6, Settled, Ends
<1> QED  BY <1>5, <1>6 DEF StopChild

LEMMA FindPidKeeps ==
    ASSUME KernelInv, NEW c \in Actors, FindPid(c)
    PROVE  KernelInv'
<1>1. pc[c] = "findPid" /\ pc[c] \in ChildlessPositions
  BY DEF FindPid, ChildlessPositions, LockedPositions
<1>2. /\ Holds(c) /\ In(c).child = NoPid /\ In(c) \in Inners /\ work[c] \in Works /\ World
      /\ UNCHANGED work => Keep(c, work[c])
      /\ UNCHANGED inner => SetInner(c, In(c))
  BY <1>1, Childless
<1>3. World'
  BY <1>2 DEF World, FindPid, files, bounds
<1>4. CASE SetInner(c, StoppedInner(In(c))) /\ Finish(c)
  BY <1>2, <1>3, <1>4, Settled, Ends
<1>5. CASE SetInner(c, StoppedInner(In(c))) /\ Goto(c, "spawn") /\ UNCHANGED <<work, oplock>>
  BY <1>2, <1>3, <1>5, Settled, GoesOn
<1>6. CASE /\ pidFile # NoPid /\ Goto(c, "signal") /\ Keep(c, [work[c] EXCEPT !.pid = pidFile])
           /\ UNCHANGED <<inner, oplock>>
  <2> DEFINE w == [work[c] EXCEPT !.pid = pidFile]
  <2>1. w \in Works /\ w.pid \in Pids
    BY <1>2, <1>6 DEF Works, World
  <2> HIDE DEF w
  <2> QED  BY <1>2, <1>3, <1>6, <2>1, GoesOn DEF w
<1> QED  BY <1>4, <1>5, <1>6 DEF FindPid

LEMMA SignalPidKeeps ==
    ASSUME KernelInv, NEW c \in Actors, SignalPid(c) \/ WaitPid(c)
    PROVE  KernelInv'
<1>1. pc[c] \in {"signal", "waitPid"} /\ pc[c] \in ChildlessPositions
  BY DEF SignalPid, WaitPid, ChildlessPositions, LockedPositions
<1>2. /\ Holds(c) /\ In(c).child = NoPid /\ In(c) \in Inners /\ work[c] \in Works /\ World
      /\ UNCHANGED work => Keep(c, work[c])
      /\ UNCHANGED inner => SetInner(c, In(c))
  BY <1>1, Childless
<1>3. World'
  BY <1>2 DEF World, SignalPid, WaitPid, files, bounds
<1>4. work[c].pid \in Pids
  BY <1>1, Childless DEF PlacedAt
<1>5. CASE RemoveThen(c, work[c], "setStopped") /\ UNCHANGED <<inner, oplock>>
  BY <1>2, <1>3, <1>5, Removes
<1>6. CASE Goto(c, "waitPid") /\ UNCHANGED <<work, oplock, inner>>
  BY <1>2, <1>3, <1>4, <1>6, GoesOn
<1>7. CASE SetInner(c, UnhealthyInner(In(c))) /\ Finish(c)
  BY <1>2, <1>3, <1>7, Settled, Ends
<1>8. CASE SignalFaults /\ Finish(c) /\ UNCHANGED inner
  <2>1. ManagedAt(In(c), FALSE, "idle", Rest)
    BY <1>2, <1>8 DEF ManagedAt
  <2> QED  BY <1>2, <1>3, <1>8, <2>1, Finishes DEF SetInner
<1> QED  BY <1>5, <1>6, <1>7, <1>8 DEF SignalPid, WaitPid

LEMMA SetStoppedKeeps ==
    ASSUME KernelInv, NEW c \in Actors, SetStopped(c)
    PROVE  KernelInv'
<1>1. pc[c] = "setStopped" /\ pc[c] \in ChildlessPositions
  BY DEF SetStopped, ChildlessPositions, LockedPositions
<1>2. /\ Holds(c) /\ In(c).child = NoPid /\ In(c) \in Inners /\ work[c] \in Works /\ World
      /\ UNCHANGED work => Keep(c, work[c])
  BY <1>1, Childless
<1>3. World' /\ SetInner(c, StoppedInner(In(c)))
  BY <1>2 DEF World, SetStopped, files, bounds
<1>4. /\ StoppedInner(In(c)) \in Inners /\ StoppedInner(In(c)).child = NoPid
      /\ ~Unsettled(StoppedInner(In(c)))
  BY <1>2, Settled
<1>5. CASE Finish(c)
  BY <1>2, <1>3, <1>4, <1>5, Ends
<1>6. CASE Goto(c, "spawn") /\ UNCHANGED <<work, oplock>>
  BY <1>2, <1>3, <1>4, <1>6, GoesOn
<1>7. CASE RemoveThen(c, work[c], "done") /\ UNCHANGED oplock
  BY <1>2, <1>3, <1>4, <1>7, Removes
<1> QED  BY <1>5, <1>6, <1>7 DEF SetStopped

LEMMA ForegroundKeeps ==
    ASSUME KernelInv, NEW c \in Actors, Foreground(c) \/ SetUnhealthy(c)
    PROVE  KernelInv'
<1>1. pc[c] \in {"foreground", "setUnhealthy"} /\ pc[c] \in ChildlessPositions \ BusyPositions
  BY DEF Foreground, SetUnhealthy, ChildlessPositions, LockedPositions, BusyPositions
<1>2. /\ Holds(c) /\ In(c).child = NoPid /\ In(c) \in Inners /\ work[c] \in Works /\ World
      /\ UNCHANGED work => Keep(c, work[c])
      /\ UNCHANGED inner => SetInner(c, In(c))
      /\ ~SignalFaults => ~Unsettled(In(c))
  BY <1>1, Childless
<1>3. World'
  BY <1>2 DEF World, Foreground, SetUnhealthy, DropChild, files, bounds
<1>4. ASSUME NEW next \in {"setStopped", "setUnhealthy"}, RemoveThen(c, work[c], next), UNCHANGED <<inner, oplock>>
      PROVE  KernelInv'
  BY <1>2, <1>3, <1>4, Removes
<1>5. CASE Goto(c, "shutdown") /\ UNCHANGED <<inner, oplock, work>> /\ pc[c] = "foreground"
  <2>1. work[c].pid \in Pids
    BY <1>5, Here DEF PlacedAt, OwnChild
  <2> QED  BY <1>2, <1>3, <1>5, <2>1, GoesOn
<1>6. CASE SetInner(c, UnhealthyInner(In(c))) /\ Finish(c)
  BY <1>2, <1>3, <1>6, Settled, Ends
<1> QED  BY <1>4, <1>5, <1>6 DEF Foreground, SetUnhealthy

\* The end of an operation, and the monitor, which has no lock to hold.
LEMMA MonitorKeeps ==
    ASSUME KernelInv, NEW a \in Actors, Done(a) \/ Probe(a) \/ Record(a)
    PROVE  KernelInv'
<1>1. /\ World /\ In(a) \in Inners /\ work[a] \in Works /\ pc[a] \in {"done", "probe", "ask"}
      /\ Holds(a) => ManagedAt(In(a), TRUE, pc[a], work[a])
  BY Here DEF Done, Probe, Record
<1>2. World'
  BY <1>1 DEF World, Done, Probe, Record, files, bounds
<1>3. CASE Done(a)
  BY <1>2, <1>3, GivesUp DEF Done, Heading, Passing, BusyPositions, LockedPositions
<1>4. \A l \in {"refresh", "done", "ask"}, w \in Works :
        w.next = "done" \/ l # "refresh" =>
            /\ PlacedAt(l, w, Holds(a)) /\ l \in Positions
            /\ Heading(l, w) \notin LockedPositions \cup LookPositions
  BY DEF PlacedAt, Positions, Heading, Passing, LockedPositions, LookPositions, OwnChild
<1>5. Holds(a) => ~Unsettled(In(a)) \/ SignalFaults
  BY <1>1 DEF ManagedAt, Heading, Passing, BusyPositions, LockedPositions
<1>6. ASSUME NEW l \in {"refresh", "done", "ask"}, NEW w \in Works, w.next = "done" \/ l # "refresh",
             Goto(a, l), Keep(a, w), NEW i \in Inners, SetInner(a, i), UNCHANGED oplock,
             i.child = In(a).child, i.job = In(a).job, i.shown.pid = In(a).shown.pid,
             i.shown.owner = In(a).shown.owner, i.shown.state \in Answering \cup {In(a).shown.state}
      PROVE  KernelInv'
  <2>1. /\ PlacedAt(l, w, Holds(a)) /\ l \in Positions
        /\ Heading(l, w) \notin LockedPositions \cup LookPositions
    BY <1>4, <1>6
  <2>2. GuardedAt(l, w, Holds(a), i.child)
    BY <2>1 DEF GuardedAt, ChildlessPositions
  <2>3. Harmless(In(a), i)
    BY <1>6 DEF Harmless, Unsettled, Changing, Answering
  <2>4. Holds(a) => ManagedAt(i, TRUE, l, w)
    BY <1>1, <1>5, <1>6 DEF ManagedAt, Unsettled, Changing, Answering
  <2> QED  BY <1>2, <1>6, <2>1, <2>2, <2>3, <2>4, Walks DEF Goto, Keep, SetInner
<1>7. CASE Probe(a)
  <2>1. SetInner(a, In(a)) /\ UNCHANGED oplock
    BY <1>7, Rewritten DEF Probe, SetInner
  <2>2. CASE Goto(a, "ask") /\ UNCHANGED work
    <3>1. Keep(a, work[a])
      BY <2>2, Rewritten DEF Keep
    <3> QED  BY <1>1, <1>6, <2>1, <2>2, <3>1
  <2>3. CASE RefreshThen(a, "done")
    <3> DEFINE w == [work[a] EXCEPT !.next = "done", !.seen = Stopped]
    <3>1. w \in Works /\ w.next = "done"
      BY <1>1 DEF Works, Positions, Stopped, Snapshots, States
    <3> HIDE DEF w
    <3>2. Goto(a, "refresh") /\ Keep(a, w)
      BY <2>3 DEF RefreshThen, w
    <3> QED  BY <1>1, <1>6, <2>1, <3>1, <3>2
  <2> QED  BY <1>7, <2>2, <2>3 DEF Probe
<1>8. CASE Record(a)
  <2>1. Goto(a, "done") /\ Keep(a, work[a]) /\ UNCHANGED oplock
    BY <1>8, Rewritten DEF Record, Keep
  <2>2. CASE UNCHANGED inner
    <3>1. SetInner(a, In(a))
      BY <2>2, Rewritten DEF SetInner
    <3> QED  BY <1>1, <1>6, <2>1, <3>1
  <2> DEFINE n == IF In(a).failures < HealthFailureThreshold THEN In(a).failures + 1 ELSE In(a).failures
  <2>3. {0, n} \subseteq 0..HealthFailureThreshold
    BY <1>1 DEF Inners, HealthFailureThreshold
  <2> HIDE DEF n
  <2>4. ASSUME NEW m \in {0, n}, NEW s \in Answering \cup {In(a).shown.state},
               SetInner(a, [In(a) EXCEPT !.failures = m, !.shown.state = s])
        PROVE  KernelInv'
    <3> DEFINE shown == [In(a).shown EXCEPT !.state = s]
               i == [In(a) EXCEPT !.failures = m, !.shown = shown]
    <3>1. In(a).shown \in Snapshots
      BY <1>1 DEF Inners
    <3>2. /\ shown \in Snapshots /\ shown.state = s
          /\ shown.pid = In(a).shown.pid /\ shown.owner = In(a).shown.owner
      BY <3>1 DEF Snapshots, States, Answering
    <3>3. SetInner(a, i)
      BY <1>1, <2>4 DEF Inners
    <3> HIDE DEF shown
    <3>4. i \in Inners /\ i.child = In(a).child /\ i.job = In(a).job /\ i.shown = shown
      BY <1>1, <2>3, <3>2 DEF Inners
    <3> HIDE DEF i
    <3> QED  BY <1>1, <1>6, <2>1, <3>2, <3>3, <3>4
  <2>5. CASE SetInner(a, [In(a) EXCEPT !.failures = 0, !.shown.state = "Running"])
    BY <2>4, <2>5 DEF Answering
  <2>6. CASE SetInner(a, [In(a) EXCEPT !.failures = n, !.shown.state =
                              IF n = HealthFailureThreshold THEN "Unhealthy" ELSE @])
    BY <2>4, <2>6 DEF Answering
  <2> QED  BY <1>8, <2>2, <2>5, <2>6 DEF Record, n
<1> QED  BY <1>3, <1>7, <1>8

\* A core exits, and a process ends: the next one starts anew.
LEMMA ExitKeeps ==
    ASSUME KernelInv, NEW k \in Pids, CoreExits(k)
    PROVE  KernelInv'
<1>1. UNCHANGED <<inner, oplock, pidFile, marker, pc, work, ops, ends>>
      /\ proc' = [proc EXCEPT ![k] = IF HasParent(k) THEN "zombie" ELSE "gone"]
  BY DEF CoreExits, files, control, bounds
<1>2. TypeOK'
  BY <1>1 DEF KernelInv, TypeOK
<1> QED  BY <1>1, <1>2 DEF KernelInv, Placed, Guarded, Managed, Holds, In

LEMMA ProcessEndsKeeps ==
    ASSUME KernelInv, NEW p \in Procs, ProcessEnds(p)
    PROVE  KernelInv'
<1>1. TypeOK
  BY DEF KernelInv
<1>2. Fresh \in Inners /\ Rest \in Works /\ "idle" \in Positions
  BY DEF Fresh, Inners, Rest, Works, Stopped, Snapshots, States, Positions, HealthFailureThreshold
<1>3. /\ UNCHANGED <<pidFile, marker, ops>>
      /\ inner' = [inner EXCEPT ![p] = Fresh] /\ oplock' = [oplock EXCEPT ![p] = Free]
      /\ pc' = [a \in Actors |-> IF ProcOf[a] = p THEN "idle" ELSE pc[a]]
      /\ work' = [a \in Actors |-> IF ProcOf[a] = p THEN Rest ELSE work[a]]
  BY DEF ProcessEnds, files
<1>4. proc' \in [Pids -> {"none", "running", "zombie", "gone"}]
  BY <1>1 DEF TypeOK, ProcessEnds
<1>5. ends' \in 0..MaxEnds
  BY <1>1, KernelAssumption DEF TypeOK, ProcessEnds
<1>6. TypeOK'
  BY <1>1, <1>2, <1>3, <1>4, <1>5 DEF TypeOK
<1>7. ASSUME NEW a \in Actors  PROVE (Placed(a) /\ Guarded(a))'
  <2>1. ProcOf[a] \in Procs /\ a # Free /\ Placed(a) /\ Guarded(a)
    BY ActorFacts DEF KernelInv
  <2>2. CASE ProcOf[a] = p
    <3>1. pc'[a] = "idle" /\ work'[a] = Rest /\ oplock'[ProcOf[a]] = Free
      BY <1>1, <1>3, <2>1, <2>2 DEF TypeOK
    <3> QED  BY <2>1, <3>1 DEF Placed, PlacedAt, Guarded, GuardedAt, Holds, Heading, Passing, LockedPositions,
             ChildlessPositions, LookPositions, OwnChild
  <2>3. CASE ProcOf[a] # p
    <3>1. pc'[a] = pc[a] /\ work'[a] = work[a] /\ oplock'[ProcOf[a]] = oplock[ProcOf[a]]
          /\ inner'[ProcOf[a]] = inner[ProcOf[a]]
      BY <1>1, <1>3, <2>1, <2>3 DEF TypeOK
    <3> QED  BY <2>1, <3>1 DEF Placed, Guarded, Holds, In
  <2> QED  BY <2>2, <2>3
<1>8. ASSUME NEW q \in Procs  PROVE Managed(q)'
  <2>1. Managed(q) /\ oplock[q] \in Actors \cup {Free}
    BY <1>1 DEF KernelInv, TypeOK
  <2>2. CASE q = p
    <3>1. inner'[q] = Fresh /\ oplock'[q] = Free
      BY <1>1, <1>3, <2>2 DEF TypeOK
    <3>2. ~Unsettled(Fresh) /\ Fresh.child = NoPid
      BY DEF Unsettled, Fresh, Stopped, Changing
    <3> QED  BY <3>1, <3>2 DEF Managed, ManagedAt
  <2>3. CASE q # p
    <3>1. inner'[q] = inner[q] /\ oplock'[q] = oplock[q]
      BY <1>1, <1>3, <2>3 DEF TypeOK
    <3>2. oplock[q] # Free => pc'[oplock[q]] = pc[oplock[q]] /\ work'[oplock[q]] = work[oplock[q]]
      BY <1>3, <2>1, <2>3 DEF Managed
    <3> QED  BY <2>1, <3>1, <3>2 DEF Managed, ManagedAt
  <2> QED  BY <2>2, <2>3
<1> QED  BY <1>6, <1>7, <1>8 DEF KernelInv

-----------------------------------------------------------------------------
(* The theorems.                                                            *)

LEMMA InitHolds == Init => KernelInv
<1> SUFFICES ASSUME Init PROVE KernelInv
  OBVIOUS
<1>1. Fresh \in Inners /\ Rest \in Works /\ "idle" \in Positions
  BY DEF Fresh, Inners, Rest, Works, Stopped, Snapshots, States, Positions, HealthFailureThreshold
<1>2. /\ inner = [q \in Procs |-> Fresh] /\ oplock = [q \in Procs |-> Free]
      /\ pc = [a \in Actors |-> "idle"] /\ work = [a \in Actors |-> Rest]
      /\ ops = 0 /\ ends = 0
  BY DEF Init
<1>3. /\ pidFile \in Pids \cup {NoPid}
      /\ marker \in [pid : Pids, owner : {"Detached", "Supervised"}] \cup {NoMarker}
      /\ proc \in [Pids -> {"none", "running", "zombie", "gone"}]
  <2>1. 1 \in Pids
    BY KernelAssumption DEF Pids
  <2>2. CASE pidFile = NoPid /\ marker = NoMarker /\ proc = [k \in Pids |-> "none"]
    BY <2>2
  <2>3. CASE pidFile = 1 /\ marker \in {NoMarker} \cup [pid : {1}, owner : {"Detached"}]
             /\ \E s \in {"running", "gone"} : proc = [k \in Pids |-> IF k = 1 THEN s ELSE "none"]
    BY <2>1, <2>3
  <2> QED  BY <2>2, <2>3 DEF Init
<1>4. TypeOK
  BY <1>1, <1>2, <1>3, KernelAssumption DEF TypeOK
<1>5. \A a \in Actors : Placed(a) /\ Guarded(a)
  <2> TAKE a \in Actors
  <2>1. pc[a] = "idle" /\ ~Holds(a)
    BY <1>2, ActorFacts DEF Holds
  <2> QED  BY <2>1 DEF Placed, PlacedAt, Guarded, GuardedAt, Heading, Passing, LockedPositions,
           ChildlessPositions, LookPositions, OwnChild
<1>6. \A q \in Procs : Managed(q)
  <2>1. ~Unsettled(Fresh) /\ Fresh.child = NoPid
    BY DEF Unsettled, Fresh, Stopped, Changing
  <2> QED  BY <1>2, <2>1 DEF Managed, ManagedAt
<1> QED  BY <1>4, <1>5, <1>6 DEF KernelInv

LEMMA StepHolds == KernelInv /\ [Next]_vars => KernelInv'
<1> SUFFICES ASSUME KernelInv, [Next]_vars PROVE KernelInv'
  OBVIOUS
<1>1. CASE UNCHANGED vars
  <2>1. UNCHANGED <<inner, oplock, pidFile, marker, proc, pc, work, ops, ends>>
    BY <1>1 DEF vars, files, control, bounds
  <2> QED  BY <2>1 DEF KernelInv, TypeOK, Placed, Guarded, Managed, Holds, In
<1>2. CASE \E c \in Clients, op \in AllKinds : Begin(c, op)
  BY <1>2, BeginKeeps
<1>3. CASE \E m \in Monitors : Tick(m)
  BY <1>3, TickKeeps
<1>4. CASE \E a \in Actors : Step(a)
  <2>1. PICK a \in Actors : Step(a)
    BY <1>4
  <2>2. CASE Refresh(a) \/ RemovePid(a) \/ RemoveOwner(a)
    BY <2>2, RefreshKeeps, RemovalKeeps
  <2>3. CASE Look(a) \/ LookProcess(a) \/ AskVersion(a)
    BY <2>3, LookKeeps
  <2>4. CASE Decide(a) \/ TryLock(a) \/ BeginOperation(a) \/ Adopt(a)
    BY <2>4, DecideKeeps, TryLockKeeps, BeginOperationKeeps, AdoptKeeps
  <2>5. CASE Spawn(a) \/ WritePid(a) \/ WriteOwner(a) \/ Publish(a)
    BY <2>5, SpawnKeeps, PublishKeeps
  <2>6. CASE EndChild(a) \/ TakeChild(a) \/ StopChild(a)
    BY <2>6, EndChildKeeps, TakeChildKeeps, StopChildKeeps
  <2>7. CASE FindPid(a) \/ SignalPid(a) \/ WaitPid(a) \/ SetStopped(a)
    BY <2>7, FindPidKeeps, SignalPidKeeps, SetStoppedKeeps
  <2>8. CASE Foreground(a) \/ SetUnhealthy(a)
    BY <2>8, ForegroundKeeps
  <2>9. CASE Done(a) \/ Probe(a) \/ Record(a)
    BY <2>9, MonitorKeeps
  <2> QED  BY <2>1, <2>2, <2>3, <2>4, <2>5, <2>6, <2>7, <2>8, <2>9 DEF Step
<1>5. CASE \E k \in Pids : CoreExits(k)
  BY <1>5, ExitKeeps
<1>6. CASE \E p \in Procs : ProcessEnds(p)
  BY <1>6, ProcessEndsKeeps
<1> QED  BY <1>1, <1>2, <1>3, <1>4, <1>5, <1>6 DEF Next

\* The invariant holds of every behaviour.
LEMMA KernelInvariant == Spec => []KernelInv
BY InitHolds, StepHolds, PTL DEF Spec

\* Every variable has its type, whatever the operations, the monitors, the cores
\* and the processes of Clash TUI do (KernelManager of kernel.rs).
THEOREM KernelTypeCorrect == Spec => []TypeOK
<1>1. KernelInv => TypeOK
  BY DEF KernelInv
<1> QED  BY <1>1, KernelInvariant, PTL

\* A manager with a child shows it, as a core that answers, whenever no operation
\* is under way: kernel.rs replaces snapshot and child together.
THEOREM KernelChildShown == Spec => []ChildIsShown
<1>1. KernelInv => ChildIsShown
  BY DEF KernelInv, Managed, ManagedAt, ChildIsShown, Answering
<1> QED  BY <1>1, KernelInvariant, PTL

\* No operation leaves its job or a state of passage behind, on any of its error
\* paths, unless a signal fails: stop then returns with the job still set (kernel.rs).
THEOREM KernelSettled ==
    ASSUME ~SignalFaults
    PROVE  Spec => []SettledWhenFree
<1>1. KernelInv => SettledWhenFree
  BY DEF KernelInv, Managed, ManagedAt, SettledWhenFree, Unsettled, Changing
<1> QED  BY <1>1, KernelInvariant, PTL

-----------------------------------------------------------------------------
(* One process, without failures, has one core.                             *)

Alone ==
    /\ \A a, b \in Actors : ProcOf[a] = ProcOf[b]
    /\ Commands = {} /\ MaxEnds = 0 /\ ~Faults /\ ~SignalFaults

\* Somebody waits for every core.
Tended == \A k \in Running : HasParent(k)

\* An actor that may find core k, and neither starts another one nor stops this one.
Finding(l, w, h, k) ==
    /\ l \in {"idle", "refresh", "look", "exists", "version", "decide", "tryLock", "begin",
              "take", "findPid", "signal", "waitPid", "done", "probe", "ask"}
    /\ l \in {"exists", "version", "signal", "waitPid"} => w.pid = k
    /\ l = "decide" /\ h => w.seen.state \in Answering

\* A core of an earlier process, which nobody here waits for.
Orphan(k) ==
    /\ Running = {k} /\ pidFile = k
    /\ \A j \in Pids : ~HasParent(j)
    /\ \A a \in Actors : Finding(pc[a], work[a], Holds(a), k)

OneCoreInv == Tended \/ \E k \in Pids : Orphan(k)

\* Whoever waits for a core of its own holds the lock, and the manager has no child.
LEMMA Parents ==
    ASSUME KernelInv, NEW a \in Actors, pc[a] \in OwnChild
    PROVE  Holds(a) /\ In(a).child = NoPid /\ work[a].pid \in Pids
<1>1. Heading(pc[a], work[a]) = pc[a] /\ pc[a] \in ChildlessPositions /\ pc[a] \in LockedPositions
  BY DEF OwnChild, Heading, Passing, ChildlessPositions, LockedPositions
<1> QED  BY <1>1, Held, Here DEF PlacedAt

\* In one process two cores cannot both have a parent.
LEMMA OneParent ==
    ASSUME KernelInv, Alone, NEW j \in Pids, NEW k \in Pids, HasParent(j), HasParent(k)
    PROVE  j = k
<1>0. NoPid \notin Pids
  BY KernelAssumption
<1>1. \A a, b \in Actors : Holds(a) /\ Holds(b) => a = b
  BY DEF Alone, Holds
<1>2. \A p, q \in Procs : p = q
  BY DEF Alone, Procs
<1>3. \A a \in Actors, p \in Procs : pc[a] \in OwnChild => inner[p].child = NoPid
  BY <1>2, Parents, ActorFacts DEF In
<1> QED  BY <1>0, <1>1, <1>2, <1>3, Parents DEF HasParent

LEMMA OneCoreFollows ==
    ASSUME KernelInv, Alone, OneCoreInv
    PROVE  OneCore
<1>1. \E k : Running \subseteq {k}
  <2>1. CASE Tended
    <3>1. \A j, k \in Running : j = k
      BY <2>1, OneParent DEF Tended, Running
    <3> QED  BY <3>1
  <2>2. CASE \E k \in Pids : Orphan(k)
    BY <2>2 DEF Orphan
  <2> QED  BY <2>1, <2>2 DEF OneCoreInv
<1>2. PICK k : Running \subseteq {k}
  BY <1>1
<1>3. Cardinality({k}) = 1 /\ IsFiniteSet({k})
  BY FS_Singleton
<1>4. Cardinality(Running) <= Cardinality({k})
  BY <1>2, <1>3, FS_Subset
<1> QED  BY <1>3, <1>4 DEF OneCore

\* A step that takes nobody away from a core that runs.
LEMMA TendedStays ==
    ASSUME KernelInv, Tended, NEW a \in Actors, Running' \subseteq Running,
           \A b \in Actors \ {a} : pc'[b] = pc[b] /\ work'[b] = work[b],
           \A p \in Procs \ {ProcOf[a]} : inner'[p] = inner[p],
           \A k \in Running' : In(a).child = k \/ (pc[a] \in OwnChild /\ work[a].pid = k)
                => inner'[ProcOf[a]].child = k \/ (pc'[a] \in OwnChild /\ work'[a].pid = k)
    PROVE  Tended'
<1> SUFFICES ASSUME NEW k \in Running' PROVE HasParent(k)'
  BY DEF Tended
<1>1. HasParent(k) /\ ProcOf[a] \in Procs
  BY ActorFacts DEF Tended
<1>2. CASE \E p \in Procs : inner[p].child = k
  BY <1>1, <1>2 DEF HasParent, In
<1>3. CASE \E b \in Actors : pc[b] \in OwnChild /\ work[b].pid = k
  BY <1>1, <1>3 DEF HasParent
<1> QED  BY <1>1, <1>2, <1>3 DEF HasParent

\* A step of an actor that may find the core.
LEMMA OrphanStays ==
    ASSUME KernelInv, NEW k \in Pids, Orphan(k), NEW a \in Actors, UNCHANGED <<proc, pidFile>>,
           \A b \in Actors \ {a} : pc'[b] = pc[b] /\ work'[b] = work[b],
           \A b \in Actors \ {a} : Holds(b)' => Holds(b),
           \A p \in Procs : inner'[p].child = inner[p].child,
           Finding(pc'[a], work'[a], Holds(a)', k)
    PROVE  Orphan(k)'
<1>1. Running' = {k} /\ pidFile' = k
  BY DEF Orphan, Running
<1>2. ASSUME NEW b \in Actors  PROVE Finding(pc[b], work[b], Holds(b), k)'
  <2>1. CASE b = a
    BY <2>1
  <2>2. CASE b # a
    BY <2>2 DEF Orphan, Finding
  <2> QED  BY <2>1, <2>2
<1>3. \A b \in Actors : pc'[b] \notin OwnChild
  BY <1>2 DEF Finding, OwnChild
<1>4. \A j \in Pids : ~HasParent(j)'
  BY <1>3 DEF Orphan, HasParent
<1> QED  BY <1>1, <1>2, <1>4 DEF Orphan

\* The actions of an actor are its own affair, but for the manager of its process.
LEMMA Frame ==
    ASSUME KernelInv, NEW a \in Actors, Step(a)
    PROVE  /\ \A b \in Actors \ {a} : pc'[b] = pc[b] /\ work'[b] = work[b]
           /\ \A p \in Procs \ {ProcOf[a]} : inner'[p] = inner[p]
           /\ \A b \in Actors \ {a} : Holds(b)' => Holds(b)
<1>1. /\ pc \in [Actors -> Positions] /\ work \in [Actors -> Works]
      /\ inner \in [Procs -> Inners] /\ oplock \in [Procs -> Actors \cup {Free}]
      /\ \A b \in Actors : b # Free /\ ProcOf[b] \in Procs
  BY ActorFacts DEF KernelInv, TypeOK
<1> DEFINE Lock == \/ UNCHANGED oplock
                   \/ oplock' = [oplock EXCEPT ![ProcOf[a]] = a]
                   \/ oplock' = [oplock EXCEPT ![ProcOf[a]] = Free]
           Goal == /\ \A b \in Actors \ {a} : pc'[b] = pc[b] /\ work'[b] = work[b]
                   /\ \A p \in Procs \ {ProcOf[a]} : inner'[p] = inner[p]
<1>2. Lock => \A b \in Actors \ {a} : Holds(b)' => Holds(b)
  BY <1>1 DEF Holds
<1>3. ASSUME Refresh(a)  PROVE Goal /\ Lock
  BY <1>1, <1>3 DEF Refresh, Goto, Keep, SetInner
<1>4. ASSUME RemovePid(a) \/ RemoveOwner(a)  PROVE Goal /\ Lock
  BY <1>1, <1>4 DEF RemovePid, RemoveOwner, Goto, Keep, SetInner
<1>5. ASSUME Look(a) \/ LookProcess(a) \/ AskVersion(a)  PROVE Goal /\ Lock
  BY <1>1, <1>5 DEF Look, LookProcess, AskVersion, RemoveThen, Goto, Keep, SetInner
<1>6. ASSUME Decide(a) \/ TryLock(a)  PROVE Goal /\ Lock
  BY <1>1, <1>6 DEF Decide, TryLock, Finish, RefreshThen, Goto, Keep, SetInner
<1>7. ASSUME BeginOperation(a) \/ Adopt(a)  PROVE Goal /\ Lock
  BY <1>1, <1>7 DEF BeginOperation, Adopt, Finish, RefreshThen, Goto, Keep, SetInner
<1>8. ASSUME Spawn(a) \/ WritePid(a) \/ WriteOwner(a)  PROVE Goal /\ Lock
  BY <1>1, <1>8 DEF Spawn, SpawnFails, WritePid, WriteOwner, Finish, Goto, Keep, SetInner
<1>9. ASSUME Publish(a) \/ EndChild(a)  PROVE Goal /\ Lock
  BY <1>1, <1>9 DEF Publish, EndChild, Finish, RemoveThen, Goto, Keep, SetInner
<1>10. ASSUME TakeChild(a) \/ StopChild(a) \/ FindPid(a)  PROVE Goal /\ Lock
  BY <1>1, <1>10 DEF TakeChild, StopChild, FindPid, Finish, RemoveThen, Goto, Keep, SetInner
<1>11. ASSUME SignalPid(a) \/ WaitPid(a) \/ SetStopped(a)  PROVE Goal /\ Lock
  BY <1>1, <1>11 DEF SignalPid, WaitPid, SetStopped, Finish, RemoveThen, Goto, Keep, SetInner
<1>12. ASSUME Foreground(a) \/ SetUnhealthy(a)  PROVE Goal /\ Lock
  BY <1>1, <1>12 DEF Foreground, SetUnhealthy, Finish, RemoveThen, Goto, Keep, SetInner
<1>13. ASSUME Done(a) \/ Probe(a) \/ Record(a)  PROVE Goal /\ Lock
  BY <1>1, <1>13 DEF Done, Probe, Record, Finish, RefreshThen, Goto, Keep, SetInner
<1> HIDE DEF Lock
<1> QED  BY <1>2, <1>3, <1>4, <1>5, <1>6, <1>7, <1>8, <1>9, <1>10, <1>11, <1>12, <1>13 DEF Step

\* The actions that neither look after a core nor give one away.
Quiet(a) ==
    \/ RemovePid(a) \/ RemoveOwner(a) \/ Look(a) \/ LookProcess(a) \/ AskVersion(a)
    \/ Decide(a) \/ TryLock(a) \/ BeginOperation(a) \/ Adopt(a)
    \/ FindPid(a) \/ SignalPid(a) \/ WaitPid(a) \/ SetStopped(a)
    \/ SetUnhealthy(a) \/ Done(a) \/ Probe(a) \/ Record(a)

LEMMA QuietKeeps ==
    ASSUME KernelInv, NEW a \in Actors, Quiet(a)
    PROVE  UNCHANGED proc /\ pc[a] \notin OwnChild /\ \A p \in Procs : inner'[p].child = inner[p].child
<1>1. In(a) \in Inners /\ ProcOf[a] \in Procs /\ inner \in [Procs -> Inners]
  BY Here DEF KernelInv, TypeOK
<1>2. ASSUME NEW i, SetInner(a, i), i.child = In(a).child
      PROVE  \A p \in Procs : inner'[p].child = inner[p].child
  BY <1>1, <1>2 DEF SetInner, In
<1>3. \A s \in States : JobState(In(a), s).child = In(a).child
  BY <1>1, Writes
<1>4. StoppedInner(In(a)).child = In(a).child /\ UnhealthyInner(In(a)).child = In(a).child
  BY <1>1, Writes
<1>5. CASE RemovePid(a) \/ RemoveOwner(a) \/ Look(a) \/ LookProcess(a) \/ AskVersion(a)
  BY <1>5 DEF RemovePid, RemoveOwner, Look, LookProcess, AskVersion, OwnChild
<1>6. CASE Decide(a) \/ TryLock(a)
  BY <1>6 DEF Decide, TryLock, OwnChild
<1>7. CASE BeginOperation(a)
  <2>1. "Stopping" \in States /\ "Restarting" \in States
    BY DEF States
  <2>2. UNCHANGED inner \/ SetInner(a, JobState(In(a), "Stopping")) \/ SetInner(a, JobState(In(a), "Restarting"))
    BY <1>7 DEF BeginOperation
  <2> QED  BY <1>2, <1>3, <1>7, <2>1, <2>2 DEF BeginOperation, OwnChild
<1>8. CASE Adopt(a)
  <2>1. CASE UNCHANGED inner
    BY <1>8, <2>1 DEF Adopt, OwnChild
  <2>2. CASE SetInner(a, JobState(In(a), "Starting"))
    BY <1>2, <1>3, <1>8, <2>2 DEF Adopt, OwnChild, States
  <2>3. ASSUME NEW n, SetInner(a, [In(a) EXCEPT !.shown = work[a].seen, !.job = FALSE, !.failures = n])
        PROVE  \A p \in Procs : inner'[p].child = inner[p].child
    <3> DEFINE i == [In(a) EXCEPT !.shown = work[a].seen, !.job = FALSE, !.failures = n]
    <3>1. i.child = In(a).child
      BY <1>1 DEF Inners
    <3> HIDE DEF i
    <3> QED  BY <1>2, <2>3, <3>1 DEF i
  <2> QED  BY <1>8, <2>1, <2>2, <2>3 DEF Adopt, OwnChild
<1>9. CASE FindPid(a) \/ SignalPid(a) \/ WaitPid(a) \/ SetStopped(a) \/ SetUnhealthy(a)
  <2>1. UNCHANGED inner \/ SetInner(a, StoppedInner(In(a))) \/ SetInner(a, UnhealthyInner(In(a)))
    BY <1>9 DEF FindPid, SignalPid, WaitPid, SetStopped, SetUnhealthy
  <2>2. \A p \in Procs : inner'[p].child = inner[p].child
    BY <1>2, <1>4, <2>1
  <2> QED  BY <1>9, <2>2 DEF FindPid, SignalPid, WaitPid, SetStopped, SetUnhealthy, OwnChild
<1>10. CASE Done(a) \/ Probe(a)
  BY <1>10 DEF Done, Probe, OwnChild
<1>11. CASE Record(a)
  <2>1. UNCHANGED inner \/ \E n, s : SetInner(a, [In(a) EXCEPT !.failures = n, !.shown.state = s])
    BY <1>11 DEF Record
  <2>2. ASSUME NEW n, NEW s, SetInner(a, [In(a) EXCEPT !.failures = n, !.shown.state = s])
        PROVE  \A p \in Procs : inner'[p].child = inner[p].child
    <3> DEFINE i == [In(a) EXCEPT !.failures = n, !.shown.state = s]
    <3>1. i.child = In(a).child
      BY <1>1 DEF Inners
    <3> HIDE DEF i
    <3> QED  BY <1>2, <2>2, <3>1 DEF i
  <2> QED  BY <1>11, <2>1, <2>2 DEF Record, OwnChild
<1> QED  BY <1>5, <1>6, <1>7, <1>8, <1>9, <1>10, <1>11 DEF Quiet

\* A core is started when nobody waits for one, and so when none runs.
LEMMA SpawnTends ==
    ASSUME KernelInv, Alone, Tended, NEW a \in Actors, Spawn(a), Step(a)
    PROVE  Tended'
<1>1. /\ pc \in [Actors -> Positions] /\ work \in [Actors -> Works] /\ inner \in [Procs -> Inners]
      /\ proc \in [Pids -> {"none", "running", "zombie", "gone"}] /\ ProcOf[a] \in Procs /\ In(a) \in Inners
      /\ NoPid \notin Pids
  BY Here, KernelAssumption DEF KernelInv, TypeOK
<1>2. Holds(a) /\ In(a).child = NoPid
  BY Held DEF Spawn, Heading, Passing, LockedPositions, ChildlessPositions
<1>3. CASE SpawnFails(a) /\ UNCHANGED proc
  <2>1. In(a).child = inner'[ProcOf[a]].child
    BY <1>1, <1>3, Writes DEF SpawnFails, SetInner
  <2>2. pc[a] \notin OwnChild /\ Running' = Running
    BY <1>3 DEF Spawn, OwnChild, Running
  <2> QED  BY <2>1, <2>2, Frame, TendedStays
<1>4. ASSUME NEW k \in Pids, proc' = [proc EXCEPT ![k] = "running"], Goto(a, "writePid"),
             Keep(a, [work[a] EXCEPT !.pid = k])
      PROVE  Tended'
  <2>1. \A j \in Pids : ~HasParent(j)
    <3>1. \A b \in Actors : pc[b] \in OwnChild => b = a
      BY <1>2, Parents DEF Alone, Holds
    <3>2. pc[a] \notin OwnChild
      BY DEF Spawn, OwnChild
    <3>3. \A p \in Procs : p = ProcOf[a]
      BY <1>1 DEF Alone, Procs
    <3> QED  BY <1>1, <1>2, <3>1, <3>2, <3>3 DEF HasParent, In
  <2>2. Running = {}
    BY <2>1 DEF Tended, Running
  <2>3. Running' = {k}
    BY <1>1, <1>4, <2>2 DEF Running
  <2>4. pc'[a] = "writePid" /\ work'[a].pid = k
    BY <1>1, <1>4 DEF Goto, Keep, Works
  <2>5. HasParent(k)'
    BY <2>4 DEF HasParent, OwnChild
  <2> QED  BY <2>3, <2>5 DEF Tended
<1> QED  BY <1>3, <1>4 DEF Spawn

LEMMA StepTends ==
    ASSUME KernelInv, Alone, Tended, NEW a \in Actors, Step(a)
    PROVE  Tended'
<1> DEFINE i == inner'[ProcOf[a]]
<1>1. /\ pc \in [Actors -> Positions] /\ work \in [Actors -> Works] /\ inner \in [Procs -> Inners]
      /\ proc \in [Pids -> {"none", "running", "zombie", "gone"}]
      /\ ProcOf[a] \in Procs /\ In(a) \in Inners /\ work[a] \in Works
      /\ NoPid \notin Pids /\ ~Faults /\ ~SignalFaults
  BY Here, KernelAssumption DEF KernelInv, TypeOK, Alone
<1>2. SUFFICES ASSUME ~Spawn(a)
               PROVE  /\ Running' \subseteq Running
                      /\ \A k \in Running' : In(a).child = k \/ (pc[a] \in OwnChild /\ work[a].pid = k)
                           => i.child = k \/ (pc'[a] \in OwnChild /\ work'[a].pid = k)
  BY Frame, TendedStays, SpawnTends
<1>3. pc[a] \in OwnChild => In(a).child = NoPid /\ work[a].pid \in Pids
  BY Parents
<1>4. ASSUME proc' = [proc EXCEPT ![work[a].pid] = "gone"], pc[a] \in OwnChild
      PROVE  Running' \subseteq Running \ {work[a].pid}
  BY <1>1, <1>3, <1>4 DEF Running
<1>5. UNCHANGED proc => Running' = Running
  BY DEF Running
<1>6. Running \subseteq Pids
  BY DEF Running
<1>7. CASE Quiet(a)
  BY <1>1, <1>5, <1>7, QuietKeeps DEF In
<1>8. CASE Refresh(a)
  <2>1. PICK j \in {Refreshed(In(a))} \cup TryWaitFails(In(a)) :
          /\ pc[a] = "refresh" /\ SetInner(a, j)
          /\ proc' = IF In(a).child # j.child THEN [proc EXCEPT ![In(a).child] = "gone"] ELSE proc
    BY <1>8 DEF Refresh
  <2>2. i = j /\ pc[a] \notin OwnChild
    BY <1>1, <2>1 DEF SetInner, OwnChild
  <2>3. In(a).child # j.child => In(a).child \in Pids /\ proc[In(a).child] = "zombie"
    <3>1. j = Refreshed(In(a))
      BY <1>1, <2>1 DEF TryWaitFails
    <3> QED  BY <1>1, <3>1 DEF Refreshed, Inners
  <2>4. Running' \subseteq Running /\ (In(a).child # j.child => In(a).child \notin Running')
    BY <1>1, <2>1, <2>3 DEF Running
  <2> QED  BY <2>2, <2>4
<1>9. CASE WritePid(a) \/ WriteOwner(a)
  <2>1. pc'[a] \in {"writeOwner", "publish"} /\ UNCHANGED <<work, proc, inner>> /\ pc[a] \in OwnChild
    BY <1>1, <1>9 DEF WritePid, WriteOwner, Goto, OwnChild
  <2> QED  BY <1>5, <2>1 DEF OwnChild, In
<1>10. CASE Publish(a)
  <2>1. pc[a] \in OwnChild /\ UNCHANGED proc
    BY <1>10 DEF Publish, OwnChild
  <2>2. CASE Op(a) \in Foregrounds
    <3>1. pc'[a] = "foreground" /\ UNCHANGED work
      BY <1>1, <1>10, <2>2 DEF Publish, Goto
    <3> QED  BY <1>1, <1>3, <1>5, <1>6, <2>1, <3>1 DEF OwnChild
  <2>3. CASE Op(a) \notin Foregrounds
    <3>1. i.child = work[a].pid
      BY <1>1, <1>10, <2>3 DEF Publish, SetInner
    <3> QED  BY <1>1, <1>3, <1>5, <1>6, <2>1, <3>1
  <2> QED  BY <2>2, <2>3
<1>11. CASE EndChild(a)
  <2>1. proc' = [proc EXCEPT ![work[a].pid] = "gone"] /\ pc[a] \in OwnChild
    BY <1>1, <1>11 DEF EndChild, OwnChild
  <2> QED  BY <1>1, <1>3, <1>4, <1>6, <2>1
<1>12. CASE TakeChild(a)
  <2>1. UNCHANGED proc /\ pc[a] \notin OwnChild
    BY <1>12 DEF TakeChild, OwnChild
  <2>2. CASE In(a).child = NoPid
    BY <1>1, <1>5, <1>6, <2>1, <2>2
  <2>3. CASE In(a).child # NoPid
    <3>1. Goto(a, "stopChild") /\ Keep(a, [work[a] EXCEPT !.pid = In(a).child])
      BY <1>12, <2>3 DEF TakeChild
    <3>2. pc'[a] = "stopChild" /\ work'[a].pid = In(a).child
      BY <1>1, <3>1 DEF Goto, Keep, Works
    <3> QED  BY <1>5, <2>1, <3>2 DEF OwnChild
  <2> QED  BY <2>2, <2>3
<1>13. CASE StopChild(a)
  <2>1. proc' = [proc EXCEPT ![work[a].pid] = "gone"] /\ pc[a] \in OwnChild
    BY <1>1, <1>13 DEF StopChild, OwnChild
  <2> QED  BY <1>1, <1>3, <1>4, <1>6, <2>1
<1>14. CASE Foreground(a)
  <2>1. pc[a] \in OwnChild
    BY <1>14 DEF Foreground, OwnChild
  <2>2. CASE proc' = [proc EXCEPT ![work[a].pid] = "gone"]
    BY <1>1, <1>3, <1>4, <1>6, <2>1, <2>2
  <2>3. CASE Goto(a, "shutdown") /\ UNCHANGED <<work, proc>>
    <3>1. pc'[a] \in OwnChild /\ work'[a].pid = work[a].pid
      BY <1>1, <2>3 DEF Goto, OwnChild
    <3>2. Running' = Running /\ NoPid \notin Running
      BY <1>1, <1>5, <1>6, <2>3
    <3> QED  BY <1>3, <2>1, <3>1, <3>2
  <2> QED  BY <1>1, <1>14, <2>2, <2>3 DEF Foreground
<1> QED  BY <1>2, <1>7, <1>8, <1>9, <1>10, <1>11, <1>12, <1>13, <1>14 DEF Step, Quiet

\* Whoever may find the core still may after its step.
LEMMA StepFinds ==
    ASSUME KernelInv, Alone, NEW k \in Pids, Orphan(k), NEW a \in Actors, Step(a)
    PROVE  Orphan(k)'
<1>1. /\ pc \in [Actors -> Positions] /\ work \in [Actors -> Works] /\ inner \in [Procs -> Inners]
      /\ ProcOf[a] \in Procs /\ In(a) \in Inners /\ work[a] \in Works
      /\ oplock \in [Procs -> Actors \cup {Free}] /\ a # Free
      /\ NoPid \notin Pids /\ ~Faults /\ ~SignalFaults
  BY Here, KernelAssumption DEF KernelInv, TypeOK, Alone
<1>2. /\ PlacedAt(pc[a], work[a], Holds(a))
      /\ GuardedAt(pc[a], work[a], Holds(a), In(a).child)
      /\ Finding(pc[a], work[a], Holds(a), k) /\ pidFile = k /\ proc[k] = "running"
  BY Here DEF Orphan, Running
<1>3. In(a).child = NoPid
  BY <1>1 DEF Orphan, HasParent, In, Inners
<1>4. k # NoPid /\ Exists(k)
  BY <1>1, <1>2 DEF Exists
<1>5. CASE Quiet(a)
  <2>1. /\ UNCHANGED proc
        /\ \A p \in Procs : inner'[p].child = inner[p].child
    BY <1>5, QuietKeeps
  <2>2. SUFFICES UNCHANGED pidFile /\ Finding(pc'[a], work'[a], Holds(a)', k)
    BY <2>1, Frame, OrphanStays
  <2>3. ASSUME Finish(a), UNCHANGED pidFile
        PROVE  UNCHANGED pidFile /\ Finding(pc'[a], work'[a], Holds(a)', k)
    BY <1>1, <2>3 DEF Finish, Goto, Finding
  <2>4. ASSUME NEW l \in {"look", "tryLock", "refresh", "begin", "take", "findPid", "probe", "done", "ask"},
               Goto(a, l), UNCHANGED pidFile
        PROVE  UNCHANGED pidFile /\ Finding(pc'[a], work'[a], Holds(a)', k)
    BY <1>1, <2>4 DEF Goto, Finding
  <2>5. ~RemovePid(a) /\ ~RemoveOwner(a) /\ ~SetStopped(a) /\ ~SetUnhealthy(a)
    BY <1>2 DEF RemovePid, RemoveOwner, SetStopped, SetUnhealthy, Finding
  <2>6. CASE Look(a)
    <3>1. CASE work[a].seen.state \notin {"Stopped", "Crashed"}
      <4>1. Holds(a) => work[a].seen.state \in Answering
        BY <1>1, <1>2, <2>6, <3>1 DEF Look, GuardedAt, Heading, Passing, LookPositions, Works, Snapshots, States,
           Changing, Answering
      <4>2. pc'[a] = "decide" /\ UNCHANGED <<work, oplock, pidFile>>
        BY <1>1, <2>6, <3>1 DEF Look, Goto, files
      <4> QED  BY <4>1, <4>2 DEF Finding, Holds
    <3>2. CASE work[a].seen.state \in {"Stopped", "Crashed"}
      <4>1. Goto(a, "exists") /\ Keep(a, [work[a] EXCEPT !.pid = pidFile]) /\ UNCHANGED pidFile
        BY <1>2, <1>4, <2>6, <3>2 DEF Look, files
      <4>2. pc'[a] = "exists" /\ work'[a].pid = k
        BY <1>1, <1>2, <4>1 DEF Goto, Keep, Works
      <4> QED  BY <4>1, <4>2 DEF Finding
    <3> QED  BY <3>1, <3>2
  <2>7. CASE LookProcess(a)
    <3>1. pc'[a] = "version" /\ UNCHANGED <<work, pidFile>> /\ work[a].pid = k
      BY <1>1, <1>2, <1>4, <2>7 DEF LookProcess, Goto, files, Finding
    <3> QED  BY <3>1 DEF Finding
  <2>8. CASE AskVersion(a)
    <3>1. PICK s \in {"Running", "Unhealthy"} :
            Keep(a, [work[a] EXCEPT
              !.pid = NoPid, !.seen = [state |-> s, owner |-> OwnerOf(work[a].pid), pid |-> work[a].pid]])
      BY <2>8 DEF AskVersion
    <3>2. work'[a].seen.state = s
      BY <1>1, <3>1 DEF Keep, Works
    <3>3. pc'[a] = "decide" /\ UNCHANGED pidFile
      BY <1>1, <2>8 DEF AskVersion, Goto, files
    <3> QED  BY <3>2, <3>3 DEF Finding, Answering
  <2>9. CASE Decide(a)
    BY <2>3, <2>4, <2>9 DEF Decide, files
  <2>10. CASE TryLock(a)
    BY <2>3, <2>4, <2>10 DEF TryLock, RefreshThen, files
  <2>11. CASE BeginOperation(a)
    BY <2>4, <2>11 DEF BeginOperation, RefreshThen, files
  <2>12. CASE Adopt(a)
    <3>1. work[a].seen.state \in {"Running", "Unhealthy"}
      BY <1>2, <2>12 DEF Adopt, Finding, Answering
    <3> QED  BY <2>3, <2>12, <3>1 DEF Adopt, files
  <2>13. CASE FindPid(a)
    <3>1. Goto(a, "signal") /\ Keep(a, [work[a] EXCEPT !.pid = pidFile]) /\ UNCHANGED pidFile
      BY <1>2, <1>4, <2>13 DEF FindPid, files
    <3>2. pc'[a] = "signal" /\ work'[a].pid = k
      BY <1>1, <1>2, <3>1 DEF Goto, Keep, Works
    <3> QED  BY <3>1, <3>2 DEF Finding
  <2>14. CASE SignalPid(a)
    <3>1. pc'[a] = "waitPid" /\ UNCHANGED <<work, pidFile>> /\ work[a].pid = k
      BY <1>1, <1>2, <1>4, <2>14 DEF SignalPid, Goto, files, Finding
    <3> QED  BY <3>1 DEF Finding
  <2>15. CASE WaitPid(a)
    <3>1. Finish(a) /\ UNCHANGED pidFile
      BY <1>2, <1>4, <2>15 DEF WaitPid, Finding, files
    <3> QED  BY <2>3, <3>1
  <2>16. CASE Done(a) \/ Probe(a) \/ Record(a)
    BY <2>3, <2>4, <2>16 DEF Done, Probe, Record, RefreshThen, files
  <2> QED  BY <1>5, <2>5, <2>6, <2>7, <2>8, <2>9, <2>10, <2>11, <2>12, <2>13, <2>14, <2>15, <2>16 DEF Quiet
<1>6. CASE Refresh(a)
  <2>1. PICK j \in {Refreshed(In(a))} \cup TryWaitFails(In(a)) :
          /\ pc[a] = "refresh" /\ SetInner(a, j)
          /\ proc' = IF In(a).child # j.child THEN [proc EXCEPT ![In(a).child] = "gone"] ELSE proc
          /\ Goto(a, IF j.shown # In(a).shown /\ j.shown.state = "Crashed" THEN "removePid" ELSE work[a].next)
          /\ UNCHANGED files
    BY <1>6 DEF Refresh
  <2>2. j = In(a)
    BY <1>1, <1>3, <2>1, Waited
  <2>3. UNCHANGED <<proc, pidFile>> /\ \A p \in Procs : inner'[p].child = inner[p].child
    BY <1>1, <2>1, <2>2 DEF SetInner, In, files
  <2>4. pc'[a] = work[a].next /\ work[a].next \in {"look", "begin", "done", "probe"}
    BY <1>1, <1>2, <2>1, <2>2 DEF Goto, PlacedAt
  <2>5. Finding(pc'[a], work'[a], Holds(a)', k)
    BY <2>4 DEF Finding
  <2> QED  BY <2>3, <2>5, Frame, OrphanStays
<1>7. CASE TakeChild(a)
  <2>1. pc'[a] = "findPid" /\ UNCHANGED <<inner, proc, pidFile>>
    BY <1>1, <1>3, <1>7 DEF TakeChild, Goto, files
  <2>2. Finding(pc'[a], work'[a], Holds(a)', k)
    BY <2>1 DEF Finding
  <2> QED  BY <2>1, <2>2, Frame, OrphanStays
<1>8. ~Spawn(a) /\ ~WritePid(a) /\ ~WriteOwner(a) /\ ~Publish(a) /\ ~EndChild(a) /\ ~StopChild(a) /\ ~Foreground(a)
  BY <1>2 DEF Spawn, WritePid, WriteOwner, Publish, EndChild, StopChild, Foreground, Finding
<1> QED  BY <1>5, <1>6, <1>7, <1>8 DEF Step, Quiet

\* A process that does not end, and cores that nobody but their parent misses.
LEMMA OneCoreStep ==
    ASSUME KernelInv, Alone, OneCoreInv, Next
    PROVE  OneCoreInv'
<1>1. TypeOK
  BY DEF KernelInv
<1>2. ASSUME NEW a \in Actors, pc[a] = "idle", NEW l \in {"tryLock", "refresh"}, Goto(a, l), NEW w, Keep(a, w),
             UNCHANGED <<inner, oplock, proc, pidFile>>
      PROVE  OneCoreInv'
  <2>1. pc'[a] = l /\ \A b \in Actors \ {a} : pc'[b] = pc[b] /\ work'[b] = work[b]
    BY <1>1, <1>2 DEF TypeOK, Goto, Keep
  <2>2. Tended => Tended'
    BY <1>2, <2>1, TendedStays DEF Running, In, OwnChild
  <2>3. ASSUME NEW k \in Pids, Orphan(k)  PROVE Orphan(k)'
    <3>1. Finding(pc'[a], work'[a], Holds(a)', k)
      BY <2>1 DEF Finding
    <3> QED  BY <1>2, <2>1, <2>3, <3>1, OrphanStays DEF Holds
  <2> QED  BY <2>2, <2>3 DEF OneCoreInv
<1>3. CASE \E c \in Clients, op \in AllKinds : Begin(c, op)
  BY <1>2, <1>3 DEF Begin, Actors, files
<1>4. CASE \E m \in Monitors : Tick(m)
  BY <1>2, <1>4 DEF Tick, Actors, files
<1>5. CASE \E a \in Actors : Step(a)
  BY <1>5, StepTends, StepFinds DEF OneCoreInv
<1>6. CASE \E k \in Pids : CoreExits(k)
  <2>1. PICK k \in Pids : CoreExits(k)
    BY <1>6
  <2>2. UNCHANGED <<inner, pc, work>> /\ Running' = Running \ {k}
    BY <1>1, <2>1 DEF CoreExits, TypeOK, Running, control
  <2>3. Tended => Tended'
    BY <2>2 DEF Tended, HasParent
  <2>4. ASSUME NEW j \in Pids, Orphan(j)  PROVE Tended'
    <3>1. Running' = {}
      BY <2>1, <2>2, <2>4 DEF Orphan, CoreExits, Running
    <3> QED  BY <3>1 DEF Tended
  <2> QED  BY <2>3, <2>4 DEF OneCoreInv
<1>7. \A p \in Procs : ~ProcessEnds(p)
  BY <1>1 DEF ProcessEnds, TypeOK, Alone
<1> QED  BY <1>3, <1>4, <1>5, <1>6, <1>7 DEF Next

LEMMA OneCoreInit == Init => OneCoreInv
<1> SUFFICES ASSUME Init PROVE OneCoreInv
  OBVIOUS
<1>0. NoPid \notin Pids /\ 1 \in Pids
  BY KernelAssumption DEF Pids
<1>1. pc = [a \in Actors |-> "idle"] /\ inner = [p \in Procs |-> Fresh]
  BY DEF Init
<1>2. CASE Running = {}
  BY <1>2 DEF OneCoreInv, Tended
<1>3. CASE pidFile = 1 /\ Running = {1}
  <2>1. \A j \in Pids : ~HasParent(j)
    BY <1>0, <1>1 DEF HasParent, OwnChild, Fresh
  <2>2. \A a \in Actors : Finding(pc[a], work[a], Holds(a), 1)
    BY <1>1 DEF Finding
  <2> QED  BY <1>0, <1>3, <2>1, <2>2 DEF OneCoreInv, Orphan
<1>4. Running = {} \/ (pidFile = 1 /\ Running = {1})
  BY <1>0 DEF Init, Running
<1> QED  BY <1>2, <1>3, <1>4

\* One process that is not ended, and whose files, spawns and signals succeed,
\* never has two cores: its start finds the core that another operation or an
\* earlier process has started, and its stop loses none (start, stop, restart and
\* foreground of kernel.rs, with the operation lock).
THEOREM KernelOneCore ==
    ASSUME Alone
    PROVE  Spec => []OneCore
<1>1. Init => KernelInv /\ OneCoreInv
  BY InitHolds, OneCoreInit
<1>2. KernelInv /\ OneCoreInv /\ [Next]_vars => (KernelInv /\ OneCoreInv)'
  <2> SUFFICES ASSUME KernelInv, OneCoreInv, [Next]_vars PROVE (KernelInv /\ OneCoreInv)'
    OBVIOUS
  <2>1. KernelInv'
    BY StepHolds
  <2>2. CASE Next
    BY <2>1, <2>2, OneCoreStep
  <2>3. CASE UNCHANGED vars
    <3>1. UNCHANGED <<inner, oplock, pidFile, marker, proc, pc, work, ops, ends>>
      BY <2>3 DEF vars, files, control, bounds
    <3> QED  BY <2>1, <3>1 DEF OneCoreInv, Tended, Orphan, Running, HasParent, Holds
  <2> QED  BY <2>2, <2>3
<1>3. KernelInv /\ OneCoreInv => OneCore
  BY OneCoreFollows
<1> QED  BY <1>1, <1>2, <1>3, PTL DEF Spec
=============================================================================
