---------------------------- MODULE ScreenProofs ----------------------------
(***************************************************************************)
(* Theorems about what the terminal interface shows: Metrics (traffic and  *)
(* memory), Tui (pages, windows, lists and settings), ProxyRows (groups    *)
(* and nodes) and ProviderWait (the wait after an import); and what the    *)
(* interface is sent: InputReader (keys and pastes).  The parts share no   *)
(* state, so each has a specification, an invariant and theorems of its    *)
(* own.                                                                    *)
(***************************************************************************)
EXTENDS Metrics, Tui, ProxyRows, ProviderWait, InputReader, ListProofs, FiniteSetTheorems, WellFoundedInduction, TLAPS

-----------------------------------------------------------------------------
(***************************************************************************)
(* Metrics: the invariant.                                                 *)

\* The traffic of one frame.
FromFrame(x) == \E frame \in Frames : OrZero(frame.up) = OrZero(x.up) /\ OrZero(frame.down) = OrZero(x.down)

\* The fields of the sample, of the held traffic and of the two tasks, and where each task may be.
MetricShapes ==
    /\ sample = [up |-> sample.up, down |-> sample.down, memory |-> sample.memory]
    /\ held = [is |-> held.is, up |-> held.up, down |-> held.down, age |-> held.age]
    /\ held.is \in BOOLEAN /\ held.age \in 0..4
    /\ task = [t \in MetricTasks |-> task[t]]
    /\ \A t \in MetricTasks :
         /\ task[t] = [at |-> task[t].at, timer |-> task[t].timer, copy |-> task[t].copy, next |-> task[t].next]
         /\ task[t].timer \in 0..Limit(t)
         /\ task[t].at = "handing" \/ task[t].next = "waiting"
    /\ task["traffic"].at \in {"connecting", "streaming", "sleeping", "handing"}
    /\ task["traffic"].at = "handing" => task["traffic"].next \in {"streaming", "sleeping"}
    /\ task["resource"].at \in {"waiting", "fetching", "handing"} /\ task["resource"].next = "waiting"
    /\ quiet \in 0..MaxQuiet

\* Ticks since the memory was last handed over, at most.
Waited ==
    CASE task["resource"].at = "waiting" -> task["resource"].timer
      [] task["resource"].at = "fetching" -> 2 + task["resource"].timer
      [] OTHER -> 8

\* The traffic task follows a stream, or hands over a frame of one and goes on.
Following == task["traffic"].at = "streaming" \/ (task["traffic"].at = "handing" /\ task["traffic"].next = "streaming")

\* How old the traffic can be at each of the places it passes: held back, in the sample, in the copy
\* that a task is handing over, on the screen.
Recent ==
    /\ held.is => FromFrame(held) /\ (held.age <= 3 => quiet <= held.age)
    /\ Busy(sample) => FromFrame(sample) /\ Following /\ quiet <= 3 + task["traffic"].timer
    /\ \A t \in MetricTasks :
         task[t].at = "handing" /\ Busy(task[t].copy) => FromFrame(task[t].copy) /\ quiet <= 13
    /\ Busy(shown) => FromFrame(shown) /\ quiet <= 13 + Waited

\* The inductive invariant.
MetricsInv == MetricShapes /\ Recent

\* The intervals of the code, in ticks of half a second.
Numbers == METRICS_RESOURCE_REFRESH_INTERVAL = 2 /\ METRICS_CONTROLLER_TIMEOUT = 6
    /\ METRICS_STREAM_RETRY_INTERVAL = 2 /\ TRAFFIC_STREAM_STALE_TIMEOUT = 10
    /\ TRAFFIC_DISPLAY_HOLD = 3 /\ MaxQuiet = 22

\* The constants have the values of the code.
LEMMA MetricConstants == Numbers
  BY DEF Numbers, METRICS_RESOURCE_REFRESH_INTERVAL, METRICS_CONTROLLER_TIMEOUT,
         METRICS_STREAM_RETRY_INTERVAL, TRAFFIC_STREAM_STALE_TIMEOUT, TRAFFIC_DISPLAY_HOLD, MaxQuiet

\* How long a task may stay where it is.
LEMMA Limits ==
    ASSUME NEW t \in MetricTasks
    PROVE  /\ task[t].at \in {"connecting", "fetching"} => Limit(t) = 6
           /\ task[t].at = "streaming" => Limit(t) = 10
           /\ task[t].at \in {"sleeping", "waiting"} => Limit(t) = 2
           /\ task[t].at = "handing" => Limit(t) = 0
  BY MetricConstants DEF Numbers, Limit

\* What a step does to the tasks.
LEMMA OneTask ==
    ASSUME MetricsInv, NEW t \in MetricTasks, NEW next, task' = [task EXCEPT ![t] = next]
    PROVE  /\ task' = [u \in MetricTasks |-> task'[u]] /\ task'[t] = next
           /\ \A u \in MetricTasks \ {t} : task'[u] = task[u] /\ Limit(u)' = Limit(u)
  BY DEF MetricsInv, MetricShapes, Limit

\* A task that goes elsewhere starts its timer again and keeps the rest.
LEMMA GoesTo ==
    ASSUME MetricsInv, NEW t \in MetricTasks, NEW where, Goes(t, where)
    PROVE  task' = [task EXCEPT ![t] = [at |-> where, timer |-> 0, copy |-> task[t].copy, next |-> task[t].next]]
  BY DEF Goes

\* The resource task starts to ask for the memory.
LEMMA FetchBeginsKeeps == MetricsInv /\ FetchBegins => MetricsInv'
<1> SUFFICES ASSUME MetricsInv, FetchBegins
             PROVE  MetricsInv'
  OBVIOUS
<1> DEFINE r == task["resource"]
           next == [at |-> "fetching", timer |-> 0, copy |-> r.copy, next |-> r.next]
<1>1. /\ r.at = "waiting" /\ UNCHANGED <<sample, held, shown, quiet>>
      /\ task' = [task EXCEPT !["resource"] = next]
  BY GoesTo DEF FetchBegins, TaskAt, MetricTasks
<1>2. /\ task' = [u \in MetricTasks |-> task'[u]] /\ task'["resource"] = next
      /\ task'["traffic"] = task["traffic"] /\ Limit("traffic")' = Limit("traffic")
  BY <1>1, OneTask DEF MetricTasks
<1>3. r.next = "waiting" /\ r.timer \in 0..2
  BY <1>1, Limits DEF MetricsInv, MetricShapes, MetricTasks
<1>4. MetricShapes'
  BY <1>1, <1>2, <1>3, MetricConstants DEF MetricsInv, MetricShapes, MetricTasks, Limit, Numbers
<1>5. Waited \in 0..2 /\ Waited' = 2
  BY <1>1, <1>2, <1>3 DEF Waited
<1>6. Recent'
  <2>1. \A x : FromFrame(x) <=> FromFrame(x)'
    BY DEF FromFrame, OrZero
  <2>2. quiet \in Nat
    BY DEF MetricsInv, MetricShapes
  <2> QED BY <1>1, <1>2, <1>5, <2>1, <2>2 DEF MetricsInv, Recent, MetricTasks, Following, FromFrame, Busy
<1> QED BY <1>4, <1>6 DEF MetricsInv

\* The traffic task connects, or tries again after a pause.
LEMMA TrafficGoesKeeps == MetricsInv /\ (TrafficConnects \/ TrafficWakes) => MetricsInv'
<1> SUFFICES ASSUME MetricsInv, TrafficConnects \/ TrafficWakes
             PROVE  MetricsInv'
  OBVIOUS
<1> DEFINE f == task["traffic"]
           where == IF TrafficConnects THEN "streaming" ELSE "connecting"
           next == [at |-> where, timer |-> 0, copy |-> f.copy, next |-> f.next]
<1>1. /\ f.at \in {"connecting", "sleeping"} /\ UNCHANGED <<sample, held, shown, quiet>>
      /\ Goes("traffic", where)
  BY DEF TrafficConnects, TrafficWakes, TaskAt
<1>2. where \in {"streaming", "connecting"}
  OBVIOUS
<1> HIDE DEF where
<1>3. task' = [task EXCEPT !["traffic"] = next]
  BY <1>1, GoesTo DEF MetricTasks
<1>4. /\ task' = [u \in MetricTasks |-> task'[u]] /\ task'["traffic"] = next
      /\ task'["resource"] = task["resource"] /\ Limit("resource")' = Limit("resource")
  BY <1>3, OneTask DEF MetricTasks
<1>5. f.next = "waiting" /\ ~Busy(sample)
  BY <1>1 DEF MetricsInv, MetricShapes, MetricTasks, Recent, Following
<1>6. MetricShapes'
  BY <1>1, <1>2, <1>4, <1>5, MetricConstants DEF MetricsInv, MetricShapes, MetricTasks, Limit, Numbers
<1>7. Recent'
  BY <1>1, <1>2, <1>4, <1>5 DEF MetricsInv, Recent, MetricTasks, Waited, Following, FromFrame, Busy
<1> QED BY <1>6, <1>7 DEF MetricsInv

-----------------------------------------------------------------------------
\* A task hands a copy of the snapshot over.
LEMMA TrafficHandsKeeps ==
    ASSUME MetricsInv, task["traffic"].at # "handing", NEW next \in {"streaming", "sleeping"},
           Hands("traffic", next), UNCHANGED shown, quiet' \in {0, quiet},
           sample' = [up |-> sample'.up, down |-> sample'.down, memory |-> sample'.memory],
           held' = [is |-> held'.is, up |-> held'.up, down |-> held'.down, age |-> held'.age],
           held'.is \in BOOLEAN, held'.age \in 0..4,
           held'.is => FromFrame(held)' /\ (held'.age <= 3 => quiet' <= held'.age),
           Busy(sample)' => FromFrame(sample)' /\ next = "streaming" /\ quiet' <= 3
    PROVE  MetricsInv'
<1> DEFINE to == [at |-> "handing", timer |-> 0, copy |-> sample', next |-> next]
<1>1. /\ task' = [u \in MetricTasks |-> task'[u]] /\ task'["traffic"] = to
      /\ task'["resource"] = task["resource"] /\ Limit("resource")' = Limit("resource")
  BY OneTask DEF Hands, MetricTasks
<1>2. quiet \in 0..22 /\ MaxQuiet = 22
  BY MetricConstants DEF MetricsInv, MetricShapes, Numbers
<1>3. MetricShapes'
  BY <1>1, <1>2 DEF MetricsInv, MetricShapes, MetricTasks, Limit
<1>4. Waited' = Waited /\ Waited \in Nat
  BY <1>1, Limits DEF Waited, MetricsInv, MetricShapes, MetricTasks
<1>5. \A x : FromFrame(x) <=> FromFrame(x)'
  BY DEF FromFrame, OrZero
<1>6. Recent'
  <2>1. held'.is => FromFrame(held)' /\ (held'.age <= 3 => quiet' <= held'.age)
    OBVIOUS
  <2>2. Busy(sample)' => FromFrame(sample)' /\ Following' /\ quiet' <= 3 + task'["traffic"].timer
    BY <1>1 DEF Following
  <2>3. Busy(shown)' => FromFrame(shown)' /\ quiet' <= 13 + Waited'
    BY <1>2, <1>4 DEF MetricsInv, Recent, FromFrame, Busy
  <2>4. task'["traffic"].at = "handing" /\ Busy(task["traffic"].copy)'
          => FromFrame(task["traffic"].copy)' /\ quiet' <= 13
    BY <1>1, <1>2 DEF FromFrame, Busy
  <2>5. task'["resource"].at = "handing" /\ Busy(task["resource"].copy)'
          => FromFrame(task["resource"].copy)' /\ quiet' <= 13
    BY <1>1, <1>2 DEF MetricsInv, Recent, MetricTasks, FromFrame, Busy
  <2> QED BY <2>1, <2>2, <2>3, <2>4, <2>5 DEF Recent, MetricTasks
<1> QED BY <1>3, <1>6 DEF MetricsInv

\* A frame of the stream becomes the sample, or is held back for the traffic of an earlier one.
LEMMA FrameKeeps == MetricsInv /\ TrafficFrame => MetricsInv'
<1> SUFFICES ASSUME MetricsInv, TrafficFrame
             PROVE  MetricsInv'
  OBVIOUS
<1>1. PICK frame \in Frames : ApplyTrafficResponse(frame) /\ quiet' = IF Busy(frame) THEN 0 ELSE quiet
  BY DEF TrafficFrame
<1>2. task["traffic"].at = "streaming" /\ Hands("traffic", "streaming") /\ UNCHANGED shown
  BY DEF TrafficFrame, TaskAt
<1> DEFINE holds == held.is /\ held.age <= 3 /\ frame # NoTraffic
           now == [is |-> TRUE, up |-> OrZero(frame.up), down |-> OrZero(frame.down), age |-> 0]
           from == IF ~Busy(frame) /\ holds THEN held ELSE frame
<1>3. /\ sample' = Showing(from)
      /\ held' = IF Busy(frame) THEN now ELSE IF holds THEN held ELSE NotHeld
  BY <1>1, MetricConstants DEF ApplyTrafficResponse, Numbers
<1>4. sample = [up |-> sample.up, down |-> sample.down, memory |-> sample.memory]
  BY DEF MetricsInv, MetricShapes
<1>5. sample' = [up |-> from.up, down |-> from.down, memory |-> sample.memory]
  <2> HIDE DEF from
  <2> QED BY <1>3, <1>4 DEF Showing
<1>6. /\ held = [is |-> held.is, up |-> held.up, down |-> held.down, age |-> held.age]
      /\ held.is \in BOOLEAN /\ held.age \in 0..4 /\ quiet \in Nat
      /\ held.is => FromFrame(held) /\ (held.age <= 3 => quiet <= held.age)
  BY DEF MetricsInv, MetricShapes, Recent
<1>7. FromFrame(frame) /\ FromFrame(now)
  BY DEF FromFrame, OrZero
<1>8. \A x : FromFrame(x) <=> FromFrame(x)'
  BY DEF FromFrame, OrZero
<1>9. /\ held' = [is |-> held'.is, up |-> held'.up, down |-> held'.down, age |-> held'.age]
      /\ held'.is \in BOOLEAN /\ held'.age \in 0..4
      /\ held'.is => FromFrame(held') /\ (held'.age <= 3 => quiet' <= held'.age)
  <2>1. CASE Busy(frame)
    <3>1. held' = now /\ quiet' = 0
      BY <1>1, <1>3, <2>1
    <3> QED BY <1>7, <3>1
  <2>2. CASE ~Busy(frame) /\ holds
    <3>1. held' = held /\ quiet' = quiet
      BY <1>1, <1>3, <2>2
    <3> QED BY <1>6, <3>1
  <2>3. CASE ~Busy(frame) /\ ~holds
    <3>1. held' = NotHeld
      BY <1>3, <2>3
    <3> QED BY <3>1 DEF NotHeld
  <2> QED BY <2>1, <2>2, <2>3
<1>10. Busy(sample') => FromFrame(sample') /\ quiet' <= 3
  <2>1. CASE Busy(frame)
    <3>1. from = frame /\ quiet' = 0
      BY <1>1, <2>1
    <3> QED BY <1>5, <1>7, <3>1 DEF FromFrame
  <2>2. CASE ~Busy(frame) /\ holds
    <3>1. from = held /\ quiet' = quiet /\ quiet <= held.age /\ held.age <= 3 /\ FromFrame(held)
      BY <1>1, <1>6, <2>2
    <3> QED BY <1>5, <1>6, <3>1 DEF FromFrame
  <2>3. CASE ~Busy(frame) /\ ~holds
    <3>1. from = frame
      BY <2>3
    <3> QED BY <1>5, <2>3, <3>1 DEF Busy
  <2> QED BY <2>1, <2>2, <2>3
<1>11. Busy(sample)' <=> Busy(sample')
  BY DEF Busy
<1>12. quiet' \in {0, quiet}
  BY <1>1
<1>13. sample' = [up |-> sample'.up, down |-> sample'.down, memory |-> sample'.memory]
  BY <1>5
<1>14. FromFrame(held)' <=> FromFrame(held')
  BY DEF FromFrame
<1>15. FromFrame(sample)' <=> FromFrame(sample')
  BY DEF FromFrame
<1> HIDE DEF from, holds, now
<1> QED BY <1>2, <1>9, <1>10, <1>11, <1>12, <1>13, <1>14, <1>15, TrafficHandsKeeps

\* A stream that ends, or is silent for too long, takes its traffic with it.
LEMMA StopsKeeps == MetricsInv /\ TrafficStops => MetricsInv'
<1> SUFFICES ASSUME MetricsInv, TrafficStops
             PROVE  MetricsInv'
  OBVIOUS
<1>1. /\ task["traffic"].at # "handing" /\ Hands("traffic", "sleeping") /\ UNCHANGED <<shown, quiet>>
      /\ sample' = Showing(NoTraffic) /\ held' = NotHeld
  BY DEF TrafficStops, TaskAt, ClearTrafficMetrics
<1>2. sample = [up |-> sample.up, down |-> sample.down, memory |-> sample.memory]
  BY DEF MetricsInv, MetricShapes
<1>3. sample' = [up |-> NotKnown, down |-> NotKnown, memory |-> sample.memory]
  BY <1>1, <1>2 DEF Showing, NoTraffic
<1>4. ~Busy(sample)'
  BY <1>3 DEF Busy, Moving
<1>5. held' = [is |-> FALSE, up |-> 0, down |-> 0, age |-> 0]
  BY <1>1 DEF NotHeld
<1> QED BY <1>1, <1>3, <1>4, <1>5, TrafficHandsKeeps

\* The memory joins the traffic of the sample.
LEMMA ResourceKeeps == MetricsInv /\ ApplyResourceSample => MetricsInv'
<1> SUFFICES ASSUME MetricsInv, ApplyResourceSample
             PROVE  MetricsInv'
  OBVIOUS
<1>1. PICK memory \in Memories : sample' = [sample EXCEPT !.memory = memory]
  BY DEF ApplyResourceSample
<1>2. task["resource"].at = "fetching" /\ Hands("resource", "waiting") /\ UNCHANGED <<held, shown, quiet>>
  BY DEF ApplyResourceSample, TaskAt
<1> DEFINE to == [at |-> "handing", timer |-> 0, copy |-> sample', next |-> "waiting"]
<1>3. /\ task' = [u \in MetricTasks |-> task'[u]] /\ task'["resource"] = to
      /\ task'["traffic"] = task["traffic"] /\ Limit("traffic")' = Limit("traffic")
  BY <1>2, OneTask DEF Hands, MetricTasks
<1>4. sample = [up |-> sample.up, down |-> sample.down, memory |-> sample.memory]
  BY DEF MetricsInv, MetricShapes
<1>5. sample' = [up |-> sample.up, down |-> sample.down, memory |-> memory]
  BY <1>1, <1>4
<1>6. MetricShapes'
  BY <1>2, <1>3, <1>5 DEF MetricsInv, MetricShapes, MetricTasks, Limit
<1>7. (Busy(sample') <=> Busy(sample)) /\ (FromFrame(sample') <=> FromFrame(sample))
  BY <1>5 DEF Busy, FromFrame
<1>8. task["traffic"].timer \in 0..10 /\ quiet \in Nat /\ task["resource"].timer \in 0..6
  BY <1>2, Limits DEF MetricsInv, MetricShapes, MetricTasks
<1>9. Waited' = 8 /\ Waited \in 0..8
  BY <1>2, <1>3, <1>8 DEF Waited
<1>10. Busy(sample) => FromFrame(sample) /\ Following /\ quiet <= 3 + task["traffic"].timer
  BY DEF MetricsInv, Recent
<1>11. Recent'
  <2>1. held'.is => FromFrame(held)' /\ (held'.age <= 3 => quiet' <= held'.age)
    BY <1>2 DEF MetricsInv, Recent, FromFrame
  <2>2. Busy(sample)' => FromFrame(sample)' /\ Following' /\ quiet' <= 3 + task'["traffic"].timer
    <3>1. (Busy(sample)' <=> Busy(sample')) /\ (FromFrame(sample)' <=> FromFrame(sample'))
      BY DEF Busy, FromFrame
    <3> QED BY <1>2, <1>3, <1>7, <1>10, <3>1 DEF Following
  <2>3. Busy(shown)' => FromFrame(shown)' /\ quiet' <= 13 + Waited'
    BY <1>2, <1>8, <1>9 DEF MetricsInv, Recent, FromFrame, Busy
  <2>4. task'["traffic"].at = "handing" /\ Busy(task["traffic"].copy)'
          => FromFrame(task["traffic"].copy)' /\ quiet' <= 13
    BY <1>2, <1>3 DEF MetricsInv, Recent, MetricTasks, FromFrame, Busy
  <2>5. Busy(task["resource"].copy)' => FromFrame(task["resource"].copy)' /\ quiet' <= 13
    <3>1. /\ Busy(task["resource"].copy)' <=> Busy(sample')
          /\ FromFrame(task["resource"].copy)' <=> FromFrame(sample')
      BY <1>3 DEF Busy, FromFrame
    <3> QED BY <1>2, <1>7, <1>8, <1>10, <3>1
  <2> QED BY <2>1, <2>2, <2>3, <2>4, <2>5 DEF Recent, MetricTasks
<1> QED BY <1>6, <1>11 DEF MetricsInv

\* The interface shows the copy.
LEMMA ShowsKeeps ==
    ASSUME MetricsInv, NEW t \in MetricTasks, UpdateRuntimeSnapshot(t)
    PROVE  MetricsInv'
<1> DEFINE to == [at |-> task[t].next, timer |-> task[t].timer, copy |-> NoSample, next |-> "waiting"]
<1>1. /\ task[t].at = "handing" /\ shown' = task[t].copy /\ UNCHANGED <<sample, held, quiet>>
      /\ task' = [task EXCEPT ![t] = to]
  BY DEF UpdateRuntimeSnapshot, TaskAt
<1>2. /\ task' = [u \in MetricTasks |-> task'[u]] /\ task'[t] = to
      /\ \A u \in MetricTasks \ {t} : task'[u] = task[u] /\ Limit(u)' = Limit(u)
  BY <1>1, OneTask
<1>3. task[t].timer = 0
  BY <1>1, Limits DEF MetricsInv, MetricShapes
<1>4. task[t].next \in (IF t = "traffic" THEN {"streaming", "sleeping"} ELSE {"waiting"})
  BY <1>1 DEF MetricsInv, MetricShapes, MetricTasks
<1>5. MetricShapes'
  BY <1>1, <1>2, <1>3, <1>4, MetricConstants DEF MetricsInv, MetricShapes, MetricTasks, Limit, Numbers
<1>6. quiet \in Nat /\ Waited \in Nat /\ Waited' \in Nat /\ (Waited' # Waited => t = "resource")
  BY <1>2, <1>3, <1>4, Limits DEF MetricsInv, MetricShapes, Waited, MetricTasks
<1>7. ~Busy(NoSample)
  BY DEF Busy, Moving, NoSample
<1>8. Busy(task[t].copy) => FromFrame(task[t].copy) /\ quiet <= 13
  BY <1>1 DEF MetricsInv, Recent
<1>9. Recent'
  <2>1. held'.is => FromFrame(held)' /\ (held'.age <= 3 => quiet' <= held'.age)
    BY <1>1 DEF MetricsInv, Recent, FromFrame
  <2>2. Busy(sample)' => FromFrame(sample)' /\ Following' /\ quiet' <= 3 + task'["traffic"].timer
    <3>1. Busy(sample) => FromFrame(sample) /\ Following /\ quiet <= 3 + task["traffic"].timer
      BY DEF MetricsInv, Recent
    <3>2. (Busy(sample)' <=> Busy(sample)) /\ (FromFrame(sample)' <=> FromFrame(sample))
      BY <1>1 DEF Busy, FromFrame
    <3>3. Following => Following'
      BY <1>1, <1>2, <1>4 DEF Following, MetricTasks
    <3>4. task'["traffic"].timer = task["traffic"].timer
      BY <1>2 DEF MetricTasks
    <3> QED BY <1>1, <3>1, <3>2, <3>3, <3>4
  <2>3. Busy(shown)' => FromFrame(shown)' /\ quiet' <= 13 + Waited'
    <3>1. /\ Busy(shown)' <=> Busy(task[t].copy)
          /\ FromFrame(shown)' <=> FromFrame(task[t].copy)
      BY <1>1 DEF Busy, FromFrame
    <3> QED BY <1>1, <1>6, <1>8, <3>1
  <2>4. ASSUME NEW u \in MetricTasks, task'[u].at = "handing", Busy(task[u].copy)'
        PROVE  FromFrame(task[u].copy)' /\ quiet' <= 13
    <3>1. u # t
      BY <1>2, <1>4, <2>4
    <3>2. /\ Busy(task[u].copy)' <=> Busy(task[u].copy)
          /\ FromFrame(task[u].copy)' <=> FromFrame(task[u].copy)
      BY <1>2, <3>1 DEF Busy, FromFrame
    <3> QED BY <1>1, <1>2, <2>4, <3>1, <3>2 DEF MetricsInv, Recent
  <2> QED BY <2>1, <2>2, <2>3, <2>4 DEF Recent
<1> QED BY <1>5, <1>9 DEF MetricsInv

\* Time passes, for everything that has an age.
LEMMA TickKeeps == MetricsInv /\ Tick => MetricsInv'
<1> SUFFICES ASSUME MetricsInv, Tick
             PROVE  MetricsInv'
  OBVIOUS
<1>1. /\ \A t \in MetricTasks : task[t].timer < Limit(t)
      /\ task' = [t \in MetricTasks |-> [task[t] EXCEPT !.timer = @ + 1]]
      /\ held' = [held EXCEPT !.age = IF held.is /\ held.age <= 3 THEN held.age + 1 ELSE @]
      /\ quiet' = IF quiet < 22 THEN quiet + 1 ELSE quiet
      /\ UNCHANGED <<sample, shown>>
  BY MetricConstants DEF Tick, Numbers
<1>2. ASSUME NEW t \in MetricTasks
      PROVE  /\ task'[t] = [at |-> task[t].at, timer |-> task[t].timer + 1, copy |-> task[t].copy, next |-> task[t].next]
             /\ Limit(t)' = Limit(t) /\ task'[t].timer \in 0..Limit(t) /\ task[t].timer \in Nat
             /\ task[t].at # "handing" /\ task'[t].at # "handing"
  <2>1. /\ task[t] = [at |-> task[t].at, timer |-> task[t].timer, copy |-> task[t].copy, next |-> task[t].next]
        /\ task[t].timer \in 0..Limit(t)
    BY DEF MetricsInv, MetricShapes
  <2>2. task'[t] = [at |-> task[t].at, timer |-> task[t].timer + 1, copy |-> task[t].copy, next |-> task[t].next]
    BY <1>1, <2>1
  <2>3. Limit(t)' = Limit(t)
    BY <2>2 DEF Limit
  <2>4. Limit(t) \in {6, 10, 2, 0}
    BY MetricConstants DEF Limit, Numbers
  <2>5. task[t].timer < Limit(t)
    BY <1>1
  <2>6. task[t].at # "handing"
    BY <2>1, <2>4, <2>5, Limits
  <2>7. task'[t].at = task[t].at
    BY <2>2
  <2> QED BY <2>1, <2>2, <2>3, <2>4, <2>5, <2>6, <2>7
<1>3. /\ held = [is |-> held.is, up |-> held.up, down |-> held.down, age |-> held.age]
      /\ held.is \in BOOLEAN /\ held.age \in 0..4 /\ quiet \in 0..22
      /\ held.is => FromFrame(held) /\ (held.age <= 3 => quiet <= held.age)
  BY MetricConstants DEF MetricsInv, MetricShapes, Recent, Numbers
<1> DEFINE age == IF held.is /\ held.age <= 3 THEN held.age + 1 ELSE held.age
<1>4. held' = [is |-> held.is, up |-> held.up, down |-> held.down, age |-> age] /\ age \in 0..4
  BY <1>1, <1>3
<1>5. quiet' \in 0..22 /\ quiet' <= quiet + 1
  BY <1>1, <1>3
<1>6. MetricShapes'
  BY <1>1, <1>2, <1>4, <1>5, MetricConstants DEF MetricsInv, MetricShapes, MetricTasks, Numbers
<1>7. Waited' = Waited + 1 /\ Waited \in Nat
  BY <1>2 DEF Waited, MetricTasks, MetricsInv, MetricShapes
<1>8. Recent'
  <2>1. held'.is => FromFrame(held)' /\ (held'.age <= 3 => quiet' <= held'.age)
    <3>1. FromFrame(held)' <=> FromFrame(held)
      BY <1>4 DEF FromFrame
    <3> QED BY <1>3, <1>4, <1>5, <3>1
  <2>2. Busy(sample)' => FromFrame(sample)' /\ Following' /\ quiet' <= 3 + task'["traffic"].timer
    <3>1. Busy(sample) => FromFrame(sample) /\ Following /\ quiet <= 3 + task["traffic"].timer
      BY DEF MetricsInv, Recent
    <3>2. (Busy(sample)' <=> Busy(sample)) /\ (FromFrame(sample)' <=> FromFrame(sample))
      BY <1>1 DEF Busy, FromFrame
    <3>3. (Following <=> Following') /\ task'["traffic"].timer = task["traffic"].timer + 1
      BY <1>2 DEF Following, MetricTasks
    <3>4. task["traffic"].timer \in Nat
      BY <1>2 DEF MetricTasks
    <3> QED BY <1>3, <1>5, <3>1, <3>2, <3>3, <3>4
  <2>3. Busy(shown)' => FromFrame(shown)' /\ quiet' <= 13 + Waited'
    <3>1. (Busy(shown)' <=> Busy(shown)) /\ (FromFrame(shown)' <=> FromFrame(shown))
      BY <1>1 DEF Busy, FromFrame
    <3>2. Busy(shown) => FromFrame(shown) /\ quiet <= 13 + Waited
      BY DEF MetricsInv, Recent
    <3> QED BY <1>3, <1>5, <1>7, <3>1, <3>2
  <2>4. \A t \in MetricTasks : task'[t].at # "handing"
    BY <1>2
  <2> QED BY <2>1, <2>2, <2>3, <2>4 DEF Recent
<1> QED BY <1>6, <1>8 DEF MetricsInv

\* The interface starts with nothing to show.
LEMMA MetricsStart == MetricsInit => MetricsInv
<1> SUFFICES ASSUME MetricsInit
             PROVE  MetricsInv
  OBVIOUS
<1>1. ~Busy(sample) /\ ~Busy(shown) /\ ~held.is
  BY DEF MetricsInit, NoSample, Busy, Moving, NotHeld
<1>2. MetricShapes
  BY MetricConstants DEF MetricsInit, MetricShapes, MetricTasks, NoSample, NotHeld, Limit, Numbers
<1>3. \A t \in MetricTasks : task[t].at # "handing"
  BY DEF MetricsInit, MetricTasks
<1> QED BY <1>1, <1>2, <1>3 DEF MetricsInv, Recent

\* Every step of the two tasks, of the interface and of the clock keeps the invariant.
LEMMA MetricsStep == MetricsInv /\ [MetricsNext]_metricsVars => MetricsInv'
<1>1. MetricsInv /\ UNCHANGED metricsVars => MetricsInv'
  BY DEF metricsVars, MetricsInv, MetricShapes, Recent, Busy, Moving, FromFrame, OrZero, Following, Waited, Limit
<1> QED BY <1>1, FetchBeginsKeeps, TrafficGoesKeeps, FrameKeeps, StopsKeeps, ResourceKeeps, ShowsKeeps, TickKeeps
        DEF MetricsNext

\* The traffic at every place is of a frame, and as old as its place allows.
THEOREM MetricsInvariant == MetricsSpec => []MetricsInv
<1> QED BY MetricsStart, MetricsStep, PTL DEF MetricsSpec

\* The metrics keep their types (MetricsSpec => []MetricsTypeOK).
THEOREM MetricsTypeCorrect == MetricsSpec => []MetricsTypeOK
<1>1. MetricsInv => MetricsTypeOK
  BY MetricConstants DEF MetricsInv, MetricShapes, MetricsTypeOK, Numbers
<1> QED BY <1>1, MetricsInvariant, PTL

\* The traffic on screen is that of a frame the controller sent, and of no longer ago than the time-outs
\* add up to, whatever the two tasks and the interface do in between.
THEOREM TrafficRecent == MetricsSpec => []TrafficIsOfNow
<1>1. MetricsInv => TrafficIsOfNow
  <2> SUFFICES ASSUME MetricsInv, Busy(shown)
               PROVE  TrafficIsOfNow
    BY DEF TrafficIsOfNow
  <2>1. FromFrame(shown) /\ quiet <= 13 + Waited /\ quiet \in Nat
    BY DEF MetricsInv, MetricShapes, Recent
  <2>2. Waited \in 0..8
    BY Limits DEF MetricsInv, MetricShapes, Waited, MetricTasks
  <2> QED BY <2>1, <2>2, MetricConstants DEF TrafficIsOfNow, FromFrame, Numbers
<1> QED BY <1>1, MetricsInvariant, PTL

-----------------------------------------------------------------------------
(***************************************************************************)
(* The interface: lists and windows.                                       *)

-----------------------------------------------------------------------------
(* Lists.                                                                  *)

\* A list with its cursor anywhere, and one with it on a row the filter shows.
IsList(l) ==
    /\ l = [rows |-> l.rows, at |-> l.at, query |-> l.query]
    /\ l.rows \in Seq(PageNames)
\* The cursor is on a row that the filter shows, or on the first place when it shows none.
OnShownRow(l) == IF Shown(l) = {} THEN l.at = 1 ELSE l.at \in Shown(l)

\* Lists with their cursors anywhere, as between a change of the rows and the clamping after it.
Raw(ls) == ls = [p \in DOMAIN Listings |-> ls[p]] /\ \A p \in DOMAIN Listings : IsList(ls[p])
\* Lists with every cursor on a row that is shown.
Clean(ls) == Raw(ls) /\ \A p \in DOMAIN Listings : OnShownRow(ls[p])

\* Clamping brings every cursor onto a row that is shown.
LEMMA ClampCleans == ASSUME NEW ls, Raw(ls) PROVE Clean(ClampLists(ls))
<1> DEFINE new == ClampLists(ls)
<1>1. new = [p \in DOMAIN Listings |-> new[p]]
  BY DEF Raw, ClampLists
<1>2. ASSUME NEW p \in DOMAIN Listings
      PROVE  IsList(new[p]) /\ OnShownRow(new[p])
  <2> DEFINE l == ls[p]
             at == ClampRow(l.at, Shown(l))
  <2>1. IsList(l) /\ Shown(l) \subseteq Nat
    BY DEF Raw, IsList, Shown
  <2>2. new[p] = [l EXCEPT !.at = at]
    BY DEF Raw, ClampLists
  <2>3. (at = 1 /\ Shown(l) = {}) \/ at \in Shown(l)
    BY <2>1, Least DEF ClampRow
  <2> HIDE DEF at, l, new
  <2>4. new[p] = [rows |-> l.rows, at |-> at, query |-> l.query]
    BY <2>1, <2>2 DEF IsList
  <2>5. Shown(new[p]) = Shown(l)
    BY <2>4 DEF Shown
  <2> QED BY <2>1, <2>3, <2>4, <2>5 DEF IsList, OnShownRow
<1> QED BY <1>1, <1>2 DEF Clean, Raw

\* New rows may leave the cursor anywhere.
LEMMA LoadIsRaw ==
    ASSUME NEW ls, Raw(ls), NEW p, NEW rows, rows \in Seq(PageNames)
    PROVE  Raw(Load(ls, p, rows))
<1> DEFINE at == IF p = "Logs" /\ ui.follow /\ rows # <<>> THEN Len(rows) ELSE ls[p].at
<1>1. Load(ls, p, rows) = [ls EXCEPT ![p] = [rows |-> rows, at |-> at, query |-> @.query]]
  BY DEF Load
<1> HIDE DEF at
<1> QED BY <1>1 DEF Raw, IsList

\* A new filter may leave the cursor anywhere.
LEMMA QueryIsRaw ==
    ASSUME NEW ls, Raw(ls), NEW p, NEW q
    PROVE  Raw([ls EXCEPT ![p].query = q])
<1> DEFINE new == [ls EXCEPT ![p].query = q]
<1>1. \A r \in DOMAIN Listings : new[r] = IF r = p THEN [rows |-> ls[r].rows, at |-> ls[r].at, query |-> q] ELSE ls[r]
  <2> SUFFICES ASSUME NEW r \in DOMAIN Listings
               PROVE  new[r] = IF r = p THEN [rows |-> ls[r].rows, at |-> ls[r].at, query |-> q] ELSE ls[r]
    OBVIOUS
  <2>1. ls[r] = [rows |-> ls[r].rows, at |-> ls[r].at, query |-> ls[r].query] /\ r \in DOMAIN ls
    BY DEF Raw, IsList
  <2>2. new[r] = IF r = p THEN [ls[r] EXCEPT !.query = q] ELSE ls[r]
    BY <2>1
  <2> HIDE DEF new
  <2> QED BY <2>1, <2>2
<1>2. new = [r \in DOMAIN Listings |-> new[r]]
  BY DEF Raw
<1> HIDE DEF new
<1>3. \A r \in DOMAIN Listings : IsList(ls[r])
  BY DEF Raw
<1>4. ASSUME NEW r \in DOMAIN Listings
      PROVE  IsList(new[r])
  <2>1. CASE r = p
    <3>1. new[r] = [rows |-> ls[r].rows, at |-> ls[r].at, query |-> q]
      BY <1>1, <2>1
    <3>2. new[r].rows = ls[r].rows /\ new[r].at = ls[r].at /\ new[r].query = q
      BY <3>1
    <3> QED BY <1>3, <3>1, <3>2 DEF IsList
  <2>2. CASE r # p
    BY <1>1, <1>3, <2>2
  <2> QED BY <2>1, <2>2
<1> QED BY <1>2, <1>4 DEF Raw, new

\* Rows taken away may leave the cursor anywhere.
LEMMA RowsAreRaw ==
    ASSUME NEW ls, Raw(ls), NEW p, NEW rows \in Seq(PageNames)
    PROVE  Raw([ls EXCEPT ![p].rows = rows])
  BY DEF Raw, IsList

\* The lists of a profile that is no longer current are emptied, their cursors on the first place.
LEMMA ClearedAreRaw ==
    ASSUME NEW ls, Raw(ls)
    PROVE  Raw(ClearedLists(ls)) /\ (Clean(ls) => Clean(ClearedLists(ls)))
<1> DEFINE new == ClearedLists(ls)
<1>1. new = [p \in DOMAIN Listings |-> new[p]]
  BY DEF Raw, ClearedLists
<1>2. ASSUME NEW p \in DOMAIN Listings
      PROVE  IsList(new[p]) /\ (OnShownRow(ls[p]) => OnShownRow(new[p]))
  <2>1. IsList(ls[p]) /\ p \in DOMAIN ls
    BY DEF Raw
  <2>2. CASE p \in {"Rules", "Connections"}
    <3> DEFINE empty == [rows |-> <<>>, at |-> 1, query |-> ls[p].query]
    <3>1. new[p] = [ls[p] EXCEPT !.rows = <<>>, !.at = 1]
      BY <2>1, <2>2 DEF ClearedLists
    <3>2. new[p] = empty
      BY <2>1, <3>1 DEF IsList
    <3>3. empty.rows = <<>> /\ empty.at = 1 /\ empty = [rows |-> empty.rows, at |-> empty.at, query |-> empty.query]
      OBVIOUS
    <3> HIDE DEF new, empty
    <3> QED BY <3>2, <3>3 DEF IsList, OnShownRow, Shown
  <2>3. CASE p \notin {"Rules", "Connections"}
    <3>1. new[p] = ls[p]
      BY <2>1, <2>3 DEF ClearedLists
    <3> QED BY <2>1, <3>1
  <2> QED BY <2>2, <2>3
<1> QED BY <1>1, <1>2 DEF Clean, Raw

\* A list without one of its rows is a list of the same rows.
LEMMA RemoveIsRows ==
    ASSUME NEW rows \in Seq(PageNames), NEW name
    PROVE  RemoveFirst(rows, name) \in Seq(PageNames)
<1> DEFINE Is(v) == v = name
           places == {i \in 1..Len(rows) : Is(rows[i])}
           at == SelectInSeq(rows, Is)
<1>1. CASE ~\E i \in 1..Len(rows) : rows[i] = name
  <2>1. RemoveFirst(rows, name) = rows
    BY <1>1, Zenon DEF RemoveFirst
  <2> QED BY <2>1
<1>2. CASE \E i \in 1..Len(rows) : rows[i] = name
  <2>1. places # {} /\ places \in SUBSET Nat
    BY <1>2
  <2>2. at = Min(places)
    BY <2>1, Zenon DEF SelectInSeq
  <2>3. at \in 1..Len(rows)
    BY <2>1, <2>2, Least
  <2>4. RemoveFirst(rows, name) = SubSeq(rows, 1, at - 1) \o SubSeq(rows, at + 1, Len(rows))
    BY <1>2, Zenon DEF RemoveFirst, RemoveAt
  <2> HIDE DEF at
  <2>5. SubSeq(rows, 1, at - 1) \in Seq(PageNames) /\ SubSeq(rows, at + 1, Len(rows)) \in Seq(PageNames)
    BY <2>3
  <2> QED BY <2>4, <2>5
<1> QED BY <1>1, <1>2

\* Clean lists are lists.
LEMMA CleanIsRaw == \A ls : Clean(ls) => Raw(ls)
  BY DEF Clean

-----------------------------------------------------------------------------
(* Windows.                                                                *)

\* What the interface asks before it does it, what it lets the user type, and the settings' values.
Acts == {"none", "tun", "proxy", "controller", "corelog", "cport", "switch", "delete", "close", "closeAll", "clearLogs", "dns"}
Confirms == [act : Acts \cup ShownSwitches, on : BOOLEAN, name : PageNames \cup {NoRow}]
Inputs == {"none", "search", "url", "path", "port", "cport"}
Stores == [ShownSwitches -> BOOLEAN]

\* The fields of the screen.
Screens ==
    [view : ViewNames, help : BOOLEAN, detail : BOOLEAN, confirm : Confirms, input : Inputs,
     dialog : Kinds \cup {"none"}, popup : {"none", "groups", "nodes"}, pinned : BOOLEAN,
     status : {"ready", "key", "background"}, due : BOOLEAN, cache : Stores \cup {NoSettings},
     row : SettingRows, follow : BOOLEAN]

\* The pages that show the settings.
WithSettings == {"Dashboard", "Settings"}

\* A change of the screen that keeps its copy of the settings, and comes to show one only with a refresh due.
Mild(u, v) ==
    /\ v \in Screens /\ v.cache = u.cache
    /\ v.due \/ (v.due = u.due /\ (v.view = u.view \/ v.view \notin WithSettings))

\* A screen that stays is such a change.
LEMMA SameScreen == \A u \in Screens : Mild(u, u)
  BY DEF Mild

\* Two such changes are one.
LEMMA Milder == \A u, v, w : Mild(u, v) /\ Mild(v, w) => Mild(u, w)
  BY DEF Mild

\* The windows over a profile that is no longer current close, and nothing else changes.
LEMMA ClearedStays ==
    ASSUME NEW v \in Screens
    PROVE  /\ Mild(v, Cleared(v)) /\ Cleared(v).view = v.view /\ Cleared(v).due = v.due
           /\ Cleared(v).pinned = v.pinned /\ Cleared(v).status = v.status
<1> DEFINE w == [v EXCEPT !.popup = "none", !.dialog = "none"]
<1>1. w \in Screens /\ w.cache = v.cache /\ w.view = v.view /\ w.due = v.due /\ w.pinned = v.pinned /\ w.status = v.status
  BY DEF Screens
<1> HIDE DEF w
<1> QED BY <1>1 DEF Mild, Cleared, w

\* What the handlers assign one by one.
LEMMA Edits ==
    ASSUME NEW v \in Screens
    PROVE  /\ Mild(v, Says(v)) /\ Mild(v, Due(v)) /\ Mild(v, Important(v)) /\ Mild(v, Background(v))
           /\ \A b \in BOOLEAN : Mild(v, [v EXCEPT !.help = b])
           /\ \A b \in BOOLEAN : Mild(v, [v EXCEPT !.detail = b])
           /\ \A b \in BOOLEAN : Mild(v, [v EXCEPT !.pinned = b])
           /\ \A b \in BOOLEAN : Mild(v, [v EXCEPT !.follow = b])
           /\ \A c \in Confirms : Mild(v, [v EXCEPT !.confirm = c])
           /\ \A i \in Inputs : Mild(v, [v EXCEPT !.input = i])
           /\ \A d \in Kinds \cup {"none"} : Mild(v, [v EXCEPT !.dialog = d])
           /\ \A d \in {"none", "groups", "nodes"} : Mild(v, [v EXCEPT !.popup = d])
           /\ \A r \in SettingRows : Mild(v, [v EXCEPT !.row = r])
           /\ \A w \in ViewNames \ WithSettings : Mild(v, [v EXCEPT !.view = w])
<1>1. Mild(v, Says(v)) /\ Mild(v, Due(v))
  BY DEF Mild, Screens, Says, Due
<1>2. Mild(v, Background(v))
  BY DEF Mild, Screens, Background
<1>3. Mild(v, Important(v))
  BY DEF Mild, Screens, Important
<1>4. \A b \in BOOLEAN : Mild(v, [v EXCEPT !.help = b])
  BY DEF Mild, Screens
<1>5. \A b \in BOOLEAN : Mild(v, [v EXCEPT !.detail = b])
  BY DEF Mild, Screens
<1>6. \A b \in BOOLEAN : Mild(v, [v EXCEPT !.pinned = b])
  BY DEF Mild, Screens
<1>7. \A b \in BOOLEAN : Mild(v, [v EXCEPT !.follow = b])
  BY DEF Mild, Screens
<1>8. \A c \in Confirms : Mild(v, [v EXCEPT !.confirm = c])
  BY DEF Mild, Screens
<1>9. \A i \in Inputs : Mild(v, [v EXCEPT !.input = i])
  BY DEF Mild, Screens
<1>10. \A d \in Kinds \cup {"none"} : Mild(v, [v EXCEPT !.dialog = d])
  BY DEF Mild, Screens
<1>11. \A d \in {"none", "groups", "nodes"} : Mild(v, [v EXCEPT !.popup = d])
  BY DEF Mild, Screens
<1>12. \A r \in SettingRows : Mild(v, [v EXCEPT !.row = r])
  BY DEF Mild, Screens
<1>13. \A w \in ViewNames \ WithSettings : Mild(v, [v EXCEPT !.view = w])
  BY DEF Mild, Screens
<1> QED BY <1>1, <1>2, <1>3, <1>4, <1>5, <1>6, <1>7, <1>8, <1>9, <1>10, <1>11, <1>12, <1>13

\* A key that reaches its handler is one, whatever the handler says.
LEMMA Pressed == ASSUME NEW v \in Screens, NEW key, Press(key, v) PROVE Mild(v, ui')
<1>1. ui' = v \/ ui' = [v EXCEPT !.pinned = TRUE, !.status = "key"]
  BY DEF Press
<1>2. [v EXCEPT !.pinned = TRUE, !.status = "key"] \in Screens
  BY DEF Screens
<1>3. Mild(v, [v EXCEPT !.pinned = TRUE, !.status = "key"])
  BY <1>2 DEF Mild, Screens
<1> QED BY <1>1, <1>3, SameScreen

-----------------------------------------------------------------------------
(* The invariant.                                                          *)

\* The inductive invariant.
ScreenInv ==
    /\ ui \in Screens /\ store \in Stores /\ keys \in 0..MaxKeys
    /\ Clean(lists) /\ CopyFollowsStore

\* What a step has to keep besides the keys counted.
Holds == ui \in Screens /\ store \in Stores /\ Clean(lists) /\ CopyFollowsStore

\* A mild change keeps the invariant when the settings stay.
LEMMA MildKeeps ==
    ASSUME Holds, Mild(ui, ui'), UNCHANGED store, Clean(lists)'
    PROVE  Holds'
  BY DEF Holds, Mild, CopyFollowsStore, WithSettings, Screens, Stores

\* So does one that leaves lists, providers and settings alone.
LEMMA SameKeeps ==
    ASSUME Holds, Mild(ui, ui'), Same
    PROVE  Holds'
<1>1. Clean(lists)'
  BY DEF Same, Holds, Clean, Raw, IsList, OnShownRow, Shown
<1> QED BY <1>1, MildKeeps DEF Same

\* Lists that stay are clean.
LEMMA SameListsStay == Holds /\ UNCHANGED lists => Clean(lists)'
  BY DEF Holds, Clean, Raw, IsList, OnShownRow, Shown

\* The lists after a step are clean when what it makes of them is.
LEMMA ListsAre == ASSUME NEW ls, lists' = ls, Clean(ls) PROVE Clean(lists)'
  BY DEF Clean, Raw, IsList, OnShownRow, Shown

\* The current profile stays or goes: the lists are clean again, the screen is the one given or that cleared.
LEMMA CurrentIsClean ==
    ASSUME NEW ls, Raw(ls), NEW u, SameCurrent(ls, u) \/ OtherCurrent(ls, u)
    PROVE  Clean(lists)' /\ ui' \in {u, Cleared(u)}
<1>1. lists' = ClampLists(ls) \/ lists' = ClampLists(ClearedLists(ls))
  BY DEF SameCurrent, OtherCurrent
<1>2. Clean(ClampLists(ls)) /\ Clean(ClampLists(ClearedLists(ls)))
  BY ClearedAreRaw, ClampCleans
<1> QED BY <1>1, <1>2, ListsAre DEF SameCurrent, OtherCurrent

\* What may be listed are lists of names.
LEMMA ListingsAreNames == \A p \in DOMAIN Listings : \A rows \in Listings[p] : rows \in Seq(PageNames)
  BY ScreenAssumption

\* The same when the catalogue is read.
LEMMA AppliedIsClean ==
    ASSUME NEW ls, Raw(ls), NEW u, ReadCatalog(ls, u)
    PROVE  Clean(lists)' /\ ui' \in {u, Cleared(u)}
<1>1. PICK rows \in Listings["Profiles"] :
          SameCurrent(Load(ls, "Profiles", rows), u) \/ OtherCurrent(Load(ls, "Profiles", rows), u)
  BY Zenon DEF ReadCatalog
<1>2. Raw(Load(ls, "Profiles", rows))
  BY ScreenAssumption, ListingsAreNames, LoadIsRaw
<1> QED BY <1>1, <1>2, CurrentIsClean

\* New rows, clamped.
LEMMA LoadedIsClean ==
    ASSUME NEW ls, Raw(ls), NEW p, NEW rows \in Seq(PageNames)
    PROVE  Clean(ClampLists(Load(ls, p, rows)))
  BY LoadIsRaw, ClampCleans

\* The row under a cursor is a name, or none.
LEMMA SelectedIsListed == Holds => \A p \in DOMAIN Listings : Selected(p) \in PageNames \cup {NoRow}
<1> SUFFICES ASSUME Holds, NEW p \in DOMAIN Listings
             PROVE  Selected(p) \in PageNames \cup {NoRow}
  OBVIOUS
<1> QED BY DEF Holds, Clean, Raw, IsList, Selected

\* A question about a row is a question.
LEMMA Asks == \A act \in Acts, on \in BOOLEAN, name \in PageNames \cup {NoRow} : Confirm(act, on, name) \in Confirms
  BY DEF Confirm, Confirms

\* No question is one, too.
LEMMA NoneIsConfirm == NoConfirm \in Confirms
  BY DEF NoConfirm, Confirms, Acts

\* With a refresh due, any change that keeps the copy is mild.
LEMMA DueAnyway == ASSUME NEW u \in Screens, NEW w \in Screens, w.cache = u.cache PROVE Mild(u, Due(w))
  BY DEF Mild, Due, Screens

\* A mild change goes on to be one.
LEMMA Onward ==
    ASSUME NEW u, NEW w, Mild(u, w)
    PROVE  /\ Mild(u, Says(w)) /\ Mild(u, Due(w)) /\ Mild(u, Important(w)) /\ Mild(u, Background(w))
           /\ \A key : Press(key, w) => Mild(u, ui')
<1>1. w \in Screens
  BY DEF Mild
<1>2. Mild(w, Says(w)) /\ Mild(w, Due(w)) /\ Mild(w, Important(w)) /\ Mild(w, Background(w))
  BY <1>1, Edits
<1>3. \A key : Press(key, w) => Mild(w, ui')
  BY <1>1, Pressed
<1> QED BY <1>2, <1>3, Milder

-----------------------------------------------------------------------------
(* Windows open and close.                                                 *)

\* Another page: the windows over the old one close, and a refresh is due.
LEMMA SetViewKeeps == ASSUME Holds, NEW v \in Views, SetView(v) PROVE Holds'
<1> DEFINE w == [ui EXCEPT !.view = v, !.pinned = FALSE,
                         !.popup = IF v = "Dashboard" THEN @ ELSE "none",
                         !.dialog = IF v \in {"Proxies", "Rules"} THEN @ ELSE "none"]
<1>1. ui \in Screens /\ v \in ViewNames
  BY ScreenAssumption DEF Holds
<1>2. w \in Screens /\ w.cache = ui.cache
  BY <1>1 DEF Screens
<1>3. ui' = Says(Due(w)) /\ Same
  BY DEF SetView
<1> HIDE DEF w
<1>4. Mild(ui, Due(w))
  BY <1>1, <1>2, DueAnyway
<1>5. Mild(Due(w), Says(Due(w)))
  BY <1>4, Edits DEF Mild
<1> QED BY <1>3, <1>4, <1>5, Milder, SameKeeps

\* The key that closes windows, then leaves.
LEMMA QuitKeeps == Holds /\ Quit => Holds'
<1> SUFFICES ASSUME Holds, Quit
             PROVE  Holds'
  OBVIOUS
<1>1. Mild(ui, ui')
  BY Edits DEF Quit, Holds, ViewNames, WithSettings
<1> QED BY <1>1, SameKeeps DEF Quit

\* The window in front closes.
LEMMA CloseKeeps == Holds /\ CloseFront => Holds'
<1> SUFFICES ASSUME Holds, CloseFront
             PROVE  Holds'
  OBVIOUS
<1>1. PICK w : Mild(ui, w) /\ ui' = Says(w)
  BY Edits, NoneIsConfirm DEF CloseFront, Holds, Inputs
<1>2. Mild(ui, ui')
  BY <1>1, Edits, Milder DEF Mild
<1> QED BY <1>2, SameKeeps DEF CloseFront

\* A window in front takes the key.
LEMMA SwallowedKeeps == ASSUME Holds, NEW key, Swallowed(key) PROVE Holds'
  BY Pressed, SameKeeps DEF Swallowed, Holds

\* Help, the history of the status line and an input open.
LEMMA OpensKeeps == Holds /\ (OpenHelp \/ OpenStatusHistory \/ ToggleFollow \/ StartInput \/ Paste) => Holds'
<1> SUFFICES ASSUME Holds, OpenHelp \/ OpenStatusHistory \/ ToggleFollow \/ StartInput \/ Paste
             PROVE  Holds'
  OBVIOUS
<1>1. ui \in Screens
  BY DEF Holds
<1>2. CASE OpenHelp
  <2>1. Mild(ui, [ui EXCEPT !.help = TRUE]) /\ ui' = Says([ui EXCEPT !.help = TRUE])
    BY <1>1, <1>2, Edits DEF OpenHelp
  <2> QED BY <1>2, <2>1, Onward, SameKeeps DEF OpenHelp
<1>3. CASE OpenStatusHistory
  <2>1. Mild(ui, [ui EXCEPT !.detail = TRUE]) /\ ui' = Says([ui EXCEPT !.detail = TRUE])
    BY <1>1, <1>3, Edits DEF OpenStatusHistory
  <2> QED BY <1>3, <2>1, Onward, SameKeeps DEF OpenStatusHistory
<1>4. CASE ToggleFollow
  <2>1. (~ui.follow) \in BOOLEAN /\ ui' = Says([ui EXCEPT !.follow = ~ui.follow])
    BY <1>4 DEF ToggleFollow
  <2>2. Mild(ui, [ui EXCEPT !.follow = ~ui.follow])
    BY <1>1, <2>1, Edits
  <2> QED BY <1>4, <2>1, <2>2, Onward, SameKeeps DEF ToggleFollow
<1>5. CASE StartInput
  <2>1. Mild(ui, ui')
    <3>1. CASE ui' = Says(ui) \/ ui' = [ui EXCEPT !.input = "search"]
      BY <1>1, <3>1, Edits DEF Inputs
    <3>2. CASE \E t \in {"url", "path"} : ui' = Says([ui EXCEPT !.input = t])
      <4>1. PICK t \in {"url", "path"} : ui' = Says([ui EXCEPT !.input = t])
        BY <3>2
      <4>2. Mild(ui, [ui EXCEPT !.input = t])
        BY <1>1, Edits DEF Inputs
      <4> QED BY <4>1, <4>2, Edits, Milder DEF Mild
    <3> QED BY <1>5, <3>1, <3>2 DEF StartInput
  <2> QED BY <1>5, <2>1, SameKeeps DEF StartInput
<1>6. CASE Paste
  <2> DEFINE w == [ui EXCEPT !.view = "Profiles", !.input = "url"]
  <2>1. Mild(ui, w)
    BY <1>1 DEF Mild, Screens, ViewNames, Inputs, WithSettings
  <2>2. ui' = Says(ui) \/ ui' = Says(w)
    BY <1>6 DEF Paste
  <2> HIDE DEF w
  <2>3. Mild(ui, ui')
    BY <1>1, <2>1, <2>2, SameScreen, Onward
  <2> QED BY <1>6, <2>3, SameKeeps DEF Paste
<1> QED BY <1>2, <1>3, <1>4, <1>5, <1>6

-----------------------------------------------------------------------------
(* Keys that act elsewhere, and questions.                                 *)

\* A key whose work is elsewhere only reports.
LEMMA ReportKeeps == ASSUME Holds, NEW key, Report(key) PROVE Holds'
<1>1. ui \in Screens
  BY DEF Holds
<1>2. \/ Press(key, Says(ui)) \/ Press(key, Due(Important(ui))) \/ Press(key, Due(Says(ui)))
  BY DEF Report
<1>3. Mild(ui, Says(ui)) /\ Mild(ui, Important(ui))
  BY <1>1, Edits
<1>4. Mild(ui, Due(Important(ui))) /\ Mild(ui, Due(Says(ui)))
  BY <1>3, Onward
<1>5. Mild(ui, ui')
  BY <1>2, <1>3, <1>4, Onward
<1> QED BY <1>5, SameKeeps DEF Report

\* Enter and its like, on the proxy rows.
LEMMA PopupKeeps == Holds /\ (OpenPopup \/ EnterOnProxies) => Holds'
<1> SUFFICES ASSUME Holds, OpenPopup \/ EnterOnProxies
             PROVE  Holds'
  OBVIOUS
<1>1. ui \in Screens
  BY DEF Holds
<1>2. /\ Mild(ui, Says(ui)) /\ Mild(ui, Due(Says(ui)))
  BY <1>1, Edits, Onward
<1>3. \A x \in {"none", "groups", "nodes"} : Mild(ui, [ui EXCEPT !.popup = x])
  BY <1>1, Edits
<1>4. \A x \in {"none", "groups", "nodes"} :
         Mild(ui, Says([ui EXCEPT !.popup = x])) /\ Mild(ui, Says(Due([ui EXCEPT !.popup = x])))
  BY <1>3, Onward
<1>5. ASSUME SelectNode
      PROVE  Clean(lists)' /\ UNCHANGED store
  <2>1. CASE lists' = lists
    BY <1>5, <2>1, SameListsStay DEF SelectNode
  <2>2. CASE \E rows \in Listings["Profiles"] : lists' = ClampLists(Load(lists, "Profiles", rows))
    BY <1>5, <2>2, ScreenAssumption, ListingsAreNames, CleanIsRaw, LoadedIsClean, ListsAre DEF SelectNode, Holds
  <2> QED BY <1>5, <2>1, <2>2 DEF SelectNode
<1>6. ASSUME Mild(ui, ui'), Same \/ SelectNode
      PROVE  Holds'
  BY <1>5, <1>6, SameKeeps, MildKeeps
<1>7. CASE OpenPopup
  <2>1. \/ ui' = Says([ui EXCEPT !.popup = "groups"])
        \/ Press("Enter", Says(ui))
        \/ Press("Enter", Says([ui EXCEPT !.popup = "nodes"]))
        \/ Press("Enter", Says(Due([ui EXCEPT !.popup = "none"])))
    BY <1>7 DEF OpenPopup
  <2>2. Mild(ui, ui')
    BY <1>2, <1>4, <2>1, Onward
  <2> QED BY <1>6, <1>7, <2>2 DEF OpenPopup
<1>8. CASE EnterOnProxies
  <2>1. Mild(ui, ui')
    BY <1>2, <1>8, Onward DEF EnterOnProxies
  <2> QED BY <1>6, <1>8, <2>1 DEF EnterOnProxies
<1> QED BY <1>7, <1>8

\* The interface asks.
LEMMA AskKeeps == ASSUME Holds, NEW c \in Confirms, Ask(c) PROVE Holds'
  BY Edits, SameKeeps DEF Ask, Holds

\* The keys that ask about a row, open its detail or edit a setting.
LEMMA AsksKeep == Holds /\ (AskAboutRow \/ OpenRowDetail \/ EditSetting \/ MoveSetting) => Holds'
<1> SUFFICES ASSUME Holds, AskAboutRow \/ OpenRowDetail \/ EditSetting \/ MoveSetting
             PROVE  Holds'
  OBVIOUS
<1>1. ui \in Screens /\ Mild(ui, Says(ui))
  BY Edits DEF Holds
<1>2. \A p \in {"Profiles", "Connections"} : Selected(p) \in PageNames \cup {NoRow}
  BY SelectedIsListed, ScreenAssumption
<1>3. CASE AskAboutRow
  <2>1. CASE ui' = Says(ui) /\ Same
    BY <1>1, <2>1, SameKeeps
  <2>2. CASE \E act \in {"switch", "delete"} : Ask(Confirm(act, FALSE, Selected("Profiles")))
    BY <1>2, <2>2, Asks, AskKeeps DEF Acts
  <2>3. CASE \/ Ask(Confirm("close", FALSE, Selected("Connections")))
             \/ Ask(Confirm("closeAll", FALSE, NoRow)) \/ Ask(Confirm("clearLogs", FALSE, NoRow))
    BY <1>2, <2>3, Asks, AskKeeps DEF Acts
  <2> QED BY <1>3, <2>1, <2>2, <2>3 DEF AskAboutRow
<1>4. CASE OpenRowDetail
  <2>1. PICK b \in BOOLEAN : ui' = Says([ui EXCEPT !.detail = b]) /\ Same
    BY <1>4 DEF OpenRowDetail
  <2>2. Mild(ui, [ui EXCEPT !.detail = b])
    BY <1>1, Edits
  <2> QED BY <2>1, <2>2, Onward, SameKeeps
<1>5. CASE EditSetting
  <2>1. \/ ui' = Says([ui EXCEPT !.input = ui.row]) /\ ui.row \in Inputs
        \/ ui' = Says(ui)
    BY <1>5 DEF EditSetting, Inputs
  <2>2. ui.row \in Inputs => Mild(ui, [ui EXCEPT !.input = ui.row])
    BY <1>1, Edits
  <2>3. Mild(ui, ui')
    BY <1>1, <2>1, <2>2, Onward
  <2> QED BY <1>5, <2>3, SameKeeps DEF EditSetting
<1>6. CASE MoveSetting
  BY <1>1, <1>6, Edits, SameKeeps DEF MoveSetting
<1> QED BY <1>3, <1>4, <1>5, <1>6

\* A switch that is shown can be asked about.
LEMMA SwitchType ==
    ASSUME Holds, NEW x \in ShownSwitches, ui.cache # NoSettings
    PROVE  ui.cache \in Stores /\ AskToSwitch(x) \in Confirms
<1>1. ui.cache \in Stores
  BY DEF Holds, Screens
<1>2. (~ui.cache[x]) \in BOOLEAN
  OBVIOUS
<1> QED BY <1>1, <1>2 DEF AskToSwitch, Confirm, Confirms

\* The dashboard's switches.
LEMMA AskOnDashboardKeeps == Holds /\ AskOnDashboard => Holds'
  BY SwitchType, AskKeeps DEF AskOnDashboard

\* A switch without a question.
LEMMA ApplySwitchKeeps ==
    ASSUME Holds, NEW key, NEW x, ApplySwitch(key, x), SameLists, ui.cache # NoSettings
    PROVE  Holds'
<1>1. ui \in Screens /\ store \in Stores /\ Clean(lists)'
  BY SameListsStay DEF Holds, SameLists
<1>2. CASE UNCHANGED store /\ Press(key, Due(Says(ui)))
  <2>1. Mild(ui, Due(Says(ui)))
    BY <1>1, Edits, Onward
  <2> QED BY <1>1, <1>2, <2>1, Onward, MildKeeps
<1>3. CASE store' = [store EXCEPT ![x] = ~ui.cache[x]] /\ Press(key, Due(Says([ui EXCEPT !.cache = store'])))
  <2>1. store' \in Stores
    BY <1>1, <1>3 DEF Stores
  <2> DEFINE w == [ui EXCEPT !.cache = store']
  <2>2. w \in Screens /\ w.cache = store'
    BY <1>1, <2>1 DEF Screens
  <2> HIDE DEF w
  <2>3. Mild(w, ui')
    BY <1>3, <2>2, SameScreen, Onward DEF w
  <2> QED BY <1>1, <2>1, <2>2, <2>3 DEF Holds, Mild, CopyFollowsStore
<1> QED BY <1>2, <1>3 DEF ApplySwitch

\* The name server's switch.
LEMMA ToggleDnsKeeps == Holds /\ ToggleDns => Holds'
<1> SUFFICES ASSUME Holds, ToggleDns
             PROVE  Holds'
  OBVIOUS
<1>1. CASE ui.cache = NoSettings
  BY <1>1, Edits, Onward, SameKeeps DEF ToggleDns, Same, SameLists, Holds
<1>2. CASE ui.cache # NoSettings
  BY <1>2, ApplySwitchKeeps DEF ToggleDns
<1> QED BY <1>1, <1>2

\* Enter on a setting.
LEMMA EnterSettingKeeps == Holds /\ EnterSetting => Holds'
<1> SUFFICES ASSUME Holds, EnterSetting
             PROVE  Holds'
  OBVIOUS
<1>1. ui \in Screens /\ ui.row \in SettingRows /\ Mild(ui, Says(ui))
  BY Edits DEF Holds, Screens
<1>2. CASE ui.cache = NoSettings
  BY <1>1, <1>2, Onward, SameKeeps DEF EnterSetting
<1>3. CASE ui.cache # NoSettings
  <2>1. EnterLoadedSetting
    BY <1>3 DEF EnterSetting
  <2>2. CASE ui.row \in Direct /\ ApplySwitch("Enter", ui.row) /\ SameLists
    BY <1>3, <2>2, ApplySwitchKeeps
  <2>3. CASE ui.row = "corelog" /\ ApplySwitch("Enter", "corelog") /\ SameLists
    BY <1>3, <2>3, ApplySwitchKeeps
  <2>4. CASE ui.row \in Asked \cup {"corelog"} /\ ui' = Due([ui EXCEPT !.confirm = AskToSwitch(ui.row)]) /\ Same
    <3>1. ui.row \in ShownSwitches
      BY <1>1, <2>4 DEF SettingRows, Asked
    <3>2. Mild(ui, [ui EXCEPT !.confirm = AskToSwitch(ui.row)])
      BY <1>1, <1>3, <3>1, SwitchType, Edits
    <3> QED BY <2>4, <3>2, Onward, SameKeeps
  <2>5. CASE ui.row \in {"port", "cport"} /\ ui' = Says(Due([ui EXCEPT !.input = ui.row])) /\ Same
    <3>1. Mild(ui, [ui EXCEPT !.input = ui.row])
      BY <1>1, <2>5, Edits DEF Inputs
    <3> QED BY <2>5, <3>1, Onward, SameKeeps
  <2> QED BY <2>1, <2>2, <2>3, <2>4, <2>5 DEF EnterLoadedSetting
<1> QED BY <1>2, <1>3

-----------------------------------------------------------------------------
(* Answers and typed input.                                                *)

\* A change that leaves the screen due may also change the settings and their copy.
LEMMA DueKeeps ==
    ASSUME Holds, ui' \in Screens, ui'.due, store' \in Stores, Clean(lists)'
    PROVE  Holds'
  BY DEF Holds, CopyFollowsStore

\* Rows taken away, clamped; and when all are gone the cursor is at the first place.
LEMMA GoneIsClean ==
    ASSUME Holds, NEW p \in DOMAIN Listings, NEW left \in Seq(PageNames)
    PROVE  LET gone == [lists EXCEPT ![p].rows = left]
           IN Clean(ClampLists(gone)) /\ (left = <<>> => Clean([gone EXCEPT ![p].at = 1]))
<1> DEFINE gone == [lists EXCEPT ![p].rows = left]
           edge == [gone EXCEPT ![p].at = 1]
<1>1. Raw(lists) /\ Clean(lists)
  BY DEF Holds, Clean
<1>2. Raw(gone)
  BY <1>1, RowsAreRaw
<1>3. Clean(ClampLists(gone))
  BY <1>2, ClampCleans
<1>4. ASSUME left = <<>>
      PROVE  Clean(edge)
  <2>1. \A r \in DOMAIN Listings : r # p => edge[r] = lists[r]
    BY <1>1 DEF Raw
  <2>2. edge = [r \in DOMAIN Listings |-> edge[r]]
    BY <1>1 DEF Raw
  <2>3. edge[p] = [rows |-> <<>>, at |-> 1, query |-> lists[p].query]
    <3>1. gone[p] = [rows |-> <<>>, at |-> lists[p].at, query |-> lists[p].query] /\ p \in DOMAIN gone
      BY <1>1, <1>4 DEF Raw, IsList
    <3> HIDE DEF gone
    <3> QED BY <3>1
  <2> HIDE DEF edge
  <2>4. edge[p].rows = <<>> /\ edge[p].at = 1 /\ edge[p].query = lists[p].query
    BY <2>3
  <2>5. IsList(edge[p])
    BY <2>3, <2>4 DEF IsList
  <2>6. OnShownRow(edge[p])
    BY <2>4 DEF OnShownRow, Shown
  <2> QED BY <1>1, <2>1, <2>2, <2>5, <2>6 DEF Clean, Raw
<1> QED BY <1>3, <1>4

\* The user agrees, and the action changes settings, profiles or connections, or fails.
LEMMA AnswerKeeps == Holds /\ AnswerYes => Holds'
<1> SUFFICES ASSUME Holds, Confirmed
             PROVE  Holds'
  BY DEF AnswerYes
<1> DEFINE c == ui.confirm
           w == [ui EXCEPT !.confirm = NoConfirm]
           u == Due(Important(w))
<1>1. ui \in Screens /\ store \in Stores /\ Clean(lists) /\ c \in Confirms
  BY DEF Holds, Screens
<1>2. w \in Screens
  BY <1>1, NoneIsConfirm, Edits DEF Mild
<1> HIDE DEF w
<1>3. Mild(w, Important(w))
  BY <1>2, Edits
<1>4. u \in Screens /\ u.due
  <2>1. Important(w) \in Screens
    BY <1>3 DEF Mild
  <2> QED BY <2>1 DEF Due, Screens
<1>5. \A x \in Stores \cup {NoSettings} : [u EXCEPT !.cache = x] \in Screens /\ [u EXCEPT !.cache = x].due
  <2> HIDE DEF u
  <2> QED BY <1>4 DEF Screens
<1>6. ui.cache \in Stores \cup {NoSettings}
  BY <1>1 DEF Screens
<1>7. [store EXCEPT ![c.act] = c.on] \in Stores
  BY <1>1 DEF Stores, Confirms
<1>8. CASE c.act \in {"tun", "proxy"}
  <2>1. Switch(c, u) /\ SameLists
    BY <1>8, Zenon DEF Confirmed, w
  <2> HIDE DEF u, c
  <2> QED BY <1>1, <1>4, <1>7, <2>1, SameListsStay, DueKeeps DEF Switch, SameLists
<1>9. CASE c.act \in {"controller", "corelog"}
  <2>1. /\ store' \in {store, [store EXCEPT ![c.act] = c.on]} /\ SameLists
        /\ \E cache \in {ui.cache, store'} : ui' = [u EXCEPT !.cache = cache]
    BY <1>9 DEF Confirmed, w
  <2> HIDE DEF u, c
  <2> QED BY <1>1, <1>5, <1>6, <1>7, <2>1, SameListsStay, DueKeeps DEF SameLists
<1>10. CASE c.act = "cport"
  <2>1. \E cache \in {ui.cache, store} : ui' = [u EXCEPT !.cache = cache] /\ Same
    BY <1>10 DEF Confirmed, w
  <2> HIDE DEF u, c
  <2> QED BY <1>1, <1>5, <1>6, <2>1, SameListsStay, DueKeeps DEF Same
<1>11. CASE c.act \in {"switch", "delete"}
  <2>1. UNCHANGED store /\ (ReadCatalog(lists, u) \/ (ui' = u /\ SameLists))
    BY <1>11, Zenon DEF Confirmed, w
  <2> HIDE DEF u, c
  <2>2. Clean(lists)' /\ ui' \in {u, Cleared(u)}
    BY <1>1, <2>1, CleanIsRaw, AppliedIsClean, SameListsStay DEF SameLists
  <2>3. ui' \in Screens /\ ui'.due
    BY <1>4, <2>2, ClearedStays DEF Mild
  <2> QED BY <1>1, <2>1, <2>2, <2>3, DueKeeps
<1>12. CASE c.act \notin {"tun", "proxy", "controller", "corelog", "cport", "switch", "delete"}
  <2> DEFINE p == IF c.act = "clearLogs" THEN "Logs" ELSE "Connections"
             left == IF c.act = "close" THEN RemoveFirst(lists[p].rows, c.name) ELSE <<>>
             gone == [lists EXCEPT ![p].rows = left]
  <2>1. /\ ui' = u /\ UNCHANGED <<providers, store>>
        /\ lists' \in {lists, IF c.act = "close" THEN ClampLists(gone) ELSE [gone EXCEPT ![p].at = 1]}
    BY <1>12 DEF Confirmed, w
  <2>2. p \in DOMAIN Listings /\ lists[p].rows \in Seq(PageNames)
    BY <1>1, ScreenAssumption DEF Clean, Raw, IsList
  <2>3. left \in Seq(PageNames) /\ (c.act # "close" => left = <<>>)
    BY <2>2, RemoveIsRows
  <2> HIDE DEF left, p
  <2>4. Clean(ClampLists(gone)) /\ (c.act # "close" => Clean([gone EXCEPT ![p].at = 1]))
    BY <2>2, <2>3, GoneIsClean
  <2> HIDE DEF gone, u, c
  <2>5. Clean(lists)'
    BY <1>1, <2>1, <2>4, ListsAre
  <2> QED BY <1>1, <1>4, <2>1, <2>5, DueKeeps
<1> QED BY <1>8, <1>9, <1>10, <1>11, <1>12

\* An input is finished: a filter, an import, a port.
LEMMA FinishKeeps == Holds /\ FinishInput => Holds'
<1> SUFFICES ASSUME Holds, FinishInput
             PROVE  Holds'
  OBVIOUS
<1> DEFINE w == Says([ui EXCEPT !.input = "none"])
           u == Due(w)
           long == [u EXCEPT !.pinned = TRUE]
<1>1. ui \in Screens /\ store \in Stores /\ Clean(lists)
  BY DEF Holds
<1>2. Mild(ui, [ui EXCEPT !.input = "none"])
  BY <1>1, Edits DEF Inputs
<1>3. w \in Screens
  BY <1>2, Onward DEF Mild
<1> HIDE DEF w
<1>4. u \in Screens /\ u.due
  BY <1>3 DEF Due, Screens
<1>5. long \in Screens /\ long.due
  <2> HIDE DEF u
  <2> QED BY <1>4 DEF Screens
<1>6. /\ [long EXCEPT !.cache = store] \in Screens /\ [long EXCEPT !.cache = store].due
      /\ [long EXCEPT !.view = "Proxies"] \in Screens /\ [long EXCEPT !.view = "Proxies"].due
  <2> HIDE DEF long
  <2> QED BY <1>1, <1>5 DEF Screens, ViewNames
<1>7. /\ [long EXCEPT !.confirm = Confirm("cport", FALSE, NoRow)] \in Screens
      /\ [long EXCEPT !.confirm = Confirm("cport", FALSE, NoRow)].due
  <2>1. Confirm("cport", FALSE, NoRow) \in Confirms
    BY Asks DEF Acts
  <2> HIDE DEF long
  <2> QED BY <1>5, <2>1 DEF Screens
<1>8. CASE /\ ui' = u /\ UNCHANGED <<providers, store>>
           /\ \E q \in Queries \cup {NoQuery} :
                 lists' = ClampLists(IF ui.view \in DOMAIN lists THEN [lists EXCEPT ![ui.view].query = q] ELSE lists)
  <2>1. PICK q \in Queries \cup {NoQuery} :
                 lists' = ClampLists(IF ui.view \in DOMAIN lists THEN [lists EXCEPT ![ui.view].query = q] ELSE lists)
    BY <1>8
  <2>2. Raw(IF ui.view \in DOMAIN lists THEN [lists EXCEPT ![ui.view].query = q] ELSE lists)
    BY <1>1, CleanIsRaw, QueryIsRaw
  <2>3. Clean(lists)'
    BY <2>1, <2>2, ClampCleans, ListsAre
  <2> HIDE DEF u
  <2> QED BY <1>1, <1>4, <1>8, <2>3, DueKeeps
<1>9. CASE ui' \in {long, [long EXCEPT !.cache = store], [long EXCEPT !.confirm = Confirm("cport", FALSE, NoRow)]} /\ Same
  <2>1. Clean(lists)' /\ store' = store
    BY <1>9, SameListsStay DEF Same
  <2> HIDE DEF long
  <2> QED BY <1>1, <1>5, <1>6, <1>7, <1>9, <2>1, DueKeeps
<1> DEFINE moved == [long EXCEPT !.view = "Proxies"]
<1>10. CASE \/ ReadCatalog(lists, long) /\ UNCHANGED store
            \/ /\ UNCHANGED store
               /\ \E rows \in Listings["Profiles"] : OtherCurrent(Load(lists, "Profiles", rows), moved)
  <2>1. moved \in Screens /\ moved.due
    BY <1>6
  <2> HIDE DEF long, moved
  <2>2. Clean(lists)' /\ ui' \in {long, Cleared(long), moved, Cleared(moved)}
    <3>1. CASE ReadCatalog(lists, long)
      BY <1>1, <3>1, CleanIsRaw, AppliedIsClean
    <3>2. CASE \E rows \in Listings["Profiles"] : OtherCurrent(Load(lists, "Profiles", rows), moved)
      <4>1. \A rows \in Listings["Profiles"] : Raw(Load(lists, "Profiles", rows))
        BY <1>1, ScreenAssumption, ListingsAreNames, CleanIsRaw, LoadIsRaw
      <4> QED BY <3>2, <4>1, CurrentIsClean
    <3> QED BY <1>10, <3>1, <3>2
  <2>3. ui' \in Screens /\ ui'.due
    BY <1>5, <2>1, <2>2, ClearedStays DEF Mild
  <2> QED BY <1>1, <1>10, <2>2, <2>3, DueKeeps
<1>11. \/ /\ ui' = u /\ UNCHANGED <<providers, store>>
          /\ \E q \in Queries \cup {NoQuery} :
                 lists' = ClampLists(IF ui.view \in DOMAIN lists THEN [lists EXCEPT ![ui.view].query = q] ELSE lists)
       \/ ui' = long /\ Same
       \/ ui' = [long EXCEPT !.cache = store] /\ Same
       \/ ui' = [long EXCEPT !.confirm = Confirm("cport", FALSE, NoRow)] /\ Same
       \/ ReadCatalog(lists, long) /\ UNCHANGED store
       \/ /\ UNCHANGED store
          /\ \E rows \in Listings["Profiles"] : OtherCurrent(Load(lists, "Profiles", rows), moved)
  BY Zenon DEF FinishInput, w
<1> HIDE DEF u, long, moved
<1> QED BY <1>8, <1>9, <1>10, <1>11

-----------------------------------------------------------------------------
(* Lists, dialogs and refreshes.                                           *)

\* The logs' level is one of the filters.
LEMMA LevelKeeps == ASSUME Holds, NEW q, CycleLogLevel(q) PROVE Holds'
<1>1. Clean(lists)'
  BY CleanIsRaw, QueryIsRaw, ClampCleans, ListsAre DEF CycleLogLevel, Holds
<1> QED BY <1>1, Edits, MildKeeps DEF CycleLogLevel, Holds

\* The cursor of a page moves within the rows that are shown.
LEMMA MoveListKeeps == ASSUME Holds, NEW p \in DOMAIN Listings, Move(p) PROVE Holds'
<1>1. ui \in Screens /\ Clean(lists)
  BY DEF Holds
<1>2. PICK i \in IF Shown(lists[p]) = {} THEN {1} ELSE Shown(lists[p]) : lists' = [lists EXCEPT ![p].at = i]
  BY DEF Move
<1> DEFINE to == [rows |-> lists[p].rows, at |-> i, query |-> lists[p].query]
<1>3. /\ lists' = [r \in DOMAIN Listings |-> lists'[r]] /\ \A r \in DOMAIN Listings : r # p => lists'[r] = lists[r]
      /\ lists'[p] = to
  <2>1. lists[p] = [rows |-> lists[p].rows, at |-> lists[p].at, query |-> lists[p].query]
        /\ lists = [r \in DOMAIN Listings |-> lists[r]]
    BY <1>1 DEF Clean, Raw, IsList
  <2>2. lists'[p] = [lists[p] EXCEPT !.at = i]
    BY <1>2, <2>1
  <2>3. lists'[p] = to
    BY <2>1, <2>2
  <2> QED BY <1>2, <2>1, <2>3
<1>4. IsList(to) /\ OnShownRow(to)
  <2>1. to.rows = lists[p].rows /\ to.query = lists[p].query /\ to.at = i
        /\ to = [rows |-> to.rows, at |-> to.at, query |-> to.query]
    OBVIOUS
  <2> HIDE DEF to
  <2> QED BY <1>1, <1>2, <2>1 DEF IsList, OnShownRow, Shown, Clean, Raw
<1> HIDE DEF to
<1>5. Clean(lists')
  BY <1>1, <1>3, <1>4 DEF Clean, Raw
<1>6. Clean(lists)'
  BY <1>5, ListsAre
<1>7. (ui.follow /\ p # "Logs") \in BOOLEAN /\ ui' = [ui EXCEPT !.follow = ui.follow /\ p # "Logs"]
  BY DEF Move
<1> QED BY <1>1, <1>6, <1>7, Edits, MildKeeps DEF Move

\* The cursor of the providers' dialog moves.
LEMMA MoveProviderKeeps == Holds /\ MoveProvider => Holds'
  BY SameListsStay, SameScreen, MildKeeps DEF MoveProvider, Holds

\* The dialog opens, with the providers or with why there are none.
LEMMA OpenDialogKeeps == Holds /\ OpenProviderDialog => Holds'
<1> SUFFICES ASSUME Holds, OpenProviderDialog
             PROVE  Holds'
  OBVIOUS
<1>1. ui \in Screens /\ Clean(lists)' /\ UNCHANGED store
  BY SameListsStay DEF Holds, OpenProviderDialog
<1> DEFINE kind == IF ui.view = "Proxies" THEN "Proxy" ELSE "Rule"
           closed == [ui EXCEPT !.dialog = "none"]
           open == [ui EXCEPT !.dialog = kind]
<1>2. Mild(ui, closed) /\ Mild(ui, open)
  BY <1>1, Edits DEF Kinds
<1>3. Press("p", Important(closed)) \/ Press("p", Says(open))
  BY DEF OpenProviderDialog
<1> HIDE DEF open, closed
<1> QED BY <1>1, <1>2, <1>3, Onward, MildKeeps

\* The dialog loads the providers again.
LEMMA RefreshDialogKeeps == Holds /\ RefreshDialog => Holds'
<1> SUFFICES ASSUME Holds, RefreshDialog
             PROVE  Holds'
  OBVIOUS
<1>1. ui \in Screens /\ Clean(lists)' /\ UNCHANGED store
  BY SameListsStay DEF Holds, RefreshDialog
<1> DEFINE closed == [ui EXCEPT !.dialog = "none"]
<1>2. Mild(ui, closed) /\ Mild(ui, ui)
  BY <1>1, Edits, SameScreen
<1>3. Press("r", Important(closed)) \/ Press("r", Important(ui)) \/ Press("r", Says(ui))
  BY DEF RefreshDialog
<1> HIDE DEF closed
<1> QED BY <1>1, <1>2, <1>3, Onward, MildKeeps

\* A provider is updated, and the dialog reports.
LEMMA UpdateProviderKeeps == ASSUME Holds, NEW key, UpdateProvider(key) PROVE Holds'
<1>1. ui \in Screens /\ Clean(lists) /\ UNCHANGED store
  BY DEF Holds, UpdateProvider
<1>2. Clean(lists)'
  <2>1. CASE UNCHANGED lists
    BY <2>1, SameListsStay
  <2>2. CASE \E rows \in Listings["Rules"] : lists' = ClampLists(Load(lists, "Rules", rows))
    BY <1>1, <2>2, ScreenAssumption, ListingsAreNames, CleanIsRaw, LoadedIsClean, ListsAre
  <2> QED BY <2>1, <2>2 DEF UpdateProvider, SameLists
<1>3. Press(key, Says(ui)) \/ Press(key, Due(Important(ui)))
  BY DEF UpdateProvider
<1> QED BY <1>1, <1>2, <1>3, SameScreen, Onward, MildKeeps

\* An event is taken from the queue, or a pinned report has been there long enough.
LEMMA EventKeeps == Holds /\ (DrainEvent \/ PinExpires) => Holds'
<1> SUFFICES ASSUME Holds, DrainEvent \/ PinExpires
             PROVE  Holds'
  OBVIOUS
<1> DEFINE w == Cleared(ui)
           v == [ui EXCEPT !.pinned = FALSE]
<1>1. Mild(ui, ui) /\ Mild(ui, w) /\ Mild(ui, v)
  BY SameScreen, ClearedStays, Edits DEF Holds
<1>2. \/ (ui' = Background(ui) \/ ui' = v) /\ Same
      \/ ui' = Background(Due(w)) /\ lists' = ClearedLists(lists) /\ UNCHANGED store
  BY DEF DrainEvent, PinExpires
<1> HIDE DEF w, v
<1>3. CASE (ui' = Background(ui) \/ ui' = v) /\ Same
  BY <1>1, <1>3, Onward, SameKeeps
<1>4. CASE ui' = Background(Due(w)) /\ lists' = ClearedLists(lists) /\ UNCHANGED store
  <2>1. Clean(lists)'
    BY <1>4, CleanIsRaw, ClearedAreRaw, ListsAre DEF Holds
  <2> QED BY <1>1, <1>4, <2>1, Onward, MildKeeps
<1> QED BY <1>2, <1>3, <1>4

\* What a refresh reports touches the status line only.
LEMMA ReportedSays ==
    ASSUME NEW x \in Screens, NEW byKey
    PROVE  Reported(x, byKey) \in Screens /\ Reported(x, byKey).cache = x.cache /\ Reported(x, byKey).view = x.view
  BY DEF Reported, Screens

\* A refresh of the page u, which the user asked for or not.
LEMMA RefreshKeeps ==
    ASSUME Holds, NEW u \in Screens, u.view = ui.view, NEW byKey, RefreshPage(u, byKey)
    PROVE  Holds'
<1> DEFINE fresh == [u EXCEPT !.due = FALSE]
           Copied(cache) == [fresh EXCEPT !.cache = cache]
<1>1. store \in Stores /\ Clean(lists) /\ Raw(lists)
  BY DEF Holds, Clean
<1>2. /\ UNCHANGED store
      /\ \E jobs \in Listings["Jobs"] :
            LET ls == Load(lists, "Jobs", jobs)
            IN \/ /\ u.view \in WithSettings
                  /\ \E cache \in {store, NoSettings} :
                        LET v == Reported(Copied(cache), byKey)
                        IN ReadCatalog(ls, v) \/ SameCurrent(ls, v)
               \/ /\ u.view \notin WithSettings
                  /\ \E v \in {Reported(fresh, byKey), Reported(Background(fresh), byKey)} :
                        \/ ReadCatalog(ls, v)
                        \/ ui' = v /\ lists' = ClampLists(ls)
                        \/ \E p \in DOMAIN Listings : \E rows \in Listings[p] :
                               ui' = v /\ lists' = ClampLists(Load(ls, p, rows))
  <2>1. PICK jobs \in Listings["Jobs"] :
            LET ls == Load(lists, "Jobs", jobs)
            IN \/ /\ u.view = "Dashboard"
                  /\ \E cache \in {store, NoSettings} :
                        LET v == Reported(Copied(cache), byKey)
                        IN ReadCatalog(ls, v) \/ SameCurrent(ls, v)
               \/ /\ u.view = "Settings"
                  /\ \E cache \in {store, NoSettings} : ui' = Reported(Copied(cache), byKey)
                  /\ lists' = ClampLists(ls) /\ UNCHANGED providers
               \/ u.view = "Profiles" /\ (ReadCatalog(ls, Reported(fresh, byKey)) \/ SameCurrent(ls, Reported(fresh, byKey)))
               \/ u.view = "Jobs" /\ SameCurrent(ls, Reported(fresh, byKey))
               \/ u.view = "Logs" /\ \E logs \in Listings["Logs"] : SameCurrent(Load(ls, "Logs", logs), Reported(fresh, byKey))
               \/ /\ u.view = "Connections"
                  /\ \/ \E rows \in Listings["Connections"] :
                           ui' = Reported(fresh, byKey) /\ lists' = ClampLists(Load(ls, "Connections", rows))
                     \/ ui' = Reported(Background(fresh), byKey) /\ lists' = ClampLists(ls)
               \/ /\ u.view \in {"Proxies", "Rules"}
                  /\ \/ /\ ui' = Reported(fresh, byKey)
                        /\ \E after \in IF u.view = "Rules" THEN {Load(ls, "Rules", r) : r \in Listings["Rules"]} ELSE {ls} :
                              lists' = ClampLists(after)
                     \/ ui' = Reported(Background(fresh), byKey) /\ lists' = ClampLists(ls)
    BY Zenon DEF RefreshPage
  <2> DEFINE ls == Load(lists, "Jobs", jobs)
             Quiet == Reported(fresh, byKey)
             Loud == Reported(Background(fresh), byKey)
             Shows(v) == \/ ReadCatalog(ls, v)
                         \/ ui' = v /\ lists' = ClampLists(ls)
                         \/ \E p \in DOMAIN Listings : \E rows \in Listings[p] :
                                ui' = v /\ lists' = ClampLists(Load(ls, p, rows))
             Here(v) == ReadCatalog(ls, v) \/ SameCurrent(ls, v)
  <2>2. UNCHANGED store
    BY Zenon DEF RefreshPage
  <2>3. DOMAIN Listings = {"Profiles", "Logs", "Rules", "Connections", "Jobs"}
    BY ScreenAssumption
  <2> HIDE DEF fresh, ls
  <2>4. CASE u.view \in WithSettings
    <3>1. \E cache \in {store, NoSettings} : Here(Reported(Copied(cache), byKey))
      <4>1. CASE u.view = "Dashboard"
        BY <2>1, <4>1, Zenon DEF ls
      <4>2. CASE u.view = "Settings"
        <5>1. PICK cache \in {store, NoSettings} : /\ ui' = Reported(Copied(cache), byKey)
                                                   /\ lists' = ClampLists(ls) /\ UNCHANGED providers
          BY <2>1, <4>2 DEF ls
        <5> HIDE DEF Copied
        <5> QED BY <5>1 DEF SameCurrent
      <4> QED BY <2>4, <4>1, <4>2 DEF WithSettings
    <3> QED BY <2>2, <2>4, <3>1 DEF ls
  <2>5. CASE u.view \notin WithSettings
    <3>1. Shows(Quiet) \/ Shows(Loud)
      <4>1. CASE u.view = "Profiles"
        BY <2>1, <4>1 DEF SameCurrent, ls
      <4>2. CASE u.view = "Jobs"
        BY <2>1, <4>2 DEF SameCurrent, ls
      <4>3. CASE u.view = "Logs"
        BY <2>1, <2>3, <4>3 DEF SameCurrent, ls
      <4>4. CASE u.view = "Connections"
        BY <2>1, <2>3, <4>4 DEF ls
      <4>5. CASE u.view = "Proxies"
        BY <2>1, <4>5 DEF ls
      <4>6. CASE u.view = "Rules"
        BY <2>1, <2>3, <4>6 DEF ls
      <4> HIDE DEF Shows, Quiet, Loud
      <4> QED BY <2>1, <2>5, <4>1, <4>2, <4>3, <4>4, <4>5, <4>6, Zenon DEF WithSettings
    <3>2. \E v \in {Quiet, Loud} : Shows(v)
      BY <3>1
    <3> QED BY <2>2, <2>5, <3>2 DEF ls
  <2> QED BY <2>4, <2>5
<1>3. fresh \in Screens /\ fresh.view = u.view
  BY DEF Screens
<1>4. \A cache \in Stores \cup {NoSettings} : Copied(cache) \in Screens /\ Copied(cache).cache = cache
  <2> HIDE DEF fresh
  <2> QED BY <1>3 DEF Screens
<1>5. Background(fresh) \in Screens /\ Background(fresh).view = u.view
  <2> HIDE DEF fresh
  <2> QED BY <1>3 DEF Background, Screens
<1> HIDE DEF fresh, Copied
<1>6. \A jobs \in Listings["Jobs"] : Raw(Load(lists, "Jobs", jobs))
  BY <1>1, ScreenAssumption, ListingsAreNames, LoadIsRaw
<1>7. ASSUME NEW jobs \in Listings["Jobs"], NEW cache \in {store, NoSettings}, NEW v, v = Reported(Copied(cache), byKey),
             ReadCatalog(Load(lists, "Jobs", jobs), v) \/ SameCurrent(Load(lists, "Jobs", jobs), v)
      PROVE  Holds'
  <2>1. v \in Screens /\ v.cache = cache
    BY <1>1, <1>4, <1>7, ReportedSays
  <2>2. Clean(lists)' /\ ui' \in {v, Cleared(v)}
    BY <1>6, <1>7, AppliedIsClean, CurrentIsClean
  <2>3. ui' \in Screens /\ ui'.cache = cache
    BY <2>1, <2>2, ClearedStays DEF Mild
  <2>4. CopyFollowsStore'
    BY <1>2, <1>7, <2>3 DEF CopyFollowsStore
  <2> QED BY <1>1, <1>2, <2>2, <2>3, <2>4 DEF Holds
<1>8. ASSUME u.view \notin WithSettings, NEW v \in {Reported(fresh, byKey), Reported(Background(fresh), byKey)},
             ui' \in {v, Cleared(v)}, Clean(lists)'
      PROVE  Holds'
  <2>1. v \in Screens /\ v.view = u.view
    BY <1>3, <1>5, <1>8, ReportedSays
  <2>2. ui' \in Screens /\ ui'.view = u.view
    BY <1>8, <2>1, ClearedStays DEF Mild
  <2>3. CopyFollowsStore'
    BY <1>8, <2>2 DEF CopyFollowsStore, WithSettings
  <2> QED BY <1>1, <1>2, <1>8, <2>2, <2>3 DEF Holds
<1>9. ASSUME u.view \notin WithSettings, NEW jobs \in Listings["Jobs"],
             NEW v \in {Reported(fresh, byKey), Reported(Background(fresh), byKey)},
             \/ ReadCatalog(Load(lists, "Jobs", jobs), v)
             \/ ui' = v /\ lists' = ClampLists(Load(lists, "Jobs", jobs))
             \/ \E p \in DOMAIN Listings : \E rows \in Listings[p] :
                    ui' = v /\ lists' = ClampLists(Load(Load(lists, "Jobs", jobs), p, rows))
      PROVE  Holds'
  <2> DEFINE ls == Load(lists, "Jobs", jobs)
  <2>1. Raw(ls)
    BY <1>6
  <2> HIDE DEF ls
  <2>2. CASE ReadCatalog(ls, v)
    BY <1>8, <1>9, <2>1, <2>2, AppliedIsClean
  <2>3. CASE ui' = v /\ lists' = ClampLists(ls)
    BY <1>8, <1>9, <2>1, <2>3, ClampCleans, ListsAre
  <2>4. CASE \E p \in DOMAIN Listings : \E rows \in Listings[p] : ui' = v /\ lists' = ClampLists(Load(ls, p, rows))
    BY <1>8, <1>9, <2>1, <2>4, ListingsAreNames, LoadedIsClean, ListsAre
  <2> QED BY <1>9, <2>2, <2>3, <2>4 DEF ls
<1> QED BY <1>2, <1>7, <1>9, Zenon

\* A refresh, when it is due or when the user asks for one.
LEMMA RefreshesKeep == Holds /\ (RefreshScreen \/ RefreshNow) => Holds'
<1> SUFFICES ASSUME Holds, RefreshScreen \/ RefreshNow
             PROVE  Holds'
  OBVIOUS
<1> DEFINE w == [ui EXCEPT !.pinned = FALSE, !.status = "key"]
<1>1. ui \in Screens /\ w \in Screens /\ w.view = ui.view
  BY DEF Holds, Screens
<1>2. RefreshPage(ui, FALSE) \/ RefreshPage(w, TRUE)
  BY DEF RefreshScreen, RefreshNow
<1> HIDE DEF w
<1> QED BY <1>1, <1>2, RefreshKeeps

-----------------------------------------------------------------------------
\* The interface starts on the dashboard, with empty lists.
LEMMA ScreenStart == ScreenInit => ScreenInv
<1> SUFFICES ASSUME ScreenInit
             PROVE  ScreenInv
  OBVIOUS
<1>1. ui \in Screens
  BY NoneIsConfirm, ScreenAssumption DEF ScreenInit, Screens, ViewNames, Inputs, SettingRows
<1>2. Clean(lists)
  <2> DEFINE empty == [rows |-> <<>>, at |-> 1, query |-> NoQuery]
  <2>1. empty.rows = <<>> /\ empty.at = 1 /\ empty = [rows |-> empty.rows, at |-> empty.at, query |-> empty.query]
    OBVIOUS
  <2>2. lists = [p \in DOMAIN Listings |-> empty]
    BY DEF ScreenInit
  <2> HIDE DEF empty
  <2>3. IsList(empty) /\ OnShownRow(empty)
    BY <2>1 DEF IsList, OnShownRow, Shown
  <2> QED BY <2>2, <2>3 DEF Clean, Raw
<1>3. store \in Stores /\ keys \in 0..MaxKeys
  BY ScreenAssumption DEF ScreenInit, Stores
<1>4. CopyFollowsStore
  BY DEF ScreenInit, CopyFollowsStore
<1> QED BY <1>1, <1>2, <1>3, <1>4 DEF ScreenInv

\* Every key of the user keeps the invariant.
LEMMA UserKeyKeeps == Holds /\ UserKey => Holds'
<1> SUFFICES ASSUME Holds, UserKey
             PROVE  Holds'
  OBVIOUS
<1>1. CASE \E v \in Views : SetView(v)
  BY <1>1, SetViewKeeps
<1>2. CASE Quit \/ CloseFront \/ OpenHelp \/ OpenStatusHistory \/ RefreshNow
  BY <1>2, QuitKeeps, CloseKeeps, OpensKeeps, RefreshesKeep
<1>3. CASE \E key \in LongKeys : Swallowed(key) \/ Report(key)
  BY <1>3, SwallowedKeeps, ReportKeeps
<1>4. CASE \E q \in Queries \cup {NoQuery} : CycleLogLevel(q)
  BY <1>4, LevelKeeps
<1>5. CASE ToggleFollow \/ StartInput \/ FinishInput \/ Paste
  BY <1>5, OpensKeeps, FinishKeeps
<1>6. CASE OpenPopup \/ EnterOnProxies \/ AskAboutRow \/ OpenRowDetail \/ AskOnDashboard
  BY <1>6, PopupKeeps, AsksKeep, AskOnDashboardKeeps
<1>7. CASE ToggleDns \/ EditSetting \/ EnterSetting \/ AnswerYes
  BY <1>7, ToggleDnsKeeps, AsksKeep, EnterSettingKeeps, AnswerKeeps
<1>8. CASE OpenProviderDialog \/ RefreshDialog \/ \E key \in {"Enter", "a"} : UpdateProvider(key)
  BY <1>8, OpenDialogKeeps, RefreshDialogKeeps, UpdateProviderKeeps
<1> QED BY <1>1, <1>2, <1>3, <1>4, <1>5, <1>6, <1>7, <1>8 DEF UserKey

\* So does every step of the interface.
LEMMA ScreenStep == ScreenInv /\ [ScreenNext]_screenVars => ScreenInv'
<1> SUFFICES ASSUME ScreenInv, [ScreenNext]_screenVars
             PROVE  ScreenInv'
  OBVIOUS
<1>1. Holds /\ keys \in 0..MaxKeys /\ MaxKeys \in Nat
  BY ScreenAssumption DEF ScreenInv, Holds
<1>2. CASE keys < MaxKeys /\ keys' = keys + 1 /\ UserKey
  <2>1. Holds'
    BY <1>1, <1>2, UserKeyKeeps
  <2> QED BY <1>1, <1>2, <2>1 DEF Holds, ScreenInv
<1>3. CASE /\ (\E p \in DOMAIN Listings : Move(p)) \/ MoveSetting \/ MoveProvider
                \/ RefreshScreen \/ DrainEvent \/ PinExpires
           /\ UNCHANGED keys
  <2>1. Holds'
    BY <1>1, <1>3, MoveListKeeps, AsksKeep, MoveProviderKeeps, RefreshesKeep, EventKeeps
  <2> QED BY <1>1, <1>3, <2>1 DEF Holds, ScreenInv
<1>4. CASE UNCHANGED screenVars
  <2>1. Holds'
    BY <1>1, <1>4, SameKeeps, SameScreen DEF screenVars, Same, Holds
  <2> QED BY <1>1, <1>4, <2>1 DEF Holds, ScreenInv, screenVars
<1> QED BY <1>2, <1>3, <1>4 DEF ScreenNext

\* The screen, its lists and the settings it shows satisfy the invariant in every state, what is cleared
\* with the profile it was of included.
THEOREM ScreenInvariant == ScreenSpec => []ScreenInv
<1> QED BY ScreenStart, ScreenStep, PTL DEF ScreenSpec

\* The interface keeps its types (ScreenSpec => []ScreenTypeOK).
THEOREM ScreenTypeCorrect == ScreenSpec => []ScreenTypeOK
<1>1. ScreenInv => ScreenTypeOK
  <2> SUFFICES ASSUME ScreenInv
               PROVE  ScreenTypeOK
    OBVIOUS
  <2>1. ui \in Screens /\ store \in Stores /\ keys \in 0..MaxKeys
    BY DEF ScreenInv
  <2>2. ASSUME NEW p \in DOMAIN lists
        PROVE  lists[p].at \in 1..(Len(lists[p].rows) + 1)
    <3>1. lists[p].rows \in Seq(PageNames) /\ OnShownRow(lists[p])
      BY DEF ScreenInv, Clean, Raw, IsList
    <3> QED BY <3>1 DEF OnShownRow, Shown
  <2> QED BY <2>1, <2>2 DEF ScreenTypeOK, Screens, Inputs, Stores
<1> QED BY <1>1, ScreenInvariant, PTL

\* The cursor of every page is on a row that its filter shows, whatever loads, goes away, is cleared with
\* the profile it was of or is filtered in between; only where the filter shows no row at all is it on the
\* first of the hidden ones.
THEOREM CursorShown == ScreenSpec => []CursorOnShownRow
<1>1. ScreenInv => CursorOnShownRow
  BY DEF ScreenInv, Clean, Raw, OnShownRow, CursorOnShownRow
<1> QED BY <1>1, ScreenInvariant, PTL

\* The settings on screen are those on the disk, or a refresh that will fetch them is due.
THEOREM CopyCurrent == ScreenSpec => []CopyFollowsStore
<1>1. ScreenInv => CopyFollowsStore
  BY DEF ScreenInv
<1> QED BY <1>1, ScreenInvariant, PTL

\* A refresh and an event leave a pinned report alone.
LEMMA PinnedStays ==
    ASSUME ScreenInv, ui.pinned, RefreshScreen \/ DrainEvent
    PROVE  ui'.status = ui.status
<1>1. ui \in Screens
  BY DEF ScreenInv
<1>2. CASE DrainEvent
  <2> DEFINE w == Cleared(ui)
  <2>1. w \in Screens /\ w.pinned /\ w.status = ui.status
    BY <1>1, ClearedStays DEF Mild
  <2>2. ui' = Background(ui) \/ ui' = Background(Due(w))
    BY <1>2 DEF DrainEvent
  <2> HIDE DEF w
  <2>3. Due(w).pinned /\ Due(w).status = w.status
    BY <2>1 DEF Due, Screens
  <2> QED BY <2>1, <2>2, <2>3 DEF Background
<1>3. CASE RefreshScreen
  <2> DEFINE fresh == [ui EXCEPT !.due = FALSE]
             Copied(cache) == [fresh EXCEPT !.cache = cache]
             Made(v) == ui' = v \/ ui' = Cleared(v)
  <2>1. \/ \E cache \in {store, NoSettings} : Made(Reported(Copied(cache), FALSE))
        \/ Made(Reported(fresh, FALSE)) \/ Made(Reported(Background(fresh), FALSE))
    BY <1>3, Zenon DEF RefreshScreen, RefreshPage, ReadCatalog, SameCurrent, OtherCurrent
  <2>2. fresh \in Screens /\ fresh.pinned /\ fresh.status = ui.status
    BY <1>1 DEF Screens
  <2>3. \A cache \in {store, NoSettings} : Copied(cache) \in Screens /\ Copied(cache).status = ui.status
    <3>1. {store, NoSettings} \subseteq Stores \cup {NoSettings}
      BY DEF ScreenInv
    <3> HIDE DEF fresh
    <3> QED BY <2>2, <3>1 DEF Screens
  <2> HIDE DEF fresh, Copied
  <2>4. Background(fresh) = fresh
    BY <2>2 DEF Background
  <2>5. \E v \in Screens : v.status = ui.status /\ Made(v)
    <3>1. \A v : Reported(v, FALSE) = v
      BY DEF Reported
    <3> QED BY <2>1, <2>2, <2>3, <2>4, <3>1
  <2> QED BY <2>5, ClearedStays
<1> QED BY <1>2, <1>3

\* A report that the user has to see is not overwritten by what happens in the background.
THEOREM PinnedSurvives == ScreenSpec => PinnedStatusSurvives
<1> DEFINE Pinned == ui.pinned /\ ui'.status # ui.status => ~RefreshScreen /\ ~DrainEvent
<1>1. ScreenInv /\ [ScreenNext]_screenVars => [Pinned]_screenVars
  BY PinnedStays
<1> HIDE DEF Pinned
<1>2. ScreenSpec => [][Pinned]_screenVars
  BY <1>1, ScreenInvariant, PTL DEF ScreenSpec
<1> QED BY <1>2 DEF Pinned, PinnedStatusSurvives

-----------------------------------------------------------------------------
(***************************************************************************)
(* The proxy rows: what keeps the profile that is shown.                   *)

\* A cursor and a screen have their fields.
IsCursor(at) == at = [group |-> at.group, node |-> at.node, gkey |-> at.gkey, nkey |-> at.nkey, sticky |-> at.sticky]
AppFields == {"view", "pane", "popup", "query", "sort", "groups", "meta", "current", "saved", "page", "dash"}
IsApp(s) == s = [f \in AppFields |-> s[f]] /\ \A c \in Cursors : IsCursor(s[c])

\* The same profile is shown, and no choice is new.
Keeps(s, t) == IsApp(t) /\ t.current = s.current

\* Nothing on screen is of a profile.
Blank(s) == IsApp(s) /\ s.groups = <<>> /\ \A c \in Cursors : s[c].sticky = FALSE /\ s[c].nkey = NoKey

\* Setting a field of a cursor keeps the profile that is shown.
LEMMA CursorSets ==
    ASSUME NEW s, IsApp(s), NEW c \in Cursors, NEW x
    PROVE  /\ Keeps(s, [s EXCEPT ![c].group = x]) /\ Keeps(s, [s EXCEPT ![c].node = x])
           /\ Keeps(s, [s EXCEPT ![c].gkey = x]) /\ Keeps(s, [s EXCEPT ![c].nkey = x])
           /\ Keeps(s, [s EXCEPT ![c].sticky = x])
<1>1. ASSUME NEW at, IsCursor(at)
      PROVE  Keeps(s, [s EXCEPT ![c] = at])
  <2> DEFINE t == [s EXCEPT ![c] = at]
  <2>1. t = [f \in AppFields |-> t[f]] /\ \A f \in AppFields : t[f] = IF f = c THEN at ELSE s[f]
    BY DEF IsApp
  <2>2. Cursors \subseteq AppFields /\ "current" \in AppFields /\ "current" \notin Cursors
    BY DEF AppFields, Cursors
  <2> HIDE DEF t
  <2> QED BY <1>1, <2>1, <2>2 DEF Keeps, IsApp
<1>2. IsCursor(s[c])
  BY DEF IsApp
<1>3. /\ IsCursor([s[c] EXCEPT !.group = x]) /\ IsCursor([s[c] EXCEPT !.node = x])
      /\ IsCursor([s[c] EXCEPT !.gkey = x]) /\ IsCursor([s[c] EXCEPT !.nkey = x])
      /\ IsCursor([s[c] EXCEPT !.sticky = x])
  BY <1>2 DEF IsCursor
<1>4. c \in DOMAIN s
  BY DEF IsApp, AppFields, Cursors
<1>5. /\ [s EXCEPT ![c].group = x] = [s EXCEPT ![c] = [s[c] EXCEPT !.group = x]]
      /\ [s EXCEPT ![c].node = x] = [s EXCEPT ![c] = [s[c] EXCEPT !.node = x]]
      /\ [s EXCEPT ![c].gkey = x] = [s EXCEPT ![c] = [s[c] EXCEPT !.gkey = x]]
      /\ [s EXCEPT ![c].nkey = x] = [s EXCEPT ![c] = [s[c] EXCEPT !.nkey = x]]
      /\ [s EXCEPT ![c].sticky = x] = [s EXCEPT ![c] = [s[c] EXCEPT !.sticky = x]]
  OBVIOUS
<1> QED BY <1>1, <1>3, <1>5

\* So does setting one of the screen's own fields.
LEMMA FieldSets ==
    ASSUME NEW s, IsApp(s), NEW x
    PROVE  /\ Keeps(s, [s EXCEPT !.view = x]) /\ Keeps(s, [s EXCEPT !.pane = x])
           /\ Keeps(s, [s EXCEPT !.popup = x]) /\ Keeps(s, [s EXCEPT !.query = x])
           /\ Keeps(s, [s EXCEPT !.sort = x]) /\ Keeps(s, [s EXCEPT !.groups = x])
           /\ Keeps(s, [s EXCEPT !.meta = x]) /\ Keeps(s, [s EXCEPT !.saved = x])
<1>1. ASSUME NEW f \in AppFields \ {"page", "dash", "current"}
      PROVE  Keeps(s, [s EXCEPT ![f] = x])
  <2> DEFINE t == [s EXCEPT ![f] = x]
  <2>1. t = [g \in AppFields |-> t[g]] /\ \A g \in AppFields : t[g] = IF g = f THEN x ELSE s[g]
    BY DEF IsApp
  <2>2. Cursors \subseteq AppFields /\ "current" \in AppFields /\ f \notin Cursors
    BY DEF AppFields, Cursors
  <2> HIDE DEF t
  <2> QED BY <2>1, <2>2 DEF Keeps, IsApp
<1> QED BY <1>1 DEF AppFields

\* Two such changes are one.
LEMMA KeptOn == \A s, t, u : Keeps(s, t) /\ Keeps(t, u) => Keeps(s, u)
  BY DEF Keeps

\* A screen that stays is one.
LEMMA KeptItself == \A s : IsApp(s) => Keeps(s, s)
  BY DEF Keeps

-----------------------------------------------------------------------------
(* Every method of the interface that places a cursor keeps the profile.   *)

\* Remembering the name under a cursor.
LEMMA RememberKeeps ==
    ASSUME NEW s, IsApp(s), NEW c \in Cursors
    PROVE  Keeps(s, RememberGroup(s, c)) /\ Keeps(s, RememberNode(s, c))
<1>1. Keeps(s, RememberGroup(s, c))
  BY CursorSets, KeptItself DEF RememberGroup
<1>2. Keeps(s, RememberNode(s, c))
  <2> DEFINE n == SelectedNode(s, c)
             t == [s EXCEPT ![c].gkey = Group(s, c).name]
             u == [t EXCEPT ![c].nkey = n]
  <2>1. Keeps(s, t)
    BY CursorSets
  <2>2. [s EXCEPT ![c].gkey = Group(s, c).name, ![c].nkey = n] = u
    OBVIOUS
  <2>3. RememberNode(s, c) = IF n = NoKey THEN s ELSE u
    BY <2>2 DEF RememberNode
  <2> HIDE DEF t
  <2>4. Keeps(t, u)
    <3>1. IsApp(t)
      BY <2>1 DEF Keeps
    <3> QED BY <3>1, CursorSets
  <2> QED BY <2>1, <2>3, <2>4, KeptOn, KeptItself
<1> QED BY <1>1, <1>2

\* Finding a remembered name again.
LEMMA RestoreKeeps ==
    ASSUME NEW s, IsApp(s), NEW c \in Cursors
    PROVE  Keeps(s, RestoreGroup(s, c)) /\ Keeps(s, RestoreNode(s, c))
  BY CursorSets, KeptItself DEF RestoreGroup, RestoreNode

\* Bringing a cursor back onto the rows.
LEMMA ClampKeeps ==
    ASSUME NEW s, IsApp(s), NEW c \in Cursors
    PROVE  Keeps(s, ClampGroup(s, c)) /\ Keeps(s, ClampNode(s, c)) /\ Keeps(s, ClampCursor(s, c))
<1>1. \A t : IsApp(t) => Keeps(t, ClampGroup(t, c))
  BY CursorSets DEF ClampGroup
<1>2. \A t : IsApp(t) => Keeps(t, ClampNode(t, c))
  <2> SUFFICES ASSUME NEW t, IsApp(t)
               PROVE  Keeps(t, ClampNode(t, c))
    OBVIOUS
  <2> DEFINE r == RestoreNode(t, c)
             x == ClampTo(r[c].node, NodeRows(r, c))
  <2>2. ClampNode(t, c) = [r EXCEPT ![c].node = x]
    BY DEF ClampNode
  <2>1. Keeps(t, r)
    BY RestoreKeeps
  <2> HIDE DEF r, x
  <2>3. Keeps(r, ClampNode(t, c))
    <3>1. IsApp(r)
      BY <2>1 DEF Keeps
    <3>2. Keeps(r, [r EXCEPT ![c].node = x])
      BY <3>1, CursorSets
    <3> QED BY <2>2, <3>2
  <2> QED BY <2>1, <2>3, KeptOn
<1>3. Keeps(s, RestoreGroup(s, c))
  BY RestoreKeeps
<1>4. Keeps(s, ClampGroup(RestoreGroup(s, c), c))
  BY <1>1, <1>3, KeptOn DEF Keeps
<1>5. Keeps(s, ClampCursor(s, c))
  BY <1>2, <1>4, KeptOn DEF Keeps, ClampCursor
<1> QED BY <1>1, <1>2, <1>5

\* Both cursors.
LEMMA ClampsKeep == ASSUME NEW s, IsApp(s) PROVE Keeps(s, ClampSelections(s))
  BY ClampKeeps, KeptOn DEF ClampSelections, Keeps, Cursors

\* Remembering the name in the pane in front.
LEMMA PanesKeep == ASSUME NEW s, IsApp(s) PROVE Keeps(s, RememberPane(s)) /\ Keeps(s, RestorePane(s))
<1>1. Keeps(s, RememberPane(s))
  BY RememberKeeps DEF RememberPane, Cursors
<1>2. Keeps(s, RestoreGroup(s, "page"))
  BY RestoreKeeps DEF Cursors
<1>3. Keeps(s, RestorePane(s))
  BY <1>2, ClampKeeps, KeptOn DEF RestorePane, Keeps, Cursors
<1> QED BY <1>1, <1>3

\* Going to the node in use.
LEMMA CurrentNodeKeeps == ASSUME NEW s, IsApp(s), NEW c \in Cursors PROVE Keeps(s, SelectCurrentNode(s, c))
<1> DEFINE i == IF HasGroup(s, c) THEN PositionOf(Group(s, c).now, Group(s, c).nodes) ELSE 0
           at == [s EXCEPT ![c].node = IF i = 0 THEN 1 ELSE i]
           named == [at EXCEPT ![c].nkey = NodeAt(at, c)]
           seen == IF c = "page" /\ NodeRows(named, c) = <<>> THEN [named EXCEPT !.query = NoSearch] ELSE named
<1>1. SelectCurrentNode(s, c) = RememberNode(ClampNode(seen, c), c)
  BY Zenon DEF SelectCurrentNode
<1> HIDE DEF i
<1>2. Keeps(s, at)
  BY CursorSets
<1> HIDE DEF at
<1>3. Keeps(at, named)
  <2>1. IsApp(at)
    BY <1>2 DEF Keeps
  <2> QED BY <2>1, CursorSets
<1> HIDE DEF named
<1>4. Keeps(named, seen)
  BY <1>3, FieldSets, KeptItself DEF Keeps
<1> HIDE DEF seen
<1>5. Keeps(seen, ClampNode(seen, c))
  BY <1>4, ClampKeeps DEF Keeps
<1>6. Keeps(ClampNode(seen, c), RememberNode(ClampNode(seen, c), c))
  BY <1>5, RememberKeeps DEF Keeps
<1> QED BY <1>1, <1>2, <1>3, <1>4, <1>5, <1>6, KeptOn

\* Showing the nodes.
LEMMA FocusKeeps ==
    ASSUME NEW s, IsApp(s)
    PROVE  Keeps(s, FocusNodes(s)) /\ Keeps(s, FocusDashboardNodes(s)) /\ Keeps(s, EnterProxyView(s))
<1>1. \A t : \A c \in Cursors : IsApp(t) => Keeps(t, RememberNode(RememberGroup(SelectCurrentNode(t, c), c), c))
  <2> SUFFICES ASSUME NEW t, NEW c \in Cursors, IsApp(t)
               PROVE  Keeps(t, RememberNode(RememberGroup(SelectCurrentNode(t, c), c), c))
    OBVIOUS
  <2> DEFINE u == SelectCurrentNode(t, c)
             v == RememberGroup(u, c)
  <2>1. Keeps(t, u)
    BY CurrentNodeKeeps
  <2> HIDE DEF u
  <2>2. Keeps(u, v)
    BY <2>1, RememberKeeps DEF Keeps
  <2> HIDE DEF v
  <2>3. Keeps(v, RememberNode(v, c))
    BY <2>2, RememberKeeps DEF Keeps
  <2> QED BY <2>1, <2>2, <2>3, KeptOn DEF u, v
<1>2. Keeps(s, [s EXCEPT !.pane = "nodes"])
  BY FieldSets
<1>3. Keeps(s, FocusNodes(s))
  BY <1>1, <1>2, KeptOn DEF FocusNodes, Keeps, Cursors
<1>4. Keeps(s, FocusDashboardNodes(s))
  BY <1>1 DEF FocusDashboardNodes, Cursors
<1>5. Keeps(s, ClampNode([s EXCEPT !.pane = "nodes"], "page"))
  BY <1>2, ClampKeeps, KeptOn DEF Keeps, Cursors
<1> QED BY <1>3, <1>4, <1>5 DEF EnterProxyView

\* Placing a cursor on new rows.
LEMMA PlaceKeeps ==
    ASSUME NEW s, IsApp(s), NEW old, NEW c \in Cursors
    PROVE  Keeps(s, PlaceCursor(s, old, c))
<1>1. Keeps(s, PlaceGroup(s, old, c))
  <2> DEFINE g == Prefer(Sticky(old, c), FindName(RowNames(s), GroupName(old, c)), FindName(RowNames(s), old[c].gkey))
             at == IF g = 0 THEN s ELSE [s EXCEPT ![c].group = g]
             back == IF c = "dash" THEN RestoreGroup(at, c) ELSE at
             clamped == ClampGroup(back, c)
  <2>1. PlaceGroup(s, old, c) = RememberGroup(clamped, c)
    BY DEF PlaceGroup
  <2> HIDE DEF g
  <2>2. Keeps(s, at)
    BY CursorSets, KeptItself
  <2> HIDE DEF at
  <2>3. Keeps(at, back)
    BY <2>2, RestoreKeeps, KeptItself DEF Keeps
  <2> HIDE DEF back
  <2>4. Keeps(back, clamped)
    BY <2>3, ClampKeeps DEF Keeps
  <2> HIDE DEF clamped
  <2>5. Keeps(clamped, RememberGroup(clamped, c))
    BY <2>4, RememberKeeps DEF Keeps
  <2> QED BY <2>1, <2>2, <2>3, <2>4, <2>5, KeptOn
<1>2. \A t : IsApp(t) => Keeps(t, PlaceNode(t, old, c))
  <2> SUFFICES ASSUME NEW t, IsApp(t)
               PROVE  Keeps(t, PlaceNode(t, old, c))
    OBVIOUS
  <2> DEFINE nodes == IF HasGroup(t, c) THEN Group(t, c).nodes ELSE <<>>
             n == Prefer(Sticky(old, c), FindName(nodes, NodeAt(old, c)), FindName(nodes, old[c].nkey))
             at == IF n = 0 THEN t ELSE [t EXCEPT ![c].node = n]
             clamped == ClampNode(at, c)
  <2>1. PlaceNode(t, old, c) = RememberNode(clamped, c)
    BY DEF PlaceNode
  <2> HIDE DEF n
  <2>2. Keeps(t, at)
    BY CursorSets, KeptItself
  <2> HIDE DEF at
  <2>3. Keeps(at, clamped)
    BY <2>2, ClampKeeps DEF Keeps
  <2> HIDE DEF clamped
  <2>4. Keeps(clamped, RememberNode(clamped, c))
    BY <2>3, RememberKeeps DEF Keeps
  <2> QED BY <2>1, <2>2, <2>3, <2>4, KeptOn
<1> QED BY <1>1, <1>2, KeptOn DEF PlaceCursor, Keeps

\* New rows.
LEMMA GroupsKeep == ASSUME NEW s, IsApp(s), NEW groups PROVE Keeps(s, ApplyGroups(s, groups))
<1> DEFINE t == [s EXCEPT !.groups = groups]
           u == PlaceCursor(t, s, "page")
<1>1. Keeps(s, t)
  BY FieldSets
<1>2. ApplyGroups(s, groups) = PlaceCursor(u, s, "dash")
  BY DEF ApplyGroups
<1> HIDE DEF t
<1>3. Keeps(t, u)
  BY <1>1, PlaceKeeps DEF Keeps, Cursors
<1> HIDE DEF u
<1>4. Keeps(u, PlaceCursor(u, s, "dash"))
  BY <1>3, PlaceKeeps DEF Keeps, Cursors
<1> QED BY <1>1, <1>2, <1>3, <1>4, KeptOn

\* Going to the group that was last selected.
LEMMA SavedKeeps == ASSUME NEW s, IsApp(s) PROVE Keeps(s, RestoreProfileGroup(s))
<1>1. \A t : \A c \in Cursors : IsApp(t) => Keeps(t, RestoreSaved(t, c))
  <2> SUFFICES ASSUME NEW t, NEW c \in Cursors, IsApp(t)
               PROVE  Keeps(t, RestoreSaved(t, c))
    OBVIOUS
  <2> DEFINE u == [t EXCEPT ![c].gkey = t.saved]
  <2>1. Keeps(t, u)
    BY CursorSets
  <2>2. RestoreSaved(t, c) \in {t, RestoreGroup(u, c)}
    BY DEF RestoreSaved
  <2> HIDE DEF u
  <2>3. Keeps(u, RestoreGroup(u, c))
    BY <2>1, RestoreKeeps DEF Keeps
  <2> QED BY <2>1, <2>2, <2>3, KeptOn, KeptItself
<1> QED BY <1>1, KeptOn DEF RestoreProfileGroup, Keeps, Cursors

\* A screen that reads the catalog shows its current profile.
LEMMA CatalogTaken ==
    ASSUME NEW s, IsApp(s), NEW cat
    PROVE  IsApp(TakeCatalog(s, cat)) /\ TakeCatalog(s, cat).current = cat.current
           /\ IsApp(ApplyProfilesKeepingRows(s, cat)) /\ ApplyProfilesKeepingRows(s, cat).current = cat.current
<1> DEFINE t == [s EXCEPT !.current = cat.current]
           saved == IF cat.current = NoUid THEN NoKey ELSE cat.saved[cat.current]
           u == [t EXCEPT !.saved = saved]
<1>1. IsApp(t) /\ t.current = cat.current
  <2>1. t = [f \in AppFields |-> t[f]] /\ \A f \in AppFields : t[f] = IF f = "current" THEN cat.current ELSE s[f]
    BY DEF IsApp
  <2>2. Cursors \subseteq AppFields \ {"current"} /\ "current" \in AppFields
    BY DEF AppFields, Cursors
  <2> HIDE DEF t
  <2> QED BY <2>1, <2>2 DEF IsApp
<1>2. TakeCatalog(s, cat) = u
  BY DEF TakeCatalog
<1> HIDE DEF t, saved
<1>3. Keeps(t, u)
  BY <1>1, FieldSets
<1>4. IsApp(u) /\ u.current = cat.current
  BY <1>1, <1>3 DEF Keeps
<1> HIDE DEF u
<1>5. Keeps(u, ApplyProfilesKeepingRows(s, cat))
  BY <1>2, <1>4, SavedKeeps, ClampsKeep, KeptOn DEF ApplyProfilesKeepingRows, Keeps
<1> QED BY <1>2, <1>4, <1>5 DEF Keeps

-----------------------------------------------------------------------------
(* Without rows nothing becomes bound.                                     *)

\* Moving a cursor over no rows leaves nothing of a profile on screen.
LEMMA BlankSets ==
    ASSUME NEW s, Blank(s), NEW c \in Cursors, NEW x
    PROVE  Blank([s EXCEPT ![c].group = x]) /\ Blank([s EXCEPT ![c].node = x]) /\ Blank([s EXCEPT ![c].gkey = x])
<1>1. ASSUME NEW at, IsCursor(at), at.sticky = FALSE, at.nkey = NoKey
      PROVE  Blank([s EXCEPT ![c] = at])
  <2> DEFINE t == [s EXCEPT ![c] = at]
  <2>1. t = [f \in AppFields |-> t[f]] /\ \A f \in AppFields : t[f] = IF f = c THEN at ELSE s[f]
    BY DEF Blank, IsApp
  <2>2. Cursors \subseteq AppFields /\ "groups" \in AppFields /\ "groups" \notin Cursors
    BY DEF AppFields, Cursors
  <2>3. \A d \in Cursors : IsCursor(s[d]) /\ s[d].sticky = FALSE /\ s[d].nkey = NoKey
    BY DEF Blank, IsApp
  <2> HIDE DEF t
  <2>4. t.groups = <<>>
    BY <2>1, <2>2 DEF Blank
  <2>5. \A d \in Cursors : t[d] = IF d = c THEN at ELSE s[d]
    BY <2>1, <2>2
  <2> QED BY <1>1, <2>1, <2>3, <2>4, <2>5 DEF Blank, IsApp
<1>2. IsCursor(s[c]) /\ s[c].sticky = FALSE /\ s[c].nkey = NoKey
  BY DEF Blank, IsApp
<1>3. ASSUME NEW at, \/ at = [s[c] EXCEPT !.group = x] \/ at = [s[c] EXCEPT !.node = x] \/ at = [s[c] EXCEPT !.gkey = x]
      PROVE  IsCursor(at) /\ at.sticky = FALSE /\ at.nkey = NoKey
  BY <1>2, <1>3 DEF IsCursor
<1>4. /\ [s EXCEPT ![c].group = x] = [s EXCEPT ![c] = [s[c] EXCEPT !.group = x]]
      /\ [s EXCEPT ![c].node = x] = [s EXCEPT ![c] = [s[c] EXCEPT !.node = x]]
      /\ [s EXCEPT ![c].gkey = x] = [s EXCEPT ![c] = [s[c] EXCEPT !.gkey = x]]
  OBVIOUS
<1> QED BY <1>1, <1>3, <1>4

\* Without rows no cursor is on a group, and none has a node to remember.
LEMMA NoGroup == ASSUME NEW s, s.groups = <<>>, NEW c PROVE ~HasGroup(s, c) /\ SelectedNode(s, c) = NoKey
  BY DEF HasGroup, SelectedNode

\* Clamping, restoring and remembering with no rows.
LEMMA BlankClamps ==
    ASSUME NEW s, Blank(s), NEW c \in Cursors
    PROVE  /\ Blank(RestoreGroup(s, c)) /\ Blank(ClampGroup(s, c)) /\ Blank(ClampNode(s, c)) /\ Blank(ClampCursor(s, c))
           /\ RememberGroup(s, c) = s /\ RememberNode(s, c) = s
<1>1. \A t : Blank(t) => Blank(RestoreGroup(t, c))
  BY BlankSets DEF RestoreGroup
<1>2. \A t : Blank(t) => Blank(ClampGroup(t, c))
  BY BlankSets DEF ClampGroup
<1>3. \A t : Blank(t) => RestoreNode(t, c) = t
  BY NoGroup DEF RestoreNode, Blank
<1>4. \A t : Blank(t) => Blank(ClampNode(t, c))
  BY <1>3, BlankSets DEF ClampNode
<1>5. Blank(ClampCursor(s, c))
  BY <1>1, <1>2, <1>4 DEF ClampCursor
<1>6. RememberGroup(s, c) = s /\ RememberNode(s, c) = s
  BY NoGroup DEF RememberGroup, RememberNode, Blank
<1> QED BY <1>1, <1>2, <1>4, <1>5, <1>6

\* Another page or filter with no rows.
LEMMA BlankFields ==
    ASSUME NEW s, Blank(s), NEW x
    PROVE  Blank([s EXCEPT !.view = x]) /\ Blank([s EXCEPT !.pane = x]) /\ Blank([s EXCEPT !.query = x])
<1>1. ASSUME NEW f \in {"view", "pane", "query"}
      PROVE  Blank([s EXCEPT ![f] = x])
  <2> DEFINE t == [s EXCEPT ![f] = x]
  <2>1. t = [g \in AppFields |-> t[g]] /\ \A g \in AppFields : t[g] = IF g = f THEN x ELSE s[g]
    BY DEF Blank, IsApp
  <2>2. Cursors \subseteq AppFields /\ "groups" \in AppFields /\ f \notin Cursors /\ f # "groups"
    BY DEF AppFields, Cursors
  <2>3. \A d \in Cursors : t[d] = s[d]
    BY <2>1, <2>2
  <2>4. t.groups = s.groups
    BY <2>1, <2>2
  <2> HIDE DEF t
  <2> QED BY <2>1, <2>3, <2>4 DEF Blank, IsApp
<1> QED BY <1>1

\* Showing the nodes with no rows.
LEMMA BlankFocus ==
    ASSUME NEW s, Blank(s)
    PROVE  Blank(FocusNodes(s)) /\ Blank(FocusDashboardNodes(s))
<1>1. \A t : \A c \in Cursors : Blank(t) => Blank(SelectCurrentNode(t, c))
  <2> SUFFICES ASSUME NEW t, NEW c \in Cursors, Blank(t)
               PROVE  Blank(SelectCurrentNode(t, c))
    OBVIOUS
  <2> DEFINE i == IF HasGroup(t, c) THEN PositionOf(Group(t, c).now, Group(t, c).nodes) ELSE 0
             at == [t EXCEPT ![c].node = IF i = 0 THEN 1 ELSE i]
             named == [at EXCEPT ![c].nkey = NodeAt(at, c)]
             seen == IF c = "page" /\ NodeRows(named, c) = <<>> THEN [named EXCEPT !.query = NoSearch] ELSE named
  <2>1. SelectCurrentNode(t, c) = RememberNode(ClampNode(seen, c), c)
    BY Zenon DEF SelectCurrentNode
  <2> HIDE DEF i
  <2>2. Blank(at)
    BY BlankSets
  <2> HIDE DEF at
  <2>3. NodeAt(at, c) = NoKey
    BY <2>2, NoGroup DEF NodeAt, Blank
  <2>4. named = at
    BY <2>2, <2>3 DEF Blank, IsApp, IsCursor, AppFields, Cursors
  <2> HIDE DEF named
  <2>5. Blank(seen)
    BY <2>2, <2>4, BlankFields
  <2> HIDE DEF seen
  <2> QED BY <2>1, <2>5, BlankClamps
<1>2. \A t : \A c \in Cursors : Blank(t) => Blank(RememberNode(RememberGroup(SelectCurrentNode(t, c), c), c))
  BY <1>1, BlankClamps
<1>3. Blank([s EXCEPT !.pane = "nodes"])
  BY BlankFields
<1> QED BY <1>2, <1>3 DEF FocusNodes, FocusDashboardNodes, Cursors

\* Going to the group that was last selected with no rows.
LEMMA BlankSaved ==
    ASSUME NEW s, Blank(s)
    PROVE  Blank(RestoreProfileGroup(s)) /\ Blank(ClampSelections(s))
<1>1. \A t : \A c \in Cursors : Blank(t) => Blank(RestoreSaved(t, c))
  BY BlankSets, BlankClamps DEF RestoreSaved
<1> QED BY <1>1, BlankClamps DEF RestoreProfileGroup, ClampSelections, Cursors

\* A cleared screen, and one with both cursors placed anew.
LEMMA BlankFresh ==
    ASSUME NEW s, IsApp(s)
    PROVE  /\ Blank(ClearBound(s)) /\ ClearBound(s).current = s.current
           /\ s.groups = <<>> => Blank([s EXCEPT !.view = "Proxies", !.pane = "nodes", !.query = NoSearch,
                                                  !.page = Fresh, !.dash = Fresh])
           /\ Keeps(s, [s EXCEPT !.view = "Proxies", !.pane = "nodes", !.query = NoSearch, !.page = Fresh, !.dash = Fresh])
<1> DEFINE t == ClearBound(s)
           u == [s EXCEPT !.view = "Proxies", !.pane = "nodes", !.query = NoSearch, !.page = Fresh, !.dash = Fresh]
<1>1. s = [f \in AppFields |-> s[f]]
  BY DEF IsApp
<1>2. /\ t = [f \in AppFields |-> t[f]] /\ t["page"] = Fresh /\ t["dash"] = Fresh
      /\ t["groups"] = <<>> /\ t["current"] = s["current"]
  BY <1>1 DEF ClearBound, AppFields
<1>3. /\ u = [f \in AppFields |-> u[f]] /\ u["page"] = Fresh /\ u["dash"] = Fresh
      /\ u["groups"] = s["groups"] /\ u["current"] = s["current"]
  BY <1>1 DEF AppFields
<1>4. IsCursor(Fresh) /\ Fresh.sticky = FALSE /\ Fresh.nkey = NoKey
  BY DEF IsCursor, Fresh
<1> HIDE DEF t, u
<1>5. Blank(t)
  BY <1>2, <1>4 DEF Blank, IsApp, Cursors
<1>6. IsApp(u) /\ (s.groups = <<>> => Blank(u))
  BY <1>3, <1>4 DEF Blank, IsApp, Cursors
<1> QED BY <1>2, <1>3, <1>5, <1>6 DEF t, u, Keeps

\* A catalog with another current profile leaves nothing of the old one on screen.
LEMMA ProfilesApplied ==
    ASSUME NEW s, IsApp(s), NEW cat
    PROVE  LET t == ApplyProfiles(s, cat)
           IN IsApp(t) /\ t.current = cat.current /\ (s.current # cat.current => Blank(t))
<1> DEFINE t == TakeCatalog(s, cat)
           u == IF s.current # cat.current THEN ClearBound(t) ELSE t
           v == RestoreProfileGroup(u)
<1>1. ApplyProfiles(s, cat) = ClampSelections(v)
  BY DEF ApplyProfiles
<1>2. IsApp(t) /\ t.current = cat.current
  BY CatalogTaken
<1> HIDE DEF t
<1>3. IsApp(u) /\ u.current = cat.current /\ (s.current # cat.current => Blank(u))
  BY <1>2, BlankFresh DEF Blank
<1> HIDE DEF u
<1>4. Keeps(u, v) /\ (s.current # cat.current => Blank(v))
  BY <1>3, SavedKeeps, BlankSaved
<1> HIDE DEF v
<1>5. Keeps(v, ClampSelections(v)) /\ (s.current # cat.current => Blank(ClampSelections(v)))
  BY <1>4, ClampsKeep, BlankSaved DEF Keeps
<1> QED BY <1>1, <1>3, <1>4, <1>5 DEF Keeps

\* The focus after an import keeps the profile, and a screen with nothing on it stays so.
LEMMA ImportFocused ==
    ASSUME NEW s, IsApp(s)
    PROVE  Keeps(s, FocusAfterImport(s)) /\ (s.groups = <<>> => Blank(FocusAfterImport(s)))
<1> DEFINE t == [s EXCEPT !.view = "Proxies", !.pane = "nodes", !.query = NoSearch, !.page = Fresh, !.dash = Fresh]
           u == FocusNodes(t)
<1>1. Keeps(s, t) /\ (s.groups = <<>> => Blank(t))
  BY BlankFresh
<1>2. FocusAfterImport(s) = FocusDashboardNodes(u)
  BY DEF FocusAfterImport
<1> HIDE DEF t
<1>3. Keeps(t, u) /\ (s.groups = <<>> => Blank(u))
  BY <1>1, FocusKeeps, BlankFocus DEF Keeps
<1> HIDE DEF u
<1>4. Keeps(u, FocusDashboardNodes(u)) /\ (s.groups = <<>> => Blank(FocusDashboardNodes(u)))
  BY <1>3, FocusKeeps, BlankFocus DEF Keeps
<1> QED BY <1>1, <1>2, <1>3, <1>4, KeptOn

\* A chosen node is shown as the one in use.
LEMMA NowKeeps == ASSUME NEW s, IsApp(s), NEW name, NEW proxy PROVE Keeps(s, SetGroupNow(s, name, proxy))
<1>1. \A t : \A c \in Cursors : IsApp(t) => Keeps(t, FollowNow(t, name, proxy, c))
  <2> SUFFICES ASSUME NEW t, NEW c \in Cursors, IsApp(t)
               PROVE  Keeps(t, FollowNow(t, name, proxy, c))
    OBVIOUS
  <2> DEFINE n == PositionOf(proxy, Group(t, c).nodes)
             at == IF n = 0 THEN t ELSE [t EXCEPT ![c].node = n]
  <2>1. FollowNow(t, name, proxy, c) \in {t, RememberNode(RememberGroup(at, c), c)}
    <3>1. \/ FollowNow(t, name, proxy, c) = t
          \/ FollowNow(t, name, proxy, c) = RememberNode(RememberGroup(at, c), c)
      BY Zenon DEF FollowNow
    <3> HIDE DEF at
    <3> QED BY <3>1
  <2> HIDE DEF n
  <2>2. Keeps(t, at)
    BY CursorSets, KeptItself
  <2> HIDE DEF at
  <2>3. Keeps(at, RememberGroup(at, c))
    BY <2>2, RememberKeeps DEF Keeps
  <2>4. Keeps(RememberGroup(at, c), RememberNode(RememberGroup(at, c), c))
    BY <2>3, RememberKeeps DEF Keeps
  <2> QED BY <2>1, <2>2, <2>3, <2>4, KeptOn, KeptItself
<1> DEFINE i == FindName(RowNames(s), name)
           now == IF i = 0 THEN s ELSE [s EXCEPT !.groups[i].now = proxy]
           first == FollowNow(now, name, proxy, "page")
           second == FollowNow(first, name, proxy, "dash")
           third == ClampNode(second, "page")
<1>2. SetGroupNow(s, name, proxy) = ClampNode(third, "dash")
  BY DEF SetGroupNow
<1> HIDE DEF i
<1>3. Keeps(s, now)
  <2>1. [s EXCEPT !.groups[i].now = proxy] = [s EXCEPT !.groups = [s.groups EXCEPT ![i].now = proxy]]
    OBVIOUS
  <2> QED BY <2>1, FieldSets, KeptItself
<1> HIDE DEF now
<1>4. Keeps(now, first)
  BY <1>1, <1>3 DEF Keeps, Cursors
<1> HIDE DEF first
<1>5. Keeps(first, second)
  BY <1>1, <1>4 DEF Keeps, Cursors
<1> HIDE DEF second
<1>6. Keeps(second, third)
  BY <1>5, ClampKeeps DEF Keeps, Cursors
<1> HIDE DEF third
<1>7. Keeps(third, ClampNode(third, "dash"))
  BY <1>6, ClampKeeps DEF Keeps, Cursors
<1> QED BY <1>2, <1>3, <1>4, <1>5, <1>6, <1>7, KeptOn

-----------------------------------------------------------------------------
(* The invariant.                                                          *)

\* The interface shows the current profile or none yet, and what it shows ran under the current one.
RowsInv ==
    /\ IsApp(app) /\ catalog = [current |-> catalog.current, saved |-> catalog.saved]
    /\ app.current \in {NoUid, catalog.current}
    /\ catalog.current # NoUid => rowsOf \subseteq {catalog.current}

\* What is shown, and the profiles it came from: none when nothing is bound to one.
LEMMA ShowSets ==
    ASSUME NEW s, NEW of, Show(s, of)
    PROVE  app' = s /\ rowsOf' \subseteq of /\ (Blank(s) => rowsOf' = {})
  BY DEF Show, Bound, Blank

\* A step that keeps the profile, and loads rows of the current one at most, keeps the invariant.
LEMMA ShowKeeps ==
    ASSUME RowsInv, NEW s, NEW of, Keeps(app, s), Show(s, of), of \subseteq rowsOf \cup {catalog.current}, UNCHANGED catalog
    PROVE  RowsInv'
<1>1. app' = s /\ rowsOf' \subseteq of
  BY ShowSets
<1>2. IsApp(app)' <=> IsApp(app')
  BY DEF IsApp, IsCursor
<1> QED BY <1>1, <1>2 DEF RowsInv, Keeps

\* So does a key that keeps the profile.
LEMMA RowKeyKeeps == ASSUME RowsInv, NEW s, Keeps(app, s), Key(s) PROVE RowsInv'
  BY ShowKeeps DEF Key

\* A cursor moves.
LEMMA MovesKeep == ASSUME RowsInv, NEW delta, MoveSelection(delta) PROVE RowsInv'
<1>1. IsApp(app)
  BY DEF RowsInv
<1>2. ASSUME NEW c \in Cursors, MoveGroup(c, delta)
      PROVE  RowsInv'
  <2> DEFINE s == [app EXCEPT ![c].group = MoveIn(@, GroupRows(app, c), delta)]
             t == Chosen(s, c)
             u == RememberGroup(t, c)
  <2>1. Key(SelectCurrentNode(u, c))
    BY <1>2 DEF MoveGroup
  <2>2. Keeps(app, s)
    <3> DEFINE x == MoveIn(app[c].group, GroupRows(app, c), delta)
    <3>1. s = [app EXCEPT ![c].group = x]
      OBVIOUS
    <3> HIDE DEF x
    <3> QED BY <1>1, <3>1, CursorSets
  <2> HIDE DEF s
  <2>3. Keeps(s, t)
    <3>1. IsApp(s)
      BY <2>2 DEF Keeps
    <3>2. Keeps(s, [s EXCEPT ![c].sticky = TRUE])
      BY <3>1, CursorSets
    <3> QED BY <3>2 DEF Chosen
  <2> HIDE DEF t
  <2>4. Keeps(t, u)
    BY <2>3, RememberKeeps DEF Keeps
  <2> HIDE DEF u
  <2>5. Keeps(u, SelectCurrentNode(u, c))
    BY <2>4, CurrentNodeKeeps DEF Keeps
  <2> QED BY <2>1, <2>2, <2>3, <2>4, <2>5, KeptOn, RowKeyKeeps
<1>3. ASSUME NEW c \in Cursors, MoveNode(c, delta)
      PROVE  RowsInv'
  <2> DEFINE s == [app EXCEPT ![c].node = MoveIn(@, NodeRows(app, c), delta)]
             t == Chosen(s, c)
  <2>1. Key(RememberNode(t, c))
    BY <1>3 DEF MoveNode
  <2>2. Keeps(app, s)
    <3> DEFINE x == MoveIn(app[c].node, NodeRows(app, c), delta)
    <3>1. s = [app EXCEPT ![c].node = x]
      OBVIOUS
    <3> HIDE DEF x
    <3> QED BY <1>1, <3>1, CursorSets
  <2> HIDE DEF s
  <2>3. Keeps(s, t)
    <3>1. IsApp(s)
      BY <2>2 DEF Keeps
    <3>2. Keeps(s, [s EXCEPT ![c].sticky = TRUE])
      BY <3>1, CursorSets
    <3> QED BY <3>2 DEF Chosen
  <2> HIDE DEF t
  <2>4. Keeps(t, RememberNode(t, c))
    BY <2>3, RememberKeeps DEF Keeps
  <2> QED BY <2>1, <2>2, <2>3, <2>4, KeptOn, RowKeyKeeps
<1> QED BY <1>2, <1>3 DEF MoveSelection, Cursors

\* The other pane, another order, and Enter on a group.
LEMMA PaneAndSortKeep == RowsInv /\ (FocusNextPane \/ CycleSort \/ EnterGroup) => RowsInv'
<1> SUFFICES ASSUME RowsInv, FocusNextPane \/ CycleSort \/ EnterGroup
             PROVE  RowsInv'
  OBVIOUS
<1>1. IsApp(app) /\ "page" \in Cursors
  BY DEF RowsInv, Cursors
<1>2. CASE FocusNextPane
  <2> DEFINE r == RememberPane(app)
             s == [r EXCEPT !.pane = IF @ = "groups" THEN "nodes" ELSE "groups"]
             t == IF s.pane = "groups" THEN RestoreGroup(s, "page") ELSE ClampNode(s, "page")
  <2>1. Key(RememberPane(t))
    BY <1>2 DEF FocusNextPane
  <2>2. Keeps(app, r)
    BY <1>1, PanesKeep
  <2> HIDE DEF r
  <2>3. Keeps(r, s)
    <3> DEFINE x == IF r.pane = "groups" THEN "nodes" ELSE "groups"
    <3>1. s = [r EXCEPT !.pane = x] /\ IsApp(r)
      BY <2>2 DEF Keeps
    <3> HIDE DEF x
    <3> QED BY <3>1, FieldSets
  <2> HIDE DEF s
  <2>4. Keeps(s, t)
    BY <1>1, <2>3, RestoreKeeps, ClampKeeps DEF Keeps
  <2> HIDE DEF t
  <2>5. Keeps(t, RememberPane(t))
    BY <2>4, PanesKeep DEF Keeps
  <2> QED BY <2>1, <2>2, <2>3, <2>4, <2>5, KeptOn, RowKeyKeeps
<1>3. CASE CycleSort
  <2> DEFINE r == RememberNode(app, "page")
             s == [r EXCEPT !.sort = NextSort(@)]
             t == ClampNode(s, "page")
  <2>1. Key(IF s.pane = "nodes" THEN RememberNode(t, "page") ELSE FocusNodes(s))
    BY <1>3 DEF CycleSort
  <2>2. Keeps(app, r)
    BY <1>1, RememberKeeps
  <2> HIDE DEF r
  <2>3. Keeps(r, s)
    <3> DEFINE x == NextSort(r.sort)
    <3>1. s = [r EXCEPT !.sort = x] /\ IsApp(r)
      BY <2>2 DEF Keeps
    <3> HIDE DEF x
    <3> QED BY <3>1, FieldSets
  <2> HIDE DEF s
  <2>4. Keeps(s, t) /\ Keeps(s, FocusNodes(s))
    BY <1>1, <2>3, ClampKeeps, FocusKeeps DEF Keeps
  <2> HIDE DEF t
  <2>5. Keeps(t, RememberNode(t, "page"))
    BY <1>1, <2>4, RememberKeeps DEF Keeps
  <2>6. Keeps(app, IF s.pane = "nodes" THEN RememberNode(t, "page") ELSE FocusNodes(s))
    BY <2>2, <2>3, <2>4, <2>5, KeptOn
  <2> QED BY <2>1, <2>6, RowKeyKeeps
<1>4. CASE EnterGroup
  BY <1>1, <1>4, FocusKeeps, RowKeyKeeps DEF EnterGroup
<1> QED BY <1>2, <1>3, <1>4

\* Another page.
LEMMA ViewKeeps == ASSUME RowsInv, NEW v, OpenView(v) PROVE RowsInv'
<1> DEFINE r == [app EXCEPT !.view = v]
           x == IF v = "Dashboard" THEN app.popup ELSE "none"
           s == [r EXCEPT !.popup = x]
<1>1. IsApp(app)
  BY DEF RowsInv
<1>2. [app EXCEPT !.view = v, !.popup = IF v = "Dashboard" THEN @ ELSE "none"] = s
  BY <1>1 DEF IsApp, AppFields
<1>3. Key(IF v = "Proxies" THEN EnterProxyView(s) ELSE s)
  BY <1>2 DEF OpenView
<1>4. Keeps(app, r)
  BY <1>1, FieldSets
<1> HIDE DEF x, r
<1>5. Keeps(r, s)
  <2>1. IsApp(r)
    BY <1>4 DEF Keeps
  <2> QED BY <2>1, FieldSets
<1> HIDE DEF s
<1>6. Keeps(s, IF v = "Proxies" THEN EnterProxyView(s) ELSE s)
  BY <1>5, FocusKeeps DEF Keeps
<1> QED BY <1>3, <1>4, <1>5, <1>6, KeptOn, RowKeyKeeps

\* A search.
LEMMA RowSearchKeeps == ASSUME RowsInv, NEW q, Search(q) PROVE RowsInv'
<1> DEFINE s == [app EXCEPT !.query = q]
<1>1. Keeps(app, s) /\ Key(ClampSelections(s))
  BY FieldSets DEF RowsInv, Search
<1> HIDE DEF s
<1>2. Keeps(s, ClampSelections(s))
  BY <1>1, ClampsKeep DEF Keeps
<1> QED BY <1>1, <1>2, KeptOn, RowKeyKeeps

\* A key that opens or closes a popup over a screen that keeps the profile.
LEMMA PopupStays == ASSUME RowsInv, NEW s, Keeps(app, s), NEW x, Key([s EXCEPT !.popup = x]) PROVE RowsInv'
<1>1. IsApp(s)
  BY DEF Keeps
<1>2. Keeps(s, [s EXCEPT !.popup = x])
  BY <1>1, FieldSets
<1> QED BY <1>2, KeptOn, RowKeyKeeps

\* A node is chosen, and the choice is saved in the catalog.
LEMMA NodeApplied ==
    ASSUME RowsInv, NEW c \in Cursors, NEW s, Keeps(app, s), ApplyNode(c, s)
    PROVE  RowsInv'
<1> DEFINE t == ApplyProfilesKeepingRows(s, catalog')
           u == SetGroupNow(t, GroupName(app, c), SelectedNode(app, c))
<1>1. Show(u, rowsOf) /\ catalog' = [catalog EXCEPT !.saved[catalog.current] = GroupName(app, c)]
      /\ catalog.current # NoUid
  BY DEF ApplyNode
<1>2. catalog'.current = catalog.current /\ catalog' = [current |-> catalog'.current, saved |-> catalog'.saved]
  <2> DEFINE named == [catalog.saved EXCEPT ![catalog.current] = GroupName(app, c)]
  <2>1. catalog' = [catalog EXCEPT !.saved = named] /\ catalog = [current |-> catalog.current, saved |-> catalog.saved]
    BY <1>1 DEF RowsInv
  <2> HIDE DEF named
  <2> QED BY <2>1
<1>3. IsApp(t) /\ t.current = catalog'.current
  BY CatalogTaken DEF Keeps
<1> HIDE DEF t
<1>4. Keeps(t, u)
  BY <1>3, NowKeeps
<1> HIDE DEF u
<1>5. app' = u /\ rowsOf' \subseteq rowsOf
  BY <1>1, ShowSets
<1>6. IsApp(app)' <=> IsApp(app')
  BY DEF IsApp, IsCursor
<1> QED BY <1>1, <1>2, <1>3, <1>4, <1>5, <1>6 DEF RowsInv, Keeps

\* Enter on a node, and the dashboard's popups.
LEMMA RowPopupsKeep == RowsInv /\ (EnterNode \/ OpenGroups \/ OpenNodes \/ EnterPopup \/ ClosePopup) => RowsInv'
<1> SUFFICES ASSUME RowsInv, EnterNode \/ OpenGroups \/ OpenNodes \/ EnterPopup \/ ClosePopup
             PROVE  RowsInv'
  OBVIOUS
<1>1. IsApp(app) /\ Cursors = {"page", "dash"} /\ Keeps(app, app)
  BY KeptItself DEF RowsInv, Cursors
<1>2. CASE EnterNode
  BY <1>1, <1>2, NodeApplied DEF EnterNode
<1>3. CASE OpenGroups
  <2> DEFINE r == RestoreGroup(app, "dash")
             s == ClampGroup(r, "dash")
             t == RememberGroup(s, "dash")
  <2>1. Key([t EXCEPT !.popup = "groups"])
    BY <1>3 DEF OpenGroups
  <2>2. Keeps(app, r)
    BY <1>1, RestoreKeeps
  <2> HIDE DEF r
  <2>3. Keeps(r, s)
    BY <1>1, <2>2, ClampKeeps DEF Keeps
  <2> HIDE DEF s
  <2>4. Keeps(s, t)
    BY <1>1, <2>3, RememberKeeps DEF Keeps
  <2> HIDE DEF t
  <2> QED BY <2>1, <2>2, <2>3, <2>4, KeptOn, PopupStays
<1>4. CASE OpenNodes
  BY <1>1, <1>4, FocusKeeps, PopupStays DEF OpenNodes
<1>5. CASE EnterPopup
  <2>1. CASE Key([FocusDashboardNodes(RememberGroup(Chosen(app, "dash"), "dash")) EXCEPT !.popup = "nodes"])
    <3> DEFINE s == Chosen(app, "dash")
               t == RememberGroup(s, "dash")
               u == FocusDashboardNodes(t)
    <3>1. Keeps(app, s)
      BY <1>1, CursorSets DEF Chosen
    <3>2. Key([u EXCEPT !.popup = "nodes"])
      BY <2>1
    <3> HIDE DEF s
    <3>3. Keeps(s, t)
      BY <1>1, <3>1, RememberKeeps DEF Keeps
    <3> HIDE DEF t
    <3>4. Keeps(t, u)
      BY <3>3, FocusKeeps DEF Keeps
    <3> HIDE DEF u
    <3> QED BY <3>1, <3>2, <3>3, <3>4, KeptOn, PopupStays
  <2>2. CASE ApplyNode("dash", [app EXCEPT !.popup = "none"])
    <3>1. Keeps(app, [app EXCEPT !.popup = "none"])
      BY <1>1, FieldSets
    <3> QED BY <1>1, <2>2, <3>1, NodeApplied
  <2>3. CASE Key([app EXCEPT !.popup = "none"])
    BY <1>1, <2>3, PopupStays
  <2> QED BY <1>5, <2>1, <2>2, <2>3 DEF EnterPopup
<1>6. CASE ClosePopup
  BY <1>1, <1>6, PopupStays DEF ClosePopup
<1> QED BY <1>2, <1>3, <1>4, <1>5, <1>6


\* A step that shows the current profile of the catalog or none yet keeps the invariant.
LEMMA ShownKeeps ==
    ASSUME RowsInv, NEW s, NEW of, IsApp(s), s.current \in {NoUid, catalog.current},
           Show(s, of), of \subseteq rowsOf \cup {catalog.current}, UNCHANGED catalog
    PROVE  RowsInv'
<1>1. app' = s /\ rowsOf' \subseteq of
  BY ShowSets
<1>2. IsApp(app)' <=> IsApp(app')
  BY DEF IsApp, IsCursor
<1> QED BY <1>1, <1>2 DEF RowsInv

\* The pane in front is found again and remembered.
LEMMA PaneRestores == ASSUME NEW s, IsApp(s) PROVE Keeps(s, RememberPane(RestorePane(s)))
<1>1. "page" \in Cursors
  BY DEF Cursors
<1> DEFINE r == RestoreGroup(s, "page")
           t == RestorePane(s)
<1>2. t = IF s.pane = "groups" THEN r ELSE ClampNode(r, "page")
  BY DEF RestorePane
<1>3. Keeps(s, r)
  BY <1>1, RestoreKeeps
<1> HIDE DEF t, r
<1>4. Keeps(r, ClampNode(r, "page"))
  BY <1>1, <1>3, ClampKeeps DEF Keeps
<1>5. Keeps(s, t)
  BY <1>2, <1>3, <1>4, KeptOn
<1>6. Keeps(t, RememberPane(t))
  BY <1>5, PanesKeep DEF Keeps
<1> QED BY <1>5, <1>6, KeptOn DEF t

\* A delay is measured, and the rows may be loaded again.
LEMMA TestDelayKeeps == RowsInv /\ TestDelay => RowsInv'
<1> SUFFICES ASSUME RowsInv, TestDelay
             PROVE  RowsInv'
  OBVIOUS
<1> DEFINE n == SelectedNode(app, "page")
           x == Chosen(app, "page")
           y == [x EXCEPT !.page.gkey = GroupName(app, "page")]
           s == [y EXCEPT !.page.nkey = n]
           Measured(d) ==
             [s EXCEPT !.meta = [z \in DOMAIN @ \cup {n} |-> IF z = n THEN [Meta(app, n) EXCEPT !.delay = d] ELSE @[z]]]
<1>1. IsApp(app) /\ "page" \in Cursors
  BY DEF RowsInv, Cursors
<1>2. Keeps(app, x)
  BY <1>1, CursorSets DEF Chosen
<1>3. [x EXCEPT !.page.gkey = GroupName(app, "page"), !.page.nkey = n] = s
  OBVIOUS
<1>4. /\ UNCHANGED catalog
      /\ \/ Show(s, rowsOf)
         \/ \E d \in {"slow", "-"} :
               Show(Measured(d), rowsOf) \/ Show(RememberPane(RestorePane(Measured(d))), rowsOf)
         \/ \E groups \in GroupListings \ {<<>>}, m \in Measures :
               Show(RememberPane(RestorePane(ApplyGroups([s EXCEPT !.meta = m], groups))),
                    rowsOf \cup {catalog.current})
  BY <1>3 DEF TestDelay
<1> HIDE DEF x
<1>5. Keeps(x, y)
  <2>1. IsApp(x)
    BY <1>2 DEF Keeps
  <2> QED BY <1>1, <2>1, CursorSets
<1> HIDE DEF y
<1>6. Keeps(y, s)
  <2>1. IsApp(y)
    BY <1>5 DEF Keeps
  <2> QED BY <1>1, <2>1, CursorSets
<1>7. Keeps(app, s) /\ IsApp(s)
  BY <1>2, <1>5, <1>6, KeptOn DEF Keeps
<1> HIDE DEF s
<1>8. CASE Show(s, rowsOf)
  BY <1>4, <1>7, <1>8, ShowKeeps
<1>9. ASSUME NEW d \in {"slow", "-"},
             Show(Measured(d), rowsOf) \/ Show(RememberPane(RestorePane(Measured(d))), rowsOf)
      PROVE  RowsInv'
  <2> DEFINE t == Measured(d)
  <2>1. Keeps(s, t)
    BY <1>7, FieldSets
  <2>2. Show(t, rowsOf) \/ Show(RememberPane(RestorePane(t)), rowsOf)
    BY <1>9
  <2> HIDE DEF t
  <2>3. Keeps(t, RememberPane(RestorePane(t)))
    BY <2>1, PaneRestores DEF Keeps
  <2>4. Keeps(app, t) /\ Keeps(app, RememberPane(RestorePane(t)))
    BY <1>7, <2>1, <2>3, KeptOn
  <2> QED BY <1>4, <2>2, <2>4, ShowKeeps
<1>10. ASSUME NEW groups, NEW m,
              Show(RememberPane(RestorePane(ApplyGroups([s EXCEPT !.meta = m], groups))), rowsOf \cup {catalog.current})
       PROVE  RowsInv'
  <2> DEFINE t == [s EXCEPT !.meta = m]
             u == ApplyGroups(t, groups)
  <2>1. Keeps(s, t)
    BY <1>7, FieldSets
  <2>2. Show(RememberPane(RestorePane(u)), rowsOf \cup {catalog.current})
    BY <1>10
  <2> HIDE DEF t
  <2>3. Keeps(t, u)
    BY <2>1, GroupsKeep DEF Keeps
  <2> HIDE DEF u
  <2>4. Keeps(u, RememberPane(RestorePane(u)))
    BY <2>3, PaneRestores DEF Keeps
  <2>5. Keeps(app, RememberPane(RestorePane(u)))
    BY <1>7, <2>1, <2>3, <2>4, KeptOn
  <2> QED BY <1>4, <2>2, <2>5, ShowKeeps
<1> QED BY <1>4, <1>8, <1>9, <1>10

\* Rows that load keep the profile.
LEMMA LoadedKeeps == ASSUME NEW s, IsApp(s), NEW l PROVE Keeps(s, Loaded(s, l))
<1> DEFINE t == [s EXCEPT !.meta = l.meta]
           u == ApplyGroups(t, l.groups)
<1>1. Loaded(s, l) = ClampSelections(u)
  BY DEF Loaded
<1>2. Keeps(s, t)
  BY FieldSets
<1> HIDE DEF t
<1>3. Keeps(t, u)
  BY <1>2, GroupsKeep DEF Keeps
<1> HIDE DEF u
<1>4. Keeps(u, ClampSelections(u))
  BY <1>3, ClampsKeep DEF Keeps
<1> QED BY <1>1, <1>2, <1>3, <1>4, KeptOn

\* The proxy page loads its rows.
LEMMA RefreshProxiesKeeps == RowsInv /\ RefreshProxies => RowsInv'
<1> SUFFICES ASSUME RowsInv, RefreshProxies
             PROVE  RowsInv'
  OBVIOUS
<1> DEFINE s == RememberPane(app)
           t == [s EXCEPT !.meta = <<>>]
<1>1. Keeps(app, s) /\ IsApp(s)
  BY PanesKeep DEF RowsInv, Keeps
<1>2. /\ UNCHANGED catalog
      /\ \/ \E l : Show(Loaded(s, l), IF l = Nothing THEN rowsOf ELSE rowsOf \cup {catalog.current})
         \/ Show(ClampSelections(t), rowsOf)
  BY DEF RefreshProxies
<1> HIDE DEF s
<1>3. CASE Show(ClampSelections(t), rowsOf)
  <2>1. Keeps(s, t)
    BY <1>1, FieldSets
  <2> HIDE DEF t
  <2>2. Keeps(t, ClampSelections(t))
    BY <2>1, ClampsKeep DEF Keeps
  <2> QED BY <1>1, <1>2, <1>3, <2>1, <2>2, KeptOn, ShowKeeps
<1>4. ASSUME NEW l, Show(Loaded(s, l), IF l = Nothing THEN rowsOf ELSE rowsOf \cup {catalog.current})
      PROVE  RowsInv'
  <2>1. Keeps(app, Loaded(s, l))
    BY <1>1, LoadedKeeps, KeptOn
  <2> QED BY <1>2, <1>4, <2>1, ShowKeeps
<1> QED BY <1>2, <1>3, <1>4

\* The dashboard reads the catalog and loads its rows, of the profile that the catalog names.
LEMMA RefreshDashboardKeeps == RowsInv /\ RefreshDashboard => RowsInv'
<1> SUFFICES ASSUME RowsInv, RefreshDashboard
             PROVE  RowsInv'
  OBVIOUS
<1>1. IsApp(app)
  BY DEF RowsInv
<1>2. PICK s \in {app, ApplyProfiles(app, catalog)} :
         \E l, t : /\ t \in {s} \cup {ApplyGroups([s EXCEPT !.meta = <<>>], <<>>)}
                   /\ Show(Loaded(t, l), (IF Bound(s) THEN rowsOf ELSE {}) \cup {catalog.current})
  BY DEF RefreshDashboard
<1>3. UNCHANGED catalog
  BY DEF RefreshDashboard
<1>4. IsApp(s) /\ s.current \in {NoUid, catalog.current}
  BY <1>1, <1>2, ProfilesApplied DEF RowsInv
<1>5. PICK l, t : /\ t \in {s} \cup {ApplyGroups([s EXCEPT !.meta = <<>>], <<>>)}
                  /\ Show(Loaded(t, l), (IF Bound(s) THEN rowsOf ELSE {}) \cup {catalog.current})
  BY <1>2
<1> DEFINE u == [s EXCEPT !.meta = <<>>]
<1>6. Keeps(s, u) /\ t \in {s} \cup {ApplyGroups(u, <<>>)}
  BY <1>4, <1>5, FieldSets
<1> HIDE DEF u
<1>7. Keeps(u, ApplyGroups(u, <<>>))
  BY <1>6, GroupsKeep DEF Keeps
<1>8. Keeps(s, t)
  BY <1>4, <1>6, <1>7, KeptOn, KeptItself
<1>9. Keeps(t, Loaded(t, l))
  BY <1>8, LoadedKeeps DEF Keeps
<1>10. IsApp(Loaded(t, l)) /\ Loaded(t, l).current \in {NoUid, catalog.current}
  BY <1>4, <1>8, <1>9 DEF Keeps
<1> QED BY <1>3, <1>5, <1>10, ShownKeeps

\* The profiles page reads the catalog.
LEMMA RefreshElsewhereKeeps == RowsInv /\ RefreshElsewhere => RowsInv'
<1> SUFFICES ASSUME RowsInv, RefreshElsewhere
             PROVE  RowsInv'
  OBVIOUS
<1>1. IsApp(app) /\ app.current \in {NoUid, catalog.current}
  BY DEF RowsInv
<1>2. PICK s \in {app, ApplyProfiles(app, catalog)} : Show(ClampSelections(s), rowsOf) /\ UNCHANGED catalog
  BY DEF RefreshElsewhere, Key
<1>3. IsApp(s) /\ s.current \in {NoUid, catalog.current}
  BY <1>1, <1>2, ProfilesApplied
<1>4. IsApp(ClampSelections(s)) /\ ClampSelections(s).current \in {NoUid, catalog.current}
  BY <1>3, ClampsKeep DEF Keeps
<1> QED BY <1>2, <1>4, ShownKeeps

\* Another profile becomes the current one, and the rows of the old one go.
LEMMA SwitchKeeps == ASSUME RowsInv, NEW u, ChangeCurrent(u) PROVE RowsInv'
<1> DEFINE s == ApplyProfiles(app, catalog')
<1>1. /\ u # catalog.current
      /\ catalog' = [catalog EXCEPT !.current = u]
      /\ Show(s, rowsOf)
  BY DEF ChangeCurrent
<1>2. catalog'.current = u /\ catalog' = [current |-> catalog'.current, saved |-> catalog'.saved]
  BY <1>1 DEF RowsInv
<1>3. IsApp(s) /\ s.current = u /\ (app.current # u => Blank(s))
  BY <1>2, ProfilesApplied DEF RowsInv
<1> HIDE DEF s
<1>4. app' = s /\ (Blank(s) => rowsOf' = {})
  BY <1>1, ShowSets
<1>5. IsApp(app)' <=> IsApp(app')
  BY DEF IsApp, IsCursor
<1> QED BY <1>1, <1>2, <1>3, <1>4, <1>5 DEF RowsInv

\* An imported profile becomes the current one, and what loads is of it.
LEMMA ImportKeeps == ASSUME RowsInv, NEW u, Import(u) PROVE RowsInv'
<1> DEFINE r == ApplyProfiles(app, catalog')
           s == FocusAfterImport(r)
           t == [s EXCEPT !.meta = <<>>]
<1>1. /\ u # catalog.current
      /\ catalog' = [current |-> u, saved |-> [catalog.saved EXCEPT ![u] = NoKey]]
      /\ \/ \E groups : Show(ClampSelections(ApplyGroups(s, groups)), {u})
         \/ Show(ApplyGroups(t, Preview), {u})
         \/ Show(s, rowsOf)
  BY DEF Import
<1>2. catalog'.current = u /\ catalog' = [current |-> catalog'.current, saved |-> catalog'.saved]
  BY <1>1
<1>3. IsApp(r) /\ r.current = u /\ (app.current # u => Blank(r))
  BY <1>2, ProfilesApplied DEF RowsInv
<1> HIDE DEF r
<1>4. Keeps(r, s) /\ (app.current # u => Blank(s))
  BY <1>3, ImportFocused DEF Blank
<1> HIDE DEF s
<1>5. IsApp(s) /\ s.current = u
  BY <1>3, <1>4 DEF Keeps
<1>6. IsApp(app)' <=> IsApp(app')
  BY DEF IsApp, IsCursor
<1>7. ASSUME NEW x, Keeps(s, x), Show(x, {u})
      PROVE  RowsInv'
  <2>1. app' = x /\ rowsOf' \subseteq {u}
    BY <1>7, ShowSets
  <2> QED BY <1>2, <1>5, <1>6, <1>7, <2>1 DEF RowsInv, Keeps
<1>8. CASE Show(s, rowsOf)
  <2>1. app' = s /\ (Blank(s) => rowsOf' = {})
    BY <1>8, ShowSets
  <2> QED BY <1>1, <1>2, <1>4, <1>5, <1>6, <2>1 DEF RowsInv
<1>9. ASSUME NEW groups, Show(ClampSelections(ApplyGroups(s, groups)), {u})
      PROVE  RowsInv'
  <2>1. Keeps(s, ApplyGroups(s, groups))
    BY <1>5, GroupsKeep
  <2>2. Keeps(ApplyGroups(s, groups), ClampSelections(ApplyGroups(s, groups)))
    BY <2>1, ClampsKeep DEF Keeps
  <2> QED BY <1>7, <1>9, <2>1, <2>2, KeptOn
<1>10. CASE Show(ApplyGroups(t, Preview), {u})
  <2>1. Keeps(s, t)
    BY <1>5, FieldSets
  <2> HIDE DEF t
  <2>2. Keeps(t, ApplyGroups(t, Preview))
    BY <2>1, GroupsKeep DEF Keeps
  <2> QED BY <1>7, <1>10, <2>1, <2>2, KeptOn
<1> QED BY <1>1, <1>8, <1>9, <1>10

\* A subscription update of the current profile clears what is bound to it.
LEMMA RowUpdateKeeps == RowsInv /\ CurrentUpdated => RowsInv'
<1>1. ASSUME RowsInv, CurrentUpdated
      PROVE  Keeps(app, ClearBound(app)) /\ Key(ClearBound(app))
  BY <1>1, BlankFresh DEF CurrentUpdated, Keeps, Blank, RowsInv
<1> QED BY <1>1, RowKeyKeeps

\* The interface starts with no rows.
LEMMA RowsStart == RowsInit => RowsInv
<1> SUFFICES ASSUME RowsInit
             PROVE  RowsInv
  OBVIOUS
<1>1. app = [view |-> "Dashboard", pane |-> "groups", popup |-> "none", query |-> NoSearch,
             sort |-> "subscription", groups |-> <<>>, meta |-> <<>>, current |-> NoUid,
             saved |-> NoKey, page |-> Fresh, dash |-> Fresh]
  BY DEF RowsInit
<1>2. app = [f \in AppFields |-> app[f]] /\ app.page = Fresh /\ app.dash = Fresh /\ app.current = NoUid
  BY <1>1 DEF AppFields
<1>3. IsCursor(Fresh)
  BY DEF IsCursor, Fresh
<1>4. IsApp(app)
  BY <1>2, <1>3 DEF IsApp, Cursors
<1>5. catalog = [current |-> catalog.current, saved |-> catalog.saved] /\ rowsOf = {}
  BY DEF RowsInit
<1> QED BY <1>2, <1>4, <1>5 DEF RowsInv

\* Every key, refresh and event keeps the invariant.
LEMMA RowsStep == RowsInv /\ [RowsNext]_rowVars => RowsInv'
<1> SUFFICES ASSUME RowsInv, [RowsNext]_rowVars
             PROVE  RowsInv'
  OBVIOUS
<1>1. CASE RowKey
  BY <1>1, ViewKeeps, MovesKeep, RowSearchKeeps, PaneAndSortKeep, RowPopupsKeep, TestDelayKeeps, SwitchKeeps, ImportKeeps
     DEF RowKey
<1>2. CASE RefreshProxies \/ RefreshDashboard \/ RefreshElsewhere
  BY <1>2, RefreshProxiesKeeps, RefreshDashboardKeeps, RefreshElsewhereKeeps
<1>3. CASE CurrentUpdated
  BY <1>3, RowUpdateKeeps
<1>4. CASE UNCHANGED rowVars
  BY <1>4 DEF RowsInv, rowVars, IsApp, IsCursor
<1> QED BY <1>1, <1>2, <1>3, <1>4 DEF RowsNext

\* The screen shows the catalog's current profile or none yet, and only rows of the current one.
THEOREM RowsInvariant == RowsSpec => []RowsInv
<1> QED BY RowsStart, RowsStep, PTL DEF RowsSpec

\* The rows, remembered names and choices on screen come from runs of the profile that is shown as the
\* current one, through every order of switches, imports, updates, refreshes and keys.
THEOREM RowsAreOfCurrent == RowsSpec => []RowsOfCurrent
<1>1. RowsInv => RowsOfCurrent
  BY DEF RowsInv, RowsOfCurrent
<1> QED BY <1>1, RowsInvariant, PTL

-----------------------------------------------------------------------------
(***************************************************************************)
(* ProviderWait: orders, and the sequences they sort.                      *)

\* A strict order of a set, as a set of pairs, and a sequence in that order.
Orders(R, S) ==
    /\ \A i \in S : <<i, i>> \notin R
    /\ \A i, j, k \in S : <<i, j>> \in R /\ <<j, k>> \in R => <<i, k>> \in R
    /\ \A i, j \in S : i = j \/ <<i, j>> \in R \/ <<j, i>> \in R
InOrder(p, R, S) == p \in [1..Cardinality(S) -> S] /\ \A k, l \in DOMAIN p : k < l => <<p[k], p[l]>> \in R

\* The elements of a finite set, each at the place of its rank in a strict order.
LEMMA Sorts ==
    ASSUME NEW S, IsFiniteSet(S), NEW R, Orders(R, S)
    PROVE  \E p : InOrder(p, R, S)
<1> USE DEF Orders
<1> DEFINE n == Cardinality(S)
           D == 1..n
           Below(i) == {j \in S : <<j, i>> \in R}
           rank == [i \in S |-> Cardinality(Below(i)) + 1]
<1>1. n \in Nat /\ IsFiniteSet(D) /\ Cardinality(D) = n
  BY FS_Interval, FS_CardinalityType
<1>11. \A T \in SUBSET S : IsFiniteSet(T) /\ Cardinality(T) \in Nat
  BY FS_Subset, FS_CardinalityType
<1>12. \A i \in S : Below(i) \in SUBSET S
  OBVIOUS
<1>2. \A i \in S : IsFiniteSet(Below(i)) /\ Cardinality(Below(i)) \in Nat
  BY <1>11, <1>12, Zenon
<1>3. \A i \in S : rank[i] \in D
  <2> SUFFICES ASSUME NEW i \in S
               PROVE  rank[i] \in D
    OBVIOUS
  <2>1. IsFiniteSet(S \ {i}) /\ Cardinality(S \ {i}) = n - 1
    BY FS_RemoveElement
  <2>2. Below(i) \in SUBSET (S \ {i})
    OBVIOUS
  <2>3. Cardinality(Below(i)) <= Cardinality(S \ {i})
    BY <2>1, <2>2, FS_Subset, Zenon
  <2>4. rank[i] = Cardinality(Below(i)) + 1 /\ Cardinality(Below(i)) \in Nat
    BY <1>2, Zenon
  <2> HIDE DEF Below, rank, n
  <2> QED BY <1>1, <2>1, <2>3, <2>4
<1>4. ASSUME NEW i \in S, NEW j \in S, <<i, j>> \in R
      PROVE  rank[i] < rank[j]
  <2>1. Below(i) \in SUBSET Below(j) /\ i \in Below(j) /\ i \notin Below(i)
    BY <1>4
  <2>2. Below(i) # Below(j) /\ IsFiniteSet(Below(j))
    BY <1>2, <2>1, Zenon
  <2>3. Cardinality(Below(i)) <= Cardinality(Below(j)) /\ Cardinality(Below(i)) # Cardinality(Below(j))
    BY <2>1, <2>2, FS_Subset, Zenon
  <2>4. /\ rank[i] = Cardinality(Below(i)) + 1 /\ Cardinality(Below(i)) \in Nat
        /\ rank[j] = Cardinality(Below(j)) + 1 /\ Cardinality(Below(j)) \in Nat
    BY <1>2, Zenon
  <2> HIDE DEF Below, rank
  <2> QED BY <2>3, <2>4
<1>6. rank \in [S -> D] /\ DOMAIN rank = S
  BY <1>3
<1> HIDE DEF Below, rank, n
<1>5. \A i, j \in S : rank[i] = rank[j] => i = j
  <2> SUFFICES ASSUME NEW i \in S, NEW j \in S, rank[i] = rank[j]
               PROVE  i = j
    OBVIOUS
  <2>1. rank[i] \in Nat /\ rank[j] \in Nat
    BY <1>1, <1>3
  <2>2. <<i, j>> \notin R /\ <<j, i>> \notin R
    <3>1. ~(rank[i] < rank[j]) /\ ~(rank[j] < rank[i])
      BY <2>1
    <3> QED BY <1>4, <3>1
  <2> QED BY <2>2
<1>7. \A k \in D : \E i \in S : rank[i] = k
  <2>1. rank \in Injection(S, D)
    BY <1>5, <1>6 DEF Injection, IsInjective
  <2>2. rank \in Surjection(S, D)
    BY <1>1, <2>1, FS_Injection DEF n
  <2> QED BY <2>2 DEF Surjection
<1> DEFINE p == [k \in D |-> CHOOSE i \in S : rank[i] = k]
<1>8. \A k \in D : p[k] \in S /\ rank[p[k]] = k
  BY <1>7
<1>10. ASSUME NEW i \in D, NEW j \in D, i < j
       PROVE  <<p[i], p[j]>> \in R
  <2>1. p[i] # p[j]
    BY <1>8, <1>10, <1>1
  <2>2. <<p[j], p[i]>> \notin R
    <3>1. <<p[j], p[i]>> \in R => rank[p[j]] < rank[p[i]]
      BY <1>4, <1>8
    <3> QED BY <1>1, <1>8, <1>10, <3>1
  <2> QED BY <1>8, <2>1, <2>2
<1>9. p \in [D -> S] /\ DOMAIN p = D
  BY <1>8
<1> HIDE DEF p
<1>13. \A k, l \in DOMAIN p : k < l => <<p[k], p[l]>> \in R
  BY <1>9, <1>10
<1> QED BY <1>9, <1>13 DEF n, InOrder

-----------------------------------------------------------------------------
\* The keys of the chosen entries, in the order of the entries.
LEMMA KeysAre ==
    ASSUME NEW entries, entries \in Seq(ToSet(entries)), \A e \in ToSet(entries) : e.nodes \in Nat,
           NEW places \in SUBSET DOMAIN entries
    PROVE  /\ KeysInOrder(entries, places) \in Seq({e.key : e \in ToSet(entries)})
           /\ ToSet(KeysInOrder(entries, places)) = {entries[i].key : i \in places}
<1> DEFINE R == {pair \in places \X places : Precedes(entries, pair[1], pair[2])}
           n == Cardinality(places)
           D == 1..n
           Sorted(p) == p \in [D -> places] /\ \A k, l \in DOMAIN p : k < l => Precedes(entries, p[k], p[l])
           order == CHOOSE p : Sorted(p)
<1>1. DOMAIN entries = 1..Len(entries) /\ Len(entries) \in Nat /\ \A i \in DOMAIN entries : entries[i] \in ToSet(entries)
  BY DEF ToSet
<1>2. IsFiniteSet(places)
  <2>1. IsFiniteSet(DOMAIN entries)
    BY <1>1, FS_Interval
  <2> QED BY <2>1, FS_Subset
<1>3. \A i \in places : i \in Nat /\ entries[i].nodes \in Nat
  BY <1>1
<1>4. /\ \A i \in places : ~Precedes(entries, i, i)
      /\ \A i, j, k \in places :
            Precedes(entries, i, j) /\ Precedes(entries, j, k) => Precedes(entries, i, k)
      /\ \A i, j \in places : i = j \/ Precedes(entries, i, j) \/ Precedes(entries, j, i)
  BY <1>3 DEF Precedes
<1>5. \A i, j \in places : <<i, j>> \in R <=> Precedes(entries, i, j)
  OBVIOUS
<1> HIDE DEF R
<1>6. n \in Nat /\ \E p : InOrder(p, R, places)
  <2>1. Orders(R, places)
    BY <1>4, <1>5 DEF Orders
  <2> QED BY <1>2, <2>1, Sorts, FS_CardinalityType
<1>7. \E p : Sorted(p)
  <2>1. PICK p : InOrder(p, R, places)
    BY <1>6
  <2>2. Sorted(p)
    BY <1>5, <2>1 DEF InOrder
  <2> QED BY <2>2
<1>8. Sorted(order)
  BY <1>7
<1>9. KeysInOrder(entries, places) = [k \in DOMAIN order |-> entries[order[k]].key]
  BY DEF KeysInOrder
<1> HIDE DEF order
<1>10. DOMAIN order = D /\ \A k \in D : order[k] \in places
  BY <1>8
<1>11. \A i \in places : \E k \in D : order[k] = i
  <2>1. IsInjective(order)
    <3> SUFFICES ASSUME NEW k \in D, NEW l \in D, order[k] = order[l], k # l
                 PROVE  FALSE
      BY <1>10 DEF IsInjective
    <3>1. k < l \/ l < k
      BY <1>6
    <3>2. Precedes(entries, order[k], order[l]) \/ Precedes(entries, order[l], order[k])
      BY <1>8, <1>10, <3>1
    <3> QED BY <1>4, <1>10, <3>2
  <2>2. order \in Injection(D, places)
    BY <1>8, <2>1 DEF Injection
  <2>3. IsFiniteSet(D) /\ Cardinality(D) = n
    BY <1>6, FS_Interval
  <2>4. order \in Surjection(D, places)
    BY <1>2, <2>2, <2>3, FS_Injection
  <2> QED BY <2>4 DEF Surjection
<1> DEFINE found == [k \in DOMAIN order |-> entries[order[k]].key]
<1>12. found \in Seq({e.key : e \in ToSet(entries)}) /\ DOMAIN found = D
  <2>1. \A k \in D : entries[order[k]].key \in {e.key : e \in ToSet(entries)}
    BY <1>1, <1>10
  <2> HIDE DEF n
  <2> QED BY <1>6, <1>10, <2>1
<1>13. ToSet(found) = {entries[i].key : i \in places}
  BY <1>10, <1>11, <1>12 DEF ToSet
<1> QED BY <1>9, <1>12, <1>13

-----------------------------------------------------------------------------
\* f lists, for every number of names, the names without their repeats.
Lists(f, names, n) == f = [m \in 0..n |-> IF m = 0 THEN <<>> ELSE PushUniqueProviderName(f[m - 1], names[m])]

\* There is such a function: a least number of names without one would be 0, or have one less with one.
LEMMA ListsExist == ASSUME NEW names, NEW k \in Nat PROVE \E f : Lists(f, names, k)
<1> DEFINE bad == {n \in Nat : ~(\E f : Lists(f, names, n))}
<1> SUFFICES ASSUME bad # {}
             PROVE  FALSE
  OBVIOUS
<1>1. PICK n \in bad : \A m \in bad : n <= m
  BY LeastExists
<1>2. CASE n = 0
  <2> DEFINE f == [m \in 0..0 |-> <<>>]
  <2>1. Lists(f, names, 0)
    BY DEF Lists
  <2> QED BY <1>2, <2>1
<1>3. CASE n # 0
  <2>1. n - 1 \in Nat /\ n - 1 \notin bad
    BY <1>1, <1>3
  <2>2. PICK g : Lists(g, names, n - 1)
    BY <2>1
  <2> DEFINE f == [m \in 0..n |-> IF m = n THEN PushUniqueProviderName(g[n - 1], names[n]) ELSE g[m]]
  <2>3. \A m \in 0..(n - 1) : g[m] = IF m = 0 THEN <<>> ELSE PushUniqueProviderName(g[m - 1], names[m])
    BY <2>2 DEF Lists
  <2>4. \A m \in 0..n : f[m] = IF m = 0 THEN <<>> ELSE PushUniqueProviderName(f[m - 1], names[m])
    <3> SUFFICES ASSUME NEW m \in 0..n
                 PROVE  f[m] = IF m = 0 THEN <<>> ELSE PushUniqueProviderName(f[m - 1], names[m])
      OBVIOUS
    <3>1. CASE m = n
      <4>1. f[n] = PushUniqueProviderName(g[n - 1], names[n]) /\ f[n - 1] = g[n - 1]
        BY <2>1
      <4> QED BY <1>3, <3>1, <4>1
    <3>2. CASE m # n
      <4>1. m \in 0..(n - 1) /\ f[m] = g[m] /\ (m # 0 => f[m - 1] = g[m - 1])
        BY <2>1, <3>2
      <4> QED BY <2>3, <4>1
    <3> QED BY <3>1, <3>2
  <2>5. f = [m \in 0..n |-> f[m]]
    OBVIOUS
  <2> HIDE DEF f
  <2>6. Lists(f, names, n)
    BY <2>4, <2>5 DEF Lists
  <2> QED BY <2>6
<1> QED BY <1>2, <1>3

\* A list that only adds to a shorter one.
Extends(long, short) == Len(short) <= Len(long) /\ \A i \in 1..Len(short) : long[i] = short[i]

\* One more name is in the list, once, and the list only grows.
LEMMA PushAdds ==
    ASSUME NEW X, NEW s \in Seq(X), IsInjective(s), NEW x \in X
    PROVE  /\ PushUniqueProviderName(s, x) \in Seq(X) /\ IsInjective(PushUniqueProviderName(s, x))
           /\ ToSet(PushUniqueProviderName(s, x)) = ToSet(s) \cup {x}
           /\ Extends(PushUniqueProviderName(s, x), s)
<1>1. CASE Contains(s, x)
  BY <1>1 DEF PushUniqueProviderName, Contains, ToSet, Extends
<1>2. CASE ~Contains(s, x)
  <2> DEFINE t == Append(s, x)
  <2>1. t \in Seq(X) /\ Len(t) = Len(s) + 1 /\ t[Len(s) + 1] = x /\ \A i \in 1..Len(s) : t[i] = s[i]
    OBVIOUS
  <2>2. \A i \in 1..Len(s) : s[i] # x
    BY <1>2 DEF Contains
  <2>3. PushUniqueProviderName(s, x) = t
    BY <1>2 DEF PushUniqueProviderName
  <2>4. DOMAIN t = 1..(Len(s) + 1) /\ DOMAIN s = 1..Len(s) /\ Len(s) \in Nat
    BY <2>1
  <2> HIDE DEF t
  <2>5. IsInjective(t)
    BY <2>1, <2>2, <2>4 DEF IsInjective
  <2>6. ToSet(t) = ToSet(s) \cup {x}
    BY <2>1, <2>4 DEF ToSet
  <2>7. Extends(t, s)
    BY <2>1, <2>4 DEF Extends
  <2> QED BY <2>1, <2>3, <2>5, <2>6, <2>7
<1> QED BY <1>1, <1>2

\* f[n] has the first n names, each once, and the names that follow only add to it.
Gathers(f, names, X) ==
    \A n \in 0..Len(names) :
        /\ f[n] \in Seq(X) /\ IsInjective(f[n]) /\ ToSet(f[n]) = {names[i] : i \in 1..n}
        /\ Extends(f[Len(names)], f[n])

\* WithoutRepeats gathers the names, from the first to the last.
LEMMA RepeatsGone ==
    ASSUME NEW X, NEW names \in Seq(X)
    PROVE  \E f : WithoutRepeats(names) = f[Len(names)] /\ Gathers(f, names, X)
<1> DEFINE k == Len(names)
           f == CHOOSE f : Lists(f, names, k)
<1>1. k \in Nat /\ Lists(f, names, k)
  BY ListsExist
<1>2. WithoutRepeats(names) = f[k]
  BY Zenon DEF WithoutRepeats, Lists
<1> HIDE DEF f
<1>3. \A n \in 0..k : f[n] = IF n = 0 THEN <<>> ELSE PushUniqueProviderName(f[n - 1], names[n])
  BY <1>1 DEF Lists
<1> DEFINE Good(n) == f[n] \in Seq(X) /\ IsInjective(f[n]) /\ ToSet(f[n]) = {names[i] : i \in 1..n}
           Longer(n) == \A m \in 0..n : Extends(f[n], f[m])
           bad == {n \in 0..k : ~(Good(n) /\ Longer(n))}
<1>4. bad = {}
  <2> SUFFICES ASSUME bad # {}
               PROVE  FALSE
    OBVIOUS
  <2>1. PICK n \in bad : \A m \in bad : n <= m
    <3>1. bad \in SUBSET Nat
      OBVIOUS
    <3> QED BY <3>1, LeastExists
  <2>2. CASE n = 0
    <3>1. f[0] = <<>>
      BY <1>1, <1>3
    <3>2. Good(0)
      BY <3>1 DEF IsInjective, ToSet
    <3>3. Longer(0)
      BY <3>1 DEF Extends
    <3> QED BY <2>1, <2>2, <3>2, <3>3
  <2>3. CASE n # 0
    <3>1. n - 1 \in 0..k /\ n \in 1..k /\ ~(n <= n - 1)
      BY <1>1, <2>1, <2>3
    <3>2. Good(n - 1) /\ Longer(n - 1)
      <4>1. n - 1 \notin bad
        BY <2>1, <3>1, Zenon
      <4> QED BY <3>1, <4>1, Zenon
    <3>3. names[n] \in X
      BY <3>1
    <3>4. f[n] = PushUniqueProviderName(f[n - 1], names[n])
      BY <1>3, <3>1
    <3>5. /\ f[n] \in Seq(X) /\ IsInjective(f[n]) /\ ToSet(f[n]) = ToSet(f[n - 1]) \cup {names[n]}
          /\ Extends(f[n], f[n - 1])
      <4>1. f[n - 1] \in Seq(X) /\ IsInjective(f[n - 1])
        BY <3>2
      <4> DEFINE s == f[n - 1]
                 x == names[n]
      <4> HIDE DEF s, x
      <4>2. s \in Seq(X) /\ IsInjective(s) /\ x \in X
        BY <3>3, <4>1 DEF s, x
      <4>3. /\ PushUniqueProviderName(s, x) \in Seq(X) /\ IsInjective(PushUniqueProviderName(s, x))
            /\ ToSet(PushUniqueProviderName(s, x)) = ToSet(s) \cup {x}
            /\ Extends(PushUniqueProviderName(s, x), s)
        BY <4>2, PushAdds, Zenon
      <4> QED BY <3>4, <4>3, Zenon DEF s, x
    <3>6. {names[i] : i \in 1..n} = {names[i] : i \in 1..(n - 1)} \cup {names[n]}
      BY <3>1
    <3>7. Good(n)
      BY <3>2, <3>5, <3>6
    <3>8. Longer(n)
      <4> SUFFICES ASSUME NEW m \in 0..n
                   PROVE  Extends(f[n], f[m])
        OBVIOUS
      <4>1. CASE m = n
        <5>1. Len(f[n]) \in Nat
          BY <3>5
        <5> QED BY <4>1, <5>1 DEF Extends
      <4>2. CASE m # n
        <5>1. m \in 0..(n - 1)
          BY <3>1, <4>2
        <5>2. Extends(f[n - 1], f[m])
          BY <3>2, <5>1
        <5>3. Len(f[n - 1]) \in Nat /\ Len(f[n]) \in Nat
          BY <3>2, <3>5
        <5>4. m \in 0..k /\ ~(n <= m)
          BY <1>1, <3>1, <5>1
        <5>6. m \notin bad
          BY <2>1, <5>4, Zenon
        <5>7. Good(m)
          BY <5>4, <5>6, Zenon
        <5>5. Len(f[m]) \in Nat
          BY <5>7
        <5> QED BY <3>5, <5>2, <5>3, <5>5 DEF Extends
      <4> QED BY <4>1, <4>2
    <3> QED BY <2>1, <3>7, <3>8
  <2> QED BY <2>2, <2>3
<1>5. \A n \in 0..k : Good(n) /\ Longer(n)
  BY <1>4
<1>6. k \in 0..k
  BY <1>1
<1>7. Gathers(f, names, X)
  BY <1>5, <1>6, Zenon DEF Gathers
<1> QED BY <1>2, <1>7, Zenon

\* The first names of a list without repeats are names of its first part, or hold all of those.
LEMMA FirstPart ==
    ASSUME NEW X, NEW a \in Seq(X), NEW b \in Seq(X), NEW k \in 0..Len(WithoutRepeats(a \o b))
    PROVE  LET s == SubSeq(WithoutRepeats(a \o b), 1, k)
           IN ToSet(s) \subseteq ToSet(a) \/ ToSet(a) \subseteq ToSet(s)
<1> DEFINE names == a \o b
<1>1. names \in Seq(X) /\ Len(names) = Len(a) + Len(b) /\ \A i \in 1..Len(a) : names[i] = a[i]
  OBVIOUS
<1>2. Len(a) \in 0..Len(names)
  BY <1>1
<1>13. PICK f : WithoutRepeats(names) = f[Len(names)] /\ Gathers(f, names, X)
  BY <1>1, RepeatsGone, Zenon
<1>3. /\ WithoutRepeats(names) = f[Len(names)]
      /\ \A n \in 0..Len(names) :
            /\ f[n] \in Seq(X) /\ IsInjective(f[n]) /\ ToSet(f[n]) = {names[i] : i \in 1..n}
            /\ Extends(f[Len(names)], f[n])
  BY <1>13, Zenon DEF Gathers
<1> DEFINE all == f[Len(names)]
           part == f[Len(a)]
           s == SubSeq(all, 1, k)
<1>4. part \in Seq(X) /\ ToSet(part) = {names[i] : i \in 1..Len(a)} /\ Extends(all, part)
  BY <1>2, <1>3
<1>5. ToSet(part) = ToSet(a)
  <2>1. DOMAIN a = 1..Len(a)
    OBVIOUS
  <2> HIDE DEF names, part
  <2>2. {names[i] : i \in 1..Len(a)} = {a[i] : i \in 1..Len(a)}
    BY <1>1
  <2>3. ToSet(a) = {a[i] : i \in 1..Len(a)}
    BY <2>1 DEF ToSet
  <2> QED BY <1>4, <2>2, <2>3
<1>6. all \in Seq(X) /\ k \in 0..Len(all)
  <2>1. Len(names) \in 0..Len(names)
    BY <1>1
  <2>2. k \in 0..Len(all)
    BY <1>3
  <2> QED BY <1>3, <2>1, <2>2
<1> HIDE DEF all, part, names
<1>7. Len(s) = k /\ DOMAIN s = 1..k /\ \A i \in 1..k : s[i] = all[i]
  BY <1>6
<1>8. DOMAIN part = 1..Len(part) /\ Len(part) \in Nat /\ k \in Nat
  BY <1>4
<1>9. CASE k <= Len(part)
  <2>1. \A i \in 1..k : i \in DOMAIN part /\ s[i] = part[i]
    BY <1>4, <1>7, <1>8, <1>9 DEF Extends
  <2>2. ToSet(s) \subseteq ToSet(part)
    BY <1>7, <2>1 DEF ToSet
  <2> QED BY <1>3, <1>5, <2>2 DEF all, names
<1>10. CASE Len(part) < k
  <2>1. \A i \in 1..Len(part) : i \in DOMAIN s /\ s[i] = part[i]
    BY <1>4, <1>7, <1>8, <1>10 DEF Extends
  <2>2. ToSet(part) \subseteq ToSet(s)
    BY <1>8, <2>1 DEF ToSet
  <2> QED BY <1>3, <1>5, <2>2 DEF all, names
<1> QED BY <1>8, <1>9, <1>10

\* WithoutRepeats keeps each name, once.
LEMMA NoRepeats ==
    ASSUME NEW X, NEW names \in Seq(X)
    PROVE  LET s == WithoutRepeats(names)
           IN s \in Seq(X) /\ IsInjective(s) /\ ToSet(s) = ToSet(names)
<1>1. PICK f : WithoutRepeats(names) = f[Len(names)] /\ Gathers(f, names, X)
  BY RepeatsGone, Zenon
<1>2. Len(names) \in 0..Len(names) /\ ToSet(names) = {names[i] : i \in 1..Len(names)}
  BY DEF ToSet
<1>3. LET s == f[Len(names)] IN s \in Seq(X) /\ IsInjective(s) /\ ToSet(s) = ToSet(names)
  BY <1>1, <1>2 DEF Gathers
<1> QED BY <1>1, <1>3

\* Fetching in this order brings nothing that is not wanted before all that is.
WantedFirst(s, wanted) == ToSet(s) \subseteq wanted \/ wanted \subseteq ToSet(s)

\* Names without repeats, each of whose beginnings has the wanted first.
InGoodOrder(names, wanted, X) ==
    /\ names \in Seq(X) /\ IsInjective(names)
    /\ \A k \in 0..Len(names) : WantedFirst(SubSeq(names, 1, k), wanted)

\* The keys of the visible entries among the names; those that groups use, as in Wanted.
KeysOf(entries, names) == {e.key : e \in {d \in ToSet(entries) : d.visible /\ ProviderMatchesNames(d, names)}}
WantedOf(entries) ==
    IF KeysOf(entries, summary.uses) \cup KeysOf(entries, summary.providers) # {}
    THEN KeysOf(entries, summary.uses) ELSE ToSet(summary.uses)

\* The elements of two sequences, one after the other, and of none.
LEMMA SetOfBoth ==
    ASSUME NEW X, NEW s \in Seq(X), NEW t \in Seq(X)
    PROVE  ToSet(s) \subseteq ToSet(s \o t) /\ ToSet(t) \subseteq ToSet(s \o t)
<1>1. /\ Len(s \o t) = Len(s) + Len(t) /\ Len(s) \in Nat /\ Len(t) \in Nat
      /\ DOMAIN s = 1..Len(s) /\ DOMAIN t = 1..Len(t) /\ DOMAIN (s \o t) = 1..(Len(s) + Len(t))
  OBVIOUS
<1>2. \A i \in 1..Len(s) : i \in DOMAIN (s \o t) /\ (s \o t)[i] = s[i]
  BY <1>1
<1>3. \A i \in 1..Len(t) : Len(s) + i \in DOMAIN (s \o t) /\ (s \o t)[Len(s) + i] = t[i]
  BY <1>1
<1>4. ToSet(s) = {s[i] : i \in 1..Len(s)} /\ ToSet(t) = {t[i] : i \in 1..Len(t)}
  BY <1>1 DEF ToSet
<1> DEFINE u == s \o t
<1>5. ToSet(u) = {u[i] : i \in DOMAIN u}
  BY DEF ToSet
<1> HIDE DEF u
<1>6. \A i \in 1..Len(s) : i \in DOMAIN u /\ u[i] = s[i]
  BY <1>2 DEF u
<1>7. \A i \in 1..Len(t) : Len(s) + i \in DOMAIN u /\ u[Len(s) + i] = t[i]
  BY <1>3 DEF u
<1>8. ToSet(s) \subseteq ToSet(u)
  BY <1>4, <1>5, <1>6
<1>9. ToSet(t) \subseteq ToSet(u)
  BY <1>4, <1>5, <1>7
<1> QED BY <1>8, <1>9 DEF u

\* A sequence without elements is empty.
LEMMA SetOfNone == ASSUME NEW X, NEW s \in Seq(X) PROVE ToSet(s) = {} <=> s = <<>>
<1>1. DOMAIN s = 1..Len(s) /\ Len(s) \in Nat
  OBVIOUS
<1>2. s # <<>> => 1 \in DOMAIN s
  OBVIOUS
<1>3. s # <<>> => s[1] \in ToSet(s)
  BY <1>2 DEF ToSet
<1>4. ToSet(<<>>) = {}
  BY DEF ToSet
<1> QED BY <1>3, <1>4

\* The names of the first of two lists come first.
LEMMA PartsInOrder ==
    ASSUME NEW X, NEW a \in Seq(X), NEW b \in Seq(X)
    PROVE  InGoodOrder(WithoutRepeats(a \o b), ToSet(a), X)
<1>1. a \o b \in Seq(X)
  OBVIOUS
<1>2. WithoutRepeats(a \o b) \in Seq(X) /\ IsInjective(WithoutRepeats(a \o b))
  BY <1>1, NoRepeats
<1>3. \A k \in 0..Len(WithoutRepeats(a \o b)) : WantedFirst(SubSeq(WithoutRepeats(a \o b), 1, k), ToSet(a))
  BY FirstPart DEF WantedFirst
<1> QED BY <1>2, <1>3 DEF InGoodOrder

\* The names that the core is told to fetch have those that groups use first, whatever the core lists.
LEMMA NamesInOrder ==
    ASSUME summary \in Summaries, NEW entries \in Provided \cup {<<>>}
    PROVE  \E X : InGoodOrder(ProviderNamesForAutoRefresh(entries), WantedOf(entries), X)
<1> DEFINE used == summary.uses
           others == summary.providers
           X == {e.key : e \in ToSet(entries)} \cup ToSet(used) \cup ToSet(others)
           a == KeysInOrder(entries, Matching(entries, used))
           b == KeysInOrder(entries, Matching(entries, others))
           c == KeysInOrder(entries, Others(entries))
<1>1. entries \in Seq(ToSet(entries)) /\ \A e \in ToSet(entries) : e.nodes \in Nat
  <2>1. ToSet(<<>>) = {} /\ <<>> \in Seq(ToSet(<<>>))
    BY DEF ToSet
  <2>2. CASE entries = <<>>
    BY <2>1, <2>2
  <2>3. CASE entries \in Provided
    BY <2>3, WaitAssumption
  <2> QED BY <2>2, <2>3
<1>2. used \in Seq(ToSet(used)) /\ others \in Seq(ToSet(others))
  BY WaitAssumption
<1>3. /\ Matching(entries, used) \in SUBSET DOMAIN entries /\ Matching(entries, others) \in SUBSET DOMAIN entries
      /\ Others(entries) \in SUBSET DOMAIN entries
  BY DEF Matching, Others, Visible
<1>4. /\ a \in Seq({e.key : e \in ToSet(entries)}) /\ b \in Seq({e.key : e \in ToSet(entries)})
      /\ c \in Seq({e.key : e \in ToSet(entries)})
  BY <1>1, <1>3, KeysAre, Zenon
<1>5. /\ ToSet(a) = {entries[i].key : i \in Matching(entries, used)}
      /\ ToSet(b) = {entries[i].key : i \in Matching(entries, others)}
      /\ ToSet(c) = {entries[i].key : i \in Others(entries)}
  BY <1>1, <1>3, KeysAre, Zenon
<1>6. ToSet(a) = KeysOf(entries, used) /\ ToSet(b) = KeysOf(entries, others)
  <2> SUFFICES ASSUME NEW names
               PROVE  {entries[i].key : i \in Matching(entries, names)} = KeysOf(entries, names)
    BY <1>5
  <2> DEFINE Match(e) == ProviderMatchesNames(e, names)
  <2>1. Matching(entries, names) = {i \in DOMAIN entries : entries[i].visible /\ Match(entries[i])}
    BY DEF Matching, Visible
  <2>2. KeysOf(entries, names) = {e.key : e \in {d \in {entries[i] : i \in DOMAIN entries} : d.visible /\ Match(d)}}
    BY DEF KeysOf, ToSet
  <2> HIDE DEF Match
  <2> QED BY <2>1, <2>2
<1>7. (used = <<>> /\ others = <<>>) \/ ToSet(c) = {}
  BY <1>5 DEF Others
<1>8. ListedNames(entries) = WithoutRepeats(a \o b \o c)
  BY DEF ListedNames
<1> HIDE DEF a, b, c
<1>9. a \in Seq(X) /\ b \in Seq(X) /\ c \in Seq(X) /\ used \in Seq(X) /\ others \in Seq(X)
  BY <1>2, <1>4
<1> HIDE DEF X, used, others
<1>10. a \o b \o c = a \o (b \o c) /\ b \o c \in Seq(X) /\ a \o b \o c \in Seq(X)
  BY <1>9
<1>11. ToSet(a) \subseteq ToSet(ListedNames(entries)) /\ ToSet(b) \subseteq ToSet(ListedNames(entries))
  <2>1. ToSet(ListedNames(entries)) = ToSet(a \o b \o c)
    BY <1>8, <1>10, NoRepeats
  <2>2. ToSet(a) \subseteq ToSet(a \o b \o c)
    <3>1. ToSet(a) \subseteq ToSet(a \o b) /\ a \o b \in Seq(X)
      BY <1>9, SetOfBoth
    <3> QED BY <1>9, <3>1, SetOfBoth
  <2>3. ToSet(b) \subseteq ToSet(a \o b) /\ a \o b \in Seq(X)
    BY <1>9, SetOfBoth
  <2>4. ToSet(a \o b) \subseteq ToSet(a \o b \o c)
    BY <1>9, <2>3, SetOfBoth
  <2> QED BY <2>1, <2>2, <2>3, <2>4
<1>12. InGoodOrder(ListedNames(entries), ToSet(a), X)
  BY <1>8, <1>9, <1>10, PartsInOrder
<1>13. CASE ToSet(a) \cup ToSet(b) # {}
  <2>1. ListedNames(entries) # <<>>
    <3>1. ToSet(ListedNames(entries)) # {}
      BY <1>11, <1>13
    <3> QED BY <3>1 DEF ToSet
  <2>2. WantedOf(entries) = ToSet(a)
    BY <1>6, <1>13 DEF WantedOf, used, others
  <2> QED BY <1>12, <2>1, <2>2 DEF ProviderNamesForAutoRefresh
<1>14. CASE ToSet(a) \cup ToSet(b) = {} /\ ListedNames(entries) = <<>>
  <2>1. WantedOf(entries) = ToSet(used)
    BY <1>6, <1>14 DEF WantedOf, used, others
  <2>2. ProviderNamesForAutoRefresh(entries) = WithoutRepeats(used \o others)
    BY <1>14 DEF ProviderNamesForAutoRefresh, used, others
  <2>3. InGoodOrder(WithoutRepeats(used \o others), ToSet(used), X)
    BY <1>9, PartsInOrder
  <2> QED BY <2>1, <2>2, <2>3
<1>15. CASE ToSet(a) \cup ToSet(b) = {} /\ ListedNames(entries) # <<>>
  <2>1. ToSet(c) # {}
    <3> SUFFICES ASSUME ToSet(c) = {}
                 PROVE  FALSE
      OBVIOUS
    <3>1. a = <<>> /\ b = <<>> /\ c = <<>>
      BY <1>9, <1>15, SetOfNone
    <3>2. ToSet(ListedNames(entries)) = ToSet(<<>> \o <<>> \o <<>>) /\ ListedNames(entries) \in Seq(X)
      BY <1>8, <1>10, <3>1, NoRepeats
    <3>3. ToSet(ListedNames(entries)) = {}
      BY <3>2 DEF ToSet
    <3> QED BY <1>15, <3>2, <3>3 DEF ToSet
  <2>2. ToSet(used) = {}
    BY <1>7, <2>1 DEF ToSet, used
  <2>3. WantedOf(entries) = ToSet(a)
    BY <1>6, <1>15, <2>2 DEF WantedOf, used, others
  <2> QED BY <1>12, <1>15, <2>3 DEF ProviderNamesForAutoRefresh
<1> QED BY <1>13, <1>14, <1>15

-----------------------------------------------------------------------------
\* The smaller of two numbers.
AtMost(x, y) == IF x < y THEN x ELSE y

\* What was told and what is left to tell are the first of the names, those that no group uses last.
TellsNames ==
    \E X, names :
        /\ InGoodOrder(names, WantedOf(listing), X)
        /\ LET n == AtMost(Len(names), MAX_AUTO_PROVIDER_REFRESHES)
           IN /\ Len(told) \in 0..n
              /\ told = SubSeq(names, 1, Len(told)) /\ wait.left = SubSeq(names, Len(told) + 1, n)

\* The longest wait.
Longest == LargerOf(ReadyTimeout + 12, 50 + MAX_AUTO_PROVIDER_REFRESHES * 80)

WaitRecord == wait = [at |-> wait.at, elapsed |-> wait.elapsed, tried |-> wait.tried, left |-> wait.left]

\* The values of the fields.
WaitShape ==
    /\ summary \in Summaries /\ listing \in Provided \cup {<<>>}
    /\ wait.at \in {"fetching", "empty", "unanswered", "updating", "checking", "ready", "abandoned"}
    /\ wait.elapsed \in Nat /\ wait.tried \in BOOLEAN

\* Before the refresh is tried nothing is told, after it only names; there is one to fetch exactly while fetching.
TellsOnce ==
    /\ ~wait.tried => told = <<>> /\ wait.left = <<>> /\ wait.at \notin {"updating", "checking"}
    /\ wait.tried => TellsNames
    /\ wait.at = "updating" <=> wait.left # <<>>

\* How long the wait can have taken at each place it passes.
TakesNoLonger ==
    /\ wait.at = "fetching" => wait.elapsed <= ReadyTimeout + 4
    /\ wait.at \in {"empty", "unanswered", "ready"} => wait.elapsed <= ReadyTimeout + 12
    /\ ~wait.tried /\ UsesProviders /\ wait.at = "fetching" => wait.elapsed <= 24
    /\ ~wait.tried /\ UsesProviders /\ wait.at \in {"empty", "unanswered"} => wait.elapsed <= 32
    /\ wait.at = "updating" => wait.elapsed <= 40 + Len(told) * 80
    /\ wait.at = "checking" => wait.elapsed <= 50 + MAX_AUTO_PROVIDER_REFRESHES * 80
    /\ wait.at = "abandoned" => wait.elapsed >= ReadyTimeout /\ wait.elapsed <= Longest

\* The inductive invariant.
WaitInv == WaitRecord /\ WaitShape /\ TellsOnce /\ TakesNoLonger

\* The first k names, and the rest of those taken.
LEMMA TellsFirst ==
    ASSUME NEW X, NEW names \in Seq(X), NEW n \in 0..Len(names)
    PROVE  /\ <<>> = SubSeq(names, 1, 0) /\ SubSeq(names, 1, n) = SubSeq(names, 0 + 1, n)
           /\ Len(SubSeq(names, 1, n)) = n
           /\ \A k \in 0..n :
                /\ SubSeq(names, k + 1, n) # <<>> <=> k < n
                /\ Len(SubSeq(names, k + 1, n)) = n - k
                /\ k < n => /\ Append(SubSeq(names, 1, k), Head(SubSeq(names, k + 1, n))) = SubSeq(names, 1, k + 1)
                            /\ Tail(SubSeq(names, k + 1, n)) = SubSeq(names, k + 2, n)
                            /\ Len(SubSeq(names, 1, k)) = k
<1>1. <<>> = SubSeq(names, 1, 0) /\ SubSeq(names, 1, n) = SubSeq(names, 0 + 1, n) /\ Len(SubSeq(names, 1, n)) = n
  OBVIOUS
<1>2. ASSUME NEW k \in 0..n
      PROVE  Len(SubSeq(names, k + 1, n)) = n - k /\ (SubSeq(names, k + 1, n) # <<>> <=> k < n)
  OBVIOUS
<1>3. ASSUME NEW k \in 0..n, k < n
      PROVE  /\ Append(SubSeq(names, 1, k), Head(SubSeq(names, k + 1, n))) = SubSeq(names, 1, k + 1)
             /\ Tail(SubSeq(names, k + 1, n)) = SubSeq(names, k + 2, n)
             /\ Len(SubSeq(names, 1, k)) = k
  BY <1>3
<1> QED BY <1>1, <1>2, <1>3


\* The wait starts with nothing told.
LEMMA WaitStarts == WaitInit => WaitInv
<1> SUFFICES ASSUME WaitInit
             PROVE  WaitInv
  OBVIOUS
<1>1. ReadyTimeout \in Nat /\ MAX_AUTO_PROVIDER_REFRESHES \in Nat
  BY WaitAssumption DEF ReadyTimeout
<1>2. /\ wait.at = "fetching" /\ wait.elapsed = 0 /\ ~wait.tried /\ wait.tried = FALSE /\ wait.left = <<>> /\ told = <<>>
      /\ listing = <<>> /\ summary \in Summaries
      /\ WaitRecord
  BY DEF WaitInit, WaitRecord
<1> HIDE DEF WaitInit
<1>3. WaitShape
  <2>1. summary \in Summaries /\ listing \in Provided \cup {<<>>} /\ wait.at = "fetching" /\ wait.tried = FALSE
    BY <1>2
  <2>2. wait.elapsed \in Nat
    BY <1>2
  <2> QED BY <2>1, <2>2 DEF WaitShape
<1>4. TellsOnce
  BY <1>2 DEF TellsOnce
<1>5. TakesNoLonger
  BY <1>1, <1>2 DEF TakesNoLonger
<1> QED BY <1>2, <1>3, <1>4, <1>5 DEF WaitInv

\* A step that tells the core nothing keeps what was told and is left to tell.
LEMMA TellsNothing ==
    ASSUME TellsNames, UNCHANGED <<summary, listing, told>>, wait'.left = wait.left
    PROVE  TellsNames'
<1>1. WantedOf(listing)' = WantedOf(listing)
  BY DEF WantedOf, KeysOf, ProviderMatchesNames
<1> QED BY <1>1 DEF TellsNames

\* The steps that only count time and move the wait on.
LEMMA WaitMoves ==
    ASSUME WaitInv, NEW where, NEW time \in {0, CONTROLLER_TIMEOUT, IMPORT_PROXY_READY_INTERVAL}, WaitGoes(where, time),
           where \in {"fetching", "empty", "unanswered", "ready", "abandoned"},
           wait.at \in {"fetching", "empty", "unanswered", "checking"}, UNCHANGED <<summary, listing, told>>
    PROVE  /\ WaitRecord' /\ WaitShape' /\ TellsOnce'
           /\ wait'.at = where /\ wait'.elapsed = wait.elapsed + time /\ wait'.tried = wait.tried
           /\ UsesProviders' = UsesProviders /\ ReadyTimeout' = ReadyTimeout /\ Longest' = Longest
           /\ ReadyTimeout \in Nat /\ MAX_AUTO_PROVIDER_REFRESHES \in Nat
<1>1. /\ wait' = [at |-> where, elapsed |-> wait.elapsed + time, tried |-> wait.tried, left |-> wait.left]
  BY DEF WaitInv, WaitRecord, WaitGoes
<1>8. wait.elapsed \in Nat /\ wait.elapsed + time \in Nat
  BY DEF WaitInv, WaitShape, CONTROLLER_TIMEOUT, IMPORT_PROXY_READY_INTERVAL
<1>2. /\ wait'.at = where /\ wait'.elapsed = wait.elapsed + time /\ wait'.tried = wait.tried /\ wait'.left = wait.left
      /\ WaitRecord'
  BY <1>1 DEF WaitRecord
<1>3. WaitShape'
  BY <1>2, <1>8 DEF WaitInv, WaitShape
<1>4. TellsNames => TellsNames'
  BY <1>2, TellsNothing
<1>5. TellsOnce'
  BY <1>2, <1>4 DEF WaitInv, TellsOnce
<1>6. UsesProviders' = UsesProviders /\ ReadyTimeout' = ReadyTimeout /\ Longest' = Longest
  BY DEF UsesProviders, ReadyTimeout, Longest
<1>7. ReadyTimeout \in Nat /\ MAX_AUTO_PROVIDER_REFRESHES \in Nat
  BY WaitAssumption DEF ReadyTimeout
<1> QED BY <1>2, <1>3, <1>5, <1>6, <1>7

\* The groups are asked for: an answer with some, with none, or no answer.
LEMMA FetchesKeep == ASSUME WaitInv, FetchReady \/ FetchEmpty \/ FetchFails PROVE WaitInv'
<1>1. PICK time \in {0, CONTROLLER_TIMEOUT}, where \in {"ready", "empty", "unanswered"} : WaitGoes(where, time)
  BY DEF FetchReady, FetchEmpty, FetchFails
<1>2. wait.at = "fetching" /\ UNCHANGED <<summary, listing, told>>
  BY DEF FetchReady, FetchEmpty, FetchFails
<1> HIDE DEF FetchReady, FetchEmpty, FetchFails
<1>3. /\ WaitRecord' /\ WaitShape' /\ TellsOnce'
      /\ wait'.at = where /\ wait'.elapsed = wait.elapsed + time /\ wait'.tried = wait.tried
      /\ UsesProviders' = UsesProviders /\ ReadyTimeout' = ReadyTimeout /\ Longest' = Longest
      /\ ReadyTimeout \in Nat /\ MAX_AUTO_PROVIDER_REFRESHES \in Nat
  BY <1>1, <1>2, WaitMoves
<1>4. wait.elapsed \in Nat /\ time \in {0, 8}
  BY <1>1 DEF WaitInv, WaitShape, CONTROLLER_TIMEOUT
<1>5. TakesNoLonger'
  BY <1>1, <1>2, <1>3, <1>4 DEF WaitInv, TakesNoLonger
<1> QED BY <1>3, <1>5 DEF WaitInv

\* The wait goes on for five tenths of a second, or is given up.
LEMMA WaitOrGiveUpKeeps == ASSUME WaitInv, WaitOrGiveUp PROVE WaitInv'
<1> DEFINE where == IF wait.elapsed >= ReadyTimeout THEN "abandoned" ELSE "fetching"
           time == IF wait.elapsed >= ReadyTimeout THEN 0 ELSE IMPORT_PROXY_READY_INTERVAL
<1>1. /\ WaitGoes(where, time) /\ UNCHANGED <<summary, listing, told>> /\ wait.at \in {"empty", "unanswered", "checking"}
      /\ wait.at = "checking" \/ ~RefreshDue(wait.at = "empty")
  BY DEF WaitOrGiveUp
<1>2. /\ WaitRecord' /\ WaitShape' /\ TellsOnce'
      /\ wait'.at = where /\ wait'.elapsed = wait.elapsed + time /\ wait'.tried = wait.tried
      /\ UsesProviders' = UsesProviders /\ ReadyTimeout' = ReadyTimeout /\ Longest' = Longest
      /\ ReadyTimeout \in Nat /\ MAX_AUTO_PROVIDER_REFRESHES \in Nat
  <2>1. time \in {0, CONTROLLER_TIMEOUT, IMPORT_PROXY_READY_INTERVAL} /\ where \in {"fetching", "abandoned"}
    OBVIOUS
  <2> HIDE DEF where, time
  <2> QED BY <1>1, <2>1, WaitMoves
<1>3. wait.elapsed \in Nat
  BY DEF WaitInv, WaitShape
<1>4. ~wait.tried /\ UsesProviders => wait.at = "unanswered" /\ wait.elapsed < 20
  BY <1>1, <1>3 DEF RefreshDue, FirstTries, WaitInv, TellsOnce
<1>5. wait.elapsed <= Longest
  BY <1>1, <1>2, <1>3 DEF WaitInv, TakesNoLonger, Longest, LargerOf
<1>6. TakesNoLonger'
  <2>1. CASE wait.elapsed >= ReadyTimeout
    BY <1>2, <1>3, <1>5, <2>1 DEF TakesNoLonger
  <2>2. CASE ~(wait.elapsed >= ReadyTimeout)
    BY <1>2, <1>3, <1>4, <2>2 DEF TakesNoLonger, IMPORT_PROXY_READY_INTERVAL
  <2> QED BY <2>1, <2>2
<1> QED BY <1>2, <1>6 DEF WaitInv

\* The providers are listed, and the first of them taken.
LEMMA AutoRefreshKeeps == ASSUME WaitInv, AutoRefresh PROVE WaitInv'
<1>1. PICK entries \in Provided \cup {<<>>}, time \in {0, CONTROLLER_TIMEOUT} :
        LET names == ProviderNamesForAutoRefresh(entries)
            taken == SubSeq(names, 1, IF Len(names) < MAX_AUTO_PROVIDER_REFRESHES THEN Len(names)
                                      ELSE MAX_AUTO_PROVIDER_REFRESHES)
        IN /\ wait' = [at |-> IF taken = <<>> THEN "checking" ELSE "updating",
                       elapsed |-> wait.elapsed + time, tried |-> TRUE, left |-> taken]
           /\ listing' = entries
  BY DEF AutoRefresh
<1> DEFINE names == ProviderNamesForAutoRefresh(entries)
           n == AtMost(Len(names), MAX_AUTO_PROVIDER_REFRESHES)
           taken == SubSeq(names, 1, n)
<1>2. /\ wait.at \in {"empty", "unanswered"} /\ ~wait.tried /\ UsesProviders
      /\ summary' = summary /\ told' = told /\ summary \in Summaries
      /\ told = <<>> /\ wait.elapsed \in Nat /\ wait.elapsed <= 32
  BY DEF AutoRefresh, RefreshDue, WaitInv, WaitShape, TellsOnce, TakesNoLonger
<1>3. /\ wait' = [at |-> IF taken = <<>> THEN "checking" ELSE "updating",
                  elapsed |-> wait.elapsed + time, tried |-> TRUE, left |-> taken]
      /\ listing' = entries
  BY <1>1 DEF AtMost
<1>4. PICK X : InGoodOrder(names, WantedOf(entries), X)
  BY <1>2, NamesInOrder
<1>5. names \in Seq(X) /\ MAX_AUTO_PROVIDER_REFRESHES \in Nat /\ ReadyTimeout \in Nat
  BY <1>4, WaitAssumption DEF InGoodOrder, ReadyTimeout
<1>6. n \in 0..Len(names) /\ n \in Nat
  BY <1>5 DEF AtMost
<1>7. <<>> = SubSeq(names, 1, 0) /\ taken = SubSeq(names, 0 + 1, n)
  BY <1>5, <1>6, TellsFirst
<1>8. WantedOf(listing)' = WantedOf(entries)
  BY <1>2, <1>3 DEF WantedOf, KeysOf, ProviderMatchesNames
<1> HIDE DEF names, taken
<1>9. /\ wait'.at = (IF taken = <<>> THEN "checking" ELSE "updating") /\ wait'.elapsed = wait.elapsed + time
      /\ wait'.tried = TRUE /\ wait'.left = taken
      /\ WaitRecord'
  BY <1>3 DEF WaitRecord
<1>10. wait'.elapsed \in Nat /\ wait'.elapsed <= 40
  BY <1>1, <1>2, <1>9 DEF CONTROLLER_TIMEOUT
<1>11. WaitShape'
  BY <1>2, <1>3, <1>9, <1>10 DEF WaitShape
<1>12. told' = <<>> /\ Len(told') = 0
  BY <1>2
<1>13. TellsNames'
  <2>1. Len(told') \in 0..n /\ told' = SubSeq(names, 1, Len(told')) /\ wait'.left = SubSeq(names, Len(told') + 1, n)
    BY <1>6, <1>7, <1>9, <1>12
  <2>2. InGoodOrder(names, WantedOf(listing'), X)
    BY <1>2, <1>3, <1>4
  <2>3. InGoodOrder(names, WantedOf(listing)', X)
    BY <1>4, <1>8
  <2> QED BY <2>1, <2>3 DEF TellsNames
<1>14. TellsOnce'
  BY <1>9, <1>13 DEF TellsOnce
<1>15. TakesNoLonger'
  BY <1>5, <1>9, <1>10, <1>12 DEF TakesNoLonger
<1> QED BY <1>9, <1>11, <1>14, <1>15 DEF WaitInv

\* The next provider is fetched.
LEMMA UpdateKeeps == ASSUME WaitInv, UpdateListedProvider PROVE WaitInv'
<1>1. /\ wait.at = "updating" /\ told' = Append(told, Head(wait.left)) /\ summary' = summary /\ listing' = listing
      /\ wait.tried /\ wait.tried = TRUE /\ wait.left # <<>> /\ TellsNames
      /\ wait.elapsed \in Nat /\ wait.elapsed <= 40 + Len(told) * 80
  BY DEF UpdateListedProvider, WaitInv, WaitShape, TellsOnce, TakesNoLonger
<1>2. PICK X, names :
        /\ InGoodOrder(names, WantedOf(listing), X)
        /\ LET n == AtMost(Len(names), MAX_AUTO_PROVIDER_REFRESHES)
           IN /\ Len(told) \in 0..n
              /\ told = SubSeq(names, 1, Len(told)) /\ wait.left = SubSeq(names, Len(told) + 1, n)
  BY <1>1 DEF TellsNames
<1> DEFINE n == AtMost(Len(names), MAX_AUTO_PROVIDER_REFRESHES)
           k == Len(told)
<1>3. names \in Seq(X) /\ MAX_AUTO_PROVIDER_REFRESHES \in Nat
  BY <1>2, WaitAssumption DEF InGoodOrder
<1>4. n \in 0..Len(names) /\ n \in Nat /\ n <= MAX_AUTO_PROVIDER_REFRESHES /\ k \in 0..n
  BY <1>2, <1>3 DEF AtMost
<1>5. told = SubSeq(names, 1, k) /\ wait.left = SubSeq(names, k + 1, n)
  BY <1>2
<1> HIDE DEF n
<1>6. /\ k < n /\ Len(wait.left) = n - k
      /\ Append(told, Head(wait.left)) = SubSeq(names, 1, k + 1) /\ Tail(wait.left) = SubSeq(names, k + 2, n)
  <2> DEFINE l == k
  <2> HIDE DEF l
  <2>1. told = SubSeq(names, 1, l) /\ wait.left = SubSeq(names, l + 1, n) /\ l \in 0..n
    BY <1>4, <1>5 DEF l
  <2>2. l < n /\ Len(wait.left) = n - l
    BY <1>1, <1>3, <1>4, <2>1, TellsFirst
  <2>3. Append(told, Head(wait.left)) = SubSeq(names, 1, l + 1) /\ Tail(wait.left) = SubSeq(names, l + 2, n)
    BY <1>3, <1>4, <2>1, <2>2, TellsFirst
  <2> QED BY <2>2, <2>3 DEF l
<1>7. told' = SubSeq(names, 1, k + 1) /\ Len(told') = k + 1
  BY <1>1, <1>3, <1>4, <1>6
<1>8. PICK time \in {0, PROVIDER_REFRESH_TIMEOUT} :
        wait' = [wait EXCEPT !.left = Tail(@),
                             !.at = IF Len(wait.left) = 1 THEN "checking" ELSE "updating",
                             !.elapsed = @ + time + IF Len(wait.left) = 1 THEN PROVIDER_REFRESH_SETTLE_INTERVAL ELSE 0]
  BY DEF UpdateListedProvider
<1> HIDE DEF k
<1>9. /\ wait'.left = Tail(wait.left) /\ wait'.tried = TRUE
      /\ wait'.at = (IF n - k = 1 THEN "checking" ELSE "updating")
      /\ wait'.elapsed = wait.elapsed + time + (IF n - k = 1 THEN 10 ELSE 0)
      /\ WaitRecord'
  <2>1. wait = [at |-> wait.at, elapsed |-> wait.elapsed, tried |-> wait.tried, left |-> wait.left]
    BY DEF WaitInv, WaitRecord
  <2>2. wait' = [at |-> IF n - k = 1 THEN "checking" ELSE "updating",
                 elapsed |-> wait.elapsed + time + (IF n - k = 1 THEN 10 ELSE 0),
                 tried |-> wait.tried, left |-> Tail(wait.left)]
    BY <1>6, <1>8, <2>1 DEF PROVIDER_REFRESH_SETTLE_INTERVAL
  <2> QED BY <1>1, <2>2 DEF WaitRecord
<1>10. time \in {0, 80}
  BY DEF PROVIDER_REFRESH_TIMEOUT
<1>11. wait'.elapsed \in Nat /\ wait'.elapsed <= 40 + (k + 1) * 80 + (IF n - k = 1 THEN 10 ELSE 0)
  BY <1>1, <1>4, <1>9, <1>10 DEF k
<1>12. WaitShape'
  BY <1>1, <1>9, <1>11 DEF WaitShape, WaitInv
<1>13. TellsNames'
  <2>1. WantedOf(listing)' = WantedOf(listing)
    BY <1>1 DEF WantedOf, KeysOf, ProviderMatchesNames
  <2>2. wait'.left = SubSeq(names, Len(told') + 1, n) /\ told' = SubSeq(names, 1, Len(told')) /\ Len(told') \in 0..n
    BY <1>4, <1>6, <1>7, <1>9
  <2> QED BY <1>2, <2>1, <2>2 DEF TellsNames, n
<1>14. wait'.left # <<>> <=> k + 1 < n
  <2> DEFINE l == k + 1
  <2>1. l \in 0..n /\ wait'.left = SubSeq(names, l + 1, n)
    <3>1. l \in 0..n /\ l + 1 = k + 2
      BY <1>4, <1>6
    <3> HIDE DEF l
    <3> QED BY <1>6, <1>9, <3>1
  <2> HIDE DEF l
  <2>2. wait'.left # <<>> <=> l < n
    BY <1>3, <1>4, <2>1, TellsFirst
  <2> QED BY <2>2 DEF l
<1>15. TellsOnce'
  BY <1>4, <1>6, <1>9, <1>13, <1>14 DEF TellsOnce
<1>16. TakesNoLonger'
  <2>1. CASE n - k = 1
    BY <1>3, <1>4, <1>7, <1>9, <1>11, <2>1 DEF TakesNoLonger
  <2>2. CASE n - k # 1
    BY <1>3, <1>4, <1>7, <1>9, <1>11, <2>2 DEF TakesNoLonger
  <2> QED BY <2>1, <2>2
<1> QED BY <1>9, <1>12, <1>15, <1>16 DEF WaitInv

\* Every step of the wait keeps the invariant.
LEMMA WaitKeeps == WaitInv /\ [WaitNext]_waitVars => WaitInv'
<1> SUFFICES ASSUME WaitInv, [WaitNext]_waitVars
             PROVE  WaitInv'
  OBVIOUS
<1>1. CASE FetchReady \/ FetchEmpty \/ FetchFails
  BY <1>1, FetchesKeep
<1>2. CASE AutoRefresh
  BY <1>2, AutoRefreshKeeps
<1>3. CASE UpdateListedProvider
  BY <1>3, UpdateKeeps
<1>4. CASE WaitOrGiveUp
  BY <1>4, WaitOrGiveUpKeeps
<1>5. CASE UNCHANGED waitVars
  BY <1>5 DEF waitVars, WaitInv, WaitRecord, WaitShape, TellsOnce, TellsNames, TakesNoLonger, Longest, ReadyTimeout, UsesProviders,
              WantedOf, KeysOf, ProviderMatchesNames
<1> QED BY <1>1, <1>2, <1>3, <1>4, <1>5 DEF WaitNext

\* The invariant bounds the wait and orders what is told.
LEMMA WaitInvBounds == WaitInv => WaitTypeOK /\ WaitIsBounded
<1> SUFFICES ASSUME WaitInv
             PROVE  WaitTypeOK /\ WaitIsBounded
  OBVIOUS
<1>1. WaitTypeOK
  BY DEF WaitInv, WaitShape, WaitTypeOK
<1>2. ReadyTimeout \in Nat /\ MAX_AUTO_PROVIDER_REFRESHES \in Nat /\ wait.elapsed \in Nat
  BY WaitAssumption DEF ReadyTimeout, WaitInv, WaitShape
<1>3. IsInjective(told) /\ Len(told) <= MAX_AUTO_PROVIDER_REFRESHES /\ WantedFirst(told, WantedOf(listing))
  <2>1. CASE ~wait.tried
    BY <1>2, <2>1 DEF WaitInv, TellsOnce, WantedFirst, ToSet, IsInjective
  <2>2. CASE wait.tried
    <3>1. PICK X, names :
            /\ InGoodOrder(names, WantedOf(listing), X)
            /\ LET n == AtMost(Len(names), MAX_AUTO_PROVIDER_REFRESHES)
               IN /\ Len(told) \in 0..n
                  /\ told = SubSeq(names, 1, Len(told)) /\ wait.left = SubSeq(names, Len(told) + 1, n)
      BY <2>2 DEF WaitInv, TellsOnce, TellsNames
    <3>2. names \in Seq(X) /\ IsInjective(names)
      BY <3>1 DEF InGoodOrder
    <3>3. Len(told) \in 0..Len(names) /\ Len(told) <= MAX_AUTO_PROVIDER_REFRESHES
      BY <1>2, <3>1, <3>2 DEF AtMost
    <3>4. WantedFirst(told, WantedOf(listing))
      BY <3>1, <3>3 DEF InGoodOrder
    <3>5. DOMAIN told = 1..Len(told) /\ \A i \in 1..Len(told) : i \in DOMAIN names /\ told[i] = names[i]
      <4> DEFINE l == Len(told)
      <4> HIDE DEF l
      <4>1. told = SubSeq(names, 1, l) /\ l \in 0..Len(names)
        BY <3>1, <3>3 DEF l
      <4>2. DOMAIN told = 1..l /\ \A i \in 1..l : i \in DOMAIN names /\ told[i] = names[i]
        BY <3>2, <4>1
      <4> QED BY <4>2 DEF l
    <3>6. IsInjective(told)
      BY <3>2, <3>5 DEF IsInjective
    <3> QED BY <3>3, <3>4, <3>6
  <2> QED BY <2>1, <2>2
<1>4. WantedOf(listing) = Wanted
  BY DEF WantedOf, KeysOf, Wanted
<1>5. wait.elapsed <= Longest
  <2>1. CASE wait.at = "updating"
    BY <1>2, <1>3, <2>1 DEF WaitInv, TakesNoLonger, Longest, LargerOf
  <2>2. CASE wait.at # "updating"
    BY <1>2, <2>2 DEF WaitInv, WaitShape, TakesNoLonger, Longest, LargerOf
  <2> QED BY <2>1, <2>2
<1>6. Longest = LargerOf(ReadyTimeout + IMPORT_PROXY_READY_INTERVAL + CONTROLLER_TIMEOUT - 1,
                         FirstTries - 1 + IMPORT_PROXY_READY_INTERVAL + 2 * CONTROLLER_TIMEOUT
                             + MAX_AUTO_PROVIDER_REFRESHES * PROVIDER_REFRESH_TIMEOUT
                             + PROVIDER_REFRESH_SETTLE_INTERVAL)
  <2>1. /\ ReadyTimeout + IMPORT_PROXY_READY_INTERVAL + CONTROLLER_TIMEOUT - 1 = ReadyTimeout + 12
        /\ FirstTries - 1 + IMPORT_PROXY_READY_INTERVAL + 2 * CONTROLLER_TIMEOUT
              + MAX_AUTO_PROVIDER_REFRESHES * PROVIDER_REFRESH_TIMEOUT + PROVIDER_REFRESH_SETTLE_INTERVAL
           = 50 + MAX_AUTO_PROVIDER_REFRESHES * 80
    BY <1>2 DEF FirstTries, IMPORT_PROXY_READY_INTERVAL, CONTROLLER_TIMEOUT, PROVIDER_REFRESH_TIMEOUT,
                PROVIDER_REFRESH_SETTLE_INTERVAL
  <2> QED BY <2>1 DEF Longest
<1>7. wait.at = "abandoned" => wait.elapsed >= ReadyTimeout
  BY DEF WaitInv, TakesNoLonger
<1> QED BY <1>1, <1>3, <1>4, <1>5, <1>6, <1>7 DEF WaitIsBounded, WantedFirst

\* What was told and what is left are the beginning of one list of names (WaitSpec => []WaitInv).
THEOREM WaitInvariant == WaitSpec => []WaitInv
BY WaitStarts, WaitKeeps, PTL DEF WaitSpec

\* The wait keeps its types.
THEOREM WaitTypeCorrect == WaitSpec => []WaitTypeOK
BY WaitInvariant, WaitInvBounds, PTL

\* The wait after an import ends within its time and one more try, or the time to fetch the providers once;
\* no provider is fetched twice, none that no group uses before all that groups use, and the wait is given
\* up only when its time is over.
THEOREM WaitBounded == WaitSpec => []WaitIsBounded
BY WaitInvariant, WaitInvBounds, PTL

-----------------------------------------------------------------------------
(***************************************************************************)
(* The reader of the terminal: what it has sent for the bytes it read is   *)
(* what it would have sent had they come in one read.  A turn of its loop  *)
(* does the same when more bytes follow (EventStays, TurnsStay), unless    *)
(* they begin inside a marker; so parsing what is left and the new bytes   *)
(* goes on where the parsing of the old ones stopped (ParseOfMore).        *)
(***************************************************************************)

\* The keys and pastes that are sent.
Sent == [key : Bytes \cup {"Paste", "Up", "Enter", "Esc", "Backspace", "wide", "?"}, text : Seq(Bytes)]

\* What is behind the first n elements.
LEMMA DropIs ==
    ASSUME NEW X, NEW s \in Seq(X), NEW n \in 0..Len(s)
    PROVE  /\ Drop(s, n) \in Seq(X) /\ Len(Drop(s, n)) = Len(s) - n
           /\ \A i \in 1..(Len(s) - n) : Drop(s, n)[i] = s[n + i]
BY DEF Drop

\* A prefix, element by element.
LEMMA PrefixIs ==
    ASSUME NEW X, NEW s \in Seq(X), NEW t \in Seq(X)
    PROVE  IsPrefix(s, t) <=> Len(s) <= Len(t) /\ \A i \in 1..Len(s) : s[i] = t[i]
<1>1. CASE Len(s) <= Len(t)
  <2> DEFINE u == SubSeq(s, 1, Len(s))
             v == SubSeq(t, 1, Len(s))
  <2>1. /\ u \in Seq(X) /\ v \in Seq(X) /\ Len(u) = Len(s) /\ Len(v) = Len(s) /\ Len(s) \in Nat
        /\ \A i \in 1..Len(s) : u[i] = s[i] /\ v[i] = t[i]
    BY <1>1
  <2>2. IsPrefix(s, t) <=> u = v
    BY <1>1 DEF IsPrefix
  <2> HIDE DEF u, v
  <2>3. (\A i \in 1..Len(s) : u[i] = v[i]) => u = v
    BY <2>1
  <2> QED BY <1>1, <2>1, <2>2, <2>3
<1>2. CASE ~(Len(s) <= Len(t))
  BY <1>2 DEF IsPrefix
<1> QED BY <1>1, <1>2

\* One list after another, element by element.
LEMMA ConcatIs ==
    ASSUME NEW X, NEW s \in Seq(X), NEW t \in Seq(X)
    PROVE  /\ s \o t \in Seq(X) /\ Len(s \o t) = Len(s) + Len(t)
           /\ \A i \in 1..Len(s) : (s \o t)[i] = s[i]
           /\ \A i \in 1..Len(t) : (s \o t)[Len(s) + i] = t[i]
OBVIOUS

\* What is behind the first elements of a list, when more is put behind it.
LEMMA DropConcat ==
    ASSUME NEW X, NEW s \in Seq(X), NEW t \in Seq(X), NEW n \in 0..Len(s)
    PROVE  Drop(s \o t, n) = Drop(s, n) \o t
<1> DEFINE u == Drop(s \o t, n)
           w == s \o t
           d == Drop(s, n)
           v == d \o t
<1>1. w \in Seq(X) /\ Len(w) = Len(s) + Len(t) /\ Len(s) \in Nat /\ Len(t) \in Nat /\ n \in 0..Len(w)
      /\ (\A i \in 1..Len(s) : w[i] = s[i]) /\ (\A i \in 1..Len(t) : w[Len(s) + i] = t[i])
  BY ConcatIs
<1>2. d \in Seq(X) /\ Len(d) = Len(s) - n /\ \A i \in 1..(Len(s) - n) : d[i] = s[n + i]
  BY DropIs
<1> HIDE DEF w, d
<1>3. u \in Seq(X) /\ Len(u) = Len(w) - n /\ \A i \in 1..(Len(w) - n) : u[i] = w[n + i]
  BY <1>1, DropIs DEF w
<1>4. v \in Seq(X) /\ Len(v) = Len(d) + Len(t)
      /\ (\A i \in 1..Len(d) : v[i] = d[i]) /\ (\A i \in 1..Len(t) : v[Len(d) + i] = t[i])
  <2>1. \A a, b \in Seq(X) : /\ a \o b \in Seq(X) /\ Len(a \o b) = Len(a) + Len(b)
                             /\ \A i \in 1..Len(a) : (a \o b)[i] = a[i]
                             /\ \A i \in 1..Len(b) : (a \o b)[Len(a) + i] = b[i]
    BY ConcatIs
  <2> QED BY <1>2, <2>1, Zenon
<1> HIDE DEF u, v
<1>5. Len(u) = Len(v)
  BY <1>1, <1>2, <1>3, <1>4
<1>6. ASSUME NEW i \in 1..Len(u) PROVE u[i] = v[i]
  <2>1. CASE i <= Len(d)
    BY <1>1, <1>2, <1>3, <1>4, <2>1
  <2>2. CASE i > Len(d)
    <3> DEFINE j == i - Len(d)
    <3>1. j \in 1..Len(t) /\ i = Len(d) + j /\ n + i = Len(s) + j
      BY <1>1, <1>2, <1>3, <2>2
    <3> HIDE DEF j
    <3>2. v[i] = t[j]
      BY <1>4, <3>1
    <3>3. u[i] = w[n + i]
      BY <1>3
    <3>4. w[Len(s) + j] = t[j]
      BY <1>1, <3>1
    <3> QED BY <3>1, <3>2, <3>3, <3>4
  <2> QED BY <1>1, <1>2, <2>1, <2>2
<1>7. u = v
  <2>1. u = [i \in 1..Len(u) |-> u[i]] /\ v = [i \in 1..Len(v) |-> v[i]]
    BY <1>3, <1>4
  <2>2. [i \in 1..Len(u) |-> u[i]] = [i \in 1..Len(u) |-> v[i]]
    BY <1>6
  <2>3. [i \in 1..Len(v) |-> v[i]] = [i \in 1..Len(u) |-> v[i]]
    BY <1>5
  <2> QED BY <2>1, <2>2, <2>3
<1> QED BY <1>7 DEF u, v, d

\* The markers are three bytes long.
LEMMA Markers ==
    ASSUME NEW m \in {PasteStart, PasteEnd, UpKey}
    PROVE  m \in Seq(Bytes) /\ Len(m) = 3
<1>1. "esc" \in Bytes /\ "[" \in Bytes /\ "P" \in Bytes /\ "E" \in Bytes /\ "A" \in Bytes
  BY Zenon DEF Bytes, Ascii
<1>2. \A d, e, f \in Bytes : <<d, e, f>> \in Seq(Bytes) /\ Len(<<d, e, f>>) = 3
  OBVIOUS
<1> QED BY <1>1, <1>2, Zenon DEF PasteStart, PasteEnd, UpKey

\* A prefix of bytes, byte by byte.
LEMMA BytesPrefix ==
    \A s, t \in Seq(Bytes) : IsPrefix(s, t) <=> Len(s) <= Len(t) /\ \A i \in 1..Len(s) : s[i] = t[i]
BY PrefixIs

\* A position that is the first of its kind.
LEMMA FirstIs ==
    ASSUME NEW at \in SUBSET Nat, at # {}
    PROVE  LET i == CHOOSE i \in at : \A j \in at : i <= j IN i \in at /\ \A j \in at : i <= j
<1>1. \E i \in at : \A j \in at : i <= j
  BY LeastExists
<1> QED BY <1>1, Zenon

\* Where the end of a paste stands.
Closes(p) == {i \in Len(PasteStart) + 1 .. Len(p) : IsPrefix(PasteEnd, Drop(p, i - 1))}
\* It stands at i.
ClosesAt(p, i) ==
    i \in 4..Len(p) /\ i + 2 <= Len(p) /\ p[i] = PasteEnd[1] /\ p[i + 1] = PasteEnd[2] /\ p[i + 2] = PasteEnd[3]

\* The end marker at i, byte by byte.
LEMMA ClosesIs ==
    ASSUME NEW p \in Seq(Bytes), NEW i
    PROVE  i \in Closes(p) <=> ClosesAt(p, i)
<1>1. Len(PasteStart) = 3 /\ Len(PasteEnd) = 3 /\ PasteEnd \in Seq(Bytes) /\ Len(p) \in Nat
  BY Markers
<1>2. CASE i \in 4..Len(p)
  <2> DEFINE d == Drop(p, i - 1)
  <2>1. i - 1 \in 0..Len(p)
    BY <1>1, <1>2
  <2>2. d \in Seq(Bytes) /\ Len(d) = Len(p) - (i - 1) /\ \A j \in 1..(Len(p) - (i - 1)) : d[j] = p[i - 1 + j]
    BY <2>1, DropIs
  <2> HIDE DEF d
  <2>3. IsPrefix(PasteEnd, d) <=> 3 <= Len(d) /\ \A j \in 1..3 : PasteEnd[j] = d[j]
    <3>1. IsPrefix(PasteEnd, d) <=> Len(PasteEnd) <= Len(d) /\ \A j \in 1..Len(PasteEnd) : PasteEnd[j] = d[j]
      BY <1>1, <2>2, BytesPrefix
    <3> QED BY <1>1, <3>1
  <2>4. 3 <= Len(d) => d[1] = p[i] /\ d[2] = p[i + 1] /\ d[3] = p[i + 2]
    BY <1>1, <1>2, <2>2
  <2>5. 1..3 = {1, 2, 3}
    OBVIOUS
  <2>6. 3 <= Len(d) <=> i + 2 <= Len(p)
    BY <1>1, <1>2, <2>2
  <2>7. i \in Closes(p) <=> IsPrefix(PasteEnd, d)
    BY <1>1, <1>2 DEF Closes, d
  <2> QED BY <1>2, <2>3, <2>4, <2>5, <2>6, <2>7 DEF ClosesAt
<1>3. CASE i \notin 4..Len(p)
  BY <1>1, <1>3 DEF Closes, ClosesAt
<1> QED BY <1>2, <1>3

\* The end of a paste that has come stays where it is.
LEMMA PasteEndStays ==
    ASSUME NEW p \in Seq(Bytes), NEW x \in Seq(Bytes), PasteEndAt(p) # 0
    PROVE  /\ PasteEndAt(p) \in 4..(Len(p) - 2)
           /\ PasteEndAt(p \o x) = PasteEndAt(p)
<1> DEFINE w == p \o x
           i == PasteEndAt(p)
           j == PasteEndAt(w)
<1>1. /\ w \in Seq(Bytes) /\ Len(w) = Len(p) + Len(x) /\ Len(p) \in Nat /\ Len(x) \in Nat
      /\ \A n \in 1..Len(p) : w[n] = p[n]
  BY ConcatIs
<1> HIDE DEF w
<1>2. Closes(p) \in SUBSET Nat /\ Closes(w) \in SUBSET Nat
  BY <1>1, Markers DEF Closes
<1>3. i \in Closes(p) /\ \A n \in Closes(p) : i <= n
  <2>1. i = IF Closes(p) = {} THEN 0 ELSE CHOOSE n \in Closes(p) : \A k \in Closes(p) : n <= k
    BY DEF PasteEndAt, Closes
  <2>2. Closes(p) # {}
    BY <2>1
  <2> HIDE DEF i
  <2> QED BY <1>2, <2>1, <2>2, FirstIs
<1> HIDE DEF i
<1>4. ClosesAt(p, i)
  BY <1>3, ClosesIs
<1>5. ClosesAt(w, i)
  BY <1>1, <1>4 DEF ClosesAt
<1>6. i \in Closes(w)
  BY <1>1, <1>5, ClosesIs
<1>7. j \in Closes(w) /\ \A n \in Closes(w) : j <= n
  <2>1. j = IF Closes(w) = {} THEN 0 ELSE CHOOSE n \in Closes(w) : \A k \in Closes(w) : n <= k
    BY DEF PasteEndAt, Closes
  <2>2. Closes(w) # {}
    BY <1>6
  <2> HIDE DEF j
  <2> QED BY <1>2, <2>1, <2>2, FirstIs
<1> HIDE DEF j
<1>8. ClosesAt(w, j) /\ j <= i
  BY <1>1, <1>6, <1>7, ClosesIs
<1>9. ClosesAt(p, j)
  BY <1>1, <1>4, <1>8 DEF ClosesAt
<1>10. i <= j
  BY <1>3, <1>9, ClosesIs
<1>11. i = j /\ i \in 4..(Len(p) - 2)
  BY <1>1, <1>4, <1>8, <1>10 DEF ClosesAt
<1> QED BY <1>11 DEF i, j, w

\* A marker that is the beginning of what there is, or of what there will be.
Begins(p) == IsPrefix(PasteStart, p) \/ IsPrefix(UpKey, p)

\* A marker begins a list of bytes if it begins the longer one and has come whole.
LEMMA MarkerStays ==
    ASSUME NEW p \in Seq(Bytes), NEW x \in Seq(Bytes), NEW m \in {PasteStart, UpKey}
    PROVE  IsPrefix(m, p) <=> IsPrefix(m, p \o x) /\ 3 <= Len(p)
<1> DEFINE w == p \o x
<1>1. w \in Seq(Bytes) /\ Len(w) = Len(p) + Len(x) /\ Len(p) \in Nat /\ Len(x) \in Nat
      /\ \A i \in 1..Len(p) : w[i] = p[i]
  BY ConcatIs
<1> HIDE DEF w
<1>2. m \in Seq(Bytes) /\ Len(m) = 3
  BY Markers
<1>3. IsPrefix(m, p) <=> Len(m) <= Len(p) /\ \A i \in 1..Len(m) : m[i] = p[i]
  BY <1>2, BytesPrefix
<1>4. IsPrefix(m, w) <=> Len(m) <= Len(w) /\ \A i \in 1..Len(m) : m[i] = w[i]
  BY <1>1, <1>2, BytesPrefix
<1>5. IsPrefix(m, p) <=> IsPrefix(m, w) /\ 3 <= Len(p)
  <2>1. CASE 3 <= Len(p)
    <3>1. \A i \in 1..Len(m) : w[i] = p[i]
      BY <1>1, <1>2, <2>1
    <3>2. Len(m) <= Len(w) /\ Len(m) <= Len(p)
      BY <1>1, <1>2, <2>1
    <3> QED BY <1>3, <1>4, <2>1, <3>1, <3>2
  <2>2. CASE ~(3 <= Len(p))
    BY <1>2, <1>3, <2>2
  <2> QED BY <2>1, <2>2
<1> QED BY <1>5 DEF w

\* The keys of single bytes.
LEMMA KeysAreSent ==
    /\ \A key \in Bytes \cup {"Up", "Enter", "Esc", "Backspace", "wide", "?"}, n \in Nat :
          Result(key, n).event \in Seq(Sent) /\ Result(key, n).used = n
    /\ \A text \in Seq(Bytes), n \in Nat : Pasted(text, n).event \in Seq(Sent) /\ Pasted(text, n).used = n
    /\ Swallow.event \in Seq(Sent) /\ Swallow.used = 1
    /\ NeedMore.event \in Seq(Sent) /\ NeedMore.used = 0
<1>1. \A e \in Sent : <<e>> \in Seq(Sent)
  OBVIOUS
<1>2. <<>> \in Seq(Sent) /\ <<>> \in Seq(Bytes)
  OBVIOUS
<1>3. \A key \in Bytes \cup {"Up", "Enter", "Esc", "Backspace", "wide", "?"} : [key |-> key, text |-> <<>>] \in Sent
  BY <1>2 DEF Sent
<1>4. \A text \in Seq(Bytes) : [key |-> "Paste", text |-> text] \in Sent
  BY DEF Sent
<1> HIDE DEF Sent
<1> QED BY <1>1, <1>2, <1>3, <1>4 DEF Result, Pasted, Swallow, NeedMore

\* What a character is does not depend on what follows it.
LEMMA CharStays ==
    ASSUME NEW p \in Seq(Bytes), NEW x \in Seq(Bytes), p # <<>>
    PROVE  /\ FirstChar(p) # NeedMore => FirstChar(p \o x) = FirstChar(p)
           /\ FirstChar(p).event \in Seq(Sent)
           /\ FirstChar(p) # NeedMore => FirstChar(p).used \in 1..Len(p)
<1> DEFINE w == p \o x
<1>1. w \in Seq(Bytes) /\ Len(w) = Len(p) + Len(x) /\ Len(p) \in Nat /\ Len(x) \in Nat
      /\ \A i \in 1..Len(p) : w[i] = p[i]
  BY ConcatIs
<1>2. 1 <= Len(p) /\ p[1] \in Bytes
  OBVIOUS
<1> HIDE DEF w
<1>3. w[1] = p[1] /\ (Len(p) > 1 => Len(w) > 1 /\ w[2] = p[2])
  BY <1>1, <1>2
<1>4. CASE p[1] \in Ascii
  <2>1. FirstChar(p) = Result(p[1], 1) /\ FirstChar(w) = Result(p[1], 1)
    BY <1>3, <1>4 DEF FirstChar
  <2> QED BY <1>1, <1>2, <2>1, KeysAreSent DEF w
<1>5. CASE p[1] \notin Ascii /\ p[1] = "lead" /\ Len(p) > 1 /\ p[2] = "cont"
  <2>1. FirstChar(p) = Result("wide", 2) /\ FirstChar(w) = Result("wide", 2)
    BY <1>3, <1>5 DEF FirstChar
  <2>2. Result("wide", 2).event \in Seq(Sent) /\ Result("wide", 2).used = 2
    <3>1. "wide" \in Bytes \cup {"Up", "Enter", "Esc", "Backspace", "wide", "?"} /\ 2 \in Nat
      OBVIOUS
    <3> QED BY <3>1, KeysAreSent
  <2>3. 2 \in 1..Len(p)
    BY <1>1, <1>5
  <2> QED BY <2>1, <2>2, <2>3 DEF w
<1>6. CASE p[1] \notin Ascii /\ ~(p[1] = "lead" /\ Len(p) > 1 /\ p[2] = "cont")
  <2>1. FirstChar(p) = IF Len(p) >= 4 THEN Result("?", 1) ELSE NeedMore
    BY <1>6 DEF FirstChar
  <2>2. Len(p) >= 4 => FirstChar(w) = Result("?", 1)
    <3> SUFFICES ASSUME Len(p) >= 4
                 PROVE  FirstChar(w) = Result("?", 1)
      OBVIOUS
    <3>1. Len(w) >= 4 /\ w[1] \notin Ascii /\ ~(w[1] = "lead" /\ Len(w) > 1 /\ w[2] = "cont")
      BY <1>1, <1>3, <1>6
    <3> QED BY <3>1 DEF FirstChar
  <2>3. Result("?", 1).event \in Seq(Sent) /\ Result("?", 1).used = 1
    <3>1. "?" \in Bytes \cup {"Up", "Enter", "Esc", "Backspace", "wide", "?"} /\ 1 \in Nat
      OBVIOUS
    <3> QED BY <3>1, KeysAreSent
  <2>4. 1 \in 1..Len(p)
    BY <1>1, <1>2
  <2>5. CASE Len(p) >= 4
    BY <2>1, <2>2, <2>3, <2>4, <2>5 DEF w
  <2>6. CASE ~(Len(p) >= 4)
    BY <2>1, <2>6, KeysAreSent
  <2> QED BY <2>5, <2>6
<1> QED BY <1>4, <1>5, <1>6

\* A paste that is complete does not depend on what follows it.
LEMMA PasteStays ==
    ASSUME NEW p \in Seq(Bytes), NEW x \in Seq(Bytes)
    PROVE  /\ FirstPaste(p) # NeedMore => FirstPaste(p \o x) = FirstPaste(p)
           /\ FirstPaste(p).event \in Seq(Sent)
           /\ FirstPaste(p) # NeedMore => FirstPaste(p).used \in 1..Len(p)
<1> DEFINE w == p \o x
           i == PasteEndAt(p)
<1>1. w \in Seq(Bytes) /\ Len(w) = Len(p) + Len(x) /\ Len(p) \in Nat /\ Len(x) \in Nat
      /\ \A n \in 1..Len(p) : w[n] = p[n]
  BY ConcatIs
<1>2. Len(PasteStart) = 3 /\ Len(PasteEnd) = 3
  BY Markers
<1>3. CASE i = 0
  BY <1>3, KeysAreSent DEF FirstPaste
<1>4. CASE i # 0
  <2>1. i \in 4..(Len(p) - 2) /\ PasteEndAt(w) = i
    BY <1>4, PasteEndStays
  <2> HIDE DEF i, w
  <2>2. FirstPaste(p) = Pasted(SubSeq(p, 4, i - 1), i + 2) /\ FirstPaste(w) = Pasted(SubSeq(w, 4, i - 1), i + 2)
    <3>1. i + 3 - 1 = i + 2 /\ 3 + 1 = 4
      BY <2>1
    <3> QED BY <1>2, <1>4, <2>1, <3>1 DEF FirstPaste, i
  <2>3. SubSeq(w, 4, i - 1) = SubSeq(p, 4, i - 1) /\ SubSeq(p, 4, i - 1) \in Seq(Bytes)
    <3>1. /\ SubSeq(w, 4, i - 1) \in Seq(Bytes) /\ SubSeq(p, 4, i - 1) \in Seq(Bytes)
          /\ Len(SubSeq(w, 4, i - 1)) = i - 4 /\ Len(SubSeq(p, 4, i - 1)) = i - 4
          /\ \A n \in 1..(i - 4) : SubSeq(w, 4, i - 1)[n] = SubSeq(p, 4, i - 1)[n]
      BY <1>1, <2>1
    <3> QED BY <3>1, SeqEqual
  <2>4. i + 2 \in 1..Len(p) /\ i + 2 \in Nat
    BY <1>1, <2>1
  <2> QED BY <2>2, <2>3, <2>4, KeysAreSent DEF w
<1> QED BY <1>3, <1>4

\* What the bytes begin with does not depend on what follows them, unless a marker was torn.
LEMMA EventStays ==
    ASSUME NEW p \in Seq(Bytes), NEW x \in Seq(Bytes), p # <<>>
    PROVE  /\ FirstEvent(p) # NeedMore /\ (Begins(p \o x) => Begins(p)) => FirstEvent(p \o x) = FirstEvent(p)
           /\ FirstEvent(p).event \in Seq(Sent)
           /\ FirstEvent(p) # NeedMore => FirstEvent(p).used \in 1..Len(p)
<1> DEFINE w == p \o x
<1>1. 1 <= Len(p) /\ Len(p) \in Nat /\ w[1] = p[1]
  BY ConcatIs
<1>2. (IsPrefix(PasteStart, p) <=> IsPrefix(PasteStart, w) /\ 3 <= Len(p))
      /\ (IsPrefix(UpKey, p) <=> IsPrefix(UpKey, w) /\ 3 <= Len(p)) /\ Len(UpKey) = 3
  BY MarkerStays, Markers
<1> HIDE DEF w
<1>3. CASE IsPrefix(PasteStart, p)
  <2>1. FirstEvent(p) = FirstPaste(p) /\ FirstEvent(w) = FirstPaste(w)
    BY <1>2, <1>3 DEF FirstEvent
  <2> QED BY <2>1, PasteStays DEF w
<1>4. CASE ~IsPrefix(PasteStart, p) /\ IsPrefix(UpKey, p)
  <2>1. FirstEvent(p) = Result("Up", 3) /\ FirstEvent(w) = Result("Up", 3)
    BY <1>2, <1>4 DEF FirstEvent
  <2>2. 3 \in 1..Len(p) /\ 3 \in Nat
    BY <1>1, <1>2, <1>4
  <2>3. Result("Up", 3).event \in Seq(Sent) /\ Result("Up", 3).used = 3
    <3>1. "Up" \in Bytes \cup {"Up", "Enter", "Esc", "Backspace", "wide", "?"}
      OBVIOUS
    <3> QED BY <2>2, <3>1, KeysAreSent
  <2> QED BY <2>1, <2>2, <2>3 DEF w
<1>5. CASE ~IsPrefix(PasteStart, p) /\ ~IsPrefix(UpKey, p) /\ p[1] \in DOMAIN Controls
  <2>1. FirstEvent(p) = Controls[p[1]]
    BY <1>5 DEF FirstEvent
  <2>2. (Begins(w) => Begins(p)) => FirstEvent(w) = Controls[p[1]]
    BY <1>1, <1>5 DEF FirstEvent, Begins
  <2>3. Controls[p[1]].event \in Seq(Sent) /\ Controls[p[1]].used = 1
    <3>1. /\ Result("Enter", 1).event \in Seq(Sent) /\ Result("Enter", 1).used = 1
          /\ Result("Esc", 1).event \in Seq(Sent) /\ Result("Esc", 1).used = 1
          /\ Result("Backspace", 1).event \in Seq(Sent) /\ Result("Backspace", 1).used = 1
      <4>1. 1 \in Nat /\ {"Enter", "Esc", "Backspace"} \subseteq Bytes \cup {"Up", "Enter", "Esc", "Backspace", "wide", "?"}
        OBVIOUS
      <4> QED BY <4>1, KeysAreSent
    <3>2. Controls[p[1]] \in {Result("Enter", 1), Result("Esc", 1), Result("Backspace", 1), Swallow}
      BY <1>5 DEF Controls
    <3> QED BY <3>1, <3>2, KeysAreSent
  <2> QED BY <1>1, <2>1, <2>2, <2>3 DEF w
<1>6. CASE ~IsPrefix(PasteStart, p) /\ ~IsPrefix(UpKey, p) /\ p[1] \notin DOMAIN Controls
  <2>1. FirstEvent(p) = FirstChar(p)
    BY <1>6 DEF FirstEvent
  <2>2. (Begins(w) => Begins(p)) => FirstEvent(w) = FirstChar(w)
    BY <1>1, <1>6 DEF FirstEvent, Begins
  <2> QED BY <2>1, <2>2, CharStays DEF w
<1> QED BY <1>3, <1>4, <1>5, <1>6

\* The states of the loop, and the bytes that it cannot use yet.
Loops == [events : Seq(Sent), left : Seq(Bytes)]
Stuck(l) == l = <<>> \/ FirstEvent(l) = NeedMore

\* A turn uses something, or nothing changes.
LEMMA TurnIs ==
    ASSUME NEW s \in Loops
    PROVE  /\ Turn(s) \in Loops
           /\ Stuck(s.left) => Turn(s) = s
           /\ ~Stuck(s.left) =>
                 /\ FirstEvent(s.left).used \in 1..Len(s.left) /\ FirstEvent(s.left).event \in Seq(Sent)
                 /\ Turn(s).events = s.events \o FirstEvent(s.left).event
                 /\ Turn(s).left = Drop(s.left, FirstEvent(s.left).used)
<1> DEFINE l == s.left
           e == FirstEvent(l)
<1>1. s.events \in Seq(Sent) /\ l \in Seq(Bytes) /\ s = [events |-> s.events, left |-> l]
  BY DEF Loops
<1>2. CASE l = <<>>
  BY <1>2 DEF Turn, Stuck
<1>3. CASE l # <<>>
  <2>1. Turn(s) = [events |-> s.events \o e.event, left |-> Drop(l, e.used)]
    BY <1>3 DEF Turn
  <2>5. Turn(s).events = s.events \o e.event /\ Turn(s).left = Drop(l, e.used)
    BY <1>3 DEF Turn
  <2>2. e.event \in Seq(Sent) /\ (e # NeedMore => e.used \in 1..Len(l))
    <3>1. <<>> \in Seq(Bytes)
      OBVIOUS
    <3> QED BY <1>1, <1>3, <3>1, EventStays
  <2> HIDE DEF l, e
  <2>3. CASE e = NeedMore
    <3>1. e.event = <<>> /\ e.used = 0
      BY <2>3 DEF NeedMore
    <3>2. s.events \o <<>> = s.events /\ Drop(l, 0) = l
      <4>1. s.events \o <<>> = s.events
        BY <1>1, ConcatEmptySeq
      <4>2. SubSeq(l, 1, Len(l)) = l
        BY <1>1, SubSeqFull
      <4> QED BY <4>1, <4>2 DEF Drop
    <3>3. Turn(s) = s
      BY <1>1, <2>1, <3>1, <3>2
    <3> QED BY <2>3, <3>3 DEF Stuck, l, e
  <2>4. CASE e # NeedMore
    <3>1. e.used \in 1..Len(l) /\ Len(l) \in Nat
      BY <1>1, <2>2, <2>4
    <3>2. Drop(l, e.used) \in Seq(Bytes) /\ s.events \o e.event \in Seq(Sent)
      <4>1. e.used \in 0..Len(l)
        BY <3>1
      <4> QED BY <1>1, <2>2, <4>1, DropIs, ConcatIs
    <3>3. Turn(s) \in Loops
      BY <2>1, <3>2 DEF Loops
    <3>4. ~Stuck(l)
      BY <1>3, <2>4 DEF Stuck, e
    <3> QED BY <2>2, <2>5, <3>1, <3>3, <3>4 DEF l, e
  <2> QED BY <2>3, <2>4
<1> QED BY <1>2, <1>3

\* The turns of the loop, one after another.
Turns(f, p, k) ==
    f \in [0..k -> Loops] /\ f[0] = [events |-> <<>>, left |-> p] /\ \A n \in 1..k : f[n] = Turn(f[n - 1])

\* Parse is where the turns end.
LEMMA ParseIs ==
    ASSUME NEW p \in Seq(Bytes)
    PROVE  \E f : Turns(f, p, Len(p)) /\ Parse(p) = f[Len(p)]
<1> DEFINE k == Len(p)
           start == [events |-> <<>>, left |-> p]
           step == [n \in 1..k |-> [s \in Loops |-> Turn(s)]]
           Runs(f) == f = [n \in 0..k |-> IF n = 0 THEN start ELSE Turn(f[n - 1])]
           g == CHOOSE f : Runs(f)
<1>1. k \in Nat /\ start \in Loops
  BY DEF Loops
<1>2. \A s \in Loops : Turn(s) \in Loops
  BY TurnIs
<1> HIDE DEF k, start
<1>3. step \in [1..k -> [Loops -> Loops]]
  BY <1>2
<1>4. \A n \in 1..k, s \in Loops : step[n][s] = Turn(s)
  OBVIOUS
<1> HIDE DEF step
<1>5. PICK f \in [0..k -> Loops] : Follows(f, start, step, k)
  BY <1>1, <1>3, Recursion
<1>6. f[0] = start /\ \A n \in 1..k : f[n] = Turn(f[n - 1])
  <2>1. \A n \in 1..k : n - 1 \in 0..k
    BY <1>1
  <2> QED BY <1>4, <1>5, <2>1 DEF Follows
<1>7. Runs(f)
  <2>1. \A n \in 0..k : f[n] = IF n = 0 THEN start ELSE Turn(f[n - 1])
    <3>1. \A n \in 0..k : n # 0 => n \in 1..k
      BY <1>1
    <3> QED BY <1>6, <3>1
  <2> QED BY <2>1
<1>8. Runs(g)
  BY <1>7, Zenon
<1>9. Parse(p) = g[k]
  BY Zenon DEF Parse, k, start
<1> HIDE DEF g
<1>10. ASSUME NEW n \in 0..k PROVE g[n] = f[n]
  <2> DEFINE same == {i \in 0..k : g[i] = f[i]}
  <2>1. 0 \in same
    BY <1>1, <1>6, <1>8
  <2>2. ASSUME NEW i \in 1..k, i - 1 \in same PROVE i \in same
    <3>1. i \in 0..k /\ i # 0 /\ g[i - 1] = f[i - 1]
      BY <2>2
    <3>2. g[i] = Turn(g[i - 1])
      BY <1>8, <3>1
    <3> QED BY <1>6, <3>1, <3>2
  <2> HIDE DEF same
  <2>3. \A i \in 0..k : i \in same
    BY <1>1, <2>1, <2>2, AllUpTo
  <2> QED BY <2>3 DEF same
<1>11. Parse(p) = f[k]
  BY <1>1, <1>9, <1>10
<1> QED BY <1>5, <1>6, <1>11 DEF Turns, k, start

\* When as many turns have been taken as there are bytes, nothing is left that could be used.
LEMMA TurnsEnd ==
    ASSUME NEW p \in Seq(Bytes), NEW f, Turns(f, p, Len(p))
    PROVE  Stuck(f[Len(p)].left)
<1> DEFINE k == Len(p)
           done == {n \in 0..k : Stuck(f[n].left) \/ Len(f[n].left) <= k - n}
<1>1. k \in Nat /\ \A n \in 0..k : f[n] \in Loops /\ f[n].left \in Seq(Bytes)
  BY DEF Turns, Loops
<1>2. 0 \in done
  BY DEF Turns
<1>3. ASSUME NEW n \in 1..k, n - 1 \in done PROVE n \in done
  <2>1. n - 1 \in 0..k /\ n \in 0..k /\ f[n] = Turn(f[n - 1])
    BY <1>1 DEF Turns
  <2>2. CASE Stuck(f[n - 1].left)
    BY <1>1, <2>1, <2>2, TurnIs
  <2>3. CASE ~Stuck(f[n - 1].left)
    <3> DEFINE l == f[n - 1].left
               u == FirstEvent(l).used
    <3>1. l \in Seq(Bytes) /\ u \in 1..Len(l) /\ f[n].left = Drop(l, u)
      BY <1>1, <2>1, <2>3, TurnIs
    <3>2. Len(l) <= k - (n - 1)
      BY <1>3, <2>3
    <3> HIDE DEF l, u
    <3>3. Len(l) \in Nat /\ u \in 0..Len(l)
      BY <3>1
    <3>4. Len(f[n].left) = Len(l) - u
      BY <3>1, <3>3, DropIs
    <3>5. Len(f[n].left) <= k - n
      BY <1>1, <3>1, <3>2, <3>3, <3>4
    <3> QED BY <2>1, <3>5
  <2> QED BY <2>2, <2>3
<1> HIDE DEF done
<1>4. k \in done
  <2>1. \A n \in 0..k : n \in done
    BY <1>1, <1>2, <1>3, AllUpTo
  <2> QED BY <1>1, <2>1
<1>5. Stuck(f[k].left) \/ Len(f[k].left) <= 0
  BY <1>1, <1>4 DEF done
<1>6. f[k].left \in Seq(Bytes)
  BY <1>1
<1> HIDE DEF k
<1>7. Len(f[k].left) <= 0 => f[k].left = <<>>
  BY <1>6
<1> QED BY <1>5, <1>7 DEF Stuck, k

\* Dropping twice.
LEMMA DropDrop ==
    ASSUME NEW p \in Seq(Bytes), NEW d \in 0..Len(p), NEW n \in 0..(Len(p) - d)
    PROVE  Drop(Drop(p, d), n) = Drop(p, d + n)
<1> DEFINE u == Drop(p, d)
           v == Drop(u, n)
           w == Drop(p, d + n)
<1>1. Len(p) \in Nat /\ d + n \in 0..Len(p)
  OBVIOUS
<1>2. u \in Seq(Bytes) /\ Len(u) = Len(p) - d /\ \A i \in 1..(Len(p) - d) : u[i] = p[d + i]
  BY DropIs
<1> HIDE DEF u
<1>3. n \in 0..Len(u)
  BY <1>1, <1>2
<1>4. v \in Seq(Bytes) /\ Len(v) = Len(u) - n /\ \A i \in 1..(Len(u) - n) : v[i] = u[n + i]
  BY <1>2, <1>3, DropIs
<1>5. w \in Seq(Bytes) /\ Len(w) = Len(p) - (d + n) /\ \A i \in 1..(Len(p) - (d + n)) : w[i] = p[d + n + i]
  BY <1>1, DropIs
<1> HIDE DEF v, w
<1>6. Len(v) = Len(w)
  BY <1>1, <1>2, <1>4, <1>5
<1>7. \A i \in 1..Len(v) : v[i] = w[i]
  <2> SUFFICES ASSUME NEW i \in 1..Len(v)
               PROVE  v[i] = w[i]
    OBVIOUS
  <2>1. i \in 1..(Len(u) - n) /\ n + i \in 1..(Len(p) - d) /\ i \in 1..(Len(p) - (d + n)) /\ d + (n + i) = d + n + i
    BY <1>1, <1>2, <1>4
  <2>2. v[i] = u[n + i] /\ u[n + i] = p[d + (n + i)] /\ w[i] = p[d + n + i]
    BY <1>2, <1>4, <1>5, <2>1
  <2> QED BY <2>1, <2>2
<1>8. v = w
  BY <1>4, <1>5, <1>6, <1>7, SeqEqual
<1> QED BY <1>8 DEF u, v, w

\* No marker is torn between p and what follows it.
Untorn(p, x) == \A d \in 0..(Len(p) - 1) : Begins(Drop(p, d) \o x) => Begins(Drop(p, d))

\* With more bytes behind p the loop takes the turns it takes without them, up to those it
\* takes from the bytes it could not use.
LEMMA SameTurns ==
    ASSUME NEW p \in Seq(Bytes), NEW x \in Seq(Bytes), Untorn(p, x),
           NEW f, Turns(f, p, Len(p)), NEW g, Turns(g, p \o x, Len(p) + Len(x))
    PROVE  \E j \in 0..Len(p) : /\ j <= Len(p) - Len(f[Len(p)].left)
                                /\ g[j].events = f[Len(p)].events /\ g[j].left = f[Len(p)].left \o x
<1> DEFINE k == Len(p)
           Alike(n) == \E d \in 0..k : \E j \in 0..d :
                         /\ f[n].left = Drop(p, d)
                         /\ g[j].events = f[n].events /\ g[j].left = f[n].left \o x
           good == {n \in 0..k : Alike(n)}
<1>1. k \in Nat /\ Len(x) \in Nat /\ \A n \in 0..k : f[n] \in Loops
  <2>1. k \in Nat /\ Len(x) \in Nat /\ f \in [0..k -> Loops]
    BY DEF Turns
  <2> HIDE DEF k
  <2> QED BY <2>1
<1>2. \A j \in 0..(k + Len(x)) : g[j] \in Loops
  BY DEF Turns
<1>3. 0 \in good
  <2>1. f[0].left = p /\ f[0].events = <<>> /\ g[0].left = p \o x /\ g[0].events = <<>>
    BY DEF Turns
  <2>2. Drop(p, 0) = p
    BY SubSeqFull DEF Drop
  <2>3. Alike(0)
    <3>1. 0 \in 0..k /\ 0 \in 0..0
      BY <1>1
    <3>2. f[0].left = Drop(p, 0) /\ g[0].events = f[0].events /\ g[0].left = f[0].left \o x
      BY <2>1, <2>2, Zenon
    <3> QED BY <3>1, <3>2, Zenon
  <2>4. 0 \in 0..k
    BY <1>1
  <2> HIDE DEF Alike
  <2> QED BY <2>3, <2>4
<1>4. ASSUME NEW n \in 1..k, n - 1 \in good PROVE n \in good
  <2>1. n - 1 \in 0..k /\ n \in 0..k /\ f[n] = Turn(f[n - 1])
    BY <1>1 DEF Turns
  <2>2. PICK d \in 0..k : \E j \in 0..d :
           f[n - 1].left = Drop(p, d) /\ g[j].events = f[n - 1].events /\ g[j].left = f[n - 1].left \o x
    BY <1>4
  <2>3. PICK j \in 0..d :
           f[n - 1].left = Drop(p, d) /\ g[j].events = f[n - 1].events /\ g[j].left = f[n - 1].left \o x
    BY <2>2
  <2> DEFINE l == f[n - 1].left
             e == FirstEvent(l)
  <2>4. l \in Seq(Bytes) /\ f[n - 1].events \in Seq(Sent) /\ f[n - 1] \in Loops
    BY <1>1, <2>1 DEF Loops
  <2>5. CASE Stuck(l)
    <3>1. f[n] = f[n - 1]
      BY <2>1, <2>4, <2>5, TurnIs
    <3>2. Alike(n)
      BY <2>3, <3>1
    <3> QED BY <2>1, <3>2
  <2>6. CASE ~Stuck(l)
    <3>1. /\ e.used \in 1..Len(l) /\ f[n].events = f[n - 1].events \o e.event /\ f[n].left = Drop(l, e.used)
      BY <2>1, <2>4, <2>6, TurnIs
    <3>2. l # <<>> /\ e # NeedMore
      BY <2>6 DEF Stuck
    <3>3. l = Drop(p, d) /\ Len(l) = k - d /\ Len(l) \in Nat
      BY <2>3, <2>4, DropIs
    <3>4. d \in 0..(k - 1)
      BY <1>1, <3>1, <3>3
    <3>5. Begins(l \o x) => Begins(l)
      BY <3>3, <3>4 DEF Untorn
    <3>6. FirstEvent(l \o x) = e
      BY <2>4, <3>2, <3>5, EventStays
    <3>7. l \o x \in Seq(Bytes) /\ Len(l \o x) = Len(l) + Len(x)
      BY <2>4, ConcatIs
    <3>8. j + 1 \in 1..(k + Len(x)) /\ j \in 0..(k + Len(x)) /\ g[j + 1] = Turn(g[j])
      <4>1. j + 1 \in 1..(k + Len(x)) /\ j \in 0..(k + Len(x)) /\ (j + 1) - 1 = j
        BY <1>1, <3>4
      <4>2. \A i \in 1..(k + Len(x)) : g[i] = Turn(g[i - 1])
        BY DEF Turns
      <4> HIDE DEF k
      <4>3. g[j + 1] = Turn(g[(j + 1) - 1])
        BY <4>1, <4>2
      <4> QED BY <4>1, <4>3
    <3>9. ~Stuck(l \o x)
      <4>1. l \o x # <<>>
        <5>1. Len(l \o x) # 0
          BY <1>1, <3>1, <3>3, <3>7
        <5> QED BY <5>1
      <4> QED BY <3>2, <3>6, <4>1 DEF Stuck
    <3>10. g[j].left = l \o x /\ g[j].events = f[n - 1].events
      BY <2>3
    <3>11. g[j + 1].events = g[j].events \o e.event /\ g[j + 1].left = Drop(l \o x, e.used)
      <4> HIDE DEF l, e
      <4> QED BY <1>2, <3>6, <3>8, <3>9, <3>10, TurnIs
    <3> HIDE DEF l, e
    <3>12. Drop(l \o x, e.used) = Drop(l, e.used) \o x
      <4>1. e.used \in 0..Len(l)
        BY <3>1, <3>3
      <4> QED BY <2>4, <4>1, DropConcat
    <3>13. Drop(l, e.used) = Drop(p, d + e.used) /\ d + e.used \in 0..k /\ j + 1 \in 0..(d + e.used)
      <4>1. d + e.used \in 0..k /\ j + 1 \in 0..(d + e.used)
        BY <1>1, <3>1, <3>3, <3>4
      <4>2. Drop(Drop(p, d), e.used) = Drop(p, d + e.used)
        BY <3>1, <3>3, <4>1, DropDrop
      <4> QED BY <3>3, <4>1, <4>2
    <3>14. Alike(n)
      <4>1. f[n].left = Drop(p, d + e.used) /\ g[j + 1].events = f[n].events /\ g[j + 1].left = f[n].left \o x
        BY <3>1, <3>10, <3>11, <3>12, <3>13
      <4> QED BY <3>13, <4>1
    <3> QED BY <2>1, <3>14
  <2> QED BY <2>5, <2>6
<1> HIDE DEF good
<1>5. k \in good
  <2>1. \A n \in 0..k : n \in good
    BY <1>1, <1>3, <1>4, AllUpTo
  <2> QED BY <1>1, <2>1
<1>6. PICK d \in 0..k : \E j \in 0..d : f[k].left = Drop(p, d) /\ g[j].events = f[k].events /\ g[j].left = f[k].left \o x
  BY <1>5 DEF good
<1>7. PICK j \in 0..d : f[k].left = Drop(p, d) /\ g[j].events = f[k].events /\ g[j].left = f[k].left \o x
  BY <1>6
<1>8. Len(f[k].left) = k - d
  BY <1>7, DropIs
<1>9. j \in 0..k /\ j <= k - Len(f[k].left)
  BY <1>1, <1>8
<1> QED BY <1>7, <1>9

\* From place j on, g takes the turns of h.
GoesOn(g, j, h, m) == \A n \in 0..m : g[j + n].events = g[j].events \o h[n].events /\ g[j + n].left = h[n].left

\* From the bytes it could not use, the loop goes on as if it began with them.
LEMMA MoreTurns ==
    ASSUME NEW q, NEW m \in Nat, NEW h, Turns(h, q, m), NEW w, NEW k \in Nat, NEW g, Turns(g, w, k),
           NEW j \in Nat, j + m <= k, g[j].left = q
    PROVE  GoesOn(g, j, h, m)
<1> DEFINE E == g[j].events
<1>4. /\ h \in [0..m -> Loops] /\ (\A n \in 1..m : h[n] = Turn(h[n - 1])) /\ h[0].events = <<>> /\ h[0].left = q
      /\ g \in [0..k -> Loops] /\ \A n \in 1..k : g[n] = Turn(g[n - 1])
  BY DEF Turns
<1>5. E \in Seq(Sent)
  <2>1. j \in 0..k
    OBVIOUS
  <2>2. g[j] \in Loops
    BY <1>4, <2>1
  <2> QED BY <2>2 DEF Loops
<1> HIDE DEF E
<1> DEFINE good == {n \in 0..m : g[j + n].events = E \o h[n].events /\ g[j + n].left = h[n].left}
<1>1. 0 \in good
  <2>1. E \o <<>> = E /\ j + 0 = j /\ 0 \in 0..m
    BY <1>5, ConcatEmptySeq
  <2> QED BY <1>4, <2>1 DEF E
<1>2. ASSUME NEW n \in 1..m, n - 1 \in good PROVE n \in good
  <2> DEFINE a == h[n - 1]
             b == g[j + (n - 1)]
             e == FirstEvent(a.left)
  <2>1. n - 1 \in 0..m /\ n \in 0..m /\ j + n \in 1..k /\ j + n - 1 = j + (n - 1) /\ j + (n - 1) \in 0..k
    OBVIOUS
  <2>2. h[n] = Turn(a) /\ g[j + n] = Turn(b) /\ a \in Loops /\ b \in Loops
    <3>1. h[n] = Turn(h[n - 1]) /\ h[n - 1] \in Loops
      BY <1>4, <2>1
    <3>2. g[j + n] = Turn(g[j + n - 1])
      BY <1>4, <2>1
    <3>3. g[j + (n - 1)] \in Loops
      BY <1>4, <2>1
    <3> QED BY <2>1, <3>1, <3>2, <3>3
  <2>3. b.events = E \o a.events /\ b.left = a.left /\ a.events \in Seq(Sent)
    BY <1>2, <2>2 DEF Loops
  <2> HIDE DEF a, b
  <2>4. CASE Stuck(a.left)
    <3>1. Turn(a) = a /\ Turn(b) = b
      BY <2>2, <2>3, <2>4, TurnIs
    <3> QED BY <2>1, <2>2, <2>3, <3>1
  <2>5. CASE ~Stuck(a.left)
    <3>1. /\ e.event \in Seq(Sent)
          /\ Turn(a).events = a.events \o e.event /\ Turn(a).left = Drop(a.left, e.used)
          /\ Turn(b).events = b.events \o e.event /\ Turn(b).left = Drop(a.left, e.used)
      BY <2>2, <2>3, <2>5, TurnIs
    <3>2. (E \o a.events) \o e.event = E \o (a.events \o e.event)
      <4> HIDE DEF e
      <4>1. a.events \in Seq(Sent) /\ e.event \in Seq(Sent)
        BY <2>3, <3>1
      <4>2. \A s, t, u \in Seq(Sent) : (s \o t) \o u = s \o (t \o u)
        BY ConcatAssociative
      <4> QED BY <1>5, <4>1, <4>2
    <3> QED BY <2>1, <2>2, <2>3, <3>1, <3>2
  <2> QED BY <2>4, <2>5
<1> HIDE DEF good
<1>3. \A n \in 0..m : n \in good
  BY <1>1, <1>2, AllUpTo
<1> QED BY <1>3 DEF good, E, GoesOn

\* Where nothing can be used, nothing changes any more.
LEMMA TurnsStay ==
    ASSUME NEW k \in Nat, NEW g \in [0..k -> Loops], \A n \in 1..k : g[n] = Turn(g[n - 1]),
           NEW i \in 0..k, Stuck(g[i].left)
    PROVE  g[k] = g[i]
<1> DEFINE good == {n \in 0..(k - i) : g[i + n] = g[i]}
<1>1. 0 \in good
  OBVIOUS
<1>2. ASSUME NEW n \in 1..(k - i), n - 1 \in good PROVE n \in good
  <2>1. n \in 0..(k - i) /\ i + n \in 1..k /\ i + n - 1 = i + (n - 1) /\ g[i] \in Loops
    OBVIOUS
  <2>2. g[i + n] = Turn(g[i + n - 1])
    BY <2>1
  <2>3. g[i + (n - 1)] = g[i]
    BY <1>2
  <2>4. Turn(g[i]) = g[i]
    BY <2>1, TurnIs
  <2> QED BY <2>1, <2>2, <2>3, <2>4
<1>3. k - i \in Nat /\ k - i \in 0..(k - i) /\ i + (k - i) = k
  OBVIOUS
<1> HIDE DEF good
<1>4. k - i \in good
  <2>1. \A n \in 0..(k - i) : n \in good
    BY <1>1, <1>2, <1>3, AllUpTo
  <2> QED BY <1>3, <2>1
<1> QED BY <1>3, <1>4 DEF good

\* What Parse leaves is no longer than what it is given.
LEMMA ParseType ==
    ASSUME NEW p \in Seq(Bytes)
    PROVE  Parse(p) \in Loops /\ Len(Parse(p).left) <= Len(p)
<1> DEFINE k == Len(p)
<1>1. PICK f : Turns(f, p, k) /\ Parse(p) = f[k]
  BY ParseIs
<1>2. k \in Nat /\ <<>> \in Seq(Bytes) /\ Len(<<>>) = 0
  OBVIOUS
<1>3. Untorn(p, <<>>)
  <2>1. \A d \in 0..(Len(p) - 1) : Drop(p, d) \o <<>> = Drop(p, d)
    BY DropIs, ConcatEmptySeq
  <2> QED BY <2>1 DEF Untorn
<1>4. p \o <<>> = p
  BY ConcatEmptySeq
<1>5. \E j \in 0..k : j <= k - Len(f[k].left)
  <2>1. Turns(f, p \o <<>>, Len(p) + Len(<<>>))
    BY <1>1, <1>2, <1>4
  <2> QED BY <1>1, <1>2, <1>3, <2>1, SameTurns
<1>6. f[k] \in Loops
  BY <1>1, <1>2 DEF Turns
<1>7. Len(f[k].left) \in Nat
  BY <1>6 DEF Loops
<1> HIDE DEF k
<1>8. Len(f[k].left) <= k
  BY <1>2, <1>5, <1>7
<1> QED BY <1>1, <1>6, <1>8 DEF k

\* The keys of what comes in two pieces are those of the whole, if the cut tears no marker.
LEMMA ParseOfMore ==
    ASSUME NEW p \in Seq(Bytes), NEW x \in Seq(Bytes), Untorn(p, x)
    PROVE  LET more == Parse(Parse(p).left \o x)
           IN Parse(p \o x).events = Parse(p).events \o more.events /\ Parse(p \o x).left = more.left
<1> DEFINE w == p \o x
           k == Len(p)
           K == Len(p) + Len(x)
           l == Parse(p).left
           q == l \o x
           m == Len(q)
<1>1. w \in Seq(Bytes) /\ Len(w) = K /\ k \in Nat /\ K \in Nat /\ Len(x) \in Nat
  BY ConcatIs
<1>2. Parse(p) \in Loops /\ l \in Seq(Bytes) /\ Parse(p).events \in Seq(Sent)
  BY ParseType DEF Loops
<1>3. q \in Seq(Bytes) /\ m = Len(l) + Len(x) /\ Len(l) \in Nat /\ m \in Nat
  BY <1>2, ConcatIs
<1>4. PICK f : Turns(f, p, k) /\ Parse(p) = f[k]
  BY ParseIs
<1>5. PICK g : Turns(g, w, K) /\ Parse(w) = g[K]
  BY <1>1, ParseIs
<1>6. PICK h : Turns(h, q, m) /\ Parse(q) = h[m]
  BY <1>3, ParseIs
<1>7. PICK j \in 0..k : j <= k - Len(l) /\ g[j].events = Parse(p).events /\ g[j].left = q
  BY <1>4, <1>5, SameTurns
<1> HIDE DEF w, k, K, l, q, m
<1>8. j \in Nat /\ j + m <= K
  BY <1>1, <1>3, <1>7 DEF k, K
<1>9. g \in [0..K -> Loops] /\ \A n \in 1..K : g[n] = Turn(g[n - 1])
  BY <1>5 DEF Turns
<1>10. \A n \in 0..m : g[j + n].events = Parse(p).events \o h[n].events /\ g[j + n].left = h[n].left
  <2>1. GoesOn(g, j, h, m)
    <3>1. m \in Nat /\ Turns(h, q, m) /\ K \in Nat /\ Turns(g, w, K) /\ j \in Nat /\ j + m <= K /\ g[j].left = q
      BY <1>1, <1>3, <1>5, <1>6, <1>7, <1>8
    <3> QED BY <3>1, MoreTurns
  <2> QED BY <1>7, <2>1 DEF GoesOn
<1>11. g[j + m].events = Parse(p).events \o h[m].events /\ g[j + m].left = h[m].left
  <2>1. m \in 0..m
    BY <1>3
  <2> QED BY <1>10, <2>1
<1>12. Stuck(h[m].left)
  BY <1>3, <1>6, TurnsEnd DEF m
<1>13. g[K] = g[j + m]
  <2>1. j + m \in 0..K
    BY <1>1, <1>3, <1>8
  <2>2. Stuck(g[j + m].left)
    BY <1>11, <1>12
  <2> QED BY <1>1, <1>9, <2>1, <2>2, TurnsStay
<1> QED BY <1>5, <1>6, <1>11, <1>13 DEF w, q, l

\* What was read and not torn gave the keys that the whole gives.
ReaderInv ==
    /\ stream \in Seq(Bytes) /\ read \in 0..Len(stream) /\ torn \in BOOLEAN
    /\ pending \in Seq(Bytes) /\ Len(pending) <= read /\ events \in Seq(Sent)
    /\ ~torn =>
          /\ events = Parse(SubSeq(stream, 1, read)).events /\ pending = Parse(SubSeq(stream, 1, read)).left
          /\ ~Inside(read)

\* A cut that is inside no marker tears none.
LEMMA OutsideIsUntorn ==
    ASSUME NEW s \in Seq(Bytes), NEW r \in 0..Len(s), NEW n \in 0..(Len(s) - r), s = stream, ~Inside(r)
    PROVE  Untorn(SubSeq(s, 1, r), SubSeq(s, r + 1, r + n))
<1> DEFINE p == SubSeq(s, 1, r)
           x == SubSeq(s, r + 1, r + n)
           w == SubSeq(s, 1, r + n)
           y == SubSeq(s, r + n + 1, Len(s))
<1>1. Len(s) \in Nat /\ r \in Nat /\ n \in Nat /\ r + n \in 0..Len(s)
  OBVIOUS
<1>2. /\ p \in Seq(Bytes) /\ Len(p) = r /\ x \in Seq(Bytes) /\ Len(x) = n
      /\ w \in Seq(Bytes) /\ Len(w) = r + n /\ y \in Seq(Bytes)
  BY <1>1
<1>3. p \o x = w /\ w \o y = s
  <2>1. p \o x = w
    BY <1>1, ConcatAdjacentSubSeq
  <2>2. w \o y = SubSeq(s, 1, Len(s))
    <3> DEFINE a == r + n
    <3>1. 1 \in 1..(Len(s) + 1) /\ a \in (1 - 1)..Len(s) /\ Len(s) \in a..Len(s)
      BY <1>1
    <3> HIDE DEF a
    <3>2. SubSeq(s, 1, a) \o SubSeq(s, a + 1, Len(s)) = SubSeq(s, 1, Len(s))
      BY <3>1, ConcatAdjacentSubSeq
    <3> QED BY <3>2 DEF a
  <2>3. SubSeq(s, 1, Len(s)) = s
    BY SubSeqFull
  <2> QED BY <2>1, <2>2, <2>3
<1> HIDE DEF p, x, w, y
<1>12. \A a, b \in Seq(Bytes), m \in {PasteStart, UpKey} :
          IsPrefix(m, a) <=> IsPrefix(m, a \o b) /\ 3 <= Len(a)
  BY MarkerStays
<1> SUFFICES ASSUME NEW d \in 0..(Len(p) - 1), Begins(Drop(p, d) \o x)
             PROVE  Begins(Drop(p, d))
  BY DEF Untorn, p, x
<1>4. d \in 0..Len(p) /\ d \in 0..Len(w) /\ d \in 0..Len(s)
  BY <1>1, <1>2
<1>5. Drop(p, d) \o x = Drop(w, d) /\ Drop(w, d) \o y = Drop(s, d)
  <2>1. Drop(p \o x, d) = Drop(p, d) \o x
    BY <1>2, <1>4, DropConcat
  <2>2. Drop(w \o y, d) = Drop(w, d) \o y
    BY <1>2, <1>4, DropConcat
  <2> QED BY <1>3, <2>1, <2>2
<1>6. PICK m \in {PasteStart, UpKey} : IsPrefix(m, Drop(w, d))
  BY <1>5 DEF Begins
<1>7. Drop(p, d) \in Seq(Bytes) /\ Len(Drop(p, d)) = Len(p) - d /\ Drop(w, d) \in Seq(Bytes)
  BY <1>2, <1>4, DropIs
<1>8. IsPrefix(m, Drop(s, d))
  <2>1. IsPrefix(m, Drop(w, d) \o y)
    BY <1>2, <1>6, <1>7, <1>12
  <2> QED BY <1>5, <2>1
<1>9. ~(d + 1 <= r /\ r < (d + 1) + Len(m) - 1)
  <2>1. d + 1 \in 1..Len(stream) /\ (d + 1) - 1 = d
    BY <1>1, <1>2
  <2>2. IsPrefix(m, Drop(stream, (d + 1) - 1))
    BY <1>8, <2>1
  <2> QED BY <2>1, <2>2, Zenon DEF Inside
<1>10. 3 <= Len(Drop(p, d))
  <2>1. Len(m) = 3
    BY Markers
  <2> QED BY <1>1, <1>2, <1>7, <1>9, <2>1
<1>11. IsPrefix(m, Drop(p, d))
  <2>1. IsPrefix(m, Drop(p, d) \o x)
    BY <1>5, <1>6
  <2> QED BY <1>2, <1>7, <1>10, <1>12, <2>1
<1> QED BY <1>11 DEF Begins

\* It holds when nothing has been read.
LEMMA ReaderStart == ReaderInit => ReaderInv
<1> SUFFICES ASSUME ReaderInit
             PROVE  ReaderInv
  OBVIOUS
<1>1. /\ stream \in Seq(Bytes) /\ read = 0 /\ pending = <<>> /\ events = <<>> /\ torn = FALSE
      /\ Len(stream) \in Nat
  BY ReaderAssumption DEF ReaderInit
<1>2. SubSeq(stream, 1, read) = <<>> /\ <<>> \in Seq(Bytes) /\ <<>> \in Seq(Sent) /\ Len(<<>>) = 0
  BY <1>1
<1>3. Parse(<<>>).events = <<>> /\ Parse(<<>>).left = <<>>
  <2>1. PICK f : Turns(f, <<>>, Len(<<>>)) /\ Parse(<<>>) = f[Len(<<>>)]
    BY <1>2, ParseIs
  <2>2. f[0] = [events |-> <<>>, left |-> <<>>]
    BY <2>1 DEF Turns
  <2> QED BY <1>2, <2>1, <2>2
<1>4. ~Inside(read)
  <2> SUFFICES ASSUME Inside(read)
               PROVE  FALSE
    OBVIOUS
  <2>1. \E i \in 1..Len(stream) : i <= read
    BY Zenon DEF Inside
  <2> QED BY <1>1, <2>1
<1>5. Parse(SubSeq(stream, 1, read)).events = events /\ Parse(SubSeq(stream, 1, read)).left = pending
  BY <1>1, <1>2, <1>3
<1>6. read \in 0..Len(stream) /\ pending \in Seq(Bytes) /\ events \in Seq(Sent) /\ Len(pending) <= read
  BY <1>1, <1>2
<1> QED BY <1>1, <1>4, <1>5, <1>6 DEF ReaderInv

\* Reading some more bytes keeps it.
LEMMA ReadKeeps ==
    ASSUME ReaderInv, NEW n \in 1..Len(stream), Read(n)
    PROVE  ReaderInv'
<1> DEFINE p == SubSeq(stream, 1, read)
           x == SubSeq(stream, read + 1, read + n)
           parsed == Parse(pending \o x)
<1>1. /\ stream \in Seq(Bytes) /\ read \in 0..Len(stream) /\ torn \in BOOLEAN /\ Len(stream) \in Nat
      /\ pending \in Seq(Bytes) /\ Len(pending) <= read /\ events \in Seq(Sent)
  BY DEF ReaderInv
<1>2. /\ read + n <= Len(stream) /\ read' = read + n /\ stream' = stream
      /\ events' = events \o parsed.events /\ pending' = parsed.left /\ torn' = (torn \/ Inside(read'))
  BY DEF Read
<1>3. p \in Seq(Bytes) /\ x \in Seq(Bytes) /\ Len(x) = n /\ n \in Nat /\ read \in Nat
  BY <1>1, <1>2
<1>4. p \o x = SubSeq(stream, 1, read + n)
  BY <1>1, <1>2, <1>3, ConcatAdjacentSubSeq
<1>5. pending \o x \in Seq(Bytes) /\ Len(pending \o x) = Len(pending) + Len(x) /\ Len(pending) \in Nat
  BY <1>1, <1>3, ConcatIs
<1>6. parsed \in Loops /\ Len(parsed.left) <= Len(pending \o x)
  BY <1>5, ParseType
<1> HIDE DEF p, x, parsed
<1>7. parsed.events \in Seq(Sent) /\ parsed.left \in Seq(Bytes) /\ Len(parsed.left) \in Nat
  BY <1>6 DEF Loops
<1>8. /\ stream' \in Seq(Bytes) /\ read' \in 0..Len(stream') /\ torn' \in BOOLEAN
      /\ pending' \in Seq(Bytes) /\ Len(pending') <= read' /\ events' \in Seq(Sent)
  <2>1. read' \in 0..Len(stream') /\ Len(parsed.left) <= read'
    BY <1>1, <1>2, <1>3, <1>5, <1>6, <1>7
  <2>2. torn' \in BOOLEAN
    BY <1>1, <1>2, Zenon DEF Inside
  <2> QED BY <1>1, <1>2, <1>7, <2>1, <2>2, ConcatIs
<1>9. ASSUME ~torn'
      PROVE  /\ events' = Parse(SubSeq(stream', 1, read')).events /\ pending' = Parse(SubSeq(stream', 1, read')).left
             /\ ~Inside(read)'
  <2>1. ~torn /\ ~Inside(read')
    BY <1>2, <1>9
  <2>2. events = Parse(p).events /\ pending = Parse(p).left /\ ~Inside(read)
    BY <2>1 DEF ReaderInv, p
  <2>3. Untorn(p, x)
    <3>1. n \in 0..(Len(stream) - read)
      BY <1>1, <1>2, <1>3
    <3> QED BY <1>1, <2>2, <3>1, OutsideIsUntorn DEF p, x
  <2>4. Parse(p \o x).events = events \o parsed.events /\ Parse(p \o x).left = parsed.left
    BY <1>3, <2>2, <2>3, ParseOfMore DEF parsed
  <2>5. ~Inside(read)'
    BY <1>2, <2>1 DEF Inside
  <2> QED BY <1>2, <1>4, <2>4, <2>5
<1> QED BY <1>8, <1>9 DEF ReaderInv

\* Every step of the reader keeps it.
LEMMA ReaderStep == ReaderInv /\ [ReaderNext]_readerVars => ReaderInv'
<1>1. ASSUME ReaderInv, UNCHANGED readerVars PROVE ReaderInv'
  BY <1>1 DEF ReaderInv, readerVars, Inside
<1> QED BY <1>1, ReadKeeps DEF ReaderNext

\* How the bytes of the terminal were cut into reads is not to be seen in the keys and pastes, as
\* long as no read ended within a marker: for any streams and reads.
THEOREM CutsAreHidden == ReaderSpec => []CutsDoNotShow
<1>1. ReaderInv /\ [ReaderNext]_readerVars => ReaderInv'
  BY ReaderStep
<1>2. ReaderInv => CutsDoNotShow
  BY DEF ReaderInv, CutsDoNotShow
<1> QED BY <1>1, <1>2, ReaderStart, PTL DEF ReaderSpec

\* The reader has read a prefix of what the terminal sends and holds back only bytes of it.
THEOREM ReaderTypeCorrect == ReaderSpec => []ReaderTypeOK
<1>1. ReaderInv /\ [ReaderNext]_readerVars => ReaderInv'
  BY ReaderStep
<1>2. ReaderInv => ReaderTypeOK
  BY DEF ReaderInv, ReaderTypeOK
<1> QED BY <1>1, <1>2, ReaderStart, PTL DEF ReaderSpec

-----------------------------------------------------------------------------
(***************************************************************************)
(* ProxyRows: a cursor that the user has placed stays where it is.         *)
(*                                                                         *)
(* A refresh rewrites every row and moves both cursors, by way of the      *)
(* names they remember.  The argument goes method by method: what each one *)
(* does to a cursor; on which rows a clamp lets it land; that placing it   *)
(* on new rows lands it on the group and the node of its names, which is   *)
(* what it holds after; and that the rows of every listing, key and        *)
(* refresh are rows that have names (Fit), so that names find them.        *)

(* Names that mean a row, and rows found by them.                          *)

\* To mean the same row is an equivalence of names.
LEMMA Matches ==
    \A d, e, f : /\ KeyMatches(d, d)
                 /\ KeyMatches(d, e) => KeyMatches(e, d)
                 /\ KeyMatches(d, e) /\ KeyMatches(e, f) => KeyMatches(d, f)
BY DEF KeyMatches

\* The first of some places is one of them.
LEMMA FirstPlaceIs ==
    ASSUME NEW places \in SUBSET (Nat \ {0})
    PROVE  IF places = {} THEN FirstPlace(places) = 0 ELSE FirstPlace(places) \in places
<1>1. places # {} => Min(places) \in places
  BY Least
<1> QED BY <1>1 DEF FirstPlace

\* A row that is found has a name that matches; when none is found, no name does.
LEMMA FindIs ==
    ASSUME NEW X, NEW names \in Seq(X), NEW key
    PROVE  \/ FindName(names, key) = 0 /\ (key = NoKey \/ \A i \in DOMAIN names : ~KeyMatches(names[i], key))
           \/ /\ FindName(names, key) \in DOMAIN names /\ FindName(names, key) # 0
              /\ key # NoKey /\ KeyMatches(names[FindName(names, key)], key)
<1> DEFINE places == {i \in DOMAIN names : key # NoKey /\ KeyMatches(names[i], key)}
<1>1. places \in SUBSET (Nat \ {0})
  OBVIOUS
<1>2. FindName(names, key) = FirstPlace(places)
  BY DEF FindName
<1>3. IF places = {} THEN FindName(names, key) = 0 ELSE FindName(names, key) \in places
  BY <1>1, <1>2, FirstPlaceIs
<1>4. CASE places = {}
  BY <1>3, <1>4
<1>5. CASE places # {}
  BY <1>1, <1>3, <1>5
<1> QED BY <1>4, <1>5

\* Names that match find the same row.
LEMMA FindSame ==
    \A names, key, other : key # NoKey /\ other # NoKey /\ KeyMatches(key, other)
                           => FindName(names, key) = FindName(names, other)
<1> SUFFICES ASSUME NEW names, NEW key, NEW other, key # NoKey, other # NoKey, KeyMatches(key, other)
             PROVE  FindName(names, key) = FindName(names, other)
  OBVIOUS
<1>1. \A n : KeyMatches(n, key) <=> KeyMatches(n, other)
  BY Matches
<1>2. {i \in DOMAIN names : key # NoKey /\ KeyMatches(names[i], key)}
      = {i \in DOMAIN names : other # NoKey /\ KeyMatches(names[i], other)}
  BY <1>1
<1> QED BY <1>2 DEF FindName

-----------------------------------------------------------------------------
(* What each method does to a cursor.                                      *)

\* The rows are the same, and so is what chooses among them.
SameRows(s, t) ==
    t.groups = s.groups /\ t.pane = s.pane /\ t.query = s.query /\ t.meta = s.meta /\ t.sort = s.sort

\* Only cursor c has changed, to these rows and names.
Sets(s, t, c, group, node, gkey, nkey) ==
    /\ IsApp(t) /\ SameRows(s, t) /\ \A d \in Cursors \ {c} : t[d] = s[d]
    /\ t[c].group = group /\ t[c].node = node /\ t[c].gkey = gkey /\ t[c].nkey = nkey /\ t[c].sticky = s[c].sticky

\* Where the remembered names are found.
FoundGroup(s, c) == FindName(RowNames(s), s[c].gkey)
FoundNode(s, c) == IF HasGroup(s, c) THEN FindName(Group(s, c).nodes, s[c].nkey) ELSE 0

\* Setting a field of a cursor does no more.
LEMMA OneSets ==
    ASSUME NEW s, IsApp(s), NEW c \in Cursors, NEW x
    PROVE  /\ Sets(s, [s EXCEPT ![c].group = x], c, x, s[c].node, s[c].gkey, s[c].nkey)
           /\ Sets(s, [s EXCEPT ![c].node = x], c, s[c].group, x, s[c].gkey, s[c].nkey)
           /\ Sets(s, [s EXCEPT ![c].gkey = x], c, s[c].group, s[c].node, x, s[c].nkey)
           /\ Sets(s, [s EXCEPT ![c].nkey = x], c, s[c].group, s[c].node, s[c].gkey, x)
<1>1. ASSUME NEW at, IsCursor(at), at.sticky = s[c].sticky
      PROVE  Sets(s, [s EXCEPT ![c] = at], c, at.group, at.node, at.gkey, at.nkey)
  <2> DEFINE t == [s EXCEPT ![c] = at]
  <2>1. t = [f \in AppFields |-> t[f]] /\ \A f \in AppFields : t[f] = IF f = c THEN at ELSE s[f]
    BY DEF IsApp
  <2>2. /\ Cursors \subseteq AppFields
        /\ {"groups", "pane", "query", "meta", "sort"} \subseteq AppFields \ Cursors
    BY DEF AppFields, Cursors
  <2> HIDE DEF t
  <2>3. IsApp(t)
    BY <1>1, <2>1, <2>2 DEF IsApp
  <2>6. t[c] = at /\ at.sticky = s[c].sticky
    BY <1>1, <2>1, <2>2
  <2>4. SameRows(s, t)
    BY <2>1, <2>2 DEF SameRows
  <2>5. t[c] = at /\ \A d \in Cursors \ {c} : t[d] = s[d]
    BY <2>1, <2>2
  <2> QED BY <2>3, <2>4, <2>5, <2>6 DEF Sets, t
<1>2. s[c] = [group |-> s[c].group, node |-> s[c].node, gkey |-> s[c].gkey, nkey |-> s[c].nkey, sticky |-> s[c].sticky]
  BY DEF IsApp, IsCursor
<1> DEFINE G == [s[c] EXCEPT !.group = x]
           N == [s[c] EXCEPT !.node = x]
           K == [s[c] EXCEPT !.gkey = x]
           L == [s[c] EXCEPT !.nkey = x]
<1>3. IsCursor(G) /\ G.group = x /\ G.node = s[c].node /\ G.gkey = s[c].gkey /\ G.nkey = s[c].nkey /\ G.sticky = s[c].sticky
  BY <1>2 DEF IsCursor
<1>4. IsCursor(N) /\ N.group = s[c].group /\ N.node = x /\ N.gkey = s[c].gkey /\ N.nkey = s[c].nkey /\ N.sticky = s[c].sticky
  BY <1>2 DEF IsCursor
<1>5. IsCursor(K) /\ K.group = s[c].group /\ K.node = s[c].node /\ K.gkey = x /\ K.nkey = s[c].nkey /\ K.sticky = s[c].sticky
  BY <1>2 DEF IsCursor
<1>6. IsCursor(L) /\ L.group = s[c].group /\ L.node = s[c].node /\ L.gkey = s[c].gkey /\ L.nkey = x /\ L.sticky = s[c].sticky
  BY <1>2 DEF IsCursor
<1>7. /\ [s EXCEPT ![c].group = x] = [s EXCEPT ![c] = G] /\ [s EXCEPT ![c].node = x] = [s EXCEPT ![c] = N]
      /\ [s EXCEPT ![c].gkey = x] = [s EXCEPT ![c] = K] /\ [s EXCEPT ![c].nkey = x] = [s EXCEPT ![c] = L]
  OBVIOUS
<1> HIDE DEF G, N, K, L
<1>8. /\ Sets(s, [s EXCEPT ![c] = G], c, x, s[c].node, s[c].gkey, s[c].nkey)
      /\ Sets(s, [s EXCEPT ![c] = N], c, s[c].group, x, s[c].gkey, s[c].nkey)
  BY <1>1, <1>3, <1>4
<1>9. /\ Sets(s, [s EXCEPT ![c] = K], c, s[c].group, s[c].node, x, s[c].nkey)
      /\ Sets(s, [s EXCEPT ![c] = L], c, s[c].group, s[c].node, s[c].gkey, x)
  BY <1>1, <1>5, <1>6
<1> QED BY <1>7, <1>8, <1>9

\* A screen that stays.
LEMMA ItselfSets == ASSUME NEW s, IsApp(s), NEW c PROVE Sets(s, s, c, s[c].group, s[c].node, s[c].gkey, s[c].nkey)
  BY DEF Sets, SameRows

\* Two changes of one cursor.
LEMMA SetsOn ==
    \A s, t, u, c, g, n, k, l, G, N, K, L :
        Sets(s, t, c, g, n, k, l) /\ Sets(t, u, c, G, N, K, L) => Sets(s, u, c, G, N, K, L)
  BY DEF Sets, SameRows

\* The methods that move a cursor between groups, or remember its group.
LEMMA GroupSets ==
    ASSUME NEW s, IsApp(s), NEW c \in Cursors
    PROVE  /\ Sets(s, RestoreGroup(s, c), c, IF FoundGroup(s, c) = 0 THEN s[c].group ELSE FoundGroup(s, c),
                   s[c].node, s[c].gkey, s[c].nkey)
           /\ Sets(s, ClampGroup(s, c), c, ClampTo(s[c].group, GroupRows(s, c)), s[c].node, s[c].gkey, s[c].nkey)
           /\ Sets(s, RememberGroup(s, c), c, s[c].group, s[c].node,
                   IF HasGroup(s, c) THEN Group(s, c).name ELSE s[c].gkey, s[c].nkey)
<1> DEFINE i == FoundGroup(s, c)
           x == ClampTo(s[c].group, GroupRows(s, c))
<1>1. RestoreGroup(s, c) = IF i = 0 THEN s ELSE [s EXCEPT ![c].group = i]
  BY DEF RestoreGroup, FoundGroup
<1>2. ClampGroup(s, c) = [s EXCEPT ![c].group = x]
  BY DEF ClampGroup
<1>3. RememberGroup(s, c) = IF HasGroup(s, c) THEN [s EXCEPT ![c].gkey = Group(s, c).name] ELSE s
  BY DEF RememberGroup
<1> HIDE DEF i, x
<1>4. /\ Sets(s, [s EXCEPT ![c].group = i], c, i, s[c].node, s[c].gkey, s[c].nkey)
      /\ Sets(s, [s EXCEPT ![c].group = x], c, x, s[c].node, s[c].gkey, s[c].nkey)
      /\ Sets(s, [s EXCEPT ![c].gkey = Group(s, c).name], c, s[c].group, s[c].node, Group(s, c).name, s[c].nkey)
      /\ Sets(s, s, c, s[c].group, s[c].node, s[c].gkey, s[c].nkey)
  BY OneSets, ItselfSets
<1>5. Sets(s, RestoreGroup(s, c), c, IF i = 0 THEN s[c].group ELSE i, s[c].node, s[c].gkey, s[c].nkey)
  BY <1>1, <1>4
<1>6. Sets(s, RememberGroup(s, c), c, s[c].group, s[c].node, IF HasGroup(s, c) THEN Group(s, c).name ELSE s[c].gkey, s[c].nkey)
  BY <1>3, <1>4
<1> QED BY <1>2, <1>4, <1>5, <1>6 DEF i, x

\* What a screen shows of its rows depends on the rows, the pane, the search, the measures and the order.
LEMMA RowsDepend ==
    \A s, t, c : SameRows(s, t) =>
        /\ RowNames(t) = RowNames(s) /\ GroupRows(t, c) = GroupRows(s, c)
        /\ t[c].group = s[c].group =>
              /\ HasGroup(t, c) = HasGroup(s, c) /\ Group(t, c) = Group(s, c) /\ NodeRows(t, c) = NodeRows(s, c)
              /\ GroupName(t, c) = GroupName(s, c)
              /\ t[c].node = s[c].node => NodeAt(t, c) = NodeAt(s, c)
<1> SUFFICES ASSUME NEW s, NEW t, NEW c, SameRows(s, t)
             PROVE  /\ RowNames(t) = RowNames(s) /\ GroupRows(t, c) = GroupRows(s, c)
                    /\ t[c].group = s[c].group =>
                          /\ HasGroup(t, c) = HasGroup(s, c) /\ Group(t, c) = Group(s, c) /\ NodeRows(t, c) = NodeRows(s, c)
                          /\ GroupName(t, c) = GroupName(s, c)
                          /\ t[c].node = s[c].node => NodeAt(t, c) = NodeAt(s, c)
  OBVIOUS
<1>1. t.groups = s.groups /\ t.pane = s.pane /\ t.query = s.query /\ t.meta = s.meta /\ t.sort = s.sort
  BY DEF SameRows
<1>2. RowNames(t) = RowNames(s) /\ GroupRows(t, c) = GroupRows(s, c)
  BY <1>1 DEF RowNames, GroupRows
<1>3. \A n : Meta(t, n) = Meta(s, n)
  BY <1>1 DEF Meta
<1>4. \A n : SortKey(t, n) = SortKey(s, n)
  BY <1>1, <1>3 DEF SortKey
<1>5. \A nodes, i, j : SortsBefore(t, nodes, i, j) <=> SortsBefore(s, nodes, i, j)
  BY <1>4 DEF SortsBefore
<1>6. \A nodes, rows : SortNodes(t, nodes, rows) = SortNodes(s, nodes, rows)
  BY <1>5 DEF SortNodes
<1>7. ASSUME t[c].group = s[c].group
      PROVE  HasGroup(t, c) = HasGroup(s, c) /\ Group(t, c) = Group(s, c) /\ GroupName(t, c) = GroupName(s, c)
  BY <1>1, <1>7 DEF HasGroup, Group, GroupName
<1>8. ASSUME t[c].group = s[c].group
      PROVE  NodeRows(t, c) = NodeRows(s, c)
  <2> DEFINE nodes == Group(s, c).nodes
             rows(u) == {i \in DOMAIN nodes : \/ c = "dash" \/ u.pane # "nodes" \/ u.query = NoSearch
                            \/ u.query \cap {nodes[i], Meta(u, nodes[i]).delay, Meta(u, nodes[i]).alive} # {}}
  <2>1. rows(t) = rows(s)
    BY <1>1, <1>3
  <2>2. NodeRows(s, c) = IF ~HasGroup(s, c) THEN <<>> ELSE SortNodes(s, nodes, rows(s))
    BY DEF NodeRows
  <2>3. NodeRows(t, c) = IF ~HasGroup(t, c) THEN <<>> ELSE SortNodes(t, nodes, rows(t))
    BY <1>7, <1>8 DEF NodeRows
  <2> HIDE DEF rows, nodes
  <2> QED BY <1>6, <1>7, <1>8, <2>1, <2>2, <2>3
<1>9. ASSUME t[c].group = s[c].group, t[c].node = s[c].node
      PROVE  NodeAt(t, c) = NodeAt(s, c)
  BY <1>7, <1>9 DEF NodeAt
<1> QED BY <1>2, <1>7, <1>8, <1>9

\* The methods that move a cursor between nodes, or remember its node.
LEMMA NodeSets ==
    ASSUME NEW s, IsApp(s), NEW c \in Cursors
    PROVE  /\ Sets(s, RestoreNode(s, c), c, s[c].group, IF FoundNode(s, c) = 0 THEN s[c].node ELSE FoundNode(s, c),
                   s[c].gkey, s[c].nkey)
           /\ Sets(s, ClampNode(s, c), c, s[c].group,
                   ClampTo(IF FoundNode(s, c) = 0 THEN s[c].node ELSE FoundNode(s, c), NodeRows(s, c)),
                   s[c].gkey, s[c].nkey)
           /\ Sets(s, RememberNode(s, c), c, s[c].group, s[c].node,
                   IF SelectedNode(s, c) = NoKey THEN s[c].gkey ELSE Group(s, c).name,
                   IF SelectedNode(s, c) = NoKey THEN s[c].nkey ELSE SelectedNode(s, c))
<1> DEFINE i == FoundNode(s, c)
           at == IF i = 0 THEN s[c].node ELSE i
           r == RestoreNode(s, c)
           n == SelectedNode(s, c)
           t == [s EXCEPT ![c].gkey = Group(s, c).name]
<1>1. Sets(s, r, c, s[c].group, at, s[c].gkey, s[c].nkey)
  <2>1. r = IF i = 0 THEN s ELSE [s EXCEPT ![c].node = i]
    BY DEF RestoreNode, FoundNode
  <2> HIDE DEF i, r
  <2>2. /\ Sets(s, [s EXCEPT ![c].node = i], c, s[c].group, i, s[c].gkey, s[c].nkey)
        /\ Sets(s, s, c, s[c].group, s[c].node, s[c].gkey, s[c].nkey)
    BY OneSets, ItselfSets
  <2> QED BY <2>1, <2>2
<1>2. IsApp(r) /\ r[c].node = at /\ NodeRows(r, c) = NodeRows(s, c)
  BY <1>1, RowsDepend DEF Sets
<1>3. ClampNode(s, c) = [r EXCEPT ![c].node = ClampTo(r[c].node, NodeRows(r, c))]
  BY DEF ClampNode
<1> HIDE DEF r, i, n
<1>4. Sets(s, ClampNode(s, c), c, s[c].group, ClampTo(at, NodeRows(s, c)), s[c].gkey, s[c].nkey)
  <2> DEFINE x == ClampTo(at, NodeRows(s, c))
  <2>1. ClampNode(s, c) = [r EXCEPT ![c].node = x]
    BY <1>2, <1>3
  <2> HIDE DEF x
  <2>2. Sets(r, [r EXCEPT ![c].node = x], c, r[c].group, x, r[c].gkey, r[c].nkey)
    BY <1>2, OneSets
  <2>3. r[c].group = s[c].group /\ r[c].gkey = s[c].gkey /\ r[c].nkey = s[c].nkey
    BY <1>1 DEF Sets
  <2> QED BY <1>1, <2>1, <2>2, <2>3, SetsOn DEF x
<1>5. Sets(s, RememberNode(s, c), c, s[c].group, s[c].node, IF n = NoKey THEN s[c].gkey ELSE Group(s, c).name,
           IF n = NoKey THEN s[c].nkey ELSE n)
  <2>1. [s EXCEPT ![c].gkey = Group(s, c).name, ![c].nkey = n] = [t EXCEPT ![c].nkey = n]
    OBVIOUS
  <2>2. RememberNode(s, c) = IF n = NoKey THEN s ELSE [t EXCEPT ![c].nkey = n]
    BY <2>1 DEF RememberNode, n
  <2>3. Sets(s, t, c, s[c].group, s[c].node, Group(s, c).name, s[c].nkey)
    BY OneSets
  <2> HIDE DEF t
  <2>4. Sets(t, [t EXCEPT ![c].nkey = n], c, t[c].group, t[c].node, t[c].gkey, n)
    <3>1. IsApp(t)
      BY <2>3 DEF Sets
    <3> QED BY <3>1, OneSets
  <2>5. t[c].group = s[c].group /\ t[c].node = s[c].node /\ t[c].gkey = Group(s, c).name
    BY <2>3 DEF Sets
  <2>6. Sets(s, [t EXCEPT ![c].nkey = n], c, s[c].group, s[c].node, Group(s, c).name, n)
    BY <2>3, <2>4, <2>5, SetsOn
  <2>7. Sets(s, s, c, s[c].group, s[c].node, s[c].gkey, s[c].nkey)
    BY ItselfSets
  <2> QED BY <2>2, <2>6, <2>7
<1> QED BY <1>1, <1>4, <1>5 DEF i, n, r

-----------------------------------------------------------------------------
(* The rows there are.                                                     *)

\* A list of rows.
Listed(groups) == groups \in Seq(Rows)

\* A name is never missing from a row.
LEMMA RowsAre ==
    ASSUME NEW groups, Listed(groups)
    PROVE  /\ Len(groups) \in Nat /\ DOMAIN groups = 1..Len(groups)
           /\ \A i \in DOMAIN groups : /\ groups[i] \in Rows /\ groups[i].name \in KnownNames /\ groups[i].name # NoKey
                                       /\ groups[i].nodes \in Seq(KnownNames)
                                       /\ \A k \in DOMAIN groups[i].nodes : groups[i].nodes[k] # NoKey
<1>1. groups \in Seq(Rows)
  BY DEF Listed
<1>2. \A i \in DOMAIN groups : groups[i] \in Rows
  BY <1>1
<1>3. \A g \in Rows : g.name \in KnownNames /\ g.nodes \in Seq(KnownNames)
  BY DEF Rows
<1>4. NoKey \notin KnownNames
  BY DEF KnownNames
<1>5. \A nodes \in Seq(KnownNames) : \A k \in DOMAIN nodes : nodes[k] # NoKey
  BY <1>4
<1>6. Len(groups) \in Nat /\ DOMAIN groups = 1..Len(groups)
  BY <1>1
<1> QED BY <1>2, <1>3, <1>4, <1>5, <1>6

\* The names of a list of groups are a list of names.
LEMMA NamesAre ==
    ASSUME NEW s, Listed(s.groups)
    PROVE  /\ RowNames(s) \in Seq(KnownNames) /\ DOMAIN RowNames(s) = DOMAIN s.groups
           /\ \A i \in DOMAIN s.groups : RowNames(s)[i] = s.groups[i].name
  BY RowsAre DEF RowNames

\* The rows of groups: some of the groups, and all of them on the dashboard.
LEMMA GroupRowsAre ==
    ASSUME NEW s, Listed(s.groups), NEW c
    PROVE  /\ GroupRows(s, c) \in Seq(Nat) /\ ToSet(GroupRows(s, c)) \subseteq DOMAIN s.groups
           /\ c = "dash" => ToSet(GroupRows(s, c)) = DOMAIN s.groups
<1> DEFINE places == {i \in DOMAIN s.groups :
                         \/ c = "dash" \/ s.pane # "groups" \/ s.query = NoSearch
                         \/ s.query \cap ({s.groups[i].name, s.groups[i].now} \cup ToSet(s.groups[i].nodes)) # {}}
           all == [i \in DOMAIN s.groups |-> i]
<1>1. GroupRows(s, c) = Retained(all, places)
  BY DEF GroupRows
<1>2. all \in Seq(Nat) /\ DOMAIN all = DOMAIN s.groups /\ \A i \in DOMAIN s.groups : all[i] = i
  BY RowsAre
<1>3. places \subseteq DOMAIN s.groups /\ (c = "dash" => places = DOMAIN s.groups)
  OBVIOUS
<1> HIDE DEF places, all
<1>4. Retained(all, places) \in Seq(Nat) /\ ToSet(Retained(all, places)) = {all[i] : i \in places \cap DOMAIN all}
  BY <1>2, RetainedIs
<1>5. {all[i] : i \in places \cap DOMAIN all} = places
  BY <1>2, <1>3
<1> QED BY <1>1, <1>3, <1>4, <1>5

\* Where a node sorts is a pair of numbers.
LEMMA SortKeyIs ==
    \A s, n : SortKey(s, n)[1] \in Nat /\ SortKey(s, n)[2] \in Nat
<1> SUFFICES ASSUME NEW s, NEW n
             PROVE  SortKey(s, n)[1] \in Nat /\ SortKey(s, n)[2] \in Nat
  OBVIOUS
<1> DEFINE d == DelayRank(Meta(s, n).delay)
           a == AliveRank(Meta(s, n).alive)
<1>1. d \in Nat /\ a \in Nat
  BY DEF DelayRank, AliveRank
<1>2. SortKey(s, n) = IF s.sort = "latency" THEN <<d, a>> ELSE IF s.sort = "alive" THEN <<a, d>> ELSE <<0, 0>>
  BY DEF SortKey
<1> HIDE DEF d, a
<1> QED BY <1>1, <1>2

\* Sorting the nodes loses none.
LEMMA NodesSort ==
    ASSUME NEW s, NEW nodes, NEW rows \in SUBSET Nat, IsFiniteSet(rows)
    PROVE  SortNodes(s, nodes, rows) \in Seq(Nat) /\ ToSet(SortNodes(s, nodes, rows)) = rows
<1> DEFINE R == {p \in rows \X rows : SortsBefore(s, nodes, p[1], p[2])}
           n == Cardinality(rows)
           In(order) == \A k, l \in DOMAIN order : k < l => SortsBefore(s, nodes, order[k], order[l])
           order == SortNodes(s, nodes, rows)
           key == [i \in rows |-> SortKey(s, nodes[i])]
<1>1. \A i, j \in rows : SortsBefore(s, nodes, i, j)
                          <=> \/ key[i][1] < key[j][1]
                              \/ key[i][1] = key[j][1] /\ (key[i][2] < key[j][2] \/ (key[i][2] = key[j][2] /\ i < j))
  BY DEF SortsBefore
<1>2. \A i \in rows : key[i][1] \in Nat /\ key[i][2] \in Nat /\ i \in Nat
  BY SortKeyIs
<1>3. \A i, j \in rows : <<i, j>> \in R <=> SortsBefore(s, nodes, i, j)
  OBVIOUS
<1> HIDE DEF key, R
<1>4. Orders(R, rows)
  <2>1. \A i \in rows : <<i, i>> \notin R
    BY <1>1, <1>2, <1>3
  <2>2. \A i, j, k \in rows : <<i, j>> \in R /\ <<j, k>> \in R => <<i, k>> \in R
    BY <1>1, <1>2, <1>3
  <2>3. ASSUME NEW i \in rows, NEW j \in rows
        PROVE  i = j \/ <<i, j>> \in R \/ <<j, i>> \in R
    <3> DEFINE a == key[i][1]
               b == key[j][1]
               x == key[i][2]
               y == key[j][2]
    <3>1. a \in Nat /\ b \in Nat /\ x \in Nat /\ y \in Nat /\ i \in Nat /\ j \in Nat
      BY <1>2
    <3>2. <<i, j>> \in R <=> a < b \/ (a = b /\ (x < y \/ (x = y /\ i < j)))
      BY <1>1, <1>3
    <3>3. <<j, i>> \in R <=> b < a \/ (b = a /\ (y < x \/ (y = x /\ j < i)))
      BY <1>1, <1>3
    <3> HIDE DEF a, b, x, y
    <3> QED BY <3>1, <3>2, <3>3
  <2> QED BY <2>1, <2>2, <2>3 DEF Orders
<1>5. PICK p : InOrder(p, R, rows)
  BY <1>4, Sorts
<1>6. p \in [1..n -> rows] /\ In(p)
  BY <1>3, <1>5 DEF InOrder
<1>7. order = CHOOSE o \in [1..n -> rows] : In(o)
  BY DEF SortNodes
<1> HIDE DEF order, In
<1>8. order \in [1..n -> rows]
  BY <1>6, <1>7
<1>9. n \in Nat /\ IsFiniteSet(1..n) /\ Cardinality(1..n) = n
  BY FS_CardinalityType, FS_Interval
<1>14. \A k, l \in 1..n : order[k] = order[l] => k = l
  <2> SUFFICES ASSUME NEW k \in 1..n, NEW l \in 1..n, order[k] = order[l], k # l
               PROVE  FALSE
    OBVIOUS
  <2>1. \A i \in rows : ~SortsBefore(s, nodes, i, i)
    BY <1>3, <1>4 DEF Orders
  <2>2. In(order)
    BY <1>6, <1>7
  <2>3. order[k] \in rows /\ order[l] \in rows /\ DOMAIN order = 1..n
    BY <1>8
  <2>4. CASE k < l
    BY <2>1, <2>2, <2>3, <2>4 DEF In
  <2>5. CASE l < k
    BY <2>1, <2>2, <2>3, <2>5 DEF In
  <2> QED BY <1>9, <2>4, <2>5
<1>15. \A i \in rows : \E k \in 1..n : order[k] = i
  <2>1. order \in Injection(1..n, rows)
    BY <1>8, <1>14 DEF Injection, IsInjective
  <2>2. order \in Surjection(1..n, rows)
    BY <1>9, <2>1, FS_Injection DEF n
  <2> QED BY <2>2 DEF Surjection
<1> HIDE DEF n
<1>11. order \in [1..n -> Nat]
  BY <1>8
<1>12. order \in Seq(Nat) /\ Len(order) = n
  BY <1>9, <1>11
<1>13. ToSet(order) = rows
  <2>1. DOMAIN order = 1..n /\ ToSet(order) = {order[k] : k \in DOMAIN order}
    BY <1>8 DEF ToSet
  <2> QED BY <1>8, <1>15, <2>1
<1> QED BY <1>12, <1>13 DEF order

\* The rows of nodes: some of the nodes of the group under the cursor, and all on the dashboard.
LEMMA NodeRowsAre ==
    ASSUME NEW s, Listed(s.groups), NEW c
    PROVE  /\ NodeRows(s, c) \in Seq(Nat)
           /\ ~HasGroup(s, c) => NodeRows(s, c) = <<>>
           /\ HasGroup(s, c) => /\ ToSet(NodeRows(s, c)) \subseteq DOMAIN Group(s, c).nodes
                                /\ c = "dash" => ToSet(NodeRows(s, c)) = DOMAIN Group(s, c).nodes
<1>1. CASE ~HasGroup(s, c)
  BY <1>1 DEF NodeRows
<1>2. CASE HasGroup(s, c)
  <2> DEFINE nodes == Group(s, c).nodes
             rows == {i \in DOMAIN nodes : \/ c = "dash" \/ s.pane # "nodes" \/ s.query = NoSearch
                         \/ s.query \cap {nodes[i], Meta(s, nodes[i]).delay, Meta(s, nodes[i]).alive} # {}}
  <2>1. NodeRows(s, c) = SortNodes(s, nodes, rows)
    BY <1>2 DEF NodeRows
  <2>2. nodes \in Seq(KnownNames)
    BY <1>2, RowsAre DEF HasGroup, Group
  <2>3. rows \subseteq DOMAIN nodes /\ (c = "dash" => rows = DOMAIN nodes)
    OBVIOUS
  <2> HIDE DEF rows, nodes
  <2>4. Len(nodes) \in Nat /\ DOMAIN nodes = 1..Len(nodes) /\ (DOMAIN nodes = {} => nodes = <<>>)
    BY <2>2
  <2>5. IsFiniteSet(rows) /\ rows \in SUBSET Nat
    <3>1. IsFiniteSet(DOMAIN nodes)
      BY <2>4, FS_Interval
    <3>2. IsFiniteSet(rows)
      BY <2>3, <3>1, FS_Subset
    <3> QED BY <2>3, <2>4, <3>2
  <2>6. SortNodes(s, nodes, rows) \in Seq(Nat) /\ ToSet(SortNodes(s, nodes, rows)) = rows
    BY <2>5, NodesSort
  <2> QED BY <1>2, <2>1, <2>3, <2>4, <2>6 DEF nodes
<1> QED BY <1>1, <1>2

-----------------------------------------------------------------------------
(* Where a clamp puts a cursor: on the rows of its remembered names.       *)

\* Each remembered name that is found on a row that shows has the cursor on that row.
Landed(s, c) ==
    /\ FoundGroup(s, c) # 0 /\ FoundGroup(s, c) \in ToSet(GroupRows(s, c)) => s[c].group = FoundGroup(s, c)
    /\ FoundNode(s, c) # 0 /\ FoundNode(s, c) \in ToSet(NodeRows(s, c)) => s[c].node = FoundNode(s, c)

\* A cursor that is on the rows stays.
LEMMA ClampStays == \A i, rows : i \in ToSet(rows) => ClampTo(i, rows) = i
<1>1. \A i : i \notin ToSet(<<>>)
  BY DEF ToSet
<1> QED BY <1>1 DEF ClampTo

\* What is found depends on the rows and the names.
LEMMA FoundDepends ==
    \A s, t, c : SameRows(s, t) =>
        /\ t[c].gkey = s[c].gkey => FoundGroup(t, c) = FoundGroup(s, c)
        /\ t[c].group = s[c].group /\ t[c].nkey = s[c].nkey => FoundNode(t, c) = FoundNode(s, c)
  BY RowsDepend DEF FoundGroup, FoundNode

\* So does where a cursor has landed.
LEMMA LandedDepends ==
    ASSUME NEW s, NEW t, NEW c, SameRows(s, t), t[c] = s[c], Landed(s, c)
    PROVE  Landed(t, c)
  BY RowsDepend, FoundDepends DEF Landed

\* Clamping a cursor moves it to its remembered names, which stay.
LEMMA ClampLands ==
    ASSUME NEW s, IsApp(s), NEW c \in Cursors
    PROVE  LET u == ClampCursor(s, c)
           IN Sets(s, u, c, u[c].group, u[c].node, s[c].gkey, s[c].nkey) /\ Landed(u, c)
<1> DEFINE r == RestoreGroup(s, c)
           k == ClampGroup(r, c)
           u == ClampCursor(s, c)
           at == IF FoundNode(k, c) = 0 THEN k[c].node ELSE FoundNode(k, c)
           there == IF FoundGroup(s, c) = 0 THEN s[c].group ELSE FoundGroup(s, c)
<1>1. Sets(s, r, c, there, s[c].node, s[c].gkey, s[c].nkey)
  BY GroupSets
<1>2. Sets(r, k, c, ClampTo(r[c].group, GroupRows(r, c)), r[c].node, r[c].gkey, r[c].nkey)
  <2>1. IsApp(r)
    BY <1>1 DEF Sets
  <2> HIDE DEF r
  <2> QED BY <2>1, GroupSets
<1>3. u = ClampNode(k, c)
  BY DEF ClampCursor
<1> HIDE DEF r, k, u
<1>4. Sets(k, u, c, k[c].group, ClampTo(at, NodeRows(k, c)), k[c].gkey, k[c].nkey)
  <2>1. IsApp(k)
    BY <1>2 DEF Sets
  <2> QED BY <1>3, <2>1, NodeSets
<1>5. /\ IsApp(u) /\ SameRows(s, r) /\ SameRows(r, k) /\ SameRows(k, u) /\ SameRows(s, u)
      /\ \A d \in Cursors \ {c} : u[d] = s[d]
      /\ u[c].gkey = s[c].gkey /\ u[c].nkey = s[c].nkey /\ u[c].sticky = s[c].sticky
      /\ k[c].gkey = s[c].gkey /\ k[c].nkey = s[c].nkey /\ u[c].group = k[c].group
      /\ r[c].group = there /\ k[c].group = ClampTo(there, GroupRows(r, c)) /\ u[c].node = ClampTo(at, NodeRows(k, c))
  BY <1>1, <1>2, <1>4 DEF Sets, SameRows
<1>6. Sets(s, u, c, u[c].group, u[c].node, s[c].gkey, s[c].nkey)
  BY <1>5 DEF Sets
<1>7. ASSUME FoundGroup(u, c) # 0, FoundGroup(u, c) \in ToSet(GroupRows(u, c))
      PROVE  u[c].group = FoundGroup(u, c)
  <2>1. FoundGroup(u, c) = FoundGroup(s, c) /\ GroupRows(u, c) = GroupRows(s, c) /\ GroupRows(r, c) = GroupRows(s, c)
    BY <1>5, FoundDepends, RowsDepend
  <2>2. there = FoundGroup(u, c)
    BY <1>7, <2>1
  <2> HIDE DEF there
  <2> QED BY <1>5, <1>7, <2>1, <2>2, ClampStays
<1>8. ASSUME FoundNode(u, c) # 0, FoundNode(u, c) \in ToSet(NodeRows(u, c))
      PROVE  u[c].node = FoundNode(u, c)
  <2>1. FoundNode(u, c) = FoundNode(k, c) /\ NodeRows(u, c) = NodeRows(k, c)
    BY <1>5, FoundDepends, RowsDepend
  <2>2. at = FoundNode(u, c)
    BY <1>8, <2>1
  <2> HIDE DEF at
  <2> QED BY <1>5, <1>8, <2>1, <2>2, ClampStays
<1>9. Landed(u, c)
  BY <1>7, <1>8 DEF Landed
<1> QED BY <1>6, <1>9 DEF u

\* Only rows and nodes of the cursors have moved.
Moves(s, t) ==
    /\ IsApp(t) /\ SameRows(s, t)
    /\ \A c \in Cursors : t[c].gkey = s[c].gkey /\ t[c].nkey = s[c].nkey /\ t[c].sticky = s[c].sticky

\* Clamping both cursors.
LEMMA ClampsLand ==
    ASSUME NEW s, IsApp(s)
    PROVE  Moves(s, ClampSelections(s)) /\ \A c \in Cursors : Landed(ClampSelections(s), c)
<1> DEFINE p == ClampCursor(s, "page")
           u == ClampCursor(p, "dash")
<1>1. ClampSelections(s) = u /\ Cursors = {"page", "dash"}
  BY DEF ClampSelections, Cursors
<1>2. Sets(s, p, "page", p["page"].group, p["page"].node, s["page"].gkey, s["page"].nkey) /\ Landed(p, "page")
  BY <1>1, ClampLands
<1> HIDE DEF p
<1>3. Sets(p, u, "dash", u["dash"].group, u["dash"].node, p["dash"].gkey, p["dash"].nkey) /\ Landed(u, "dash")
  BY <1>1, <1>2, ClampLands DEF Sets
<1> HIDE DEF u
<1>4. u["page"] = p["page"] /\ SameRows(p, u)
  BY <1>1, <1>3 DEF Sets
<1>5. Landed(u, "page")
  BY <1>2, <1>4, LandedDepends
<1>6. Moves(s, u)
  BY <1>1, <1>2, <1>3, <1>4 DEF Moves, Sets, SameRows
<1> QED BY <1>1, <1>3, <1>5, <1>6

-----------------------------------------------------------------------------
(* Names that survive new rows.                                            *)

\* Two names that mean the same row.
Means(key, other) == key # NoKey /\ other # NoKey /\ KeyMatches(key, other)

\* The cursor remembers the group, or node, that a name means: the page's goes by that name when the
\* user has placed it, the dashboard's always does.
HoldsGroup(s, c, key) == Means(s[c].gkey, key) /\ (Sticky(s, c) \/ c = "dash")
HoldsNode(s, c, key) == Means(s[c].nkey, key)

\* Nothing is found by no name, and the same by names that mean the same.
LEMMA FoundAlike ==
    \A names, key, other : /\ FindName(names, NoKey) = 0
                           /\ Means(key, other) => FindName(names, key) = FindName(names, other)
<1>1. \A names : FindName(names, NoKey) = 0
  BY DEF FindName, FirstPlace
<1> QED BY <1>1, FindSame DEF Means

\* When the user has placed the cursor, the row of the remembered name is the one that is preferred.
LEMMA PrefersIt ==
    \A names, current, remembered, key :
        Means(remembered, key) /\ FindName(names, key) # 0
        => Prefer(TRUE, current, FindName(names, remembered)) = FindName(names, key)
  BY FoundAlike DEF Prefer

\* A group that a name means, if it shows, is where the cursor is placed.
LEMMA PlaceGroupHolds ==
    ASSUME NEW s, IsApp(s), Listed(s.groups), NEW c \in Cursors, NEW old, s[c] = old[c], NEW key,
           HoldsGroup(old, c, key), FindName(RowNames(s), key) \in ToSet(GroupRows(s, c))
    PROVE  LET g == FindName(RowNames(s), key)
           IN /\ g \in DOMAIN s.groups /\ Means(s.groups[g].name, key)
              /\ Sets(s, PlaceGroup(s, old, c), c, g, s[c].node, s.groups[g].name, s[c].nkey)
<1> DEFINE g == FindName(RowNames(s), key)
           i == Prefer(Sticky(old, c), FindName(RowNames(s), GroupName(old, c)), FindName(RowNames(s), old[c].gkey))
           at == IF i = 0 THEN s ELSE [s EXCEPT ![c].group = i]
           back == IF c = "dash" THEN RestoreGroup(at, c) ELSE at
           k == ClampGroup(back, c)
<1>1. g \in DOMAIN s.groups /\ g # 0
  <2>1. g \in DOMAIN s.groups
    BY GroupRowsAre
  <2> HIDE DEF g
  <2> QED BY <2>1, RowsAre
<1>2. Means(s.groups[g].name, key)
  <2>1. RowNames(s) \in Seq(KnownNames) /\ RowNames(s)[g] = s.groups[g].name
    BY <1>1, NamesAre
  <2>2. KeyMatches(RowNames(s)[g], key)
    BY <1>1, <2>1, FindIs
  <2>3. s.groups[g].name # NoKey
    BY <1>1, RowsAre
  <2> QED BY <2>1, <2>2, <2>3 DEF Means, HoldsGroup
<1>3. c = "page" => i = g
  BY <1>1, PrefersIt DEF HoldsGroup, Sticky
<1>4. PlaceGroup(s, old, c) = RememberGroup(k, c)
  BY DEF PlaceGroup
<1> HIDE DEF i
<1>5. Sets(s, at, c, at[c].group, s[c].node, s[c].gkey, s[c].nkey) /\ (c = "page" => at[c].group = g)
  <2>1. Sets(s, [s EXCEPT ![c].group = i], c, i, s[c].node, s[c].gkey, s[c].nkey)
        /\ Sets(s, s, c, s[c].group, s[c].node, s[c].gkey, s[c].nkey)
    BY OneSets, ItselfSets
  <2> HIDE DEF g
  <2> QED BY <1>1, <1>3, <2>1 DEF Sets
<1> HIDE DEF at
<1>6. IsApp(at) /\ SameRows(s, at) /\ at[c].node = s[c].node /\ at[c].gkey = s[c].gkey /\ at[c].nkey = s[c].nkey
  BY <1>5 DEF Sets
<1>7. FoundGroup(at, c) = g
  <2>1. RowNames(at) = RowNames(s)
    BY <1>6, RowsDepend
  <2>2. Means(at[c].gkey, key)
    BY <1>6 DEF HoldsGroup
  <2> QED BY <2>1, <2>2, FoundAlike DEF FoundGroup
<1>8. Sets(at, back, c, g, s[c].node, s[c].gkey, s[c].nkey)
  <2> HIDE DEF g
  <2>1. Sets(at, RestoreGroup(at, c), c, g, s[c].node, s[c].gkey, s[c].nkey)
    BY <1>1, <1>6, <1>7, GroupSets
  <2>2. c = "page" => Sets(at, at, c, g, s[c].node, s[c].gkey, s[c].nkey)
    BY <1>5, <1>6, ItselfSets
  <2> QED BY <2>1, <2>2 DEF Cursors
<1> HIDE DEF back, g
<1>9. Sets(s, back, c, g, s[c].node, s[c].gkey, s[c].nkey)
  BY <1>5, <1>8, SetsOn
<1>10. Sets(back, k, c, g, s[c].node, s[c].gkey, s[c].nkey)
  <2>1. IsApp(back) /\ SameRows(s, back) /\ back[c].group = g /\ back[c].node = s[c].node /\ back[c].gkey = s[c].gkey
        /\ back[c].nkey = s[c].nkey
    BY <1>9 DEF Sets
  <2>2. ClampTo(back[c].group, GroupRows(back, c)) = g
    <3>1. GroupRows(back, c) = GroupRows(s, c)
      BY <2>1, RowsDepend
    <3>2. g \in ToSet(GroupRows(s, c))
      BY DEF g
    <3> QED BY <2>1, <3>1, <3>2, ClampStays
  <2>3. Sets(back, k, c, ClampTo(back[c].group, GroupRows(back, c)), back[c].node, back[c].gkey, back[c].nkey)
    BY <2>1, GroupSets
  <2> QED BY <2>1, <2>2, <2>3
<1> HIDE DEF k
<1>11. Sets(s, k, c, g, s[c].node, s[c].gkey, s[c].nkey)
  BY <1>9, <1>10, SetsOn
<1>12. Sets(k, RememberGroup(k, c), c, g, s[c].node, s.groups[g].name, s[c].nkey)
  <2>1. IsApp(k) /\ k.groups = s.groups /\ k[c].group = g /\ k[c].node = s[c].node /\ k[c].gkey = s[c].gkey
        /\ k[c].nkey = s[c].nkey
    BY <1>11 DEF Sets, SameRows
  <2>2. HasGroup(k, c) /\ Group(k, c).name = s.groups[g].name
    BY <1>1, <2>1 DEF HasGroup, Group
  <2> QED BY <2>1, <2>2, GroupSets
<1>13. Sets(s, PlaceGroup(s, old, c), c, g, s[c].node, s.groups[g].name, s[c].nkey)
  BY <1>4, <1>11, <1>12, SetsOn
<1> QED BY <1>1, <1>2, <1>13 DEF g

\* Placing the node keeps the group, and, if the node that a name means shows, remembers that.
LEMMA PlaceNodeHolds ==
    ASSUME NEW p, IsApp(p), Listed(p.groups), NEW c \in Cursors, HasGroup(p, c), p[c].gkey = GroupName(p, c), NEW old, NEW key
    PROVE  LET u == PlaceNode(p, old, c)
               n == FindName(Group(p, c).nodes, key)
           IN /\ Sets(p, u, c, p[c].group, u[c].node, p[c].gkey, u[c].nkey)
              /\ HoldsNode(old, c, key) /\ p[c].nkey = old[c].nkey /\ n \in ToSet(NodeRows(p, c)) => Means(u[c].nkey, key)
<1> DEFINE nodes == Group(p, c).nodes
           n == FindName(nodes, key)
           i == Prefer(Sticky(old, c), FindName(nodes, NodeAt(old, c)), FindName(nodes, old[c].nkey))
           at == IF i = 0 THEN p ELSE [p EXCEPT ![c].node = i]
           k == ClampNode(at, c)
           u == PlaceNode(p, old, c)
<1>1. u = RememberNode(k, c)
  BY DEF PlaceNode
<1>2. nodes \in Seq(KnownNames) /\ \A j \in DOMAIN nodes : nodes[j] # NoKey
  BY RowsAre DEF HasGroup, Group
<1> HIDE DEF u, i
<1>3. Sets(p, at, c, p[c].group, at[c].node, p[c].gkey, p[c].nkey)
  <2>1. Sets(p, [p EXCEPT ![c].node = i], c, p[c].group, i, p[c].gkey, p[c].nkey)
        /\ Sets(p, p, c, p[c].group, p[c].node, p[c].gkey, p[c].nkey)
    BY OneSets, ItselfSets
  <2> QED BY <2>1 DEF Sets
<1> HIDE DEF at
<1>5. /\ IsApp(at) /\ SameRows(p, at) /\ at[c].group = p[c].group /\ at[c].gkey = p[c].gkey /\ at[c].nkey = p[c].nkey
      /\ HasGroup(at, c) /\ Group(at, c) = Group(p, c) /\ NodeRows(at, c) = NodeRows(p, c)
  BY <1>3, RowsDepend DEF Sets
<1> DEFINE where == IF FoundNode(at, c) = 0 THEN at[c].node ELSE FoundNode(at, c)
<1>6. Sets(at, k, c, p[c].group, ClampTo(where, NodeRows(p, c)), p[c].gkey, p[c].nkey)
  BY <1>5, NodeSets
<1> HIDE DEF k, where
<1>7. Sets(p, k, c, p[c].group, ClampTo(where, NodeRows(p, c)), p[c].gkey, p[c].nkey)
  BY <1>3, <1>6, SetsOn
<1>8. /\ IsApp(k) /\ SameRows(p, k) /\ k[c].group = p[c].group /\ k[c].gkey = p[c].gkey /\ k[c].nkey = p[c].nkey
      /\ k[c].node = ClampTo(where, NodeRows(p, c))
      /\ HasGroup(k, c) /\ Group(k, c) = Group(p, c) /\ NodeRows(k, c) = NodeRows(p, c)
  BY <1>7, RowsDepend DEF Sets
<1>9. Sets(k, u, c, p[c].group, k[c].node, p[c].gkey, IF SelectedNode(k, c) = NoKey THEN k[c].nkey ELSE SelectedNode(k, c))
  <2>1. (IF SelectedNode(k, c) = NoKey THEN k[c].gkey ELSE Group(k, c).name) = p[c].gkey
    BY <1>8 DEF GroupName
  <2> QED BY <1>1, <1>8, <2>1, NodeSets
<1>10. Sets(p, u, c, p[c].group, u[c].node, p[c].gkey, u[c].nkey)
  <2>1. Sets(p, u, c, p[c].group, k[c].node, p[c].gkey, IF SelectedNode(k, c) = NoKey THEN k[c].nkey ELSE SelectedNode(k, c))
    BY <1>7, <1>9, SetsOn
  <2> QED BY <2>1 DEF Sets
<1>11. ASSUME HoldsNode(old, c, key), p[c].nkey = old[c].nkey, n \in ToSet(NodeRows(p, c))
       PROVE  Means(u[c].nkey, key)
  <2>1. n \in DOMAIN nodes /\ n # 0
    <3>1. n \in DOMAIN nodes
      BY <1>11, NodeRowsAre
    <3> HIDE DEF n, nodes
    <3> QED BY <1>2, <3>1
  <2>3. FoundNode(at, c) = n
    <3>1. Means(at[c].nkey, key)
      BY <1>5, <1>11 DEF HoldsNode
    <3> QED BY <1>5, <3>1, FoundAlike DEF FoundNode
  <2>4. k[c].node = n
    <3>1. where = n
      BY <2>1, <2>3 DEF where
    <3> HIDE DEF n
    <3> QED BY <1>8, <1>11, <3>1, ClampStays
  <2>5. SelectedNode(k, c) = nodes[n]
    BY <1>8, <1>11, <2>4 DEF SelectedNode
  <2>6. nodes[n] # NoKey /\ KeyMatches(nodes[n], key) /\ key # NoKey
    BY <1>2, <2>1, FindIs
  <2>7. u[c].nkey = nodes[n]
    BY <1>9, <2>5, <2>6 DEF Sets
  <2> QED BY <2>6, <2>7 DEF Means
<1> QED BY <1>10, <1>11 DEF u

\* Placing a cursor on rows on which its group shows.
LEMMA PlaceHolds ==
    ASSUME NEW s, IsApp(s), Listed(s.groups), NEW c \in Cursors, NEW old, s[c] = old[c], NEW key, NEW node,
           HoldsGroup(old, c, key), FindName(RowNames(s), key) \in ToSet(GroupRows(s, c))
    PROVE  LET u == PlaceCursor(s, old, c)
               g == FindName(RowNames(s), key)
           IN /\ Sets(s, u, c, g, u[c].node, u[c].gkey, u[c].nkey) /\ Means(u[c].gkey, key)
              /\ HoldsNode(old, c, node) /\ FindName(s.groups[g].nodes, node) \in ToSet(NodeRows(u, c))
                 => Means(u[c].nkey, node)
<1> DEFINE g == FindName(RowNames(s), key)
           p == PlaceGroup(s, old, c)
           u == PlaceCursor(s, old, c)
<1>1. /\ g \in DOMAIN s.groups /\ Means(s.groups[g].name, key)
      /\ Sets(s, p, c, g, s[c].node, s.groups[g].name, s[c].nkey)
  BY PlaceGroupHolds
<1>2. u = PlaceNode(p, old, c)
  BY DEF PlaceCursor
<1> HIDE DEF g, p, u
<1>3. /\ IsApp(p) /\ SameRows(s, p) /\ p.groups = s.groups /\ p[c].group = g /\ p[c].gkey = s.groups[g].name
      /\ p[c].nkey = old[c].nkey
  BY <1>1 DEF Sets, SameRows
<1>4. HasGroup(p, c) /\ p[c].gkey = GroupName(p, c) /\ Group(p, c) = s.groups[g]
  BY <1>1, <1>3 DEF HasGroup, GroupName, Group
<1>5. /\ Sets(p, u, c, g, u[c].node, p[c].gkey, u[c].nkey)
      /\ HoldsNode(old, c, node) /\ FindName(s.groups[g].nodes, node) \in ToSet(NodeRows(p, c)) => Means(u[c].nkey, node)
  BY <1>2, <1>3, <1>4, PlaceNodeHolds
<1>6. Sets(s, u, c, g, u[c].node, p[c].gkey, u[c].nkey)
  BY <1>1, <1>5, SetsOn
<1>7. u[c].gkey = p[c].gkey /\ NodeRows(u, c) = NodeRows(p, c)
  BY <1>3, <1>5, RowsDepend DEF Sets
<1> QED BY <1>1, <1>3, <1>5, <1>6, <1>7 DEF g, u

-----------------------------------------------------------------------------
(* What new rows leave alone.                                              *)

\* Only cursor c has moved, or has been given other names.
Only(s, t, c) ==
    IsApp(t) /\ SameRows(s, t) /\ t[c].sticky = s[c].sticky /\ \A d \in Cursors \ {c} : t[d] = s[d]

\* One such change after the other.
LEMMA OnlyOn == \A s, t, u, c : Only(s, t, c) /\ Only(t, u, c) => Only(s, u, c)
  BY DEF Only, SameRows

\* The methods of a cursor.
LEMMA MethodsOnly ==
    ASSUME NEW s, IsApp(s), NEW c \in Cursors
    PROVE  /\ Only(s, RestoreGroup(s, c), c) /\ Only(s, ClampGroup(s, c), c) /\ Only(s, RememberGroup(s, c), c)
           /\ Only(s, ClampNode(s, c), c) /\ Only(s, RememberNode(s, c), c) /\ Only(s, s, c)
           /\ \A x : Only(s, [s EXCEPT ![c].group = x], c) /\ Only(s, [s EXCEPT ![c].node = x], c)
<1>1. \A t, g, n, k, l : Sets(s, t, c, g, n, k, l) => Only(s, t, c)
  BY DEF Sets, Only
<1>2. Only(s, RestoreGroup(s, c), c) /\ Only(s, ClampGroup(s, c), c) /\ Only(s, RememberGroup(s, c), c)
  BY <1>1, GroupSets
<1>3. Only(s, ClampNode(s, c), c) /\ Only(s, RememberNode(s, c), c)
  BY <1>1, NodeSets
<1>4. \A x : Only(s, [s EXCEPT ![c].group = x], c) /\ Only(s, [s EXCEPT ![c].node = x], c)
  BY <1>1, OneSets
<1>5. Only(s, s, c)
  BY <1>1, ItselfSets
<1> QED BY <1>2, <1>3, <1>4, <1>5

\* Placing a cursor moves no other, and takes no name from it when there are no rows.
LEMMA PlaceOnly ==
    ASSUME NEW s, IsApp(s), NEW c \in Cursors, NEW old
    PROVE  /\ Only(s, PlaceCursor(s, old, c), c)
           /\ s.groups = <<>> => /\ PlaceCursor(s, old, c)[c].gkey = s[c].gkey
                                 /\ PlaceCursor(s, old, c)[c].nkey = s[c].nkey
<1> DEFINE i == Prefer(Sticky(old, c), FindName(RowNames(s), GroupName(old, c)), FindName(RowNames(s), old[c].gkey))
           at == IF i = 0 THEN s ELSE [s EXCEPT ![c].group = i]
           back == IF c = "dash" THEN RestoreGroup(at, c) ELSE at
           clamped == ClampGroup(back, c)
           p == RememberGroup(clamped, c)
           nodes == IF HasGroup(p, c) THEN Group(p, c).nodes ELSE <<>>
           n == Prefer(Sticky(old, c), FindName(nodes, NodeAt(old, c)), FindName(nodes, old[c].nkey))
           put == IF n = 0 THEN p ELSE [p EXCEPT ![c].node = n]
           k == ClampNode(put, c)
           Keep(t, u) == Only(t, u, c) /\ (s.groups = <<>> => u[c].gkey = t[c].gkey /\ u[c].nkey = t[c].nkey)
<1>1. PlaceCursor(s, old, c) = RememberNode(k, c)
  <2>1. PlaceGroup(s, old, c) = p
    BY DEF PlaceGroup
  <2>2. PlaceNode(p, old, c) = RememberNode(k, c)
    BY Zenon DEF PlaceNode
  <2> QED BY <2>1, <2>2 DEF PlaceCursor
<1>2. \A t, x : IsApp(t) => Keep(t, [t EXCEPT ![c].group = x]) /\ Keep(t, [t EXCEPT ![c].node = x]) /\ Keep(t, t)
  <2> SUFFICES ASSUME NEW t, NEW x, IsApp(t)
               PROVE  Keep(t, [t EXCEPT ![c].group = x]) /\ Keep(t, [t EXCEPT ![c].node = x]) /\ Keep(t, t)
    OBVIOUS
  <2>1. /\ Sets(t, [t EXCEPT ![c].group = x], c, x, t[c].node, t[c].gkey, t[c].nkey)
        /\ Sets(t, [t EXCEPT ![c].node = x], c, t[c].group, x, t[c].gkey, t[c].nkey)
    BY OneSets
  <2>2. Only(t, t, c)
    BY MethodsOnly
  <2> QED BY <2>1, <2>2 DEF Sets, Only
<1>3. \A t : IsApp(t) => Keep(t, RestoreGroup(t, c)) /\ Keep(t, ClampGroup(t, c)) /\ Keep(t, ClampNode(t, c))
  <2> SUFFICES ASSUME NEW t, IsApp(t)
               PROVE  Keep(t, RestoreGroup(t, c)) /\ Keep(t, ClampGroup(t, c)) /\ Keep(t, ClampNode(t, c))
    OBVIOUS
  <2>1. Only(t, RestoreGroup(t, c), c) /\ Only(t, ClampGroup(t, c), c) /\ Only(t, ClampNode(t, c), c)
    BY MethodsOnly
  <2>2. /\ RestoreGroup(t, c)[c].gkey = t[c].gkey /\ RestoreGroup(t, c)[c].nkey = t[c].nkey
        /\ ClampGroup(t, c)[c].gkey = t[c].gkey /\ ClampGroup(t, c)[c].nkey = t[c].nkey
    BY GroupSets DEF Sets
  <2>3. ClampNode(t, c)[c].gkey = t[c].gkey /\ ClampNode(t, c)[c].nkey = t[c].nkey
    BY NodeSets DEF Sets
  <2> QED BY <2>1, <2>2, <2>3
<1>4. \A t : IsApp(t) /\ t.groups = s.groups => Keep(t, RememberGroup(t, c)) /\ Keep(t, RememberNode(t, c))
  <2> SUFFICES ASSUME NEW t, IsApp(t), t.groups = s.groups
               PROVE  Keep(t, RememberGroup(t, c)) /\ Keep(t, RememberNode(t, c))
    OBVIOUS
  <2>1. Only(t, RememberGroup(t, c), c) /\ Only(t, RememberNode(t, c), c)
    BY MethodsOnly
  <2>2. s.groups = <<>> => RememberGroup(t, c) = t /\ RememberNode(t, c) = t
    BY NoGroup DEF RememberGroup, RememberNode
  <2> QED BY <2>1, <2>2
<1>5. \A t, u, v : Keep(t, u) /\ Keep(u, v) => Keep(t, v)
  BY OnlyOn
<1>6. \A t, u : Keep(t, u) => IsApp(u) /\ u.groups = t.groups
  BY DEF Only, SameRows
<1>13. \A t : Keep(s, t) => Only(s, t, c) /\ (s.groups = <<>> => t[c].gkey = s[c].gkey /\ t[c].nkey = s[c].nkey)
  OBVIOUS
<1> HIDE DEF Keep, i, n
<1>7. Keep(s, at)
  BY <1>2
<1> HIDE DEF at
<1>8. Keep(s, back)
  BY <1>3, <1>5, <1>6, <1>7
<1> HIDE DEF back
<1>9. Keep(s, clamped)
  BY <1>3, <1>5, <1>6, <1>8
<1> HIDE DEF clamped
<1>10. Keep(s, p)
  BY <1>4, <1>5, <1>6, <1>9
<1> HIDE DEF p
<1>11. Keep(s, put)
  BY <1>2, <1>5, <1>6, <1>10
<1> HIDE DEF put
<1>12. Keep(s, k)
  BY <1>3, <1>5, <1>6, <1>11
<1> HIDE DEF k
<1>14. Keep(s, RememberNode(k, c))
  BY <1>4, <1>5, <1>6, <1>12
<1> QED BY <1>1, <1>13, <1>14

\* Setting the rows, or the measures, sets nothing else.
LEMMA RowsSet ==
    ASSUME NEW s, IsApp(s), NEW x
    PROVE  LET t == [s EXCEPT !.groups = x]
               u == [s EXCEPT !.meta = x]
           IN /\ IsApp(t) /\ t.groups = x /\ t.pane = s.pane /\ t.query = s.query /\ t.meta = s.meta /\ t.sort = s.sort
              /\ IsApp(u) /\ u.groups = s.groups /\ u.pane = s.pane /\ u.query = s.query /\ u.sort = s.sort
              /\ \A c \in Cursors : t[c] = s[c] /\ u[c] = s[c]
<1>1. IsApp([s EXCEPT !.groups = x]) /\ IsApp([s EXCEPT !.meta = x])
  BY FieldSets DEF Keeps
<1>2. s = [f \in AppFields |-> s[f]]
  BY DEF IsApp
<1>3. {"groups", "pane", "query", "meta", "sort"} \subseteq AppFields \ Cursors /\ Cursors \subseteq AppFields
  BY DEF AppFields, Cursors
<1>4. \A f \in AppFields : /\ [s EXCEPT !.groups = x][f] = IF f = "groups" THEN x ELSE s[f]
                           /\ [s EXCEPT !.meta = x][f] = IF f = "meta" THEN x ELSE s[f]
  BY <1>2
<1>5. \A c \in Cursors : c # "groups" /\ c # "meta"
  BY <1>3
<1>6. \A c \in Cursors : [s EXCEPT !.groups = x][c] = s[c] /\ [s EXCEPT !.meta = x][c] = s[c]
  BY <1>3, <1>4, <1>5
<1>7. LET t == [s EXCEPT !.groups = x]
          u == [s EXCEPT !.meta = x]
      IN /\ t.groups = x /\ t.pane = s.pane /\ t.query = s.query /\ t.meta = s.meta /\ t.sort = s.sort
         /\ u.groups = s.groups /\ u.pane = s.pane /\ u.query = s.query /\ u.sort = s.sort
  BY <1>3, <1>4
<1> QED BY <1>1, <1>6, <1>7

\* New measures alone.
LEMMA MeasuresSet ==
    \A s, x : IsApp(s) => /\ IsApp([s EXCEPT !.meta = x]) /\ [s EXCEPT !.meta = x].groups = s.groups
                          /\ \A c \in Cursors : [s EXCEPT !.meta = x][c] = s[c]
  BY RowsSet

-----------------------------------------------------------------------------
(* New rows, whole.                                                        *)

\* A cursor stays on the group, and on the node, that names mean, if they show.
StaysOnGroup(s, c, key) ==
    LET g == FindName(RowNames(s), key) IN g \in ToSet(GroupRows(s, c)) => s[c].group = g
StaysOnNode(s, c, key, node) ==
    LET g == FindName(RowNames(s), key)
        n == FindName(Group(s, c).nodes, node)
    IN g \in ToSet(GroupRows(s, c)) /\ n \in ToSet(NodeRows(s, c)) => s[c].node = n

\* The names of a cursor that has landed are the rows it is on.
LEMMA LandedStays ==
    ASSUME NEW s, Listed(s.groups), NEW c, Landed(s, c), NEW key, Means(s[c].gkey, key)
    PROVE  StaysOnGroup(s, c, key) /\ \A node : Means(s[c].nkey, node) => StaysOnNode(s, c, key, node)
<1> DEFINE g == FindName(RowNames(s), key)
<1>1. FoundGroup(s, c) = g
  BY FoundAlike DEF FoundGroup
<1> HIDE DEF g
<1>2. g \in ToSet(GroupRows(s, c)) => g \in DOMAIN s.groups /\ g # 0
  BY GroupRowsAre, RowsAre
<1>3. StaysOnGroup(s, c, key) /\ (g \in ToSet(GroupRows(s, c)) => s[c].group = g)
  BY <1>1, <1>2 DEF StaysOnGroup, Landed, g
<1>4. ASSUME NEW node, Means(s[c].nkey, node), g \in ToSet(GroupRows(s, c)),
             FindName(Group(s, c).nodes, node) \in ToSet(NodeRows(s, c))
      PROVE  s[c].node = FindName(Group(s, c).nodes, node)
  <2> DEFINE n == FindName(Group(s, c).nodes, node)
  <2>1. HasGroup(s, c)
    BY <1>2, <1>3, <1>4 DEF HasGroup
  <2>2. FoundNode(s, c) = n
    BY <1>4, <2>1, FoundAlike DEF FoundNode
  <2> HIDE DEF n
  <2>3. n \in DOMAIN Group(s, c).nodes /\ Group(s, c).nodes \in Seq(KnownNames)
    BY <1>4, <2>1, NodeRowsAre, RowsAre DEF n, HasGroup, Group
  <2>4. n # 0
    BY <2>3
  <2> QED BY <1>4, <2>2, <2>4 DEF Landed, n
<1> QED BY <1>3, <1>4 DEF StaysOnNode, g

\* On new rows a cursor keeps the names that mean its group and its node, if they show there.
LEMMA ApplyHolds ==
    ASSUME NEW s, IsApp(s), NEW groups, Listed(groups)
    PROVE  LET u == ApplyGroups(s, groups)
           IN /\ IsApp(u) /\ u.groups = groups /\ \A c \in Cursors : u[c].sticky = s[c].sticky
              /\ groups = <<>> => \A c \in Cursors : u[c].gkey = s[c].gkey /\ u[c].nkey = s[c].nkey
              /\ \A c \in Cursors : \A key, node :
                    LET g == FindName(RowNames(u), key)
                    IN HoldsGroup(s, c, key) /\ g \in ToSet(GroupRows(u, c)) =>
                          /\ u[c].group = g /\ Means(u[c].gkey, key)
                          /\ HoldsNode(s, c, node) /\ FindName(u.groups[g].nodes, node) \in ToSet(NodeRows(u, c))
                             => Means(u[c].nkey, node)
<1> DEFINE t == [s EXCEPT !.groups = groups]
           p == PlaceCursor(t, s, "page")
           u == PlaceCursor(p, s, "dash")
<1>1. ApplyGroups(s, groups) = u /\ Cursors = {"page", "dash"}
  BY DEF ApplyGroups, Cursors
<1>2. IsApp(t) /\ t.groups = groups /\ t["page"] = s["page"] /\ t["dash"] = s["dash"]
  BY <1>1, RowsSet
<1> HIDE DEF t
<1>3. Only(t, p, "page") /\ (groups = <<>> => p["page"].gkey = t["page"].gkey /\ p["page"].nkey = t["page"].nkey)
  BY <1>1, <1>2, PlaceOnly
<1>4. IsApp(p) /\ SameRows(t, p) /\ p.groups = groups /\ p["dash"] = s["dash"] /\ p["page"].sticky = s["page"].sticky
  BY <1>1, <1>2, <1>3 DEF Only, SameRows
<1>5. Only(p, u, "dash") /\ (groups = <<>> => u["dash"].gkey = p["dash"].gkey /\ u["dash"].nkey = p["dash"].nkey)
  BY <1>1, <1>4, PlaceOnly
<1>6. IsApp(u) /\ SameRows(p, u) /\ u.groups = groups /\ u["page"] = p["page"] /\ u["dash"].sticky = s["dash"].sticky
  BY <1>1, <1>4, <1>5 DEF Only, SameRows
<1>7. \A c \in Cursors : u[c].sticky = s[c].sticky
  BY <1>1, <1>4, <1>6
<1>8. groups = <<>> => \A c \in Cursors : u[c].gkey = s[c].gkey /\ u[c].nkey = s[c].nkey
  BY <1>1, <1>2, <1>3, <1>4, <1>5, <1>6
<1>9. ASSUME NEW key, NEW node, HoldsGroup(s, "page", key), FindName(RowNames(u), key) \in ToSet(GroupRows(u, "page"))
      PROVE  LET g == FindName(RowNames(u), key)
             IN /\ u["page"].group = g /\ Means(u["page"].gkey, key)
                /\ HoldsNode(s, "page", node) /\ FindName(u.groups[g].nodes, node) \in ToSet(NodeRows(u, "page"))
                   => Means(u["page"].nkey, node)
  <2> DEFINE g == FindName(RowNames(t), key)
  <2>1. RowNames(u) = RowNames(t) /\ GroupRows(u, "page") = GroupRows(t, "page") /\ NodeRows(u, "page") = NodeRows(p, "page")
    BY <1>4, <1>6, RowsDepend
  <2>2. g \in ToSet(GroupRows(t, "page"))
    BY <1>9, <2>1
  <2>3. /\ Sets(t, p, "page", g, p["page"].node, p["page"].gkey, p["page"].nkey) /\ Means(p["page"].gkey, key)
        /\ HoldsNode(s, "page", node) /\ FindName(t.groups[g].nodes, node) \in ToSet(NodeRows(p, "page"))
           => Means(p["page"].nkey, node)
    BY <1>1, <1>2, <1>9, <2>2, PlaceHolds
  <2> HIDE DEF g
  <2>4. p["page"].group = g
    BY <2>3 DEF Sets
  <2> QED BY <1>2, <1>6, <2>1, <2>3, <2>4 DEF g
<1>10. ASSUME NEW key, NEW node, HoldsGroup(s, "dash", key), FindName(RowNames(u), key) \in ToSet(GroupRows(u, "dash"))
      PROVE  LET g == FindName(RowNames(u), key)
             IN /\ u["dash"].group = g /\ Means(u["dash"].gkey, key)
                /\ HoldsNode(s, "dash", node) /\ FindName(u.groups[g].nodes, node) \in ToSet(NodeRows(u, "dash"))
                   => Means(u["dash"].nkey, node)
  <2> DEFINE g == FindName(RowNames(p), key)
  <2>1. RowNames(u) = RowNames(p) /\ GroupRows(u, "dash") = GroupRows(p, "dash")
    BY <1>6, RowsDepend
  <2>2. g \in ToSet(GroupRows(p, "dash"))
    BY <1>10, <2>1
  <2>3. /\ Sets(p, u, "dash", g, u["dash"].node, u["dash"].gkey, u["dash"].nkey) /\ Means(u["dash"].gkey, key)
        /\ HoldsNode(s, "dash", node) /\ FindName(p.groups[g].nodes, node) \in ToSet(NodeRows(u, "dash"))
           => Means(u["dash"].nkey, node)
    BY <1>1, <1>4, <1>10, <2>2, PlaceHolds
  <2> HIDE DEF g
  <2>4. u["dash"].group = g
    BY <2>3 DEF Sets
  <2> QED BY <1>4, <1>6, <2>1, <2>3, <2>4 DEF g
<1> HIDE DEF u
<1> QED BY <1>1, <1>6, <1>7, <1>8, <1>9, <1>10

\* What a cursor holds depends on the rows and the cursor.
LEMMA HoldsDepends ==
    \A s, t, c : t.groups = s.groups /\ t[c] = s[c] =>
        /\ GroupName(t, c) = GroupName(s, c) /\ NodeAt(t, c) = NodeAt(s, c)
        /\ HasGroup(t, c) = HasGroup(s, c) /\ Group(t, c) = Group(s, c) /\ RowNames(t) = RowNames(s)
  BY DEF GroupName, NodeAt, HasGroup, Group, RowNames

\* Loading rows keeps a cursor on what it holds.
LEMMA LoadedStays ==
    ASSUME NEW s, IsApp(s), NEW l, Listed(l.groups), NEW c \in Cursors, NEW key, HoldsGroup(s, c, key)
    PROVE  LET v == Loaded(s, l)
           IN /\ v.groups = l.groups /\ v[c].sticky = s[c].sticky /\ StaysOnGroup(v, c, key)
              /\ \A node : HoldsNode(s, c, node) => StaysOnNode(v, c, key, node)
<1> DEFINE m == [s EXCEPT !.meta = l.meta]
           u == ApplyGroups(m, l.groups)
           v == ClampSelections(u)
           g == FindName(RowNames(u), key)
<1>1. Loaded(s, l) = v
  BY DEF Loaded
<1>2. IsApp(m) /\ m.groups = s.groups /\ m[c] = s[c]
  BY RowsSet
<1> HIDE DEF m
<1>3. HoldsGroup(m, c, key) /\ \A node : HoldsNode(s, c, node) => HoldsNode(m, c, node)
  <2>1. GroupName(m, c) = GroupName(s, c) /\ NodeAt(m, c) = NodeAt(s, c)
    BY <1>2, HoldsDepends
  <2>2. Sticky(m, c) = Sticky(s, c)
    BY <1>2 DEF Sticky
  <2> QED BY <1>2, <2>1, <2>2 DEF HoldsGroup, HoldsNode
<1>4. /\ IsApp(u) /\ u.groups = l.groups /\ u[c].sticky = m[c].sticky
      /\ \A node : g \in ToSet(GroupRows(u, c)) =>
            /\ u[c].group = g /\ Means(u[c].gkey, key)
            /\ HoldsNode(m, c, node) /\ FindName(u.groups[g].nodes, node) \in ToSet(NodeRows(u, c)) => Means(u[c].nkey, node)
  BY <1>2, <1>3, ApplyHolds
<1> HIDE DEF u
<1>5. Moves(u, v) /\ Landed(v, c)
  BY <1>4, ClampsLand
<1> HIDE DEF v, g
<1>6. v.groups = l.groups /\ v[c].sticky = s[c].sticky /\ v[c].gkey = u[c].gkey /\ v[c].nkey = u[c].nkey /\ SameRows(u, v)
  BY <1>2, <1>4, <1>5 DEF Moves, SameRows
<1>7. RowNames(v) = RowNames(u) /\ GroupRows(v, c) = GroupRows(u, c)
  BY <1>6, RowsDepend
<1>8. FindName(RowNames(v), key) = g
  BY <1>7 DEF g
<1>9. g \in ToSet(GroupRows(v, c)) => v[c].group = g
  <2>1. g \in ToSet(GroupRows(v, c)) => Means(v[c].gkey, key)
    BY <1>4, <1>6, <1>7
  <2> QED BY <1>5, <1>6, <1>8, <2>1, LandedStays DEF StaysOnGroup
<1>10. ASSUME NEW node, HoldsNode(s, c, node), g \in ToSet(GroupRows(v, c)),
              FindName(Group(v, c).nodes, node) \in ToSet(NodeRows(v, c))
       PROVE  v[c].node = FindName(Group(v, c).nodes, node)
  <2>1. v[c].group = g /\ u[c].group = g
    BY <1>4, <1>7, <1>9, <1>10
  <2>2. NodeRows(v, c) = NodeRows(u, c) /\ Group(v, c) = u.groups[g]
    BY <1>6, <2>1, RowsDepend DEF Group
  <2>3. HoldsNode(m, c, node) /\ FindName(u.groups[g].nodes, node) \in ToSet(NodeRows(u, c))
    BY <1>3, <1>10, <2>2
  <2>4. Means(v[c].gkey, key) /\ Means(v[c].nkey, node)
    BY <1>4, <1>6, <1>7, <1>10, <2>3
  <2>5. StaysOnNode(v, c, key, node)
    BY <1>5, <1>6, <2>4, LandedStays
  <2> QED BY <1>8, <1>10, <2>5 DEF StaysOnNode
<1>11. StaysOnGroup(v, c, key)
  BY <1>8, <1>9 DEF StaysOnGroup
<1>12. \A node : HoldsNode(s, c, node) => StaysOnNode(v, c, key, node)
  BY <1>8, <1>10 DEF StaysOnNode
<1> QED BY <1>1, <1>6, <1>11, <1>12

-----------------------------------------------------------------------------
(* The catalog is read again.                                              *)

\* Going to the saved group leaves a cursor that the user has placed.
LEMMA SavedLeaves ==
    ASSUME NEW s, IsApp(s)
    PROVE  LET u == RestoreProfileGroup(s)
           IN IsApp(u) /\ SameRows(s, u) /\ \A c \in Cursors : u[c].sticky = s[c].sticky /\ (s[c].sticky => u[c] = s[c])
<1>1. ASSUME NEW t, IsApp(t), NEW c \in Cursors
      PROVE  Only(t, RestoreSaved(t, c), c) /\ (t[c].sticky => RestoreSaved(t, c) = t)
  <2> DEFINE k == [t EXCEPT ![c].gkey = t.saved]
  <2>1. Only(t, k, c)
    <3> DEFINE x == t.saved
    <3>1. Sets(t, [t EXCEPT ![c].gkey = x], c, t[c].group, t[c].node, x, t[c].nkey)
      BY <1>1, OneSets
    <3> QED BY <3>1 DEF Sets, Only
  <2>2. RestoreSaved(t, c) = IF t.saved = NoKey \/ t[c].sticky THEN t ELSE RestoreGroup(k, c)
    BY DEF RestoreSaved
  <2> HIDE DEF k
  <2>3. Only(k, RestoreGroup(k, c), c) /\ Only(t, t, c)
    BY <1>1, <2>1, MethodsOnly DEF Only
  <2>4. Only(t, RestoreGroup(k, c), c)
    BY <2>1, <2>3, OnlyOn
  <2> QED BY <2>2, <2>3, <2>4
<1> DEFINE p == RestoreSaved(s, "page")
           u == RestoreSaved(p, "dash")
<1>2. RestoreProfileGroup(s) = u /\ Cursors = {"page", "dash"}
  BY DEF RestoreProfileGroup, Cursors
<1>3. Only(s, p, "page") /\ (s["page"].sticky => p = s)
  BY <1>1, <1>2
<1> HIDE DEF p
<1>4. Only(p, u, "dash") /\ (p["dash"].sticky => u = p)
  BY <1>1, <1>2, <1>3 DEF Only
<1> HIDE DEF u
<1>5. IsApp(u) /\ SameRows(s, u)
  BY <1>3, <1>4 DEF Only, SameRows
<1>6. u["page"] = p["page"] /\ p["dash"] = s["dash"] /\ p["page"].sticky = s["page"].sticky /\ u["dash"].sticky = p["dash"].sticky
  BY <1>2, <1>3, <1>4 DEF Only
<1>7. /\ u["page"].sticky = s["page"].sticky /\ (s["page"].sticky => u["page"] = s["page"])
      /\ u["dash"].sticky = s["dash"].sticky /\ (s["dash"].sticky => u["dash"] = s["dash"])
  BY <1>3, <1>4, <1>6
<1> QED BY <1>2, <1>5, <1>7

\* Reading the catalog changes no row and no cursor.
LEMMA CatalogLeaves ==
    ASSUME NEW s, IsApp(s), NEW cat
    PROVE  LET t == TakeCatalog(s, cat) IN IsApp(t) /\ SameRows(s, t) /\ \A c \in Cursors : t[c] = s[c]
<1> DEFINE saved == IF cat.current = NoUid THEN NoKey ELSE cat.saved[cat.current]
           t == [s EXCEPT !.current = cat.current, !.saved = saved]
<1>1. TakeCatalog(s, cat) = t
  BY DEF TakeCatalog
<1>2. s = [f \in AppFields |-> s[f]]
  BY DEF IsApp
<1>3. \A f \in AppFields \ {"current", "saved"} : t[f] = s[f]
  BY <1>2
<1>4. {"groups", "pane", "query", "meta", "sort"} \cup Cursors \subseteq AppFields \ {"current", "saved"}
  BY DEF AppFields, Cursors
<1>5. SameRows(s, t)
  BY <1>3, <1>4 DEF SameRows
<1>6. \A c \in Cursors : t[c] = s[c]
  BY <1>3, <1>4
<1> QED BY <1>1, <1>5, <1>6, CatalogTaken

\* Reading the catalog keeps a cursor that the user has placed on what it holds, or forgets the choice.
LEMMA ProfilesHold ==
    ASSUME NEW s, IsApp(s), NEW cat, NEW c \in Cursors, NEW key,
           HoldsGroup(s, c, key)
    PROVE  LET u == ApplyProfiles(s, cat)
           IN \/ u[c].sticky = FALSE
              \/ ~s[c].sticky
              \/ HoldsGroup(u, c, key) /\ \A node : HoldsNode(s, c, node) => HoldsNode(u, c, node)
<1> DEFINE t == TakeCatalog(s, cat)
           k == IF s.current # cat.current THEN ClearBound(t) ELSE t
           v == RestoreProfileGroup(k)
           p == ClampCursor(v, "page")
           u == ClampCursor(p, "dash")
<1>1. ApplyProfiles(s, cat) = u /\ u = ClampSelections(v) /\ Cursors = {"page", "dash"}
  BY DEF ApplyProfiles, ClampSelections, Cursors
<1>2. IsApp(t) /\ SameRows(s, t) /\ t[c] = s[c] /\ t["dash"] = s["dash"]
  BY <1>1, CatalogLeaves
<1> HIDE DEF t
<1>3. IsApp(k) /\ (s.current # cat.current => k[c].sticky = FALSE) /\ (s.current = cat.current => k = t)
  BY <1>2, BlankFresh DEF Blank
<1> HIDE DEF k
<1>4. IsApp(v) /\ SameRows(k, v) /\ v[c].sticky = k[c].sticky /\ (k[c].sticky => v[c] = k[c])
  BY <1>3, SavedLeaves
<1> HIDE DEF v
<1>5. Moves(v, u)
  BY <1>1, <1>4, ClampsLand
<1>6. u[c].sticky = k[c].sticky /\ u[c].gkey = v[c].gkey /\ u[c].nkey = v[c].nkey
  BY <1>4, <1>5 DEF Moves
<1>7. CASE s.current # cat.current
  BY <1>1, <1>3, <1>6, <1>7
<1>8. CASE s.current = cat.current /\ s[c].sticky
  <2>1. u[c].gkey = s[c].gkey /\ u[c].nkey = s[c].nkey
    BY <1>2, <1>3, <1>4, <1>6, <1>8
  <2>2. Sticky(u, c) \/ c = "dash"
    BY <1>1, <1>2, <1>3, <1>6, <1>8 DEF Sticky
  <2> QED BY <1>1, <2>1, <2>2 DEF HoldsGroup, HoldsNode
<1> QED BY <1>1, <1>7, <1>8

\* What the cursor of the page holds before its names are remembered again, it holds after.
LEMMA PaneHolds ==
    ASSUME NEW s, IsApp(s), Listed(s.groups), NEW key, HoldsGroup(s, "page", key),
           GroupName(s, "page") = NoKey \/ Means(GroupName(s, "page"), key)
    PROVE  LET u == RememberPane(s)
           IN /\ Only(s, u, "page") /\ Means(u["page"].gkey, key)
              /\ \A node : HoldsNode(s, "page", node) /\ (NodeAt(s, "page") = NoKey \/ Means(NodeAt(s, "page"), node))
                           => Means(u["page"].nkey, node)
<1>1. "page" \in Cursors /\ Means(s["page"].gkey, key)
  BY DEF Cursors, HoldsGroup
<1>2. HasGroup(s, "page") => Means(Group(s, "page").name, key)
  BY RowsAre DEF GroupName, HasGroup, Group
<1>3. CASE s.pane = "groups"
  <2> DEFINE u == RememberGroup(s, "page")
  <2>1. RememberPane(s) = u
    BY <1>3 DEF RememberPane
  <2>2. Sets(s, u, "page", s["page"].group, s["page"].node,
             IF HasGroup(s, "page") THEN Group(s, "page").name ELSE s["page"].gkey, s["page"].nkey)
    BY <1>1, GroupSets
  <2> HIDE DEF u
  <2>3. Only(s, u, "page") /\ Means(u["page"].gkey, key) /\ u["page"].nkey = s["page"].nkey
    BY <1>1, <1>2, <2>2 DEF Sets, Only
  <2> QED BY <2>1, <2>3 DEF HoldsNode
<1>4. CASE s.pane # "groups"
  <2> DEFINE u == RememberNode(s, "page")
             n == SelectedNode(s, "page")
             nodes == Group(s, "page").nodes
             at == s["page"].node
             i == FindName(nodes, s["page"].nkey)
  <2>1. RememberPane(s) = u
    BY <1>4 DEF RememberPane
  <2>2. Sets(s, u, "page", s["page"].group, s["page"].node, IF n = NoKey THEN s["page"].gkey ELSE Group(s, "page").name,
             IF n = NoKey THEN s["page"].nkey ELSE n)
    BY <1>1, NodeSets
  <2>3. n = IF ~HasGroup(s, "page") THEN NoKey ELSE IF at \in ToSet(NodeRows(s, "page")) THEN nodes[at]
            ELSE IF i = 0 THEN NoKey ELSE nodes[i]
    BY DEF SelectedNode
  <2> HIDE DEF u, n
  <2>4. Only(s, u, "page") /\ Means(u["page"].gkey, key)
    BY <1>1, <1>2, <2>2, <2>3 DEF Sets, Only
  <2>5. ASSUME NEW node, HoldsNode(s, "page", node), NodeAt(s, "page") = NoKey \/ Means(NodeAt(s, "page"), node)
        PROVE  Means(u["page"].nkey, node)
    <3>1. Means(s["page"].nkey, node)
      BY <2>5 DEF HoldsNode
    <3>2. CASE n = NoKey
      BY <2>2, <3>1, <3>2 DEF Sets
    <3>3. CASE n # NoKey
      <4>1. HasGroup(s, "page") /\ u["page"].nkey = n
        BY <2>2, <2>3, <3>3 DEF Sets
      <4>2. nodes \in Seq(KnownNames) /\ ToSet(NodeRows(s, "page")) \subseteq DOMAIN nodes
        BY <4>1, RowsAre, NodeRowsAre DEF HasGroup, Group
      <4>3. CASE at \in ToSet(NodeRows(s, "page"))
        <5>1. n = NodeAt(s, "page")
          BY <2>3, <4>1, <4>2, <4>3 DEF NodeAt
        <5> QED BY <2>5, <3>3, <4>1, <5>1
      <4>4. CASE at \notin ToSet(NodeRows(s, "page"))
        <5>1. i # 0 /\ n = nodes[i]
          BY <2>3, <3>3, <4>1, <4>4
        <5> HIDE DEF i, nodes
        <5>2. KeyMatches(nodes[i], s["page"].nkey)
          BY <4>2, <5>1, FindIs DEF i
        <5>3. KeyMatches(nodes[i], node)
          BY <3>1, <5>2, Matches DEF Means
        <5> QED BY <3>1, <3>3, <4>1, <5>1, <5>3 DEF Means
      <4> QED BY <4>3, <4>4
    <3> QED BY <3>2, <3>3
  <2> QED BY <2>1, <2>4, <2>5
<1> QED BY <1>3, <1>4

-----------------------------------------------------------------------------
(* A refresh keeps what the user has chosen.                               *)

\* The cursor remembers the group, or node, it is on, or is on none.
OnItsGroup(s, c) == s[c].gkey # NoKey /\ GroupName(s, c) \in {s[c].gkey, NoKey}
OnItsNode(s, c) == s[c].nkey # NoKey /\ NodeAt(s, c) \in {s[c].nkey, NoKey}

\* Such a cursor holds them.
LEMMA OnItsHolds ==
    \A s : \A c \in Cursors :
              /\ OnItsGroup(s, c) => /\ s[c].sticky => HoldsGroup(s, c, s[c].gkey)
                                     /\ GroupName(s, c) = NoKey \/ Means(GroupName(s, c), s[c].gkey)
              /\ OnItsNode(s, c) => /\ HoldsNode(s, c, s[c].nkey)
                                    /\ NodeAt(s, c) = NoKey \/ Means(NodeAt(s, c), s[c].nkey)
  BY Matches DEF OnItsGroup, OnItsNode, HoldsGroup, HoldsNode, Means, Sticky, Cursors

\* What is still to be shown of a step: that the cursor stays on what it remembers.
Stays(s, t, c) ==
    s[c].sticky /\ t[c].sticky /\ OnItsGroup(s, c) =>
        /\ StaysOnGroup(t, c, s[c].gkey)
        /\ OnItsNode(s, c) => StaysOnNode(t, c, s[c].gkey, s[c].nkey)

\* A cursor that stays is kept.
LEMMA StaysIsKept == ASSUME NEW c, Stays(app, app', c) PROVE Kept(c)
<1> DEFINE at == app[c]
           g == FindName(RowNames(app'), at.gkey)
           n == IF HasGroup(app', c) THEN FindName(Group(app', c).nodes, at.nkey) ELSE 0
<1>1. SUFFICES ASSUME at.sticky, app'[c].sticky, g # 0, g \in ToSet(GroupRows(app', c)), GroupName(app, c) \in {at.gkey, NoKey}
               PROVE  /\ app'[c].group = g
                      /\ n # 0 /\ n \in ToSet(NodeRows(app', c)) /\ NodeAt(app, c) \in {at.nkey, NoKey} => app'[c].node = n
  BY DEF Kept
<1>2. OnItsGroup(app, c)
  BY <1>1, FoundAlike DEF OnItsGroup
<1>3. app'[c].group = g
  BY <1>1, <1>2 DEF Stays, StaysOnGroup
<1>4. ASSUME n # 0, n \in ToSet(NodeRows(app', c)), NodeAt(app, c) \in {at.nkey, NoKey}
      PROVE  app'[c].node = n
  <2>1. n = FindName(Group(app', c).nodes, at.nkey)
    BY <1>4
  <2>2. OnItsNode(app, c)
    BY <1>4, <2>1, FoundAlike DEF OnItsNode
  <2>3. StaysOnNode(app', c, at.gkey, at.nkey)
    BY <1>1, <1>2, <2>2 DEF Stays
  <2> HIDE DEF n
  <2> QED BY <1>1, <1>4, <2>1, <2>3 DEF StaysOnNode
<1> QED BY <1>3, <1>4

\* Clamping keeps a cursor on what its names mean.
LEMMA ClampedStays ==
    ASSUME NEW s, IsApp(s), Listed(s.groups), NEW c \in Cursors, NEW key, Means(s[c].gkey, key)
    PROVE  LET v == ClampSelections(s)
           IN StaysOnGroup(v, c, key) /\ \A node : Means(s[c].nkey, node) => StaysOnNode(v, c, key, node)
<1> DEFINE v == ClampSelections(s)
<1>1. Moves(s, v) /\ Landed(v, c)
  BY ClampsLand
<1> HIDE DEF v
<1>2. v.groups = s.groups /\ v[c].gkey = s[c].gkey /\ v[c].nkey = s[c].nkey
  BY <1>1 DEF Moves, SameRows
<1> QED BY <1>1, <1>2, LandedStays DEF v

\* What may load is a list of rows.
LEMMA LoadsAre == \A l \in Loads \cup {Nothing} : Listed(l.groups)
<1>1. \A groups \in GroupListings \cup {Preview} : Listed(groups)
  BY RowsAssumption DEF Listed
<1>2. Listed(<<>>)
  BY DEF Listed
<1>3. \A l \in Loads \cup {Nothing} : l.groups \in GroupListings \cup {Preview} \cup {<<>>}
  BY DEF Loads, Nothing
<1> QED BY <1>1, <1>2, <1>3

\* The refresh of the proxy page.
LEMMA RefreshProxiesStays ==
    ASSUME IsApp(app), Listed(app.groups), RefreshProxies, NEW c \in Cursors
    PROVE  Stays(app, app', c)
<1> DEFINE s == RememberPane(app)
           t == [s EXCEPT !.meta = <<>>]
           key == app[c].gkey
           node == app[c].nkey
<1>1. \/ \E l \in Loads \cup {Nothing} : app' = Loaded(s, l)
      \/ app' = ClampSelections(t)
  BY DEF RefreshProxies, Show
<1>2. SUFFICES ASSUME app[c].sticky, app'[c].sticky, OnItsGroup(app, c)
               PROVE  StaysOnGroup(app', c, key) /\ (OnItsNode(app, c) => StaysOnNode(app', c, key, node))
  BY DEF Stays
<1>3. /\ HoldsGroup(app, c, key) /\ (GroupName(app, c) = NoKey \/ Means(GroupName(app, c), key))
      /\ OnItsNode(app, c) => HoldsNode(app, c, node) /\ (NodeAt(app, c) = NoKey \/ Means(NodeAt(app, c), node))
  BY <1>2, OnItsHolds
<1>4. /\ IsApp(s) /\ s.groups = app.groups /\ HoldsGroup(s, c, key)
      /\ OnItsNode(app, c) => HoldsNode(s, c, node)
  <2>1. CASE c = "page"
    <3>1. /\ Only(app, s, "page") /\ Means(s["page"].gkey, key)
          /\ OnItsNode(app, c) => Means(s["page"].nkey, node)
      BY <1>3, <2>1, PaneHolds
    <3>2. Sticky(s, "page")
      BY <1>2, <2>1, <3>1 DEF Only, Sticky
    <3> QED BY <2>1, <3>1, <3>2 DEF Only, SameRows, HoldsGroup, HoldsNode
  <2>2. CASE c = "dash"
    <3>1. Only(app, s, "page")
      BY MethodsOnly DEF RememberPane, Cursors
    <3>2. IsApp(s) /\ s.groups = app.groups /\ s[c] = app[c]
      BY <2>2, <3>1 DEF Only, SameRows, Cursors
    <3>3. GroupName(s, c) = GroupName(app, c) /\ NodeAt(s, c) = NodeAt(app, c)
      BY <3>2, HoldsDepends
    <3> QED BY <1>3, <2>2, <3>2, <3>3 DEF HoldsGroup, HoldsNode, Sticky
  <2> QED BY <2>1, <2>2 DEF Cursors
<1> HIDE DEF s
<1>5. CASE \E l \in Loads \cup {Nothing} : app' = Loaded(s, l)
  <2>1. PICK l \in Loads \cup {Nothing} : app' = Loaded(s, l)
    BY <1>5
  <2>2. Listed(l.groups)
    BY LoadsAre
  <2> HIDE DEF key, node
  <2> QED BY <1>4, <2>1, <2>2, LoadedStays
<1>6. CASE app' = ClampSelections(t)
  <2>1. IsApp(t) /\ t.groups = app.groups /\ t[c] = s[c]
    BY <1>4, MeasuresSet
  <2> HIDE DEF t, key, node
  <2>2. Means(t[c].gkey, key) /\ (OnItsNode(app, c) => Means(t[c].nkey, node))
    BY <1>4, <2>1 DEF HoldsGroup, HoldsNode
  <2> QED BY <1>6, <2>1, <2>2, ClampedStays
<1> QED BY <1>1, <1>5, <1>6

\* The refresh of the dashboard.
LEMMA RefreshDashboardStays ==
    ASSUME IsApp(app), Listed(app.groups), RefreshDashboard, NEW c \in Cursors
    PROVE  Stays(app, app', c)
<1> DEFINE key == app[c].gkey
           node == app[c].nkey
<1>1. PICK s \in {app, ApplyProfiles(app, catalog)} :
         \E l \in Loads \cup {Nothing} \cup {[Nothing EXCEPT !.meta = m] : m \in Measures},
            t \in {s} \cup {ApplyGroups([s EXCEPT !.meta = <<>>], <<>>)} : app' = Loaded(t, l)
  BY DEF RefreshDashboard, Show
<1>2. PICK l \in Loads \cup {Nothing} \cup {[Nothing EXCEPT !.meta = m] : m \in Measures},
           t \in {s} \cup {ApplyGroups([s EXCEPT !.meta = <<>>], <<>>)} : app' = Loaded(t, l)
  BY <1>1
<1>3. Listed(l.groups)
  <2>1. \A m : [Nothing EXCEPT !.meta = m].groups = Nothing.groups
    BY DEF Nothing
  <2> QED BY <2>1, LoadsAre
<1>4. SUFFICES ASSUME app[c].sticky, app'[c].sticky, OnItsGroup(app, c)
               PROVE  StaysOnGroup(app', c, key) /\ (OnItsNode(app, c) => StaysOnNode(app', c, key, node))
  BY DEF Stays
<1>5. HoldsGroup(app, c, key) /\ (OnItsNode(app, c) => HoldsNode(app, c, node))
  BY <1>4, OnItsHolds
<1> DEFINE Good(u) == IsApp(u) /\ HoldsGroup(u, c, key) /\ (OnItsNode(app, c) => HoldsNode(u, c, node))
<1>6. IsApp(s) /\ (s[c].sticky => Good(s))
  <2>1. CASE s = app
    BY <1>5, <2>1
  <2>2. CASE s = ApplyProfiles(app, catalog)
    <3>1. IsApp(s)
      BY <2>2, ProfilesApplied
    <3> HIDE DEF key, node
    <3>2. \/ s[c].sticky = FALSE
          \/ HoldsGroup(s, c, key) /\ \A x : HoldsNode(app, c, x) => HoldsNode(s, c, x)
      BY <1>4, <1>5, <2>2, ProfilesHold
    <3> QED BY <1>5, <3>1, <3>2
  <2> QED BY <2>1, <2>2
<1>7. IsApp(t) /\ t[c].sticky = s[c].sticky /\ (s[c].sticky => Good(t))
  <2>1. CASE t = s
    BY <1>6, <2>1
  <2>2. CASE t # s
    <3> DEFINE m == [s EXCEPT !.meta = <<>>]
    <3>1. t = ApplyGroups(m, <<>>)
      BY <2>2
    <3>2. IsApp(m) /\ m[c] = s[c]
      BY <1>6, MeasuresSet
    <3> HIDE DEF m
    <3>3. Listed(<<>>)
      BY DEF Listed
    <3>4. IsApp(t) /\ t.groups = <<>> /\ t[c].sticky = s[c].sticky /\ t[c].gkey = s[c].gkey /\ t[c].nkey = s[c].nkey
      BY <3>1, <3>2, <3>3, ApplyHolds
    <3>5. Sticky(s, c) => Sticky(t, c)
      BY <3>4 DEF Sticky
    <3> HIDE DEF key, node
    <3> QED BY <1>6, <3>4, <3>5 DEF HoldsGroup, HoldsNode
  <2> QED BY <2>1, <2>2
<1> HIDE DEF key, node
<1>8. s[c].sticky => Good(t)
  BY <1>7
<1>9. ASSUME NEW k, HoldsGroup(t, c, k)
      PROVE  /\ app'[c].sticky = t[c].sticky /\ StaysOnGroup(app', c, k)
             /\ \A x : HoldsNode(t, c, x) => StaysOnNode(app', c, k, x)
  BY <1>2, <1>3, <1>7, <1>9, LoadedStays
<1>10. app'[c].sticky = t[c].sticky
  <2> DEFINE m == [t EXCEPT !.meta = l.meta]
             u == ApplyGroups(m, l.groups)
  <2>1. IsApp(m) /\ m[c] = t[c]
    <3>1. IsApp(t)
      BY <1>7
    <3> QED BY <3>1, MeasuresSet
  <2>2. app' = ClampSelections(u)
    BY <1>2 DEF Loaded
  <2> HIDE DEF m
  <2>3. IsApp(u) /\ u[c].sticky = m[c].sticky
    BY <1>3, <2>1, ApplyHolds
  <2> HIDE DEF u
  <2>4. Moves(u, app')
    BY <2>2, <2>3, ClampsLand
  <2> QED BY <2>1, <2>3, <2>4 DEF Moves
<1>11. s[c].sticky
  BY <1>4, <1>7, <1>10
<1> QED BY <1>8, <1>9, <1>11

\* The refresh of another page.
LEMMA RefreshElsewhereStays ==
    ASSUME IsApp(app), Listed(app.groups), RefreshElsewhere, NEW c \in Cursors
    PROVE  Stays(app, app', c)
<1> DEFINE key == app[c].gkey
           node == app[c].nkey
           r == ApplyProfiles(app, catalog)
<1>1. app' = ClampSelections(app) \/ app' = ClampSelections(r)
  BY DEF RefreshElsewhere, Key, Show
<1>2. SUFFICES ASSUME app[c].sticky, app'[c].sticky, OnItsGroup(app, c)
               PROVE  StaysOnGroup(app', c, key) /\ (OnItsNode(app, c) => StaysOnNode(app', c, key, node))
  BY DEF Stays
<1>3. HoldsGroup(app, c, key) /\ (OnItsNode(app, c) => HoldsNode(app, c, node))
  BY <1>2, OnItsHolds
<1>4. CASE app' = ClampSelections(app)
  <2>1. Means(app[c].gkey, key) /\ (OnItsNode(app, c) => Means(app[c].nkey, node))
    BY <1>3 DEF HoldsGroup, HoldsNode
  <2> HIDE DEF key, node
  <2> QED BY <1>4, <2>1, ClampedStays
<1>5. CASE app' = ClampSelections(r)
  <2>1. IsApp(r) /\ (r[c].sticky => r.groups = app.groups)
    <3>1. r = ClampSelections(RestoreProfileGroup(IF app.current # catalog.current THEN ClearBound(TakeCatalog(app, catalog))
                                                  ELSE TakeCatalog(app, catalog)))
      BY DEF ApplyProfiles
    <3> DEFINE t == TakeCatalog(app, catalog)
               k == IF app.current # catalog.current THEN ClearBound(t) ELSE t
               v == RestoreProfileGroup(k)
    <3>2. IsApp(t) /\ t.groups = app.groups
      BY CatalogLeaves DEF SameRows
    <3>3. r = ClampSelections(v)
      BY <3>1
    <3> HIDE DEF t, r
    <3>4. IsApp(k) /\ (k.groups = app.groups \/ k[c].sticky = FALSE)
      <4>1. CASE app.current # catalog.current
        <5>1. k = ClearBound(t)
          BY <4>1
        <5>2. Blank(ClearBound(t))
          BY <3>2, BlankFresh
        <5> HIDE DEF k
        <5>3. Blank(k)
          BY <5>1, <5>2
        <5> QED BY <5>3 DEF Blank
      <4>2. CASE ~(app.current # catalog.current)
        <5>1. k = t
          BY <4>2
        <5> HIDE DEF k
        <5> QED BY <3>2, <5>1
      <4> QED BY <4>1, <4>2
    <3> HIDE DEF k
    <3>5. IsApp(v) /\ v.groups = k.groups /\ v[c].sticky = k[c].sticky
      BY <3>4, SavedLeaves DEF SameRows
    <3> HIDE DEF v
    <3>6. Moves(v, r)
      BY <3>3, <3>5, ClampsLand
    <3> QED BY <3>4, <3>5, <3>6 DEF Moves, SameRows
  <2>2. \/ r[c].sticky = FALSE
        \/ HoldsGroup(r, c, key) /\ \A x : HoldsNode(app, c, x) => HoldsNode(r, c, x)
    <3> HIDE DEF key
    <3> QED BY <1>2, <1>3, ProfilesHold
  <2> HIDE DEF r, key, node
  <2>3. r[c].sticky
    <3>1. Moves(r, app')
      BY <1>5, <2>1, ClampsLand
    <3> QED BY <1>2, <3>1 DEF Moves
  <2>4. Listed(r.groups)
    BY <2>1, <2>3
  <2>5. Means(r[c].gkey, key) /\ (OnItsNode(app, c) => Means(r[c].nkey, node))
    BY <1>3, <2>2, <2>3 DEF HoldsGroup, HoldsNode
  <2> QED BY <1>5, <2>1, <2>4, <2>5, ClampedStays
<1> QED BY <1>1, <1>4, <1>5
-----------------------------------------------------------------------------
(* What leaves the list of groups alone.                                   *)

\* Rows that can be shown.
Fit(s) == IsApp(s) /\ Listed(s.groups)

\* The same rows.
SameList(s, t) == IsApp(t) /\ t.groups = s.groups

\* One such change after the other; what was fit to be shown still is.
LEMMA ListOn ==
    \A s, t, u : /\ SameList(s, t) => IsApp(t) /\ (Fit(s) => Fit(t))
                 /\ SameList(s, t) /\ SameList(t, u) => SameList(s, u)
  BY DEF SameList, Fit

\* The methods of the cursors.
LEMMA MethodsList ==
    ASSUME NEW s, IsApp(s)
    PROVE  /\ \A c \in Cursors : /\ SameList(s, RestoreGroup(s, c)) /\ SameList(s, ClampGroup(s, c))
                                 /\ SameList(s, RememberGroup(s, c)) /\ SameList(s, ClampNode(s, c))
                                 /\ SameList(s, RememberNode(s, c))
           /\ SameList(s, s) /\ SameList(s, ClampSelections(s))
           /\ SameList(s, RememberPane(s)) /\ SameList(s, RestorePane(s)) /\ SameList(s, RestoreProfileGroup(s))
           /\ \A cat : SameList(s, TakeCatalog(s, cat))
<1>1. "page" \in Cursors /\ \A t, u, c : Only(t, u, c) => SameList(t, u)
  BY DEF Only, SameRows, SameList, Cursors
<1>2. \A t : IsApp(t) => \A c \in Cursors : /\ SameList(t, RestoreGroup(t, c)) /\ SameList(t, ClampGroup(t, c))
                                            /\ SameList(t, RememberGroup(t, c)) /\ SameList(t, ClampNode(t, c))
                                            /\ SameList(t, RememberNode(t, c)) /\ SameList(t, t)
  BY <1>1, MethodsOnly
<1>3. SameList(s, s) /\ SameList(s, RememberPane(s))
  BY <1>1, <1>2 DEF RememberPane
<1>4. SameList(s, RestorePane(s))
  <2> DEFINE r == RestoreGroup(s, "page")
  <2>1. SameList(s, r)
    BY <1>1, <1>2
  <2>2. RestorePane(s) = r \/ RestorePane(s) = ClampNode(r, "page")
    BY DEF RestorePane
  <2> HIDE DEF r
  <2>3. SameList(r, ClampNode(r, "page"))
    BY <1>1, <1>2, <2>1, ListOn
  <2> QED BY <2>1, <2>2, <2>3, ListOn
<1>5. SameList(s, ClampSelections(s))
  BY ClampsLand DEF Moves, SameRows, SameList
<1>6. SameList(s, RestoreProfileGroup(s)) /\ \A cat : SameList(s, TakeCatalog(s, cat))
  BY SavedLeaves, CatalogLeaves DEF SameRows, SameList
<1> QED BY <1>2, <1>3, <1>4, <1>5, <1>6

\* The fields of the screen and of the cursors.
LEMMA FieldsList ==
    \A s, x : IsApp(s) =>
        /\ SameList(s, [s EXCEPT !.view = x]) /\ SameList(s, [s EXCEPT !.pane = x]) /\ SameList(s, [s EXCEPT !.popup = x])
        /\ SameList(s, [s EXCEPT !.query = x]) /\ SameList(s, [s EXCEPT !.sort = x]) /\ SameList(s, [s EXCEPT !.meta = x])
        /\ \A c \in Cursors : /\ SameList(s, [s EXCEPT ![c].group = x]) /\ SameList(s, [s EXCEPT ![c].node = x])
                              /\ SameList(s, [s EXCEPT ![c].gkey = x]) /\ SameList(s, [s EXCEPT ![c].nkey = x])
                              /\ SameList(s, Chosen(s, c))
<1> SUFFICES ASSUME NEW s, NEW x, IsApp(s)
    PROVE  /\ SameList(s, [s EXCEPT !.view = x]) /\ SameList(s, [s EXCEPT !.pane = x]) /\ SameList(s, [s EXCEPT !.popup = x])
           /\ SameList(s, [s EXCEPT !.query = x]) /\ SameList(s, [s EXCEPT !.sort = x]) /\ SameList(s, [s EXCEPT !.meta = x])
           /\ \A c \in Cursors : /\ SameList(s, [s EXCEPT ![c].group = x]) /\ SameList(s, [s EXCEPT ![c].node = x])
                                 /\ SameList(s, [s EXCEPT ![c].gkey = x]) /\ SameList(s, [s EXCEPT ![c].nkey = x])
                                 /\ SameList(s, Chosen(s, c))
  OBVIOUS
<1>1. s = [f \in AppFields |-> s[f]] /\ "groups" \in AppFields /\ Cursors \subseteq AppFields /\ "groups" \notin Cursors
  BY DEF IsApp, AppFields, Cursors
<1>2. ASSUME NEW f \in {"view", "pane", "popup", "query", "sort", "meta"}
      PROVE  SameList(s, [s EXCEPT ![f] = x])
  <2>1. [s EXCEPT ![f] = x].groups = s.groups
    BY <1>1
  <2>2. IsApp([s EXCEPT ![f] = x])
    BY FieldSets DEF Keeps
  <2> QED BY <2>1, <2>2 DEF SameList
<1>3. \A c \in Cursors : /\ SameList(s, [s EXCEPT ![c].group = x]) /\ SameList(s, [s EXCEPT ![c].node = x])
                         /\ SameList(s, [s EXCEPT ![c].gkey = x]) /\ SameList(s, [s EXCEPT ![c].nkey = x])
  <2> SUFFICES ASSUME NEW c \in Cursors
               PROVE  /\ SameList(s, [s EXCEPT ![c].group = x]) /\ SameList(s, [s EXCEPT ![c].node = x])
                      /\ SameList(s, [s EXCEPT ![c].gkey = x]) /\ SameList(s, [s EXCEPT ![c].nkey = x])
    OBVIOUS
  <2>1. \A t, g, n, k, l : Sets(s, t, c, g, n, k, l) => SameList(s, t)
    BY DEF Sets, SameRows, SameList
  <2> QED BY <2>1, OneSets
<1>4. ASSUME NEW c \in Cursors
      PROVE  SameList(s, Chosen(s, c))
  <2> DEFINE at == [s[c] EXCEPT !.sticky = TRUE]
             t == [s EXCEPT ![c] = at]
  <2>1. Chosen(s, c) = t
    BY DEF Chosen
  <2>2. IsApp(t)
    BY <2>1, CursorSets DEF Keeps, Chosen
  <2>3. t.groups = s.groups
    BY <1>1
  <2> HIDE DEF t
  <2> QED BY <2>1, <2>2, <2>3 DEF SameList
<1> QED BY <1>2, <1>3, <1>4

\* A cursor goes to the node in use.
LEMMA SelectList == \A s : IsApp(s) => \A c \in Cursors : SameList(s, SelectCurrentNode(s, c))
<1> SUFFICES ASSUME NEW s, IsApp(s), NEW c \in Cursors
             PROVE  SameList(s, SelectCurrentNode(s, c))
  OBVIOUS
<1> DEFINE i == IF HasGroup(s, c) THEN PositionOf(Group(s, c).now, Group(s, c).nodes) ELSE 0
           x == IF i = 0 THEN 1 ELSE i
           at == [s EXCEPT ![c].node = x]
           y == NodeAt(at, c)
           named == [at EXCEPT ![c].nkey = y]
           seen == IF c = "page" /\ NodeRows(named, c) = <<>> THEN [named EXCEPT !.query = NoSearch] ELSE named
           k == ClampNode(seen, c)
<1>1. SelectCurrentNode(s, c) = RememberNode(k, c)
  BY Zenon DEF SelectCurrentNode
<1> HIDE DEF x
<1>2. SameList(s, at)
  BY FieldsList
<1> HIDE DEF at, y
<1>3. SameList(at, named)
  BY <1>2, ListOn, FieldsList
<1> HIDE DEF named
<1>4. SameList(named, seen)
  BY <1>3, ListOn, FieldsList, MethodsList
<1> HIDE DEF seen
<1>5. SameList(seen, k)
  BY <1>4, ListOn, MethodsList
<1> HIDE DEF k
<1>6. SameList(k, RememberNode(k, c))
  BY <1>5, ListOn, MethodsList
<1> QED BY <1>1, <1>2, <1>3, <1>4, <1>5, <1>6, ListOn

\* The nodes are shown, on the page and on the dashboard.
LEMMA FocusList ==
    \A s : IsApp(s) => SameList(s, FocusNodes(s)) /\ SameList(s, FocusDashboardNodes(s)) /\ SameList(s, EnterProxyView(s))
<1>1. "page" \in Cursors /\ "dash" \in Cursors
  BY DEF Cursors
<1>2. \A s : IsApp(s) => \A c \in Cursors : SameList(s, RememberNode(RememberGroup(SelectCurrentNode(s, c), c), c))
  <2> SUFFICES ASSUME NEW s, IsApp(s), NEW c \in Cursors
               PROVE  SameList(s, RememberNode(RememberGroup(SelectCurrentNode(s, c), c), c))
    OBVIOUS
  <2> DEFINE u == SelectCurrentNode(s, c)
             v == RememberGroup(u, c)
  <2>1. SameList(s, u)
    BY SelectList
  <2> HIDE DEF u
  <2>2. SameList(u, v)
    BY <2>1, ListOn, MethodsList
  <2> HIDE DEF v
  <2>3. SameList(v, RememberNode(v, c))
    BY <2>2, ListOn, MethodsList
  <2> QED BY <2>1, <2>2, <2>3, ListOn DEF u, v
<1> SUFFICES ASSUME NEW s, IsApp(s)
             PROVE  SameList(s, FocusNodes(s)) /\ SameList(s, FocusDashboardNodes(s)) /\ SameList(s, EnterProxyView(s))
  OBVIOUS
<1> DEFINE t == [s EXCEPT !.pane = "nodes"]
<1>3. SameList(s, t)
  BY FieldsList
<1>4. /\ FocusNodes(s) = RememberNode(RememberGroup(SelectCurrentNode(t, "page"), "page"), "page")
      /\ FocusDashboardNodes(s) = RememberNode(RememberGroup(SelectCurrentNode(s, "dash"), "dash"), "dash")
      /\ EnterProxyView(s) = IF HasGroup(s, "page") THEN FocusNodes(s) ELSE ClampNode(t, "page")
  BY DEF FocusNodes, FocusDashboardNodes, EnterProxyView
<1> HIDE DEF t
<1>5. SameList(t, ClampNode(t, "page"))
  BY <1>1, <1>3, ListOn, MethodsList
<1>6. SameList(s, FocusNodes(s)) /\ SameList(s, FocusDashboardNodes(s))
  BY <1>1, <1>2, <1>3, <1>4, ListOn
<1> QED BY <1>3, <1>4, <1>5, <1>6, ListOn

-----------------------------------------------------------------------------
(* New rows, a node in use, another catalog.                               *)

\* The node that Enter acts on is a node of the group.
LEMMA SelectedIs ==
    ASSUME NEW s, Listed(s.groups), NEW c, SelectedNode(s, c) # NoKey
    PROVE  HasGroup(s, c) /\ SelectedNode(s, c) \in KnownNames
<1> DEFINE nodes == Group(s, c).nodes
           i == FindName(nodes, s[c].nkey)
<1>1. HasGroup(s, c)
  BY DEF SelectedNode
<1>2. nodes \in Seq(KnownNames)
  BY <1>1, RowsAre DEF HasGroup, Group
<1>3. ToSet(NodeRows(s, c)) \subseteq DOMAIN nodes
  BY <1>1, NodeRowsAre
<1>4. SelectedNode(s, c) = IF s[c].node \in ToSet(NodeRows(s, c)) THEN nodes[s[c].node] ELSE IF i = 0 THEN NoKey ELSE nodes[i]
  BY <1>1 DEF SelectedNode
<1> HIDE DEF nodes
<1>5. i = 0 \/ i \in DOMAIN nodes
  BY <1>2, FindIs
<1> HIDE DEF i
<1>6. \A k \in DOMAIN nodes : nodes[k] \in KnownNames
  BY <1>2
<1> QED BY <1>1, <1>3, <1>4, <1>5, <1>6

\* Another node in use leaves a list of rows.
LEMMA NowListed ==
    ASSUME NEW groups, Listed(groups), NEW i \in DOMAIN groups, NEW proxy \in KnownNames
    PROVE  Listed([groups EXCEPT ![i].now = proxy])
<1> DEFINE row == [groups[i] EXCEPT !.now = proxy]
           new == [groups EXCEPT ![i] = row]
<1>1. [groups EXCEPT ![i].now = proxy] = new
  OBVIOUS
<1>2. groups[i] \in Rows /\ groups \in Seq(Rows)
  BY RowsAre DEF Listed
<1>3. row \in Rows
  BY <1>2 DEF Rows
<1> HIDE DEF row
<1>4. new \in Seq(Rows)
  BY <1>2, <1>3
<1> QED BY <1>1, <1>4 DEF Listed

\* A cursor follows the node in use.
LEMMA FollowList == \A s, name, proxy : IsApp(s) => \A c \in Cursors : SameList(s, FollowNow(s, name, proxy, c))
<1> SUFFICES ASSUME NEW s, NEW name, NEW proxy, IsApp(s), NEW c \in Cursors
             PROVE  SameList(s, FollowNow(s, name, proxy, c))
  OBVIOUS
<1> DEFINE n == PositionOf(proxy, Group(s, c).nodes)
           at == IF n = 0 THEN s ELSE [s EXCEPT ![c].node = n]
           g == RememberGroup(at, c)
<1>1. FollowNow(s, name, proxy, c) = s \/ FollowNow(s, name, proxy, c) = RememberNode(g, c)
  BY Zenon DEF FollowNow
<1> HIDE DEF n
<1>2. SameList(s, at) /\ SameList(s, s)
  BY FieldsList, MethodsList
<1> HIDE DEF at
<1>3. SameList(at, g)
  BY <1>2, ListOn, MethodsList
<1> HIDE DEF g
<1>4. SameList(g, RememberNode(g, c))
  BY <1>3, ListOn, MethodsList
<1> QED BY <1>1, <1>2, <1>3, <1>4, ListOn

\* Showing a node as the one in use.
LEMMA SetNowFits ==
    ASSUME NEW s, Fit(s), NEW name, NEW proxy \in KnownNames
    PROVE  Fit(SetGroupNow(s, name, proxy))
<1> DEFINE i == FindName(RowNames(s), name)
           new == [s.groups EXCEPT ![i].now = proxy]
           now == IF i = 0 THEN s ELSE [s EXCEPT !.groups = new]
           first == FollowNow(now, name, proxy, "page")
           second == FollowNow(first, name, proxy, "dash")
           third == ClampNode(second, "page")
<1>0. Cursors = {"page", "dash"} /\ IsApp(s)
  BY DEF Cursors, Fit
<1>1. SetGroupNow(s, name, proxy) = ClampNode(third, "dash")
  <2>1. (IF i = 0 THEN s ELSE [s EXCEPT !.groups[i].now = proxy]) = now
    OBVIOUS
  <2> HIDE DEF now
  <2> QED BY <2>1, Zenon DEF SetGroupNow
<1>2. i = 0 \/ i \in DOMAIN s.groups
  <2>1. RowNames(s) \in Seq(KnownNames) /\ DOMAIN RowNames(s) = DOMAIN s.groups
    BY NamesAre DEF Fit
  <2> QED BY <2>1, FindIs
<1> HIDE DEF i
<1>3. i # 0 => Listed(new)
  BY <1>2, NowListed DEF Fit
<1> HIDE DEF new
<1>4. Fit(now)
  <2>1. s = [f \in AppFields |-> s[f]] /\ "groups" \in AppFields
    BY <1>0 DEF IsApp, AppFields
  <2>2. [s EXCEPT !.groups = new].groups = new
    BY <2>1
  <2>3. IsApp([s EXCEPT !.groups = new])
    BY <1>0, FieldSets DEF Keeps
  <2> QED BY <1>3, <2>2, <2>3 DEF Fit
<1> HIDE DEF now
<1>5. SameList(now, first)
  BY <1>0, <1>4, FollowList DEF Fit
<1> HIDE DEF first
<1>6. SameList(first, second)
  BY <1>0, <1>5, ListOn, FollowList
<1> HIDE DEF second
<1>7. SameList(second, third)
  BY <1>0, <1>6, ListOn, MethodsList
<1> HIDE DEF third
<1>8. SameList(third, ClampNode(third, "dash"))
  BY <1>0, <1>7, ListOn, MethodsList
<1> QED BY <1>1, <1>4, <1>5, <1>6, <1>7, <1>8, ListOn

\* The catalog is read, and the rows may go.
LEMMA CatalogFits ==
    \A s, cat : Fit(s) => Fit(ApplyProfiles(s, cat)) /\ Fit(ApplyProfilesKeepingRows(s, cat))
<1> SUFFICES ASSUME NEW s, NEW cat, Fit(s)
             PROVE  Fit(ApplyProfiles(s, cat)) /\ Fit(ApplyProfilesKeepingRows(s, cat))
  OBVIOUS
<1> DEFINE t == TakeCatalog(s, cat)
           k == IF s.current # cat.current THEN ClearBound(t) ELSE t
<1>1. ApplyProfiles(s, cat) = ClampSelections(RestoreProfileGroup(k))
      /\ ApplyProfilesKeepingRows(s, cat) = ClampSelections(RestoreProfileGroup(t))
  BY DEF ApplyProfiles, ApplyProfilesKeepingRows
<1>2. Fit(t)
  <2>1. SameList(s, t)
    BY MethodsList DEF Fit
  <2> QED BY <2>1, ListOn
<1> HIDE DEF t
<1>3. Fit(k)
  <2>1. Listed(<<>>)
    BY DEF Listed
  <2> QED BY <1>2, <2>1, BlankFresh DEF Blank, Fit
<1> HIDE DEF k
<1>4. \A x : Fit(x) => Fit(ClampSelections(RestoreProfileGroup(x)))
  <2> SUFFICES ASSUME NEW x, Fit(x)
               PROVE  Fit(ClampSelections(RestoreProfileGroup(x)))
    OBVIOUS
  <2> DEFINE y == RestoreProfileGroup(x)
  <2>1. SameList(x, y)
    BY MethodsList DEF Fit
  <2> HIDE DEF y
  <2>2. SameList(y, ClampSelections(y))
    BY <2>1, ListOn, MethodsList
  <2> QED BY <2>1, <2>2, ListOn DEF y
<1> QED BY <1>1, <1>2, <1>3, <1>4

\* New rows.
LEMMA RowsFit ==
    \A s, groups : IsApp(s) /\ Listed(groups) =>
        Fit(ApplyGroups(s, groups)) /\ \A x : Fit(ClampSelections(ApplyGroups([s EXCEPT !.meta = x], groups)))
<1>1. \A s, groups : IsApp(s) /\ Listed(groups) => Fit(ApplyGroups(s, groups))
  BY ApplyHolds DEF Fit
<1> SUFFICES ASSUME NEW s, NEW groups, IsApp(s), Listed(groups), NEW x
             PROVE  Fit(ClampSelections(ApplyGroups([s EXCEPT !.meta = x], groups)))
  BY <1>1
<1> DEFINE u == ApplyGroups([s EXCEPT !.meta = x], groups)
<1>2. Fit(u)
  BY <1>1, MeasuresSet
<1> HIDE DEF u
<1>3. SameList(u, ClampSelections(u))
  BY <1>2, MethodsList DEF Fit
<1> QED BY <1>2, <1>3, ListOn DEF u

\* After an import the cursors start over.
LEMMA ImportList ==
    ASSUME NEW s, IsApp(s)
    PROVE  SameList(s, FocusAfterImport(s))
<1> DEFINE t == [s EXCEPT !.view = "Proxies", !.pane = "nodes", !.query = NoSearch, !.page = Fresh, !.dash = Fresh]
           u == FocusNodes(t)
<1>1. FocusAfterImport(s) = FocusDashboardNodes(u)
  BY DEF FocusAfterImport
<1>2. s = [f \in AppFields |-> s[f]]
  BY DEF IsApp
<1>3. t["groups"] = s["groups"]
  BY <1>2 DEF AppFields
<1>4. IsApp(t)
  BY <1>2, BlankFresh DEF Keeps
<1> HIDE DEF t
<1>5. SameList(s, t)
  BY <1>3, <1>4 DEF SameList
<1>6. SameList(t, u)
  BY <1>4, FocusList
<1> HIDE DEF u
<1>7. SameList(u, FocusDashboardNodes(u))
  BY <1>6, ListOn, FocusList
<1> QED BY <1>1, <1>5, <1>6, <1>7, ListOn

-----------------------------------------------------------------------------
(* Every step leaves rows that can be shown.                               *)

\* The view changes.
LEMMA ViewFits == ASSUME Fit(app), NEW v, OpenView(v) PROVE Fit(app')
<1> DEFINE r == [app EXCEPT !.view = v]
           x == IF v = "Dashboard" THEN app.popup ELSE "none"
           s == [r EXCEPT !.popup = x]
<1>1. IsApp(app)
  BY DEF Fit
<1>2. [app EXCEPT !.view = v, !.popup = IF v = "Dashboard" THEN @ ELSE "none"] = s
  BY <1>1 DEF IsApp, AppFields
<1>3. app' = IF v = "Proxies" THEN EnterProxyView(s) ELSE s
  BY <1>2 DEF OpenView, Key, Show
<1> HIDE DEF x
<1>4. SameList(app, r)
  BY <1>1, FieldsList
<1> HIDE DEF r
<1>5. SameList(r, s)
  BY <1>4, ListOn, FieldsList
<1> HIDE DEF s
<1>6. SameList(s, EnterProxyView(s))
  BY <1>5, ListOn, FocusList
<1> QED BY <1>3, <1>4, <1>5, <1>6, ListOn

\* A cursor moves.
LEMMA MoveFits == ASSUME Fit(app), NEW c \in Cursors, NEW delta, MoveGroup(c, delta) \/ MoveNode(c, delta) PROVE Fit(app')
<1> DEFINE x == MoveIn(app[c].group, GroupRows(app, c), delta)
           y == MoveIn(app[c].node, NodeRows(app, c), delta)
           s == [app EXCEPT ![c].group = x]
           n == [app EXCEPT ![c].node = y]
<1>1. IsApp(app)
  BY DEF Fit
<1>2. /\ [app EXCEPT ![c].group = MoveIn(@, GroupRows(app, c), delta)] = s
      /\ [app EXCEPT ![c].node = MoveIn(@, NodeRows(app, c), delta)] = n
  OBVIOUS
<1>3. app' = SelectCurrentNode(RememberGroup(Chosen(s, c), c), c) \/ app' = RememberNode(Chosen(n, c), c)
  BY <1>2 DEF MoveGroup, MoveNode, Key, Show
<1> HIDE DEF x, y
<1>4. SameList(app, s) /\ SameList(app, n)
  BY <1>1, FieldsList
<1> HIDE DEF s, n
<1> DEFINE t == Chosen(s, c)
           m == Chosen(n, c)
           u == RememberGroup(t, c)
<1>5. SameList(s, t) /\ SameList(n, m)
  BY <1>4, ListOn, FieldsList
<1> HIDE DEF t, m
<1>6. SameList(t, u) /\ SameList(m, RememberNode(m, c))
  BY <1>5, ListOn, MethodsList
<1> HIDE DEF u
<1>7. SameList(u, SelectCurrentNode(u, c))
  BY <1>6, ListOn, SelectList
<1> QED BY <1>3, <1>4, <1>5, <1>6, <1>7, ListOn DEF t, m, u

\* The other pane, another order, a search, and Enter on a group.
LEMMA PaneFits == Fit(app) /\ (FocusNextPane \/ CycleSort \/ EnterGroup \/ \E q : Search(q)) => Fit(app')
<1> SUFFICES ASSUME Fit(app), FocusNextPane \/ CycleSort \/ EnterGroup \/ \E q : Search(q)
             PROVE  Fit(app')
  OBVIOUS
<1>1. IsApp(app) /\ "page" \in Cursors
  BY DEF Fit, Cursors
<1>2. CASE FocusNextPane
  <2> DEFINE r == RememberPane(app)
             x == IF r.pane = "groups" THEN "nodes" ELSE "groups"
             s == [r EXCEPT !.pane = x]
             t == IF s.pane = "groups" THEN RestoreGroup(s, "page") ELSE ClampNode(s, "page")
  <2>1. app' = RememberPane(t)
    BY <1>2 DEF FocusNextPane, Key, Show
  <2>2. SameList(app, r)
    BY <1>1, MethodsList
  <2> HIDE DEF r, x
  <2>3. SameList(r, s)
    BY <2>2, ListOn, FieldsList
  <2> HIDE DEF s
  <2>4. SameList(s, t)
    BY <1>1, <2>3, ListOn, MethodsList
  <2> HIDE DEF t
  <2>5. SameList(t, RememberPane(t))
    BY <2>4, ListOn, MethodsList
  <2> QED BY <2>1, <2>2, <2>3, <2>4, <2>5, ListOn
<1>3. CASE CycleSort
  <2> DEFINE r == RememberNode(app, "page")
             x == NextSort(r.sort)
             s == [r EXCEPT !.sort = x]
             t == ClampNode(s, "page")
  <2>1. app' = IF s.pane = "nodes" THEN RememberNode(t, "page") ELSE FocusNodes(s)
    BY <1>3 DEF CycleSort, Key, Show
  <2>2. SameList(app, r)
    BY <1>1, MethodsList
  <2> HIDE DEF r, x
  <2>3. SameList(r, s)
    BY <2>2, ListOn, FieldsList
  <2> HIDE DEF s
  <2>4. SameList(s, t) /\ SameList(s, FocusNodes(s))
    BY <1>1, <2>3, ListOn, MethodsList, FocusList
  <2> HIDE DEF t
  <2>5. SameList(t, RememberNode(t, "page"))
    BY <1>1, <2>4, ListOn, MethodsList
  <2> QED BY <2>1, <2>2, <2>3, <2>4, <2>5, ListOn
<1>4. CASE EnterGroup
  BY <1>1, <1>4, FocusList, ListOn DEF EnterGroup, Key, Show
<1>5. ASSUME NEW q, Search(q)
      PROVE  Fit(app')
  <2> DEFINE s == [app EXCEPT !.query = q]
  <2>1. app' = ClampSelections(s)
    BY <1>5 DEF Search, Key, Show
  <2>2. SameList(app, s)
    BY <1>1, FieldsList
  <2> HIDE DEF s
  <2>3. SameList(s, ClampSelections(s))
    BY <2>2, ListOn, MethodsList
  <2> QED BY <2>1, <2>2, <2>3, ListOn
<1> QED BY <1>2, <1>3, <1>4, <1>5

\* A node is chosen, and the choice is saved in the catalog.
LEMMA AppliedFits == ASSUME Fit(app), NEW c, NEW s, SameList(app, s), ApplyNode(c, s) PROVE Fit(app')
<1> DEFINE t == ApplyProfilesKeepingRows(s, catalog')
           name == GroupName(app, c)
           proxy == SelectedNode(app, c)
<1>1. app' = SetGroupNow(t, name, proxy) /\ proxy # NoKey
  BY DEF ApplyNode, Show
<1>2. proxy \in KnownNames
  BY <1>1, SelectedIs DEF Fit
<1>3. Fit(t)
  BY ListOn, CatalogFits
<1> HIDE DEF t, name, proxy
<1> QED BY <1>1, <1>2, <1>3, SetNowFits

\* Enter on a node, and the dashboard's popups.
LEMMA PopupsFit == Fit(app) /\ (EnterNode \/ OpenGroups \/ OpenNodes \/ EnterPopup \/ ClosePopup) => Fit(app')
<1> SUFFICES ASSUME Fit(app), EnterNode \/ OpenGroups \/ OpenNodes \/ EnterPopup \/ ClosePopup
             PROVE  Fit(app')
  OBVIOUS
<1>1. IsApp(app) /\ Cursors = {"page", "dash"}
  BY DEF Fit, Cursors
<1>2. \A s, x : Fit(s) => Fit([s EXCEPT !.popup = x])
  <2>1. \A s, x : Fit(s) => SameList(s, [s EXCEPT !.popup = x])
    BY FieldsList DEF Fit
  <2> QED BY <2>1, ListOn
<1>3. CASE EnterNode
  <2>1. ApplyNode("page", app) /\ SameList(app, app)
    BY <1>1, <1>3, MethodsList DEF EnterNode
  <2> QED BY <2>1, AppliedFits
<1>4. CASE OpenGroups
  <2> DEFINE r == RestoreGroup(app, "dash")
             s == ClampGroup(r, "dash")
             t == RememberGroup(s, "dash")
  <2>1. app' = [t EXCEPT !.popup = "groups"]
    BY <1>4 DEF OpenGroups, Key, Show
  <2>2. SameList(app, r)
    BY <1>1, MethodsList
  <2> HIDE DEF r
  <2>3. SameList(r, s)
    BY <1>1, <2>2, ListOn, MethodsList
  <2> HIDE DEF s
  <2>4. SameList(s, t)
    BY <1>1, <2>3, ListOn, MethodsList
  <2> HIDE DEF t
  <2> QED BY <1>2, <2>1, <2>2, <2>3, <2>4, ListOn
<1>5. CASE OpenNodes
  <2>1. app' = [FocusDashboardNodes(app) EXCEPT !.popup = "nodes"]
    BY <1>5 DEF OpenNodes, Key, Show
  <2>2. SameList(app, FocusDashboardNodes(app))
    BY <1>1, FocusList
  <2> QED BY <1>2, <2>1, <2>2, ListOn
<1>6. CASE EnterPopup
  <2>1. CASE Key([FocusDashboardNodes(RememberGroup(Chosen(app, "dash"), "dash")) EXCEPT !.popup = "nodes"])
    <3> DEFINE s == Chosen(app, "dash")
               t == RememberGroup(s, "dash")
               u == FocusDashboardNodes(t)
    <3>1. app' = [u EXCEPT !.popup = "nodes"]
      BY <2>1 DEF Key, Show
    <3>2. SameList(app, s)
      BY <1>1, FieldsList
    <3> HIDE DEF s
    <3>3. SameList(s, t)
      BY <1>1, <3>2, ListOn, MethodsList
    <3> HIDE DEF t
    <3>4. SameList(t, u)
      BY <3>3, ListOn, FocusList
    <3> HIDE DEF u
    <3> QED BY <1>2, <3>1, <3>2, <3>3, <3>4, ListOn
  <2>2. CASE ApplyNode("dash", [app EXCEPT !.popup = "none"])
    <3>1. SameList(app, [app EXCEPT !.popup = "none"])
      BY <1>1, FieldsList
    <3> QED BY <2>2, <3>1, AppliedFits
  <2>3. CASE Key([app EXCEPT !.popup = "none"])
    BY <1>2, <2>3 DEF Key, Show
  <2> QED BY <1>6, <2>1, <2>2, <2>3 DEF EnterPopup
<1>7. CASE ClosePopup
  BY <1>2, <1>7 DEF ClosePopup, Key, Show
<1> QED BY <1>3, <1>4, <1>5, <1>6, <1>7

\* A delay is measured, and the rows may be loaded again.
LEMMA TestFits == ASSUME Fit(app), TestDelay PROVE Fit(app')
<1> DEFINE n == SelectedNode(app, "page")
           x == Chosen(app, "page")
           name == GroupName(app, "page")
           y == [x EXCEPT !["page"].gkey = name]
           s == [y EXCEPT !["page"].nkey = n]
           Measured(d) ==
             [s EXCEPT !.meta = [z \in DOMAIN @ \cup {n} |-> IF z = n THEN [Meta(app, n) EXCEPT !.delay = d] ELSE @[z]]]
<1>1. IsApp(app) /\ "page" \in Cursors
  BY DEF Fit, Cursors
<1>2. [x EXCEPT !.page.gkey = name, !.page.nkey = n] = s
  OBVIOUS
<1>3. \/ app' = s
      \/ \E d : app' = Measured(d) \/ app' = RememberPane(RestorePane(Measured(d)))
      \/ \E groups \in GroupListings : \E m : app' = RememberPane(RestorePane(ApplyGroups([s EXCEPT !.meta = m], groups)))
  BY <1>2 DEF TestDelay, Show
<1>4. SameList(app, x)
  BY <1>1, FieldsList
<1> HIDE DEF x, n, name
<1>5. SameList(x, y)
  BY <1>1, <1>4, ListOn, FieldsList
<1> HIDE DEF y
<1>6. SameList(y, s)
  BY <1>1, <1>5, ListOn, FieldsList
<1> HIDE DEF s
<1>7. Fit(s) /\ IsApp(s)
  BY <1>4, <1>5, <1>6, ListOn
<1>8. \A t : Fit(t) => Fit(RememberPane(RestorePane(t)))
  <2> SUFFICES ASSUME NEW t, Fit(t)
               PROVE  Fit(RememberPane(RestorePane(t)))
    OBVIOUS
  <2> DEFINE u == RestorePane(t)
  <2>1. SameList(t, u)
    BY MethodsList DEF Fit
  <2> HIDE DEF u
  <2>2. SameList(u, RememberPane(u))
    BY <2>1, ListOn, MethodsList
  <2> QED BY <2>1, <2>2, ListOn DEF u
<1>9. ASSUME NEW d
      PROVE  Fit(Measured(d))
  <2> DEFINE meta == [z \in DOMAIN s.meta \cup {n} |-> IF z = n THEN [Meta(app, n) EXCEPT !.delay = d] ELSE s.meta[z]]
             t == [s EXCEPT !.meta = meta]
  <2>1. Measured(d) = t
    OBVIOUS
  <2> HIDE DEF meta
  <2>2. SameList(s, t)
    BY <1>7, FieldsList
  <2> QED BY <1>7, <2>1, <2>2, ListOn
<1>10. ASSUME NEW groups \in GroupListings, NEW m
       PROVE  Fit(ApplyGroups([s EXCEPT !.meta = m], groups))
  <2>1. Listed(groups)
    BY RowsAssumption DEF Listed
  <2>2. IsApp([s EXCEPT !.meta = m])
    BY <1>7, MeasuresSet
  <2> QED BY <2>1, <2>2, RowsFit
<1> HIDE DEF Measured
<1> QED BY <1>3, <1>7, <1>8, <1>9, <1>10

\* A switch, an import, and an update.
LEMMA SwitchFits ==
    ASSUME Fit(app), NEW u, ChangeCurrent(u) \/ Import(u) \/ CurrentUpdated
    PROVE  Fit(app')
<1>1. CASE ChangeCurrent(u)
  BY <1>1, CatalogFits DEF ChangeCurrent, Show
<1>2. CASE Import(u)
  <2> DEFINE r == ApplyProfiles(app, catalog')
             s == FocusAfterImport(r)
             t == [s EXCEPT !.meta = <<>>]
  <2>1. \/ \E groups \in GroupListings : app' = ClampSelections(ApplyGroups(s, groups))
        \/ app' = ApplyGroups(t, Preview)
        \/ app' = s
    BY <1>2 DEF Import, Show
  <2>2. Fit(r)
    BY CatalogFits
  <2> HIDE DEF r
  <2>3. SameList(r, s)
    BY <2>2, ImportList DEF Fit
  <2> HIDE DEF s
  <2>4. Fit(s) /\ IsApp(s) /\ IsApp(t)
    BY <2>2, <2>3, ListOn, MeasuresSet
  <2> HIDE DEF t
  <2>5. \A groups \in GroupListings \cup {Preview} : Listed(groups)
    BY RowsAssumption DEF Listed
  <2>6. Fit(ApplyGroups(t, Preview))
    BY <2>4, <2>5, RowsFit
  <2>7. ASSUME NEW groups \in GroupListings
        PROVE  Fit(ClampSelections(ApplyGroups(s, groups)))
    <3> DEFINE k == ApplyGroups(s, groups)
    <3>1. Fit(k)
      BY <2>4, <2>5, RowsFit
    <3> HIDE DEF k
    <3>2. SameList(k, ClampSelections(k))
      BY <3>1, MethodsList DEF Fit
    <3> QED BY <3>1, <3>2, ListOn DEF k
  <2> QED BY <2>1, <2>4, <2>6, <2>7
<1>3. CASE CurrentUpdated
  <2>1. app' = ClearBound(app) /\ IsApp(app)
    BY <1>3 DEF CurrentUpdated, Key, Show, Fit
  <2>2. IsApp(ClearBound(app)) /\ ClearBound(app).groups = <<>>
    BY <2>1, BlankFresh DEF Blank
  <2> QED BY <2>1, <2>2 DEF Fit, Listed
<1> QED BY <1>1, <1>2, <1>3

\* The refreshes.
LEMMA RefreshFits ==
    ASSUME Fit(app), RefreshProxies \/ RefreshDashboard \/ RefreshElsewhere
    PROVE  Fit(app')
<1>0. Listed(<<>>)
  BY DEF Listed
<1>1. ASSUME NEW s, IsApp(s), NEW l \in Loads \cup {Nothing} \cup {[Nothing EXCEPT !.meta = m] : m \in Measures}
      PROVE  Fit(Loaded(s, l))
  <2>1. Loaded(s, l) = ClampSelections(ApplyGroups([s EXCEPT !.meta = l.meta], l.groups))
    BY DEF Loaded
  <2>2. Listed(l.groups)
    <3>1. CASE l \in Loads \cup {Nothing}
      BY <3>1, LoadsAre
    <3>2. CASE l \in {[Nothing EXCEPT !.meta = m] : m \in Measures}
      <4>1. l.groups = <<>>
        BY <3>2 DEF Nothing
      <4> QED BY <1>0, <4>1
    <3> QED BY <3>1, <3>2
  <2> QED BY <1>1, <2>1, <2>2, RowsFit
<1>2. \A s : Fit(s) => Fit(ClampSelections(s)) /\ IsApp(s)
  BY MethodsList, ListOn DEF Fit
<1>3. \A cat : Fit(ApplyProfiles(app, cat))
  BY CatalogFits
<1>4. CASE RefreshProxies
  <2> DEFINE s == RememberPane(app)
             t == [s EXCEPT !.meta = <<>>]
  <2>1. (\E l \in Loads \cup {Nothing} : app' = Loaded(s, l)) \/ app' = ClampSelections(t)
    BY <1>4 DEF RefreshProxies, Show
  <2>2. SameList(app, s)
    BY <1>2, MethodsList
  <2> HIDE DEF s
  <2>3. SameList(s, t)
    BY <2>2, ListOn, FieldsList
  <2> HIDE DEF t
  <2> QED BY <1>1, <1>2, <2>1, <2>2, <2>3, ListOn
<1>5. CASE RefreshDashboard
  <2>1. PICK s \in {app, ApplyProfiles(app, catalog)} :
          \E l \in Loads \cup {Nothing} \cup {[Nothing EXCEPT !.meta = m] : m \in Measures},
             t \in {s} \cup {ApplyGroups([s EXCEPT !.meta = <<>>], <<>>)} : app' = Loaded(t, l)
    BY <1>5 DEF RefreshDashboard, Show
  <2>2. IsApp(s)
    BY <1>2, <1>3, <2>1
  <2>3. IsApp(ApplyGroups([s EXCEPT !.meta = <<>>], <<>>))
    <3>1. IsApp([s EXCEPT !.meta = <<>>])
      BY <2>2, MeasuresSet
    <3> QED BY <1>0, <1>2, <3>1, RowsFit
  <2> QED BY <1>1, <2>1, <2>2, <2>3
<1>6. CASE RefreshElsewhere
  BY <1>2, <1>3, <1>6 DEF RefreshElsewhere, Key, Show
<1> QED BY <1>4, <1>5, <1>6

-----------------------------------------------------------------------------
(* The invariant, and the property of every step.                          *)

\* There are rows that can be shown, and keys are counted.
RowsPlaced == RowsInv /\ rowKeys \in Nat /\ Fit(app)

\* The interface starts with no rows.
LEMMA PlacedStart == RowsInit => RowsPlaced
<1> SUFFICES ASSUME RowsInit
             PROVE  RowsPlaced
  OBVIOUS
<1>1. RowsInv
  BY RowsStart
<1>2. IsApp(app) /\ app.groups = <<>> /\ rowKeys = 0
  BY <1>1 DEF RowsInit, RowsInv
<1> QED BY <1>1, <1>2 DEF RowsPlaced, Fit, Listed

\* Every key, refresh and event keeps the invariant.
LEMMA PlacedStep == RowsPlaced /\ [RowsNext]_rowVars => RowsPlaced'
<1> SUFFICES ASSUME RowsPlaced, [RowsNext]_rowVars
             PROVE  RowsPlaced'
  OBVIOUS
<1>1. RowsInv' /\ Fit(app)
  BY RowsStep DEF RowsPlaced
<1>2. CASE UNCHANGED rowVars
  BY <1>1, <1>2 DEF RowsPlaced, rowVars, Fit, IsApp, IsCursor, Listed
<1>3. CASE RowsNext
  <2>1. rowKeys' \in Nat
    BY <1>3 DEF RowsNext, RowsPlaced
  <2>2. Fit(app')
    <3>1. CASE RowKey
      BY <1>1, <3>1, ViewFits, PaneFits, PopupsFit, TestFits, SwitchFits, MoveFits DEF RowKey, MoveSelection, Cursors
    <3>2. CASE RefreshProxies \/ RefreshDashboard \/ RefreshElsewhere
      BY <1>1, <3>2, RefreshFits
    <3>3. CASE CurrentUpdated
      BY <1>1, <3>3, SwitchFits
    <3> QED BY <1>3, <3>1, <3>2, <3>3 DEF RowsNext
  <2>3. Fit(app)' <=> Fit(app')
    BY DEF Fit, IsApp, IsCursor, Listed
  <2> QED BY <1>1, <2>1, <2>2, <2>3 DEF RowsPlaced
<1> QED BY <1>2, <1>3

\* A step without a key keeps every cursor that the user has placed.
LEMMA StickyStep == RowsPlaced /\ [RowsNext]_rowVars => [rowKeys' = rowKeys => \A c \in Cursors : Kept(c)]_rowVars
<1> SUFFICES ASSUME RowsPlaced, RowsNext, rowKeys' = rowKeys, NEW c \in Cursors
             PROVE  Kept(c)
  OBVIOUS
<1>1. IsApp(app) /\ Listed(app.groups) /\ rowKeys \in Nat
  BY DEF RowsPlaced, Fit
<1>2. rowKeys' # rowKeys + 1
  BY <1>1
<1>3. CASE RefreshProxies \/ RefreshDashboard \/ RefreshElsewhere
  BY <1>1, <1>3, RefreshProxiesStays, RefreshDashboardStays, RefreshElsewhereStays, StaysIsKept
<1>4. CASE CurrentUpdated
  <2>1. app' = ClearBound(app)
    BY <1>4 DEF CurrentUpdated, Key, Show
  <2>2. app'[c].sticky = FALSE
    <3>1. Blank(ClearBound(app))
      BY <1>1, BlankFresh
    <3> QED BY <2>1, <3>1 DEF Blank
  <2> QED BY <2>2 DEF Kept
<1> QED BY <1>2, <1>3, <1>4 DEF RowsNext

\* A refresh or an event, whatever rows, measures and catalog came with it, never moves a cursor that the
\* user has placed: the group he chose stays under it while it is listed and shown, and so does the node.
THEOREM StickySurvives == RowsSpec => StickyRowSurvives
<1>1. RowsInit => RowsPlaced
  BY PlacedStart
<1>2. RowsPlaced /\ [RowsNext]_rowVars => RowsPlaced'
  BY PlacedStep
<1>3. RowsPlaced /\ [RowsNext]_rowVars => [rowKeys' = rowKeys => \A c \in Cursors : Kept(c)]_rowVars
  BY StickyStep
<1> QED BY <1>1, <1>2, <1>3, PTL DEF RowsSpec, StickyRowSurvives
=============================================================================
