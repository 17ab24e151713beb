------------------------------- MODULE Metrics -------------------------------
(***************************************************************************)
(* The speeds and the memory on the dashboard (clash-tui/src/metrics.rs).  *)
(* One task follows the stream of traffic frames, the other asks for the   *)
(* memory; both change a snapshot under a mutex, and hand a copy of it to  *)
(* the interface after they have released it.                              *)
(*                                                                         *)
(* A tick is half a second.  A task that has a copy to hand over does so   *)
(* before the next tick, but the other one may come first.                 *)
(***************************************************************************)
EXTENDS Integers

CONSTANTS
    Frames,    \* what a frame may say: [up, down]
    Memories,  \* what the core may say of its memory, or not say
    NotKnown   \* a number that is not there

VARIABLES
    sample,    \* the snapshot under the mutex: [up, down, memory]
    held,      \* the last frame with traffic, and its age, if there is one to hold
    task,      \* "traffic", "resource" |-> [at, timer, copy, next]
    shown,     \* the snapshot the interface shows
    quiet      \* observer: ticks since the last frame with traffic

metricsVars == <<sample, held, task, shown, quiet>>

METRICS_RESOURCE_REFRESH_INTERVAL == 2
METRICS_CONTROLLER_TIMEOUT == 6
METRICS_STREAM_RETRY_INTERVAL == 2
TRAFFIC_STREAM_STALE_TIMEOUT == 10
TRAFFIC_DISPLAY_HOLD == 3
MaxQuiet == 22   \* bound: the observer counts no further

MetricTasks == {"traffic", "resource"}
NotHeld == [is |-> FALSE, up |-> 0, down |-> 0, age |-> 0]
NoTraffic == [up |-> NotKnown, down |-> NotKnown]
NoSample == [up |-> NotKnown, down |-> NotKnown, memory |-> NotKnown]
Moving(value) == value \notin {0, NotKnown}
Busy(frame) == Moving(frame.up) \/ Moving(frame.down)
OrZero(value) == IF value = NotKnown THEN 0 ELSE value

-----------------------------------------------------------------------------
Showing(frame) == [sample EXCEPT !.up = frame.up, !.down = frame.down]

\* Mutant: the held frame fills in each direction that has no traffic.
HoldEach(frame) ==
    LET holds == held.is /\ held.age <= TRAFFIC_DISPLAY_HOLD /\ frame # NoTraffic
        Filled(f) == IF holds /\ OrZero(frame[f]) = 0 THEN held[f] ELSE frame[f]
    IN /\ sample' = Showing([up |-> Filled("up"), down |-> Filled("down")])
       /\ held' = IF Busy(frame) THEN [is |-> TRUE, up |-> OrZero(frame.up), down |-> OrZero(frame.down), age |-> 0]
                  ELSE IF holds THEN held ELSE NotHeld

ApplyTrafficResponse(frame) ==
    LET holds == held.is /\ held.age <= TRAFFIC_DISPLAY_HOLD /\ frame # NoTraffic
    IN /\ sample' = Showing(IF ~Busy(frame) /\ holds THEN held ELSE frame)
       /\ held' = IF Busy(frame) THEN [is |-> TRUE, up |-> OrZero(frame.up), down |-> OrZero(frame.down), age |-> 0]
                  ELSE IF holds THEN held ELSE NotHeld

ClearTrafficMetrics ==
    /\ sample' = Showing(NoTraffic)
    /\ held' = NotHeld

TaskAt(t, where) == task[t].at = where
Hands(t, next) == task' = [task EXCEPT ![t] = [at |-> "handing", timer |-> 0, copy |-> sample', next |-> next]]
Goes(t, where) == task' = [task EXCEPT ![t] = [at |-> where, timer |-> 0, copy |-> @.copy, next |-> @.next]]

-----------------------------------------------------------------------------
TrafficConnects ==
    /\ TaskAt("traffic", "connecting") /\ Goes("traffic", "streaming")
    /\ UNCHANGED <<sample, held, shown, quiet>>

TrafficFrame ==
    /\ TaskAt("traffic", "streaming")
    /\ \E frame \in Frames :
        /\ ApplyTrafficResponse(frame)
        /\ quiet' = IF Busy(frame) THEN 0 ELSE quiet
    /\ Hands("traffic", "streaming")
    /\ UNCHANGED shown

\* No connection, an error, the end of the stream, or no frame for too long.
TrafficStops ==
    /\ TaskAt("traffic", "connecting") \/ TaskAt("traffic", "streaming")
    /\ ClearTrafficMetrics /\ Hands("traffic", "sleeping")
    /\ UNCHANGED <<shown, quiet>>

TrafficWakes ==
    /\ TaskAt("traffic", "sleeping") /\ task["traffic"].timer = METRICS_STREAM_RETRY_INTERVAL
    /\ Goes("traffic", "connecting")
    /\ UNCHANGED <<sample, held, shown, quiet>>

\* Ticks that were missed while an answer was awaited come at once.
FetchBegins ==
    /\ TaskAt("resource", "waiting") /\ Goes("resource", "fetching")
    /\ UNCHANGED <<sample, held, shown, quiet>>

ApplyResourceSample ==
    /\ TaskAt("resource", "fetching")
    /\ \E memory \in Memories : sample' = [sample EXCEPT !.memory = memory]
    /\ Hands("resource", "waiting")
    /\ UNCHANGED <<held, shown, quiet>>

UpdateRuntimeSnapshot(t) ==
    /\ TaskAt(t, "handing")
    /\ shown' = task[t].copy
    /\ task' = [task EXCEPT ![t] = [at |-> @.next, timer |-> @.timer, copy |-> NoSample, next |-> "waiting"]]
    /\ UNCHANGED <<sample, held, quiet>>

Limit(t) ==
    CASE task[t].at \in {"connecting", "fetching"} -> METRICS_CONTROLLER_TIMEOUT
      [] task[t].at = "streaming" -> TRAFFIC_STREAM_STALE_TIMEOUT
      [] task[t].at = "sleeping" -> METRICS_STREAM_RETRY_INTERVAL
      [] task[t].at = "waiting" -> METRICS_RESOURCE_REFRESH_INTERVAL
      [] OTHER -> 0

Tick ==
    /\ \A t \in MetricTasks : task[t].timer < Limit(t)
    /\ task' = [t \in MetricTasks |-> [task[t] EXCEPT !.timer = @ + 1]]
    /\ held' = [held EXCEPT !.age = IF held.is /\ held.age <= TRAFFIC_DISPLAY_HOLD THEN held.age + 1 ELSE @]
    /\ quiet' = IF quiet < MaxQuiet THEN quiet + 1 ELSE quiet
    /\ UNCHANGED <<sample, shown>>

MetricsInit ==
    /\ sample = NoSample /\ shown = NoSample
    /\ held = NotHeld
    /\ task = [t \in MetricTasks |->
                 [at |-> IF t = "traffic" THEN "connecting" ELSE "fetching", timer |-> 0, copy |-> NoSample, next |-> "waiting"]]
    /\ quiet = MaxQuiet

MetricsNext ==
    \/ TrafficConnects \/ TrafficFrame \/ TrafficStops \/ TrafficWakes
    \/ FetchBegins \/ ApplyResourceSample
    \/ \E t \in MetricTasks : UpdateRuntimeSnapshot(t)
    \/ Tick

MetricsSpec == MetricsInit /\ [][MetricsNext]_metricsVars

-----------------------------------------------------------------------------
MetricsTypeOK ==
    /\ \A t \in MetricTasks : task[t].timer \in 0..Limit(t)
    /\ held.age \in 0..TRAFFIC_DISPLAY_HOLD + 1 /\ quiet \in 0..MaxQuiet

\* Traffic on the dashboard is that of one frame, and not older than a held frame followed by a
\* stream that fell silent, and by the next answer about the memory: an older copy that the other
\* task hands over last is not shown for longer than that, whatever the core does or no longer does.
TrafficIsOfNow ==
    Busy(shown) =>
        /\ \E frame \in Frames : OrZero(frame.up) = OrZero(shown.up) /\ OrZero(frame.down) = OrZero(shown.down)
        /\ quiet <= TRAFFIC_DISPLAY_HOLD + TRAFFIC_STREAM_STALE_TIMEOUT
                       + METRICS_RESOURCE_REFRESH_INTERVAL + METRICS_CONTROLLER_TIMEOUT
=============================================================================
