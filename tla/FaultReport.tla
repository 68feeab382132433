---------------------------- MODULE FaultReport ----------------------------
(***************************************************************************)
(* The report of a fault-tolerance run (reporting.py,                      *)
(* fault_tolerance_summary): the run unfolds in half seconds, writing      *)
(* faults.jsonl, business.jsonl and resources.jsonl, and the report reads  *)
(* the per-second series, the phases, the totals and the convergence of    *)
(* each fault out of these files.                                          *)
(***************************************************************************)
EXTENDS WorkerSplit, Sequences

CONSTANTS
    Plan,          \* fault-plan.json: a sequence of [down, up], in seconds
    Rate,          \* arrival rate, in units
    Duration,      \* seconds of load
    Drain,         \* seconds of drain
    Stable,        \* convergence_stable_seconds
    Fraction,      \* convergence_success_fraction, as <<numerator, denominator>>
    Tolerance,     \* convergence_pending_tolerance
    Baseline,      \* seconds of baseline before a fault
    MaxAge,        \* oldest usable NATS sample, in seconds
    Application,   \* "NATS" or "GRPC"
    Outcomes,      \* what may become of a request
    Samples,       \* pending events a metrics sample may show
    MaxLate,       \* bound on the late start of a worker, in 1/Unit seconds
    MaxSlow        \* bound on a late wake-up or a slow kubectl, in half seconds

ReportAssumption ==
    /\ {Rate, Duration, Drain, Stable, Tolerance, Baseline, MaxAge, MaxLate, MaxSlow} \subseteq Nat
    /\ Rate >= MinRate /\ Stable > 0
    /\ \A k \in 1..Len(Plan) :
          /\ Plan[k].down < Plan[k].up /\ Plan[k].up <= Duration
          /\ k > 1 => Plan[k - 1].up < Plan[k].down
    /\ Outcomes \subseteq {"completed", "completed late", "failed", "none"}

Config == [workload |-> "fault_tolerance", rate |-> Rate, users |-> 1, spawn |-> MinRate,
           start |-> MinRate, max |-> MinRate, seconds |-> Duration, collect |-> TRUE, metrics |-> TRUE]
Workers == 0..(WorkerCount(Config) - 1)
WorkerRate(w) == ForWorker(Config, w).rate
Requests == {r \in Workers \X (0..Arrivals(Rate, Duration)) :
                r[2] < Arrivals(WorkerRate(r[1]), Duration)}
Faults == 1..Len(Plan)
Points == 0..(Duration + Drain - 1)
None == -1

VARIABLES
    tick,          \* time, in half seconds
    late,          \* how late each worker started
    control,       \* the controller: the fault it is at, where, and since when
    faultLog,      \* faults.jsonl: a sequence of <<fault, action, tick>>
    records,       \* checkout_to_outcome records: [id, completed, scheduled, observed]
    samples        \* NATS samples: second -> pending events or None

reportVars == <<tick, late, control, faultLog, records, samples>>

Actions == {"scale_down_started", "scale_up_started", "reenabled", "restored"}
Ticks(seconds) == 2 * seconds
LastTick == Ticks(Duration + Drain)
second == tick \div 2

ReportTypeOK ==
    /\ tick \in 0..LastTick
    /\ late \in [Workers -> 0..MaxLate]
    /\ control.fault \in Faults
    /\ control.at \in {"wait down", "down", "wait up", "up", "ended"}
    /\ control.since \in 0..tick
    /\ \A i \in 1..Len(faultLog) : faultLog[i] \in Faults \X Actions \X (0..LastTick)
    /\ \A r \in records : r.id \in Requests /\ r.scheduled <= r.observed
    /\ DOMAIN samples \subseteq Points

ReportInit ==
    /\ tick = 0
    /\ late \in [Workers -> 0..MaxLate]
    /\ control = [fault |-> 1, at |-> "wait down", since |-> 0]
    /\ faultLog = << >>
    /\ records = {} /\ samples = << >>

----------------------------------------------------------------------------
(* The run                                                                 *)

\* scheduled_at: TEST_STARTED_EPOCH of the worker and i/rate seconds.
ScheduledSecond(r) ==
    (r[2] * Unit * Unit + late[r[1]] * WorkerRate(r[1])) \div (WorkerRate(r[1]) * Unit)

Due == {r \in Requests : ScheduledSecond(r) = second}

LogFault(action) == faultLog' = Append(faultLog, <<control.fault, action, tick>>)
At(place) == control' = [control EXCEPT !.at = place, !.since = tick]

\* When _wait_until is over.
Deadline == Ticks(IF control.at = "wait down" THEN Plan[control.fault].down ELSE Plan[control.fault].up)

\* The scaling is logged and called.
ScalingStarts ==
    /\ control.at \in {"wait down", "wait up"} /\ tick >= Deadline
    /\ IF control.at = "wait down" THEN LogFault("scale_down_started") /\ At("down")
       ELSE LogFault("scale_up_started") /\ At("up")

\* kubectl scale returns; the next fault, if there is one.
ScalingEnds ==
    \/ control.at = "down" /\ At("wait up") /\ UNCHANGED faultLog
    \/ /\ control.at = "up" /\ LogFault("reenabled")
       /\ IF control.fault = Len(Plan) THEN At("ended")
          ELSE control' = [fault |-> control.fault + 1, at |-> "wait down", since |-> tick]

\* A wait is interrupted or kubectl fails: the service is restored, or that fails too.
ControllerStops ==
    /\ control.at # "ended" /\ At("ended")
    /\ \/ control.at # "wait down" /\ LogFault("restored")
       \/ UNCHANGED faultLog

\* The controller waits, for its deadline or for kubectl.
ControllerWaits ==
    /\ CASE control.at \in {"wait down", "wait up"} -> tick < Max({Deadline, control.since + 1}) + MaxSlow
         [] control.at \in {"down", "up"} -> tick <= control.since + MaxSlow
         [] OTHER -> TRUE
    /\ UNCHANGED <<control, faultLog>>

ControllerTick == ScalingStarts \/ ScalingEnds \/ ControllerStops \/ ControllerWaits

\* Every request that is due completes at once or a second later, fails, or
\* never gets a record.
LoadSecond ==
    \E outcome \in [Due -> Outcomes] :
        records' = records \cup
            {[id |-> r, completed |-> outcome[r] # "failed", scheduled |-> second,
              observed |-> IF outcome[r] = "completed late" THEN second + 1 ELSE second] :
             r \in {q \in Due : outcome[q] # "none"}}

SampleSecond == \E v \in Samples \cup {None} :
    samples' = [s \in 0..second |-> IF s = second THEN v ELSE samples[s]]

RunTick ==
    /\ tick < LastTick /\ tick' = tick + 1
    /\ ControllerTick
    /\ IF tick % 2 = 0 THEN LoadSecond /\ SampleSecond ELSE UNCHANGED <<records, samples>>
    /\ UNCHANGED late

ReportSpec == ReportInit /\ [][RunTick]_reportVars

----------------------------------------------------------------------------
(* The report                                                              *)

\* _fault_spans: first event of each kind, None if there is none.
EventAt(k, action) ==
    LET at == {i \in 1..Len(faultLog) : faultLog[i][1] = k /\ faultLog[i][2] = action}
    IN  IF at = {} THEN None ELSE faultLog[Min(at)][3]
Spans == {k \in Faults : EventAt(k, "scale_down_started") # None}
SpanDown(k) == EventAt(k, "scale_down_started")
SpanUp(k) == EventAt(k, "scale_up_started")

SpanEnabled(k) == EventAt(k, "reenabled")

\* Mutant of Phase: the outage begins with the next second.
PhaseLate(s) ==
    IF s >= Duration THEN <<"drain", 0>>
    ELSE LET begun == {k \in Spans : SpanDown(k) < Ticks(s)}
             disabled == {k \in begun : SpanUp(k) = None \/ Ticks(s) < SpanUp(k)}
         IN  IF disabled # {} THEN <<"disabled", Min(disabled)>>
             ELSE IF begun # {} THEN <<"recovery", Max(begun)>> ELSE <<"baseline", 0>>

\* _fault_phase: what is so at the beginning of the second.
Phase(s) ==
    IF s >= Duration THEN <<"drain", 0>>
    ELSE LET begun == {k \in Spans : SpanDown(k) <= Ticks(s)}
             disabled == {k \in begun : SpanUp(k) = None \/ Ticks(s) < SpanUp(k)}
         IN  IF disabled # {} THEN <<"disabled", Min(disabled)>>
             ELSE IF begun # {} THEN <<"recovery", Max(begun)>> ELSE <<"baseline", 0>>

\* Mutant of Expected: the share of one second, rounded up for each worker.
ExpectedRounded(s) ==
    IF s >= Duration THEN 0
    ELSE MapThenSumSet(LAMBDA w : Ceil(WorkerRate(w), Unit), Workers)

\* _fault_expected_requests
Expected(s) ==
    IF s >= Duration THEN 0
    ELSE MapThenSumSet(LAMBDA w : Arrivals(WorkerRate(w), s + 1) - Arrivals(WorkerRate(w), s), Workers)

\* fault_tolerance_summary: requests by their scheduled, completions by their
\* observed second.
Submitted(s) == Cardinality({r \in records : r.scheduled = s})
Processed(s) == Cardinality({r \in records : r.completed /\ r.observed = s})
Lost(s) == Max({0, Expected(s) - Submitted(s)})

\* The newest sample up to a second, and its age.
SampleTime(s) == LET known == {q \in 0..s : samples[q] # None} IN IF known = {} THEN None ELSE Max(known)

\* Mutant of Fresh: the last sample counts however old it is.
FreshEver(s) == SampleTime(s) # None

Fresh(s) == SampleTime(s) # None /\ s - SampleTime(s) <= MaxAge
Pending(s) == samples[SampleTime(s)]

\* _fault_convergence
BaselineOf(k) == {s \in Points : SpanDown(k) - Ticks(Baseline) <= Ticks(s) /\ Ticks(s) < SpanDown(k)}
BaselinePending(k) ==
    LET usable == {s \in BaselineOf(k) : Fresh(s)}
    IN  IF usable = {} THEN None ELSE Pending(Max(usable))
SearchEnd(k) == IF k + 1 \in Spans THEN SpanDown(k + 1) ELSE Ticks(Duration)
Window(c) == c..(c + Stable - 1)

\* Mutant of Candidates: a window may begin in the second of the scale-up.
CandidatesFloor(k) == (SpanUp(k) \div 2)..((SearchEnd(k) \div 2) - Stable)

\* The windows between the scale-up, rounded up, and the next fault, rounded down.
Candidates(k) == Ceil(SpanUp(k), 2)..((SearchEnd(k) \div 2) - Stable)

RateRecovered(k, c) ==
    LET be == MapThenSumSet(Expected, BaselineOf(k))
        bs == Min({be, MapThenSumSet(Processed, BaselineOf(k))})
    IN  /\ MapThenSumSet(Expected, Window(c)) > 0
        /\ MapThenSumSet(Processed, Window(c)) * be * Fraction[2]
              >= MapThenSumSet(Expected, Window(c)) * bs * Fraction[1]
PendingRecovered(k, c) ==
    \A s \in Window(c) : Fresh(s) /\ Pending(s) <= BaselinePending(k) + Tolerance

\* Mutant of Assessed: a scale-up that was called counts.
AssessedCalled(k) ==
    /\ SpanUp(k) # None
    /\ MapThenSumSet(Expected, BaselineOf(k)) > 0 /\ MapThenSumSet(Processed, BaselineOf(k)) > 0
    /\ Application = "NATS" => BaselinePending(k) # None

Assessed(k) ==
    /\ SpanUp(k) # None /\ SpanEnabled(k) # None
    /\ MapThenSumSet(Expected, BaselineOf(k)) > 0 /\ MapThenSumSet(Processed, BaselineOf(k)) > 0
    /\ Application = "NATS" => BaselinePending(k) # None
Converged(k) ==
    IF ~Assessed(k) THEN {}
    ELSE {c \in Candidates(k) :
            /\ RateRecovered(k, c)
            /\ \A s \in Window(c) : Lost(s) = 0
            /\ Application = "NATS" => PendingRecovered(k, c)}
ConvergedAt(k) == IF Converged(k) = {} THEN None ELSE Min(Converged(k))

----------------------------------------------------------------------------

Finished == tick = LastTick
Missing == {r \in Requests : ~\E q \in records : q.id = r}
OnTime == \A w \in Workers : late[w] = 0

\* The report counts no fewer lost requests than the scheduled requests without an
\* outcome record; and exactly those if every worker started with the plan's clock.
LostCounted ==
    Finished =>
        /\ MapThenSumSet(Lost, Points) >= Cardinality(Missing)
        /\ OnTime => MapThenSumSet(Lost, Points) = Cardinality(Missing)

\* A fault is reported as converged only on evidence: its scale-up has succeeded,
\* at no moment of the window a service is on its way down or down, in each second
\* as many requests have an outcome as should have been sent (all of them, if the
\* workers are on time), and (NATS) in the MaxAge seconds before each second of it
\* there was a sample no higher than one of a second that began before the fault.
ConvergedIsReal ==
    Finished =>
        \A k \in Spans : ConvergedAt(k) # None =>
            LET window == Window(ConvergedAt(k))
            IN  /\ \E i \in 1..Len(faultLog) : faultLog[i][1] = k /\ faultLog[i][2] = "reenabled"
                /\ \A t \in Ticks(Min(window))..(Ticks(Max(window)) + 1) : ~\E j \in Spans :
                      SpanDown(j) <= t /\ (SpanUp(j) = None \/ t < SpanUp(j))
                /\ \A s \in window :
                      /\ Expected(s) <= Cardinality({r \in Requests \ Missing : ScheduledSecond(r) = s})
                      /\ OnTime => ~\E r \in Missing : ScheduledSecond(r) = s
                /\ Application = "NATS" =>
                      \E p \in Points :
                          /\ samples[p] # None
                          /\ Ticks(p) < SpanDown(k) /\ SpanDown(k) <= Ticks(p + Baseline + MaxAge)
                          /\ \A s \in window : \E q \in Max({0, s - MaxAge})..s :
                                samples[q] # None /\ samples[q] <= samples[p] + Tolerance

\* Every second that begins while a service is down is labelled as its outage. The
\* second in which it goes down keeps the phase before, for all but its beginning.
OutageLabelled ==
    Finished =>
        \A k \in Spans : \A s \in 0..(Duration - 1) :
            LET ends == {EventAt(k, "scale_up_started"), EventAt(k, "restored")} \ {None}
            IN  SpanDown(k) <= Ticks(s) /\ (\A e \in ends : Ticks(s) < e) => Phase(s) = <<"disabled", k>>

\* Convergence as the README defines it: the first window after the scale-up
\* whose processed rate is back at the fraction of the baseline and (NATS)
\* whose pending events are back at their level.
DocumentedConvergence ==
    Finished =>
        \A k \in Spans : Assessed(k) =>
            \A c \in Candidates(k) :
                RateRecovered(k, c) /\ (Application = "NATS" => PendingRecovered(k, c))
                    => ConvergedAt(k) # None /\ ConvergedAt(k) <= c

=============================================================================
