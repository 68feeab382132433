-------------------------- MODULE SaturationLadder --------------------------
(***************************************************************************)
(* The saturation workload: every worker's SaturationDriver climbs the     *)
(* same ladder of rates (locustfile.py) and, at the end of a rung, the     *)
(* workers exchange their progress and the coordinator's decision through  *)
(* shared objects (saturation.py).  The coordinator measures the goodput   *)
(* from the total of a live event observer that may lose its connection.   *)
(***************************************************************************)
EXTENDS Integers, Sequences, FiniteSets

CONSTANTS
    Workers,
    Coordinator,
    LastRung,      \* the rung at which the steady interval ends
    MaxCompleted,  \* bound on order-completed events
    MaxLadderFaults  \* bound on time-outs, failed calls and observer resets

LadderAssumption ==
    /\ Coordinator \in Workers
    /\ {LastRung, MaxCompleted, MaxLadderFaults} \subseteq Nat

NoCount == MaxCompleted + 1
Rungs == 0..LastRung

VARIABLES
    ladderPc,      \* per worker
    rung,          \* per worker: the rung it is in
    started,       \* per worker: _saturation_started
    exit,          \* per worker: process_exit_code
    progress,      \* the workers whose progress object of a rung is there
    decision,      \* the coordinator's decision object of a rung
    collected,     \* workers whose progress the coordinator has read
    completed,     \* order-completed events so far
    liveObserver,  \* the observer's identity and total
    sample,        \* the coordinator's samples of the rung, with the events then
    previous,      \* previous_goodput
    rungsLog,      \* saturation.jsonl
    ladderFaults

shared == <<progress, decision>>
measured == <<completed, liveObserver, sample>>
ladderVars == <<ladderPc, rung, started, exit, shared, collected, measured, previous, rungsLog, ladderFaults>>

NoSample == [id |-> 0, total |-> NoCount, events |-> 0]
NoDecision == [processed |-> NoCount, saturated |-> FALSE, stop |-> FALSE, made |-> FALSE]

LadderPcs == {"idle", "window", "finish", "wait", "drain", "failed", "quit", "ended"}
SampleRec == [id : Nat, total : 0..NoCount, events : 0..MaxCompleted]
DecisionRec == [processed : 0..NoCount, saturated : BOOLEAN, stop : BOOLEAN, made : BOOLEAN]

LadderTypeOK ==
    /\ ladderPc \in [Workers -> LadderPcs]
    /\ rung \in [Workers -> Rungs]
    /\ started \in [Workers -> BOOLEAN]
    /\ exit \in [Workers -> 0..1]
    /\ progress \in [Rungs -> SUBSET Workers]
    /\ decision \in [Rungs -> DecisionRec]
    /\ collected \in SUBSET Workers
    /\ completed \in 0..MaxCompleted
    /\ liveObserver \in [id : Nat, total : 0..MaxCompleted] /\ liveObserver.total <= completed
    /\ sample \in [before : SampleRec, after : SampleRec]
    /\ previous \in 0..NoCount
    /\ rungsLog \in Seq(Rungs) /\ Len(rungsLog) <= LastRung + 1
    /\ ladderFaults \in 0..MaxLadderFaults

LadderInit ==
    /\ ladderPc = [w \in Workers |-> "idle"]
    /\ rung = [w \in Workers |-> 0]
    /\ started = [w \in Workers |-> FALSE]
    /\ exit = [w \in Workers |-> 0]
    /\ progress = [r \in Rungs |-> {}]
    /\ decision = [r \in Rungs |-> NoDecision]
    /\ collected = {}
    /\ completed = 0 /\ liveObserver = [id |-> 1, total |-> 0]
    /\ sample = [before |-> [id |-> 1, total |-> 0, events |-> 0], after |-> NoSample]
    /\ previous = NoCount
    /\ rungsLog = << >>
    /\ ladderFaults = 0

LadderFault == ladderFaults < MaxLadderFaults /\ ladderFaults' = ladderFaults + 1
LadderGoto(w, state) == ladderPc' = [ladderPc EXCEPT ![w] = state]

----------------------------------------------------------------------------
(* The rung                                                                *)

\* Mutant of LadderSchedule: no guard against a second start.
LadderScheduleAgain(w) ==
    /\ ladderPc[w] \in {"idle", "failed"}
    /\ started' = [started EXCEPT ![w] = TRUE]
    /\ rung' = [rung EXCEPT ![w] = 0]
    /\ LadderGoto(w, "window")
    /\ UNCHANGED <<exit, shared, collected, measured, previous, rungsLog, ladderFaults>>

\* SaturationDriver.schedule; Locust runs it again after an exception.
LadderSchedule(w) ==
    /\ ladderPc[w] \in {"idle", "failed"}
    /\ started' = [started EXCEPT ![w] = TRUE]
    /\ LadderGoto(w, IF started[w] THEN "quit" ELSE "window")
    /\ UNCHANGED <<rung, exit, shared, collected, measured, previous, rungsLog, ladderFaults>>

\* nats_order_completed_sample: a failed call is no sample.
Sample == [id |-> liveObserver.id, total |-> liveObserver.total, events |-> completed]

\* _schedule_window ends and the coordinator takes its second sample.
WindowEnds(w) ==
    /\ ladderPc[w] = "window"
    /\ LadderGoto(w, "finish")
    /\ IF w # Coordinator THEN UNCHANGED <<sample, ladderFaults>>
       ELSE \/ sample' = [sample EXCEPT !.after = Sample] /\ UNCHANGED ladderFaults
            \/ sample' = [sample EXCEPT !.after = NoSample] /\ LadderFault
    /\ UNCHANGED <<rung, started, exit, shared, collected, completed, liveObserver, previous, rungsLog>>

\* finish_rung: the progress object is put; the coordinator starts to collect.
PutProgress(w) ==
    /\ ladderPc[w] = "finish"
    /\ progress' = [progress EXCEPT ![rung[w]] = @ \cup {w}]
    /\ collected' = IF w = Coordinator THEN {} ELSE collected
    /\ LadderGoto(w, "wait")
    /\ UNCHANGED <<rung, started, exit, decision, measured, previous, rungsLog, ladderFaults>>

CollectProgress(w) ==
    /\ ladderPc[Coordinator] = "wait"
    /\ w \in progress[rung[Coordinator]] \ collected
    /\ collected' = collected \cup {w}
    /\ UNCHANGED <<ladderPc, rung, started, exit, shared, measured, previous, rungsLog, ladderFaults>>

\* Mutant of Processed: the observer's identity is not compared.
ProcessedAnyObserver ==
    IF sample.before.total = NoCount \/ sample.after.total = NoCount THEN NoCount
    ELSE IF sample.after.total < sample.before.total THEN NoCount
    ELSE sample.after.total - sample.before.total

\* The change of the observer's total, if its samples can be compared.
Processed ==
    IF sample.before.total = NoCount \/ sample.after.total = NoCount THEN NoCount
    ELSE IF sample.after.id # sample.before.id THEN NoCount
    ELSE IF sample.after.total < sample.before.total THEN NoCount
    ELSE sample.after.total - sample.before.total

\* evaluate_rung: only the goodput is modelled of the two saturation signals.
EvaluateRung(r) ==
    [processed |-> Processed,
     saturated |-> previous # NoCount /\ Processed # NoCount /\ Processed <= previous,
     stop |-> r = LastRung,
     made |-> TRUE]

\* Mutant of AllCollected: a missing worker is skipped.
SomeCollected == Coordinator \in collected

AllCollected == collected = Workers

\* The coordinator evaluates, publishes and logs the decision and goes on.
Decide ==
    LET r == rung[Coordinator] IN
    /\ ladderPc[Coordinator] = "wait" /\ AllCollected
    /\ decision' = [decision EXCEPT ![r] = EvaluateRung(r)]
    /\ previous' = IF Processed # NoCount THEN Processed ELSE previous
    /\ rungsLog' = Append(rungsLog, r)
    /\ IF r = LastRung
       THEN LadderGoto(Coordinator, "drain") /\ UNCHANGED <<rung, sample>>
       ELSE /\ LadderGoto(Coordinator, "window")
            /\ rung' = [rung EXCEPT ![Coordinator] = r + 1]
            /\ sample' = [before |-> Sample, after |-> NoSample]
    /\ UNCHANGED <<started, exit, progress, collected, completed, liveObserver, ladderFaults>>

\* The other workers read the decision of their rung.
Follow(w) ==
    /\ w # Coordinator /\ ladderPc[w] = "wait"
    /\ decision[rung[w]].made
    /\ IF decision[rung[w]].stop
       THEN LadderGoto(w, "drain") /\ UNCHANGED rung
       ELSE /\ LadderGoto(w, "window")
            /\ rung' = [rung EXCEPT ![w] = @ + 1]
    /\ UNCHANGED <<started, exit, shared, collected, measured, previous, rungsLog, ladderFaults>>

----------------------------------------------------------------------------
(* The end                                                                 *)

\* begin_early_drain, joinall and kill; the runner is told to quit.
Drained(w) ==
    /\ ladderPc[w] = "drain"
    /\ LadderGoto(w, "quit")
    /\ UNCHANGED <<rung, started, exit, shared, collected, measured, previous, rungsLog, ladderFaults>>

\* _wait gives up after 60 seconds, a call of the store or of the bridge fails.
Raises(w) ==
    /\ ladderPc[w] \in {"finish", "wait"} /\ LadderFault
    /\ exit' = [exit EXCEPT ![w] = 1]
    /\ LadderGoto(w, "failed")
    /\ UNCHANGED <<rung, started, shared, collected, measured, previous, rungsLog>>

\* Mutant of GivesUp: the coordinator collects without a deadline.
GivesUpFollowing(w) ==
    /\ w # Coordinator /\ ladderPc[w] = "wait"
    /\ ladderPc[Coordinator] \in {"failed", "quit", "ended"} /\ ~decision[rung[w]].made
    /\ exit' = [exit EXCEPT ![w] = 1]
    /\ LadderGoto(w, "failed")
    /\ UNCHANGED <<rung, started, shared, collected, measured, previous, rungsLog, ladderFaults>>

\* The object never comes: the wait ends at its deadline.
GivesUp(w) ==
    /\ ladderPc[w] = "wait"
    /\ IF w = Coordinator
       THEN \E v \in Workers : v \notin progress[rung[w]] /\ ladderPc[v] \in {"failed", "quit", "ended"}
       ELSE ladderPc[Coordinator] \in {"failed", "quit", "ended"} /\ ~decision[rung[w]].made
    /\ exit' = [exit EXCEPT ![w] = 1]
    /\ LadderGoto(w, "failed")
    /\ UNCHANGED <<rung, started, shared, collected, measured, previous, rungsLog, ladderFaults>>

\* runner.quit, spawned on every way out of the task.
RunnerQuits(w) ==
    /\ ladderPc[w] \in {"quit", "failed"}
    /\ LadderGoto(w, "ended")
    /\ UNCHANGED <<rung, started, exit, shared, collected, measured, previous, rungsLog, ladderFaults>>

----------------------------------------------------------------------------
(* Orders completing, and the observer                                     *)

OrderCompletes ==
    /\ completed < MaxCompleted
    /\ completed' = completed + 1
    /\ liveObserver' = [liveObserver EXCEPT !.total = @ + 1]
    /\ UNCHANGED <<ladderPc, rung, started, exit, shared, collected, sample, previous, rungsLog, ladderFaults>>

\* A lost connection gives the observer a new identity and a new total; the
\* events until it is back are not counted.
ObserverResets ==
    /\ LadderFault
    /\ liveObserver' = [id |-> liveObserver.id + 1, total |-> 0]
    /\ UNCHANGED <<ladderPc, rung, started, exit, shared, collected, completed, sample, previous, rungsLog>>

----------------------------------------------------------------------------

WorkerStep(w) ==
    \/ LadderSchedule(w) \/ WindowEnds(w) \/ PutProgress(w) \/ Follow(w) \/ Drained(w) \/ GivesUp(w) \/ RunnerQuits(w)
CoordinatorStep == Decide \/ \E w \in Workers : CollectProgress(w)

LadderNext ==
    \/ CoordinatorStep \/ OrderCompletes \/ ObserverResets
    \/ \E w \in Workers : WorkerStep(w) \/ Raises(w)

\* Windows and waits end.
LadderFairness ==
    /\ WF_ladderVars(CoordinatorStep)
    /\ \A w \in Workers : WF_ladderVars(WorkerStep(w))

LadderSpec == LadderInit /\ [][LadderNext]_ladderVars /\ LadderFairness

----------------------------------------------------------------------------

\* Workers climb in step: a worker is in a rung only when every worker has
\* finished the rung before it and the coordinator has decided to go on.
RungsInStep ==
    \A w \in Workers : rung[w] > 0 =>
        /\ progress[rung[w] - 1] = Workers
        /\ decision[rung[w] - 1].made /\ ~decision[rung[w] - 1].stop

\* The decisions are logged once each, in order, as they are published: a task
\* that Locust runs again after a failure does not climb again.
LoggedOnce == \A i \in 1..Len(rungsLog) : rungsLog[i] = i - 1 /\ decision[i - 1].made

\* The processed count of a decision is the number of orders that really
\* completed between its two samples, or it is absent: a reset of the observer
\* in the rung never makes a wrong count.
GoodputIsReal ==
    [][\A r \in Rungs :
          decision'[r].made /\ ~decision[r].made /\ decision'[r].processed # NoCount =>
              decision'[r].processed = sample.after.events - sample.before.events]_ladderVars

\* All workers climb the ladder in step and every rung is logged once, with the
\* goodput that really was there.
LadderIsReal == []LadderTypeOK /\ []RungsInStep /\ []LoggedOnce /\ GoodputIsReal

----------------------------------------------------------------------------
(* The inductive invariant of LadderIsReal                                 *)

\* A decision is made when every worker's progress is there, and it says stop
\* in the last rung only.
DecisionsOK ==
    /\ \A r \in Rungs : decision[r].made =>
          progress[r] = Workers /\ (decision[r].stop <=> r = LastRung)
    /\ ladderPc[Coordinator] = "wait" => collected \subseteq progress[rung[Coordinator]]

\* The log has the decisions that were made, and the coordinator is in the rung
\* after them until it leaves the ladder, which it climbs once.
LogOK ==
    /\ \A r \in Rungs : decision[r].made <=> r < Len(rungsLog)
    /\ \A i \in 1..Len(rungsLog) : rungsLog[i] = i - 1
    /\ ladderPc[Coordinator] \in {"idle", "window", "finish", "wait"} =>
          Len(rungsLog) = rung[Coordinator]
    /\ \A w \in Workers : ladderPc[w] # "idle" => started[w]

\* What an observer had missed when a sample of it was taken it has missed in
\* every other sample of it, and still has.
Missed(s) == s.events - s.total
Known(s) ==
    s.total # NoCount =>
        /\ s.id <= liveObserver.id
        /\ s.id = liveObserver.id => Missed(s) = completed - liveObserver.total
SamplesOK ==
    /\ Known(sample.before) /\ Known(sample.after)
    /\ sample.before.total # NoCount /\ sample.after.total # NoCount
            /\ sample.before.id = sample.after.id
          => Missed(sample.before) = Missed(sample.after)

LadderInv == LadderTypeOK /\ RungsInStep /\ DecisionsOK /\ LogOK /\ SamplesOK

----------------------------------------------------------------------------

\* Every worker ends: nobody waits for ever for a worker or a coordinator that
\* failed.
LadderEnds == <>[](\A w \in Workers : ladderPc[w] = "ended")

=============================================================================
