----------------------------- MODULE LoadProofs ------------------------------
(***************************************************************************)
(* Proofs about the load and what is measured of it: the saturation        *)
(* ladder, for any pods, rungs and faults; the metrics gateway, for any    *)
(* sources, parts and threads; the event observer, for any events and      *)
(* losses; the checkout transactions, for any number of them and any       *)
(* concurrency; the resource sampler, for any interval, pods and faults;   *)
(* and the division of a run among its workers, for any limits and         *)
(* requests.                                                               *)
(***************************************************************************)
EXTENDS SaturationLadder, MetricsGateway, EventObserver, CheckoutTransactions, ResourceUsage, WorkerPlan,
        FiniteSetTheorems, SequenceTheorems, NaturalsInduction, WellFoundedInduction, TLAPS

----------------------------------------------------------------------------
(* The saturation ladder                                                   *)

LEMMA LadderTypes ==
  ASSUME LadderAssumption, LadderTypeOK
  PROVE  /\ Coordinator \in Workers /\ LastRung \in Nat /\ MaxCompleted \in Nat /\ MaxLadderFaults \in Nat
         /\ NoCount \in Nat /\ NoCount > MaxCompleted
         /\ \A w \in Workers : /\ ladderPc[w] \in LadderPcs /\ rung[w] \in Rungs /\ rung[w] \in Nat
                               /\ started[w] \in BOOLEAN
         /\ \A r \in Rungs : /\ progress[r] \subseteq Workers /\ decision[r] \in DecisionRec
                             /\ decision[r].made \in BOOLEAN /\ decision[r].stop \in BOOLEAN /\ r \in Nat
         /\ completed \in Nat /\ completed <= MaxCompleted
         /\ liveObserver.id \in Nat /\ liveObserver.total \in Nat /\ liveObserver.total <= completed
         /\ sample.before \in SampleRec /\ sample.after \in SampleRec
         /\ sample.before.id \in Nat /\ sample.before.total \in 0..NoCount /\ sample.before.events \in Nat
         /\ sample.after.id \in Nat /\ sample.after.total \in 0..NoCount /\ sample.after.events \in Nat
         /\ rungsLog \in Seq(Rungs) /\ Len(rungsLog) \in Nat /\ Len(rungsLog) <= LastRung + 1
         /\ ladderFaults \in 0..MaxLadderFaults
<1>1. /\ Coordinator \in Workers /\ LastRung \in Nat /\ MaxCompleted \in Nat /\ MaxLadderFaults \in Nat
      /\ NoCount \in Nat /\ NoCount > MaxCompleted
  BY DEF LadderAssumption, NoCount
<1>2. /\ ladderPc \in [Workers -> LadderPcs] /\ rung \in [Workers -> Rungs] /\ started \in [Workers -> BOOLEAN]
      /\ progress \in [Rungs -> SUBSET Workers] /\ decision \in [Rungs -> DecisionRec]
      /\ completed \in 0..MaxCompleted
      /\ liveObserver \in [id : Nat, total : 0..MaxCompleted] /\ liveObserver.total <= completed
      /\ sample \in [before : SampleRec, after : SampleRec]
      /\ rungsLog \in Seq(Rungs) /\ Len(rungsLog) <= LastRung + 1 /\ ladderFaults \in 0..MaxLadderFaults
  BY DEF LadderTypeOK
<1>3. \A w \in Workers : /\ ladderPc[w] \in LadderPcs /\ rung[w] \in Rungs /\ rung[w] \in Nat
                         /\ started[w] \in BOOLEAN
  BY <1>1, <1>2 DEF Rungs
<1>4. \A r \in Rungs : /\ progress[r] \subseteq Workers /\ decision[r] \in DecisionRec
                       /\ decision[r].made \in BOOLEAN /\ decision[r].stop \in BOOLEAN /\ r \in Nat
  BY SMTT(30), <1>1, <1>2 DEF Rungs, DecisionRec
<1>5. sample.before \in SampleRec /\ sample.after \in SampleRec
  BY <1>2
<1>6. \A s \in SampleRec : s.id \in Nat /\ s.total \in 0..NoCount /\ s.events \in Nat
  BY <1>1 DEF SampleRec
<1>7. /\ sample.before.id \in Nat /\ sample.before.total \in 0..NoCount /\ sample.before.events \in Nat
      /\ sample.after.id \in Nat /\ sample.after.total \in 0..NoCount /\ sample.after.events \in Nat
  BY <1>5, <1>6
<1>8. /\ completed \in Nat /\ completed <= MaxCompleted
      /\ liveObserver.id \in Nat /\ liveObserver.total \in Nat /\ liveObserver.total <= completed
  BY <1>1, <1>2
<1> QED BY SMTT(30), <1>1, <1>2, <1>3, <1>4, <1>5, <1>7, <1>8

\* The numbers the samples are made of.
LEMMA LadderNumbers ==
  ASSUME LadderAssumption, LadderTypeOK
  PROVE  /\ MaxCompleted \in Nat /\ NoCount \in Nat
         /\ completed \in Nat /\ completed <= MaxCompleted
         /\ liveObserver.id \in Nat /\ liveObserver.total \in Nat /\ liveObserver.total <= completed
         /\ sample.before.id \in Nat /\ sample.before.total \in Nat /\ sample.before.total <= NoCount
         /\ sample.before.events \in Nat
         /\ sample.after.id \in Nat /\ sample.after.total \in Nat /\ sample.after.total <= NoCount
         /\ sample.after.events \in Nat
<1>1. \A k \in 0..NoCount : k \in Nat /\ k <= NoCount
  BY LadderTypes
<1> QED BY <1>1, LadderTypes

LEMMA LadderFaultCounted ==
  ASSUME LadderAssumption, LadderTypeOK, LadderFault \/ ladderFaults' = ladderFaults
  PROVE  ladderFaults' \in 0..MaxLadderFaults
<1>1. MaxLadderFaults \in Nat /\ ladderFaults \in 0..MaxLadderFaults
  BY DEF LadderAssumption, LadderTypeOK
<1> QED BY <1>1 DEF LadderFault

LEMMA RungsNear ==
  ASSUME LadderAssumption, LadderTypeOK, NEW w \in Workers
  PROVE  /\ rung[w] \in Nat /\ rung[w] <= LastRung
         /\ rung[w] > 0 => rung[w] - 1 \in Rungs
         /\ rung[w] # LastRung => rung[w] + 1 \in Rungs
<1>1. LastRung \in Nat /\ rung[w] \in Rungs
  BY LadderTypes
<1>2. rung[w] \in Int /\ 0 <= rung[w] /\ rung[w] <= LastRung
  BY <1>1 DEF Rungs
<1>3. \A k \in Int : 0 <= k /\ k <= LastRung => k \in Rungs
  BY <1>1 DEF Rungs
<1> HIDE DEF Rungs
<1> QED BY <1>1, <1>2, <1>3

\* A step that leaves the rungs, the decisions and the samples alone: it moves
\* one worker.
LEMMA WorkerMoves ==
  ASSUME LadderAssumption, LadderInv, NEW w \in Workers, NEW state \in LadderPcs, LadderGoto(w, state),
         UNCHANGED <<rung, shared, collected, measured, previous, rungsLog>>,
         started' \in [Workers -> BOOLEAN], \A v \in Workers : started[v] => started'[v], started'[w],
         exit' \in [Workers -> 0..1], ladderFaults' \in 0..MaxLadderFaults, state # "wait", state # "idle",
         state \in {"window", "finish"} => ladderPc[w] \in {"idle", "window"}
  PROVE  LadderInv'
<1>1. /\ ladderPc' = [ladderPc EXCEPT ![w] = state]
      /\ UNCHANGED <<rung, progress, decision, collected, completed, liveObserver, sample, previous, rungsLog>>
  BY DEF LadderGoto, shared, measured
<1>2. ladderPc \in [Workers -> LadderPcs] /\ Coordinator \in Workers
  BY LadderTypes DEF LadderInv, LadderTypeOK
<1>3. LadderTypeOK'
  BY <1>1, <1>2 DEF LadderInv, LadderTypeOK
<1>4. RungsInStep' /\ SamplesOK'
  BY <1>1 DEF LadderInv, RungsInStep, SamplesOK, Known, Missed
<1>5. DecisionsOK'
  BY <1>1, <1>2 DEF LadderInv, DecisionsOK
<1>6. LogOK'
  BY <1>1, <1>2 DEF LadderInv, LogOK
<1> QED BY <1>3, <1>4, <1>5, <1>6 DEF LadderInv

LEMMA LadderMovesStep ==
  ASSUME LadderAssumption, LadderInv, NEW w \in Workers,
         LadderSchedule(w) \/ Drained(w) \/ GivesUp(w) \/ RunnerQuits(w) \/ Raises(w)
  PROVE  LadderInv'
<1> USE DEF LadderPcs
<1>0. /\ started \in [Workers -> BOOLEAN] /\ exit \in [Workers -> 0..1] /\ ladderFaults \in 0..MaxLadderFaults
      /\ ladderPc[w] # "idle" => started[w]
  BY DEF LadderInv, LadderTypeOK, LogOK
<1>0b. ladderPc[w] = "failed" => started[w]
  BY DEF LadderInv, LogOK
<1>1. CASE LadderSchedule(w)
  <2>1. CASE started[w]
    <3>1. LadderGoto(w, "quit") /\ started' = [started EXCEPT ![w] = TRUE]
      BY <1>1, <2>1 DEF LadderSchedule
    <3> QED BY <1>0, <1>1, <3>1, WorkerMoves DEF LadderSchedule
  <2>2. CASE ~started[w]
    <3>1. LadderGoto(w, "window") /\ started' = [started EXCEPT ![w] = TRUE] /\ ladderPc[w] = "idle"
      BY <1>0b, <1>1, <2>2 DEF LadderSchedule
    <3> QED BY <1>0, <1>1, <3>1, WorkerMoves DEF LadderSchedule
  <2> QED BY <2>1, <2>2
<1>2. CASE Drained(w)
  <2>1. LadderGoto(w, "quit") /\ ladderPc[w] = "drain" /\ UNCHANGED <<started, exit, ladderFaults>>
    BY <1>2 DEF Drained
  <2> QED BY <1>0, <1>2, <2>1, WorkerMoves DEF Drained
<1>3. CASE GivesUp(w)
  <2>1. LadderGoto(w, "failed") /\ ladderPc[w] = "wait" /\ UNCHANGED <<started, ladderFaults>>
        /\ exit' = [exit EXCEPT ![w] = 1]
    BY <1>3 DEF GivesUp
  <2>2. exit' \in [Workers -> 0..1]
    BY <1>0, <2>1
  <2> QED BY <1>0, <1>3, <2>1, <2>2, WorkerMoves DEF GivesUp
<1>4. CASE RunnerQuits(w)
  <2>1. LadderGoto(w, "ended") /\ ladderPc[w] \in {"quit", "failed"} /\ UNCHANGED <<started, exit, ladderFaults>>
    BY <1>4 DEF RunnerQuits
  <2> QED BY <1>0, <1>4, <2>1, WorkerMoves DEF RunnerQuits
<1>5. CASE Raises(w)
  <2>1. LadderGoto(w, "failed") /\ ladderPc[w] \in {"finish", "wait"} /\ UNCHANGED started
        /\ exit' = [exit EXCEPT ![w] = 1] /\ ladderFaults' \in 0..MaxLadderFaults
    BY <1>5, LadderFaultCounted DEF Raises, LadderInv
  <2>2. exit' \in [Workers -> 0..1]
    BY <1>0, <2>1
  <2> QED BY <1>0, <1>5, <2>1, <2>2, WorkerMoves DEF Raises
<1> QED BY <1>1, <1>2, <1>3, <1>4, <1>5

LEMMA WindowEndsStep ==
  ASSUME LadderAssumption, LadderInv, NEW w \in Workers, WindowEnds(w)
  PROVE  LadderInv'
<1>0. LadderTypeOK /\ RungsInStep /\ DecisionsOK /\ LogOK /\ SamplesOK
  BY DEF LadderInv
<1>1. /\ ladderPc[w] = "window" /\ ladderPc' = [ladderPc EXCEPT ![w] = "finish"]
      /\ UNCHANGED <<rung, started, exit, progress, decision, collected, completed, liveObserver, previous, rungsLog>>
      /\ ladderPc \in [Workers -> LadderPcs] /\ Coordinator \in Workers
  BY <1>0, LadderTypes DEF WindowEnds, LadderGoto, shared, LadderTypeOK
<1>2. sample' = sample \/ sample' = [sample EXCEPT !.after = Sample] \/ sample' = [sample EXCEPT !.after = NoSample]
  BY DEF WindowEnds
<1>3. ladderFaults' \in 0..MaxLadderFaults
  BY <1>0, LadderFaultCounted DEF WindowEnds
<1>4. /\ Sample \in SampleRec /\ Sample.id = liveObserver.id /\ Sample.total = liveObserver.total
             /\ Sample.events = completed
      /\ NoSample \in SampleRec /\ NoSample.total = NoCount
  BY <1>0, LadderTypes, SMTT(30) DEF Sample, NoSample, SampleRec
<1>5. sample \in [before : SampleRec, after : SampleRec]
  BY <1>0 DEF LadderTypeOK
<1>6. /\ sample' \in [before : SampleRec, after : SampleRec] /\ sample'.before = sample.before
      /\ sample'.after \in {sample.after, Sample, NoSample}
  BY <1>2, <1>4, <1>5
<1>7. LadderTypeOK'
  BY <1>0, <1>1, <1>3, <1>6 DEF LadderTypeOK, LadderPcs
<1>8. RungsInStep' /\ DecisionsOK' /\ LogOK'
  BY <1>0, <1>1 DEF RungsInStep, DecisionsOK, LogOK
<1>9. SamplesOK'
  <2>1. CASE sample'.after = sample.after
    BY <1>0, <1>1, <1>6, <2>1 DEF SamplesOK, Known, Missed
  <2>2. CASE sample'.after = Sample
    BY <1>0, <1>1, <1>4, <1>6, <2>2, LadderNumbers DEF SamplesOK, Known, Missed
  <2>3. CASE sample'.after = NoSample
    BY <1>0, <1>1, <1>4, <1>6, <2>3 DEF SamplesOK, Known, Missed
  <2> QED BY <1>6, <2>1, <2>2, <2>3
<1> QED BY <1>7, <1>8, <1>9 DEF LadderInv

LEMMA PutProgressStep ==
  ASSUME LadderAssumption, LadderInv, NEW w \in Workers, PutProgress(w)
  PROVE  LadderInv'
<1>0. LadderTypeOK /\ RungsInStep /\ DecisionsOK /\ LogOK /\ SamplesOK
  BY DEF LadderInv
<1>1. /\ ladderPc[w] = "finish" /\ ladderPc' = [ladderPc EXCEPT ![w] = "wait"]
      /\ progress' = [progress EXCEPT ![rung[w]] = @ \cup {w}]
      /\ collected' = IF w = Coordinator THEN {} ELSE collected
      /\ UNCHANGED <<rung, started, exit, decision, completed, liveObserver, sample, previous, rungsLog, ladderFaults>>
      /\ ladderPc \in [Workers -> LadderPcs] /\ Coordinator \in Workers
      /\ progress \in [Rungs -> SUBSET Workers] /\ collected \in SUBSET Workers
  BY <1>0, LadderTypes DEF PutProgress, LadderGoto, measured, LadderTypeOK
<1>2. /\ progress' \in [Rungs -> SUBSET Workers]
      /\ \A r \in Rungs : progress[r] \subseteq progress'[r] /\ progress'[r] \subseteq Workers
  BY <1>1
<1>3. \A v \in Workers : rung[v] \in Rungs /\ (rung[v] > 0 => rung[v] - 1 \in Rungs)
  BY <1>0, LadderTypes, RungsNear
<1>4. LadderTypeOK'
  BY <1>0, <1>1, <1>2 DEF LadderTypeOK, LadderPcs
<1>5. RungsInStep'
  BY <1>0, <1>1, <1>2, <1>3 DEF RungsInStep
<1>6. DecisionsOK'
  BY <1>0, <1>1, <1>2, <1>3 DEF DecisionsOK
<1>7. LogOK' /\ SamplesOK'
  BY <1>0, <1>1 DEF LogOK, SamplesOK, Known, Missed
<1> QED BY <1>4, <1>5, <1>6, <1>7 DEF LadderInv

LEMMA CollectProgressStep ==
  ASSUME LadderAssumption, LadderInv, NEW w \in Workers, CollectProgress(w)
  PROVE  LadderInv'
<1>0. LadderTypeOK /\ RungsInStep /\ DecisionsOK /\ LogOK /\ SamplesOK
  BY DEF LadderInv
<1>1. /\ ladderPc[Coordinator] = "wait" /\ w \in progress[rung[Coordinator]] /\ collected' = collected \cup {w}
      /\ UNCHANGED <<ladderPc, rung, started, exit, progress, decision, completed, liveObserver, sample, previous,
                     rungsLog, ladderFaults>>
      /\ collected \in SUBSET Workers
  BY <1>0 DEF CollectProgress, shared, measured, LadderTypeOK
<1>2. LadderTypeOK'
  BY <1>0, <1>1 DEF LadderTypeOK
<1>3. DecisionsOK'
  BY <1>0, <1>1 DEF DecisionsOK
<1>4. RungsInStep' /\ LogOK' /\ SamplesOK'
  BY <1>0, <1>1 DEF RungsInStep, LogOK, SamplesOK, Known, Missed
<1> QED BY <1>2, <1>3, <1>4 DEF LadderInv

\* The change of the total is the number of orders completed between the samples.
LEMMA ProcessedIsReal ==
  ASSUME LadderAssumption, LadderTypeOK, SamplesOK
  PROVE  /\ Processed \in 0..NoCount
         /\ Processed # NoCount => Processed = sample.after.events - sample.before.events
<1>1. CASE Processed = NoCount
  BY <1>1, LadderNumbers
<1>2. CASE Processed # NoCount
  <2>1. /\ sample.before.total # NoCount /\ sample.after.total # NoCount /\ sample.before.id = sample.after.id
        /\ ~(sample.after.total < sample.before.total)
        /\ Processed = sample.after.total - sample.before.total
    BY <1>2 DEF Processed
  <2>2. sample.before.events - sample.before.total = sample.after.events - sample.after.total
    BY <2>1 DEF SamplesOK, Missed
  <2> QED BY <2>1, <2>2, LadderNumbers
<1> QED BY <1>1, <1>2

LEMMA DecideStep ==
  ASSUME LadderAssumption, LadderInv, Decide
  PROVE  LadderInv'
<1>0. LadderTypeOK /\ RungsInStep /\ DecisionsOK /\ LogOK /\ SamplesOK
  BY DEF LadderInv
<1> DEFINE r == rung[Coordinator]
<1>1. /\ ladderPc[Coordinator] = "wait" /\ collected = Workers
      /\ decision' = [decision EXCEPT ![r] = EvaluateRung(r)]
      /\ previous' = IF Processed # NoCount THEN Processed ELSE previous
      /\ rungsLog' = Append(rungsLog, r)
      /\ UNCHANGED <<started, exit, progress, collected, completed, liveObserver, ladderFaults>>
  BY DEF Decide, AllCollected
<1>2. /\ ladderPc \in [Workers -> LadderPcs] /\ Coordinator \in Workers /\ rung \in [Workers -> Rungs]
      /\ decision \in [Rungs -> DecisionRec] /\ rungsLog \in Seq(Rungs) /\ r \in Rungs /\ r \in Nat
      /\ previous \in 0..NoCount /\ LastRung \in Nat /\ sample \in [before : SampleRec, after : SampleRec]
      /\ Len(rungsLog) = r /\ r <= LastRung /\ progress[r] = Workers /\ started[Coordinator]
  <2>1. /\ ladderPc \in [Workers -> LadderPcs] /\ rung \in [Workers -> Rungs] /\ decision \in [Rungs -> DecisionRec]
        /\ rungsLog \in Seq(Rungs) /\ previous \in 0..NoCount /\ sample \in [before : SampleRec, after : SampleRec]
    BY <1>0 DEF LadderTypeOK
  <2>2. Coordinator \in Workers /\ r \in Rungs /\ r \in Nat /\ LastRung \in Nat /\ r <= LastRung
    BY <1>0, LadderTypes DEF Rungs
  <2>3. Len(rungsLog) = r /\ started[Coordinator]
    BY <1>0, <1>1, <2>2 DEF LogOK
  <2>4. progress[r] = Workers
    BY <1>0, <1>1, <2>2, LadderTypes DEF DecisionsOK
  <2> QED BY <2>1, <2>2, <2>3, <2>4
<1>3. /\ EvaluateRung(r) \in DecisionRec /\ EvaluateRung(r).made = TRUE
      /\ EvaluateRung(r).stop <=> r = LastRung
  BY <1>0, ProcessedIsReal DEF EvaluateRung, DecisionRec
<1> HIDE DEF r
<1>4. /\ decision' \in [Rungs -> DecisionRec] /\ decision'[r] = EvaluateRung(r)
      /\ \A q \in Rungs : q # r => decision'[q] = decision[q]
  BY <1>1, <1>2, <1>3
<1>5. /\ rungsLog' \in Seq(Rungs) /\ Len(rungsLog') = r + 1 /\ rungsLog'[r + 1] = r
      /\ \A i \in 1..Len(rungsLog) : rungsLog'[i] = rungsLog[i]
      /\ \A i \in 1..(r + 1) : i \in 1..Len(rungsLog) \/ i = r + 1
  BY <1>1, <1>2
<1>6. previous' \in 0..NoCount
  BY <1>0, <1>1, <1>2, ProcessedIsReal
<1>7. \A q \in Rungs : (decision'[q].made <=> q < r + 1) /\ (decision'[q].made => progress[q] = Workers
                             /\ (decision'[q].stop <=> q = LastRung))
  <2> SUFFICES ASSUME NEW q \in Rungs
               PROVE  (decision'[q].made <=> q < r + 1) /\ (decision'[q].made => progress[q] = Workers
                             /\ (decision'[q].stop <=> q = LastRung))
    OBVIOUS
  <2>1. CASE q = r
    BY <1>2, <1>3, <1>4, <2>1
  <2>2. CASE q # r
    <3>1. decision[q].made <=> q < Len(rungsLog)
      BY <1>0 DEF LogOK
    <3>2. decision[q].made => progress[q] = Workers /\ (decision[q].stop <=> q = LastRung)
      BY <1>0 DEF DecisionsOK
    <3>3. q \in Nat
      BY <1>0, LadderTypes
    <3>4. q < r <=> q < r + 1
      BY <1>2, <2>2, <3>3
    <3> QED BY <1>2, <1>4, <2>2, <3>1, <3>2, <3>4
  <2> QED BY <2>1, <2>2
<1>8. /\ LogOK' <=> (ladderPc'[Coordinator] \in {"idle", "window", "finish", "wait"} => r + 1 = rung'[Coordinator])
      /\ DecisionsOK' <=> (ladderPc'[Coordinator] = "wait" => collected \subseteq progress[rung'[Coordinator]])
  <2>1. \A i \in 1..Len(rungsLog') : rungsLog'[i] = i - 1
    BY <1>0, <1>2, <1>5 DEF LogOK
  <2>2. \A v \in Workers : ladderPc'[v] # "idle" => started'[v]
    <3>1. \A v \in Workers : v # Coordinator => ladderPc'[v] = ladderPc[v]
      BY <1>2 DEF Decide, LadderGoto
    <3> QED BY <1>0, <1>1, <1>2, <3>1 DEF LogOK
  <2> QED BY <1>1, <1>5, <1>7, <2>1, <2>2 DEF LogOK, DecisionsOK
<1>9. CASE r = LastRung
  <2>1. ladderPc' = [ladderPc EXCEPT ![Coordinator] = "drain"] /\ UNCHANGED <<rung, sample>>
    BY <1>9 DEF Decide, LadderGoto, r
  <2>2. ladderPc'[Coordinator] = "drain"
    BY <1>2, <2>1
  <2>3. LadderTypeOK'
    BY SMTT(30), <1>0, <1>1, <1>2, <1>4, <1>5, <1>6, <2>1 DEF LadderTypeOK, LadderPcs
  <2>4. RungsInStep'
    <3> SUFFICES ASSUME NEW v \in Workers, rung[v] > 0
                 PROVE  /\ progress[rung[v] - 1] = Workers
                        /\ decision'[rung[v] - 1].made /\ ~decision'[rung[v] - 1].stop
      BY <1>1, <2>1 DEF RungsInStep
    <3>1. /\ progress[rung[v] - 1] = Workers /\ decision[rung[v] - 1].made /\ ~decision[rung[v] - 1].stop
      BY <1>0 DEF RungsInStep
    <3>2. rung[v] - 1 \in Rungs /\ rung[v] \in Nat
      BY <1>0, RungsNear
    <3>3. rung[v] - 1 < r
      BY <1>0, <1>2, <3>1, <3>2 DEF LogOK
    <3>4. rung[v] - 1 # r
      BY <1>2, <3>2, <3>3
    <3> QED BY <1>4, <3>1, <3>2, <3>4
  <2>5. SamplesOK'
    BY <1>0, <1>1, <2>1 DEF SamplesOK, Known, Missed
  <2> QED BY <1>8, <2>2, <2>3, <2>4, <2>5 DEF LadderInv
<1>10. CASE r # LastRung
  <2>1. /\ ladderPc' = [ladderPc EXCEPT ![Coordinator] = "window"] /\ rung' = [rung EXCEPT ![Coordinator] = r + 1]
        /\ sample' = [before |-> Sample, after |-> NoSample]
    BY <1>10 DEF Decide, LadderGoto, r
  <2>2. /\ ladderPc'[Coordinator] = "window" /\ rung'[Coordinator] = r + 1 /\ r + 1 \in Rungs
        /\ \A v \in Workers : v # Coordinator => rung'[v] = rung[v]
    BY <1>2, <1>10, <2>1 DEF Rungs
  <2>3. /\ Sample \in SampleRec /\ Sample.id = liveObserver.id /\ Sample.total = liveObserver.total
               /\ Sample.events = completed
        /\ NoSample \in SampleRec /\ NoSample.total = NoCount
    BY <1>0, LadderTypes, SMTT(30) DEF Sample, NoSample, SampleRec
  <2>4. LadderTypeOK'
    <3>1. Len(rungsLog') <= LastRung + 1
      BY <1>2, <1>5
    <3> QED BY <1>0, <1>1, <1>2, <1>4, <1>5, <1>6, <2>1, <2>2, <2>3, <3>1 DEF LadderTypeOK, LadderPcs
  <2>5. RungsInStep'
    <3> SUFFICES ASSUME NEW v \in Workers, rung'[v] > 0
                 PROVE  /\ progress[rung'[v] - 1] = Workers
                        /\ decision'[rung'[v] - 1].made /\ ~decision'[rung'[v] - 1].stop
      BY <1>1 DEF RungsInStep
    <3>1. CASE v = Coordinator
      BY <1>2, <1>3, <1>4, <1>10, <2>2, <3>1
    <3>2. CASE v # Coordinator
      <4>1. rung'[v] = rung[v]
        BY <2>2, <3>2
      <4>2. /\ progress[rung[v] - 1] = Workers /\ decision[rung[v] - 1].made /\ ~decision[rung[v] - 1].stop
        BY <1>0, <4>1 DEF RungsInStep
      <4>3. rung[v] - 1 \in Rungs /\ rung[v] \in Nat
        BY <1>0, <4>1, RungsNear
      <4>4. rung[v] - 1 < r
        BY <1>0, <1>2, <4>2, <4>3 DEF LogOK
      <4>5. rung[v] - 1 # r
        BY <1>2, <4>3, <4>4
      <4> QED BY <1>4, <4>1, <4>2, <4>3, <4>5
    <3> QED BY <3>1, <3>2
  <2>6. SamplesOK'
    <3>1. sample'.before = Sample /\ sample'.after.total = NoCount
      BY <2>1, <2>3
    <3> QED BY <1>0, <1>1, <2>3, <3>1, LadderNumbers DEF SamplesOK, Known, Missed
  <2> QED BY <1>8, <2>2, <2>4, <2>5, <2>6 DEF LadderInv
<1> QED BY <1>9, <1>10

LEMMA FollowStep ==
  ASSUME LadderAssumption, LadderInv, NEW w \in Workers, Follow(w)
  PROVE  LadderInv'
<1>0. LadderTypeOK /\ RungsInStep /\ DecisionsOK /\ LogOK /\ SamplesOK
  BY DEF LadderInv
<1>1. /\ w # Coordinator /\ ladderPc[w] = "wait" /\ decision[rung[w]].made
      /\ UNCHANGED <<started, exit, progress, decision, collected, completed, liveObserver, sample, previous,
                     rungsLog, ladderFaults>>
  BY DEF Follow, shared, measured
<1>2. ladderPc \in [Workers -> LadderPcs] /\ Coordinator \in Workers /\ rung \in [Workers -> Rungs] /\ started[w]
  BY <1>0, <1>1, LadderTypes DEF LadderTypeOK, LogOK
<1>3. CASE decision[rung[w]].stop
  <2>1. ladderPc' = [ladderPc EXCEPT ![w] = "drain"] /\ UNCHANGED rung
    BY <1>3 DEF Follow, LadderGoto
  <2>2. LadderTypeOK'
    BY <1>0, <1>1, <1>2, <2>1 DEF LadderTypeOK, LadderPcs
  <2>3. RungsInStep' /\ DecisionsOK' /\ SamplesOK'
    BY <1>0, <1>1, <1>2, <2>1 DEF RungsInStep, DecisionsOK, SamplesOK, Known, Missed
  <2>4. LogOK'
    BY <1>0, <1>1, <1>2, <2>1 DEF LogOK
  <2> QED BY <2>2, <2>3, <2>4 DEF LadderInv
<1>4. CASE ~decision[rung[w]].stop
  <2>1. ladderPc' = [ladderPc EXCEPT ![w] = "window"] /\ rung' = [rung EXCEPT ![w] = @ + 1]
    BY <1>4 DEF Follow, LadderGoto
  <2>2. rung[w] \in Rungs /\ rung[w] \in Nat /\ progress[rung[w]] = Workers /\ rung[w] # LastRung
    BY <1>0, <1>1, <1>2, <1>4, LadderTypes DEF DecisionsOK
  <2>3. rung[w] + 1 \in Rungs
    BY <1>0, <2>2, RungsNear
  <2>4. LadderTypeOK'
    BY <1>0, <1>1, <1>2, <2>1, <2>3 DEF LadderTypeOK, LadderPcs
  <2>5. RungsInStep'
    BY <1>0, <1>1, <1>2, <1>4, <2>1, <2>2 DEF RungsInStep
  <2>6. DecisionsOK' /\ SamplesOK'
    BY <1>0, <1>1, <1>2, <2>1 DEF DecisionsOK, SamplesOK, Known, Missed
  <2>7. LogOK'
    BY <1>0, <1>1, <1>2, <2>1 DEF LogOK
  <2> QED BY <2>4, <2>5, <2>6, <2>7 DEF LadderInv
<1> QED BY <1>3, <1>4

LEMMA ObservedStep ==
  ASSUME LadderAssumption, LadderInv, OrderCompletes \/ ObserverResets
  PROVE  LadderInv'
<1>0. LadderTypeOK /\ RungsInStep /\ DecisionsOK /\ LogOK /\ SamplesOK
  BY DEF LadderInv
<1>1. /\ UNCHANGED <<ladderPc, rung, started, exit, progress, decision, collected, sample, previous, rungsLog>>
      /\ ladderFaults' \in 0..MaxLadderFaults
  <2>1. LadderFault \/ ladderFaults' = ladderFaults
    BY DEF OrderCompletes, ObserverResets
  <2>2. UNCHANGED <<ladderPc, rung, started, exit, progress, decision, collected, sample, previous, rungsLog>>
    BY DEF OrderCompletes, ObserverResets, shared
  <2> QED BY <1>0, <2>1, <2>2, LadderFaultCounted
<1>2. liveObserver \in [id : Nat, total : 0..MaxCompleted] /\ completed \in 0..MaxCompleted
  BY <1>0 DEF LadderTypeOK
<1>3. RungsInStep' /\ DecisionsOK' /\ LogOK'
  BY <1>0, <1>1 DEF RungsInStep, DecisionsOK, LogOK
<1>4. CASE OrderCompletes
  <2>1. /\ completed < MaxCompleted /\ completed' = completed + 1 /\ liveObserver'.id = liveObserver.id
        /\ liveObserver'.total = liveObserver.total + 1
        /\ liveObserver' = [liveObserver EXCEPT !.total = @ + 1]
    BY <1>2, <1>4 DEF OrderCompletes
  <2>2. LadderTypeOK'
    <3>1. completed' \in 0..MaxCompleted /\ liveObserver.total + 1 \in 0..MaxCompleted
              /\ liveObserver'.total <= completed'
      BY <1>0, <2>1, LadderNumbers
    <3>2. liveObserver' \in [id : Nat, total : 0..MaxCompleted]
      BY <1>2, <2>1, <3>1
    <3> QED BY <1>0, <1>1, <3>1, <3>2 DEF LadderTypeOK
  <2>3. SamplesOK'
    <3>1. Known(sample.before)' /\ Known(sample.after)'
      BY <1>0, <1>1, <2>1, LadderNumbers DEF SamplesOK, Known, Missed
    <3> QED BY <1>0, <1>1, <3>1 DEF SamplesOK, Missed
  <2> QED BY <1>3, <2>2, <2>3 DEF LadderInv
<1>5. CASE ObserverResets
  <2>1. /\ completed' = completed /\ liveObserver'.id = liveObserver.id + 1 /\ liveObserver'.total = 0
        /\ liveObserver' = [id |-> liveObserver.id + 1, total |-> 0]
    BY <1>5 DEF ObserverResets
  <2>2. LadderTypeOK'
    <3>1. liveObserver' \in [id : Nat, total : 0..MaxCompleted] /\ 0 <= completed
      BY <1>0, <2>1, LadderTypes, SMTT(30)
    <3> QED BY <1>0, <1>1, <2>1, <3>1 DEF LadderTypeOK
  <2>3. SamplesOK'
    <3>1. Known(sample.before)' /\ Known(sample.after)'
      BY <1>0, <1>1, <2>1, LadderNumbers DEF SamplesOK, Known, Missed
    <3> QED BY <1>0, <1>1, <3>1 DEF SamplesOK, Missed
  <2> QED BY <1>3, <2>2, <2>3 DEF LadderInv
<1> QED BY <1>4, <1>5

LEMMA LadderStart ==
  ASSUME LadderAssumption, LadderInit
  PROVE  LadderInv
<1>1. LastRung \in Nat /\ MaxCompleted \in Nat /\ MaxLadderFaults \in Nat /\ NoCount \in Nat /\ Coordinator \in Workers
  BY DEF LadderAssumption, NoCount
<1>2. NoDecision \in DecisionRec /\ NoDecision.made = FALSE /\ NoSample \in SampleRec /\ 0 \in Rungs
          /\ NoSample.total = NoCount
  BY <1>1 DEF NoDecision, DecisionRec, NoSample, SampleRec, Rungs
<1>3. [id |-> 1, total |-> 0, events |-> 0] \in SampleRec
  BY <1>1 DEF SampleRec
<1>4. LadderTypeOK
  BY <1>1, <1>2, <1>3 DEF LadderInit, LadderTypeOK, LadderPcs
<1>5. RungsInStep /\ DecisionsOK
  BY <1>1, <1>2 DEF LadderInit, RungsInStep, DecisionsOK
<1>6. LogOK
  <2>1. /\ Len(rungsLog) = 0 /\ \A r \in Rungs : decision[r] = NoDecision /\ r \in Nat
    BY <1>1 DEF LadderInit, Rungs
  <2>2. \A w \in Workers : ladderPc[w] = "idle" /\ rung[w] = 0
    BY DEF LadderInit
  <2> QED BY <1>1, <1>2, <2>1, <2>2 DEF LogOK
<1>7. SamplesOK
  <2>1. /\ sample.before.id = 1 /\ sample.before.total = 0 /\ sample.before.events = 0 /\ sample.after = NoSample
        /\ completed = 0 /\ liveObserver.id = 1 /\ liveObserver.total = 0
    BY DEF LadderInit
  <2> QED BY <1>1, <1>2, <2>1 DEF SamplesOK, Known, Missed
<1> QED BY <1>4, <1>5, <1>6, <1>7 DEF LadderInv

LEMMA LadderNextInv ==
  ASSUME LadderAssumption, LadderInv, [LadderNext]_ladderVars
  PROVE  LadderInv'
<1>1. CASE \E w \in Workers : WorkerStep(w) \/ Raises(w)
  BY <1>1, LadderMovesStep, WindowEndsStep, PutProgressStep, FollowStep DEF WorkerStep
<1>2. CASE CoordinatorStep
  BY <1>2, DecideStep, CollectProgressStep DEF CoordinatorStep
<1>3. CASE OrderCompletes \/ ObserverResets
  BY <1>3, ObservedStep
<1>4. CASE UNCHANGED ladderVars
  <2>1. UNCHANGED <<ladderPc, rung, started, exit, progress, decision, collected, completed, liveObserver, sample,
                    previous, rungsLog, ladderFaults>>
    BY <1>4 DEF ladderVars, shared, measured
  <2> QED BY <2>1 DEF LadderInv, LadderTypeOK, RungsInStep, DecisionsOK, LogOK, SamplesOK, Known, Missed
<1> QED BY <1>1, <1>2, <1>3, <1>4 DEF LadderNext

\* Only Decide makes a decision, of the coordinator's rung.
LEMMA GoodputStep ==
  ASSUME LadderAssumption, LadderInv, [LadderNext]_ladderVars
  PROVE  \A r \in Rungs :
            decision'[r].made /\ ~decision[r].made /\ decision'[r].processed # NoCount =>
                decision'[r].processed = sample.after.events - sample.before.events
<1>1. CASE Decide
  <2>1. decision \in [Rungs -> DecisionRec] /\ rung[Coordinator] \in Rungs /\ SamplesOK /\ LadderTypeOK
    BY LadderTypes DEF LadderInv, LadderTypeOK
  <2>2. decision' = [decision EXCEPT ![rung[Coordinator]] = EvaluateRung(rung[Coordinator])]
    BY <1>1 DEF Decide
  <2>3. EvaluateRung(rung[Coordinator]).processed = Processed
    BY DEF EvaluateRung
  <2> QED BY <2>1, <2>2, <2>3, ProcessedIsReal
<1>2. CASE ~Decide
  <2>1. decision' = decision
    BY <1>2 DEF LadderNext, CoordinatorStep, WorkerStep, LadderSchedule, WindowEnds, PutProgress, Follow, Drained,
                GivesUp, RunnerQuits, Raises, CollectProgress, OrderCompletes, ObserverResets, ladderVars, shared
  <2> QED BY <2>1
<1> QED BY <1>1, <1>2

\* The saturation ladder (locustfile.py, saturation.py): workers climb in step,
\* every decision is logged once and its goodput is the number of orders that
\* completed between its samples, for any number of workers and rungs, through
\* failed workers, failed samples and observers that start again.
THEOREM LadderClimbed ==
  ASSUME LadderAssumption
  PROVE  LadderSpec => LadderIsReal
<1>1. LadderInit => LadderInv
  BY LadderStart
<1>2. LadderInv /\ [LadderNext]_ladderVars => LadderInv'
  BY LadderNextInv
<1>3. LadderInv => LadderTypeOK /\ RungsInStep
  BY DEF LadderInv
<1>4. LadderInv => LoggedOnce
  <2> SUFFICES ASSUME LadderInv, NEW i \in 1..Len(rungsLog) PROVE rungsLog[i] = i - 1 /\ decision[i - 1].made
    BY DEF LoggedOnce
  <2>1. Len(rungsLog) \in Nat /\ Len(rungsLog) <= LastRung + 1 /\ LastRung \in Nat
    BY LadderTypes DEF LadderInv
  <2>2. i - 1 \in Rungs /\ i - 1 < Len(rungsLog)
    BY <2>1 DEF Rungs
  <2> QED BY <2>2 DEF LadderInv, LogOK
<1>5. LadderInv /\ [LadderNext]_ladderVars =>
         [\A r \in Rungs :
            decision'[r].made /\ ~decision[r].made /\ decision'[r].processed # NoCount =>
                decision'[r].processed = sample.after.events - sample.before.events]_ladderVars
  BY GoodputStep
<1> QED BY <1>1, <1>2, <1>3, <1>4, <1>5, PTL DEF LadderSpec, LadderIsReal, GoodputIsReal

----------------------------------------------------------------------------
(* The metrics gateway                                                     *)

LEMMA GatewayTypes ==
  ASSUME GatewayAssumption, GatewayTypeOK
  PROVE  /\ Executors \in Nat /\ MaxVersion \in Nat /\ Warming \in Values /\ version \in Values /\ version \in Nat
         /\ \A s \in Sources : /\ late[s] \in Nat /\ collectBegun[s] \in Nat /\ asOf[s] \in Nat
                               /\ collectBegun[s] \in 0..MaxVersion /\ Result(s) \in [Parts -> Values]
                               /\ IsFiniteSet(Running(s)) /\ Cardinality(Running(s)) \in Nat
                               /\ late[s] + Cardinality(Running(s)) <= Executors
                               /\ \A p \in Parts : value[s][p] \in Values /\ snapshot[s][p] \in Values
                                                   /\ value[s][p] \in Nat /\ snapshot[s][p] \in Nat
<1>1. /\ Executors \in Nat /\ MaxVersion \in Nat /\ Warming \in Values /\ version \in Values /\ version \in Nat
      /\ \A k \in Values : k \in Nat
  BY DEF GatewayAssumption, GatewayTypeOK, Values, Warming
<1>2. ASSUME NEW s \in Sources
      PROVE  /\ late[s] \in Nat /\ collectBegun[s] \in Nat /\ asOf[s] \in Nat /\ collectBegun[s] \in 0..MaxVersion
             /\ job[s] \in [Parts -> Jobs] /\ value[s] \in [Parts -> Values] /\ snapshot[s] \in [Parts -> Values]
             /\ late[s] + Cardinality(Running(s)) <= Executors
  BY <1>1 DEF GatewayTypeOK, Running
<1>3. ASSUME NEW s \in Sources
      PROVE  IsFiniteSet(Running(s)) /\ Cardinality(Running(s)) \in Nat
  <2>1. IsFiniteSet(Parts) /\ Running(s) \subseteq Parts
    BY DEF GatewayAssumption, Running
  <2> QED BY <2>1, FS_Subset, FS_CardinalityType
<1>4. ASSUME NEW s \in Sources
      PROVE  Result(s) \in [Parts -> Values]
  BY <1>1, <1>2 DEF Result
<1> QED BY <1>1, <1>2, <1>3, <1>4

\* The steps that only move one source's requests.
LEMMA CollectStep ==
  ASSUME GatewayAssumption, GatewayInv, NEW s \in Sources, Collect(s)
  PROVE  GatewayInv'
<1>0. GatewayTypeOK /\ CollectedFresh /\ NothingStale
  BY DEF GatewayInv
<1>1. /\ collecting' = [collecting EXCEPT ![s] = TRUE]
      /\ job' = [job EXCEPT ![s] = [p \in Parts |-> "queued"]]
      /\ value' = [value EXCEPT ![s] = [p \in Parts |-> Warming]]
      /\ collectBegun' = [collectBegun EXCEPT ![s] = version]
      /\ UNCHANGED <<version, late, snapshot, asOf, served>>
      /\ collecting \in [Sources -> BOOLEAN] /\ job \in [Sources -> [Parts -> Jobs]]
      /\ value \in [Sources -> [Parts -> Values]] /\ collectBegun \in [Sources -> 0..MaxVersion]
      /\ version \in 0..MaxVersion
  BY <1>0 DEF Collect, GatewayTypeOK
<1>2. Running(s)' = {} /\ \A q \in Sources : q # s => Running(q)' = Running(q)
  BY <1>1 DEF Running
<1>3. GatewayTypeOK'
  <2>1. \A q \in Sources : late'[q] + Cardinality(Running(q)') <= Executors
    <3> SUFFICES ASSUME NEW q \in Sources PROVE late[q] + Cardinality(Running(q)') <= Executors
      BY <1>1
    <3>1. Cardinality({}) = 0
      BY FS_EmptySet
    <3>2. late[q] \in Nat /\ Executors \in Nat /\ late[q] + Cardinality(Running(q)) <= Executors
      BY <1>0, GatewayTypes
    <3>3. Cardinality(Running(s)) \in Nat
      BY <1>0, GatewayTypes
    <3>4. CASE q = s
      <4>1. Cardinality(Running(q)') = 0
        BY <1>2, <3>1, <3>4
      <4> QED BY <3>2, <3>3, <3>4, <4>1
    <3>5. CASE q # s
      BY <1>2, <3>2, <3>5
    <3> QED BY <3>4, <3>5
  <2>2. [p \in Parts |-> "queued"] \in [Parts -> Jobs] /\ [p \in Parts |-> Warming] \in [Parts -> Values]
    BY <1>0, GatewayTypes DEF Jobs
  <2> QED BY <1>0, <1>1, <2>1, <2>2 DEF GatewayTypeOK, Running
<1>4. CollectedFresh'
  <2> SUFFICES ASSUME NEW q \in Sources
               PROVE  /\ collectBegun'[q] <= version
                      /\ \A p \in Parts :
                            /\ job'[q][p] \in {"running", "done"} => value'[q][p] >= collectBegun'[q]
                            /\ snapshot[q][p] # Warming => snapshot[q][p] >= asOf[q]
    BY <1>1 DEF CollectedFresh
  <2>1. CASE q = s
    BY <1>0, <1>1, <2>1 DEF CollectedFresh
  <2>2. CASE q # s
    BY <1>0, <1>1, <2>2 DEF CollectedFresh
  <2> QED BY <2>1, <2>2
<1>5. NothingStale'
  BY <1>0, <1>1 DEF NothingStale
<1> QED BY <1>3, <1>4, <1>5 DEF GatewayInv

LEMMA StartRequestStep ==
  ASSUME GatewayAssumption, GatewayInv, NEW s \in Sources, NEW p \in Parts, StartRequest(s, p)
  PROVE  GatewayInv'
<1>0. GatewayTypeOK /\ CollectedFresh /\ NothingStale
  BY DEF GatewayInv
<1>1. /\ job[s][p] = "queued" /\ Cardinality(Running(s)) + late[s] < Executors
      /\ job' = [job EXCEPT ![s][p] = "running"]
      /\ value' = [value EXCEPT ![s][p] = version]
      /\ UNCHANGED <<version, collecting, late, snapshot, collectBegun, asOf, served>>
      /\ job \in [Sources -> [Parts -> Jobs]] /\ value \in [Sources -> [Parts -> Values]]
      /\ version \in 0..MaxVersion /\ version \in Values
  BY <1>0, GatewayTypes DEF StartRequest, HasThread, GatewayTypeOK
<1>2. Running(s)' = Running(s) \cup {p} /\ \A q \in Sources : q # s => Running(q)' = Running(q)
  BY <1>1 DEF Running
<1>3. Cardinality(Running(s)') <= Cardinality(Running(s)) + 1
  <2>1. IsFiniteSet(Running(s)) /\ Cardinality(Running(s)) \in Nat
    BY <1>0, GatewayTypes
  <2>2. p \notin Running(s)
    BY <1>1 DEF Running
  <2>3. Cardinality(Running(s) \cup {p}) = Cardinality(Running(s)) + 1
    BY <2>1, <2>2, FS_AddElement
  <2> QED BY <1>2, <2>1, <2>3
<1>4. GatewayTypeOK'
  <2>1. \A q \in Sources : late'[q] + Cardinality(Running(q)') <= Executors
    <3> SUFFICES ASSUME NEW q \in Sources PROVE late[q] + Cardinality(Running(q)') <= Executors
      BY <1>1
    <3>1. CASE q = s
      <4>1. IsFiniteSet(Running(s)') /\ Cardinality(Running(s)') \in Nat
        <5>1. IsFiniteSet(Running(s))
          BY <1>0, GatewayTypes
        <5> QED BY <1>2, <5>1, FS_AddElement, FS_CardinalityType
      <4>2. late[s] \in Nat /\ Cardinality(Running(s)) \in Nat /\ Executors \in Nat
        BY <1>0, GatewayTypes
      <4> QED BY <1>1, <1>3, <3>1, <4>1, <4>2
    <3>2. CASE q # s
      BY <1>0, <1>2, <3>2, GatewayTypes
    <3> QED BY <3>1, <3>2
  <2> QED BY <1>0, <1>1, <2>1 DEF GatewayTypeOK, Running, Jobs
<1>5. CollectedFresh'
  <2> SUFFICES ASSUME NEW q \in Sources, NEW z \in Parts
               PROVE  /\ collectBegun[q] <= version
                      /\ job'[q][z] \in {"running", "done"} => value'[q][z] >= collectBegun[q]
                      /\ snapshot[q][z] # Warming => snapshot[q][z] >= asOf[q]
    BY <1>0, <1>1 DEF CollectedFresh
  <2>1. CASE q = s /\ z = p
    BY <1>0, <1>1, <2>1, GatewayTypes DEF CollectedFresh
  <2>2. CASE ~(q = s /\ z = p)
    <3>1. job'[q][z] = job[q][z] /\ value'[q][z] = value[q][z]
      BY <1>1, <2>2
    <3> QED BY <1>0, <3>1 DEF CollectedFresh
  <2> QED BY <2>1, <2>2
<1>6. NothingStale'
  BY <1>0, <1>1 DEF NothingStale
<1> QED BY <1>4, <1>5, <1>6 DEF GatewayInv

LEMMA AnswerStep ==
  ASSUME GatewayAssumption, GatewayInv, NEW s \in Sources, NEW p \in Parts, Answer(s, p)
  PROVE  GatewayInv'
<1>0. GatewayTypeOK /\ CollectedFresh /\ NothingStale
  BY DEF GatewayInv
<1>1. PICK result \in {"done", "failed"} : job' = [job EXCEPT ![s][p] = result]
  BY DEF Answer
<1>2. /\ job[s][p] = "running" /\ job \in [Sources -> [Parts -> Jobs]]
      /\ UNCHANGED <<version, collecting, value, late, snapshot, collectBegun, asOf, served>>
  BY <1>0 DEF Answer, GatewayTypeOK
<1>3. Running(s)' = Running(s) \ {p} /\ \A q \in Sources : q # s => Running(q)' = Running(q)
  BY <1>1, <1>2 DEF Running
<1>4. GatewayTypeOK'
  <2>1. \A q \in Sources : late'[q] + Cardinality(Running(q)') <= Executors
    <3> SUFFICES ASSUME NEW q \in Sources PROVE late[q] + Cardinality(Running(q)') <= Executors
      BY <1>2
    <3>1. /\ IsFiniteSet(Running(q)) /\ Cardinality(Running(q)) \in Nat /\ late[q] \in Nat
          /\ late[q] + Cardinality(Running(q)) <= Executors /\ Executors \in Nat
      BY <1>0, GatewayTypes
    <3>2. Running(q)' \subseteq Running(q)
      BY <1>3
    <3>3. Cardinality(Running(q)') <= Cardinality(Running(q)) /\ Cardinality(Running(q)') \in Nat
      BY <3>1, <3>2, FS_Subset, FS_CardinalityType
    <3> QED BY <3>1, <3>3
  <2> QED BY <1>0, <1>1, <1>2, <2>1 DEF GatewayTypeOK, Running, Jobs
<1>5. CollectedFresh'
  <2> SUFFICES ASSUME NEW q \in Sources, NEW z \in Parts
               PROVE  /\ collectBegun[q] <= version
                      /\ job'[q][z] \in {"running", "done"} => value[q][z] >= collectBegun[q]
                      /\ snapshot[q][z] # Warming => snapshot[q][z] >= asOf[q]
    BY <1>0, <1>2 DEF CollectedFresh
  <2>1. job'[q][z] = job[q][z] \/ job[q][z] = "running"
    BY <1>1, <1>2
  <2> QED BY <1>0, <2>1 DEF CollectedFresh
<1>6. NothingStale'
  BY <1>0, <1>2 DEF NothingStale
<1> QED BY <1>4, <1>5, <1>6 DEF GatewayInv

LEMMA PublishStep ==
  ASSUME GatewayAssumption, GatewayInv, NEW s \in Sources, Publish(s)
  PROVE  GatewayInv'
<1>0. GatewayTypeOK /\ CollectedFresh /\ NothingStale
  BY DEF GatewayInv
<1>1. /\ collecting' = [collecting EXCEPT ![s] = FALSE]
      /\ late' = [late EXCEPT ![s] = @ + Cardinality(Running(s))]
      /\ snapshot' = [snapshot EXCEPT ![s] = Result(s)]
      /\ asOf' = [asOf EXCEPT ![s] = collectBegun[s]]
      /\ job' = [job EXCEPT ![s] = [p \in Parts |-> "none"]]
      /\ UNCHANGED <<version, value, collectBegun, served>>
  BY DEF Publish
<1>2. /\ collecting \in [Sources -> BOOLEAN] /\ job \in [Sources -> [Parts -> Jobs]]
      /\ late \in [Sources -> 0..Executors] /\ asOf \in [Sources -> 0..MaxVersion]
      /\ snapshot \in [Sources -> [Parts -> Values]]
  BY <1>0 DEF GatewayTypeOK
<1>3. Running(s)' = {} /\ \A q \in Sources : q # s => Running(q)' = Running(q)
  BY <1>1, <1>2 DEF Running
<1>4. /\ late[s] + Cardinality(Running(s)) \in 0..Executors /\ Executors \in Nat /\ late[s] \in Nat
      /\ Result(s) \in [Parts -> Values] /\ collectBegun[s] \in 0..MaxVersion
  BY <1>0, GatewayTypes
<1>5. GatewayTypeOK'
  <2>1. late' \in [Sources -> 0..Executors]
    BY <1>1, <1>2, <1>4
  <2>2. \A q \in Sources : late'[q] + Cardinality(Running(q)') <= Executors
    <3> SUFFICES ASSUME NEW q \in Sources PROVE late'[q] + Cardinality(Running(q)') <= Executors
      OBVIOUS
    <3>1. CASE q = s
      <4>1. Cardinality(Running(q)') = 0
        BY <1>3, <3>1, FS_EmptySet
      <4> QED BY <1>4, <2>1, <4>1
    <3>2. CASE q # s
      <4>1. late'[q] = late[q] /\ Running(q)' = Running(q)
        BY <1>1, <1>2, <1>3, <3>2
      <4> QED BY <1>0, <4>1, GatewayTypes
    <3> QED BY <3>1, <3>2
  <2>3. [p \in Parts |-> "none"] \in [Parts -> Jobs]
    BY DEF Jobs
  <2>4. /\ snapshot' \in [Sources -> [Parts -> Values]] /\ asOf' \in [Sources -> 0..MaxVersion]
        /\ job' \in [Sources -> [Parts -> Jobs]] /\ collecting' \in [Sources -> BOOLEAN]
    BY <1>1, <1>2, <1>4, <2>3
  <2> QED BY <1>0, <1>1, <2>1, <2>2, <2>4 DEF GatewayTypeOK, Running
<1>6. CollectedFresh'
  <2> SUFFICES ASSUME NEW q \in Sources, NEW z \in Parts
               PROVE  /\ collectBegun[q] <= version
                      /\ job'[q][z] \in {"running", "done"} => value[q][z] >= collectBegun[q]
                      /\ snapshot'[q][z] # Warming => snapshot'[q][z] >= asOf'[q]
    BY <1>0, <1>1 DEF CollectedFresh
  <2>1. CASE q = s
    <3>1. job'[q][z] = "none" /\ asOf'[q] = collectBegun[q] /\ snapshot'[q][z] = Result(q)[z]
      BY <1>1, <1>2, <2>1
    <3>2. Result(q)[z] # Warming => job[q][z] = "done" /\ Result(q)[z] = value[q][z]
      BY DEF Result
    <3> QED BY <1>0, <3>1, <3>2 DEF CollectedFresh
  <2>2. CASE q # s
    <3>1. job'[q][z] = job[q][z] /\ asOf'[q] = asOf[q] /\ snapshot'[q][z] = snapshot[q][z]
      BY <1>1, <1>2, <2>2
    <3> QED BY <1>0, <3>1 DEF CollectedFresh
  <2> QED BY <2>1, <2>2
<1>7. NothingStale'
  BY <1>0, <1>1 DEF NothingStale
<1> QED BY <1>5, <1>6, <1>7 DEF GatewayInv

LEMMA LateEndsStep ==
  ASSUME GatewayAssumption, GatewayInv, NEW s \in Sources, LateEnds(s)
  PROVE  GatewayInv'
<1>0. GatewayTypeOK /\ CollectedFresh /\ NothingStale
  BY DEF GatewayInv
<1>1. /\ late[s] > 0 /\ late' = [late EXCEPT ![s] = @ - 1] /\ late \in [Sources -> 0..Executors]
      /\ UNCHANGED <<version, collecting, job, value, snapshot, collectBegun, asOf, served>>
  BY <1>0 DEF LateEnds, GatewayTypeOK
<1>2. /\ late' \in [Sources -> 0..Executors] /\ Executors \in Nat
      /\ \A q \in Sources : late'[q] \in Nat /\ late'[q] <= late[q]
  BY <1>1 DEF GatewayAssumption
<1>3. \A q \in Sources : late'[q] + Cardinality(Running(q)) <= Executors
  <2> SUFFICES ASSUME NEW q \in Sources PROVE late'[q] + Cardinality(Running(q)) <= Executors
    OBVIOUS
  <2>1. /\ Cardinality(Running(q)) \in Nat /\ late[q] \in Nat /\ late[q] + Cardinality(Running(q)) <= Executors
    BY <1>0, GatewayTypes
  <2> QED BY <1>2, <2>1
<1>4. GatewayTypeOK'
  BY <1>0, <1>1, <1>2, <1>3 DEF GatewayTypeOK, Running
<1>5. CollectedFresh' /\ NothingStale'
  BY <1>0, <1>1 DEF CollectedFresh, NothingStale
<1> QED BY <1>4, <1>5 DEF GatewayInv

LEMMA GetStep ==
  ASSUME GatewayAssumption, GatewayInv, Get
  PROVE  GatewayInv'
<1>0. GatewayTypeOK /\ CollectedFresh
  BY DEF GatewayInv
<1>1. /\ served' = [values |-> snapshot, begun |-> asOf]
      /\ UNCHANGED <<version, collecting, job, value, late, snapshot, collectBegun, asOf>>
  BY DEF Get
<1>2. GatewayTypeOK'
  BY <1>0, <1>1 DEF GatewayTypeOK
<1>3. CollectedFresh'
  BY <1>0, <1>1 DEF CollectedFresh
<1>4. NothingStale'
  BY <1>0, <1>1 DEF CollectedFresh, NothingStale
<1> QED BY <1>2, <1>3, <1>4 DEF GatewayInv

LEMMA AdvanceStep ==
  ASSUME GatewayAssumption, GatewayInv, Advance
  PROVE  GatewayInv'
<1>0. GatewayTypeOK /\ CollectedFresh /\ NothingStale
  BY DEF GatewayInv
<1>1. /\ version < MaxVersion /\ version' = version + 1 /\ version \in 0..MaxVersion /\ MaxVersion \in Nat
      /\ UNCHANGED <<collecting, job, value, late, snapshot, collectBegun, asOf, served>>
  BY <1>0 DEF Advance, GatewayTypeOK, GatewayAssumption
<1>2. version' \in 0..MaxVersion
  BY <1>1
<1>3. GatewayTypeOK'
  BY <1>0, <1>1, <1>2 DEF GatewayTypeOK
<1>4. CollectedFresh'
  <2>1. \A s \in Sources : collectBegun[s] <= version'
    <3> SUFFICES ASSUME NEW s \in Sources PROVE collectBegun[s] <= version'
      OBVIOUS
    <3>1. collectBegun[s] \in Nat /\ collectBegun[s] <= version
      BY <1>0, GatewayTypes DEF CollectedFresh
    <3> QED BY <1>1, <3>1
  <2> QED BY <1>0, <1>1, <2>1 DEF CollectedFresh
<1>5. NothingStale'
  BY <1>0, <1>1 DEF NothingStale
<1> QED BY <1>3, <1>4, <1>5 DEF GatewayInv

LEMMA GatewayStart ==
  ASSUME GatewayAssumption, GatewayInit
  PROVE  GatewayInv
<1>1. Executors \in Nat /\ MaxVersion \in Nat /\ Warming \in Values
  BY DEF GatewayAssumption, Values, Warming
<1>2. \A s \in Sources : {p \in Parts : job[s][p] = "running"} = {}
  BY DEF GatewayInit
<1>3. Cardinality({}) = 0
  BY FS_EmptySet
<1>4. \A s \in Sources : late[s] + Cardinality({p \in Parts : job[s][p] = "running"}) <= Executors
  BY <1>1, <1>2, <1>3, SMTT(30) DEF GatewayInit
<1>5. GatewayTypeOK
  BY <1>1, <1>4 DEF GatewayInit, GatewayTypeOK, Jobs
<1>6. CollectedFresh /\ NothingStale
  BY DEF GatewayInit, CollectedFresh, NothingStale
<1> QED BY <1>5, <1>6 DEF GatewayInv

\* The metrics gateway (cluster_metrics.py, metrics_server.py): for any number
\* of sources, parts and executor threads, through deadlines that pass with
\* requests still running, every value an answer shows was read in the
\* collection the answer comes from, and no executor has more threads than it may.
THEOREM GatewayFresh ==
  ASSUME GatewayAssumption
  PROVE  GatewaySpec => [](GatewayTypeOK /\ NothingStale)
<1>1. GatewayInit => GatewayInv
  BY GatewayStart
<1>2. GatewayInv /\ [GatewayNext]_gatewayVars => GatewayInv'
  <2> SUFFICES ASSUME GatewayInv, [GatewayNext]_gatewayVars PROVE GatewayInv'
    OBVIOUS
  <2>1. CASE Get \/ Advance
    BY <2>1, GetStep, AdvanceStep
  <2>2. CASE \E s \in Sources : SourceStep(s)
    BY <2>2, CollectStep, PublishStep, LateEndsStep, StartRequestStep, AnswerStep DEF SourceStep
  <2>3. CASE UNCHANGED gatewayVars
    BY <2>3 DEF gatewayVars, GatewayInv, GatewayTypeOK, CollectedFresh, NothingStale
  <2> QED BY <2>1, <2>2, <2>3 DEF GatewayNext
<1>3. GatewayInv => GatewayTypeOK /\ NothingStale
  BY DEF GatewayInv
<1> QED BY <1>1, <1>2, <1>3, PTL DEF GatewaySpec

----------------------------------------------------------------------------
(* The event observer                                                      *)

\* Products over naturals.
LEMMA ProductGrows ==
  ASSUME NEW a \in Nat, NEW b \in Nat, NEW e \in Nat
  PROVE  /\ a * e \in Nat /\ a * 0 = 0 /\ a * (e + 1) = a * e + a
         /\ a <= b => a * e <= b * e
<1>1. a * e \in Nat /\ a * 0 = 0 /\ a * (e + 1) = a * e + a
  OBVIOUS
<1>2. ASSUME a <= b PROVE a * e <= b * e
  <2>1. PICK d \in Nat : b = a + d
    <3>1. b - a \in Nat /\ b = a + (b - a)
      BY <1>2
    <3> QED BY <3>1
  <2>2. (a + d) * e = a * e + d * e /\ a * e \in Nat /\ d * e \in Nat
    OBVIOUS
  <2> QED BY <2>1, <2>2
<1> QED BY <1>1, <1>2

\* Every connection that is up is open; if one is up, an event is delivered.
LEMMA OpenCounts ==
  ASSUME ObserverTypeOK
  PROVE  /\ Open \in Nat /\ Deliveries \in Nat /\ Deliveries <= Open
         /\ (\E i \in 1..Len(conns) : conns[i] = "up") => Deliveries >= 1
<1> DEFINE O == {i \in 1..Len(conns) : conns[i] # "closed"}
           U == {i \in 1..Len(conns) : conns[i] = "up"}
<1>1. Len(conns) \in Nat
  BY DEF ObserverTypeOK
<1>2. IsFiniteSet(1..Len(conns))
  BY <1>1, FS_Interval
<1>3. IsFiniteSet(O) /\ IsFiniteSet(U)
  BY <1>2, FS_Subset
<1>4. U \subseteq O
  OBVIOUS
<1>5. Cardinality(O) \in Nat /\ Cardinality(U) \in Nat /\ Cardinality(U) <= Cardinality(O)
  BY <1>3, <1>4, FS_Subset, FS_CardinalityType
<1>6. U # {} => Cardinality(U) # 0
  BY <1>3, FS_EmptySet
<1>7. (\E i \in 1..Len(conns) : conns[i] = "up") => U # {}
  OBVIOUS
<1>8. Open = Cardinality(O) /\ Deliveries = Cardinality(U)
  BY DEF Open, Deliveries
<1> HIDE DEF O, U
<1> QED BY <1>5, <1>6, <1>7, <1>8

\* Where no connection closes there are as many open ones or more.
LEMMA OpenGrows ==
  ASSUME ObserverTypeOK, ObserverTypeOK',
         \A i \in 1..Len(conns) : conns[i] # "closed" => i \in 1..Len(conns') /\ conns'[i] # "closed"
  PROVE  Open <= Open' /\ Open' \in Nat
<1> DEFINE O == {i \in 1..Len(conns) : conns[i] # "closed"}
           P == {i \in 1..Len(conns') : conns'[i] # "closed"}
<1>1. Len(conns') \in Nat
  BY DEF ObserverTypeOK
<1>2. IsFiniteSet(P)
  <2>1. IsFiniteSet(1..Len(conns'))
    BY <1>1, FS_Interval
  <2> QED BY <2>1, FS_Subset
<1>3. O \subseteq P
  OBVIOUS
<1>4. Cardinality(O) <= Cardinality(P) /\ Cardinality(P) \in Nat
  BY <1>2, <1>3, FS_Subset, FS_CardinalityType
<1> QED BY <1>4 DEF Open

LEMMA ObserverTypes ==
  ASSUME ObserverAssumption, ObserverTypeOK
  PROVE  /\ MaxPublished \in Nat /\ MaxDrops \in Nat /\ conns \in Seq(States) /\ Len(conns) \in Nat
         /\ current \in 0..Len(conns) /\ total \in Nat /\ queued \in Nat /\ published \in Nat
         /\ drops \in Nat /\ drops <= MaxDrops /\ identity \in Nat /\ identity <= drops
         /\ samples \in Seq(TakenRec) /\ Len(samples) \in Nat /\ Len(samples) <= 2
         /\ Taken \in TakenRec
<1>1. /\ MaxPublished \in Nat /\ MaxDrops \in Nat /\ conns \in Seq(States) /\ samples \in Seq(TakenRec)
      /\ Len(samples) <= 2 /\ current \in 0..Len(conns) /\ total \in Nat /\ queued \in Nat
      /\ published \in 0..MaxPublished /\ drops \in 0..MaxDrops /\ identity \in 0..drops
  BY DEF ObserverAssumption, ObserverTypeOK
<1>2. Len(conns) \in Nat /\ Len(samples) \in Nat
  BY <1>1
<1>3. published \in Nat /\ drops \in Nat /\ drops <= MaxDrops /\ identity \in Nat /\ identity <= drops
  BY <1>1
<1>4. Taken \in TakenRec
  BY <1>1, <1>3, OpenCounts DEF Taken, TakenRec
<1> QED BY <1>1, <1>2, <1>3, <1>4

\* What is counted between a sample and now.
LEMMA CountedNow ==
  ASSUME ObserverAssumption, ObserverTypeOK, NEW s \in TakenRec
  PROVE  /\ s.id \in Nat /\ s.events \in Nat /\ s.total \in Nat /\ s.queued \in Nat
         /\ Counted(s, Taken) = total + queued - (s.total + s.queued) /\ Counted(s, Taken) \in Int
<1>1. s.id \in Nat /\ s.events \in Nat /\ s.total \in Nat /\ s.queued \in Nat
  BY DEF TakenRec
<1>2. Counted(s, Taken) = total + queued - (s.total + s.queued)
  BY DEF Counted, Taken
<1> QED BY <1>1, <1>2, ObserverTypes

LEMMA SampleTypes ==
  ASSUME ObserverTypeOK, NEW k \in 1..Len(samples)
  PROVE  samples[k] \in TakenRec
BY DEF ObserverTypeOK

\* A step that counts nothing and closes nothing keeps the samples counted.
LEMMA CountsKept ==
  ASSUME ObserverAssumption, ObserverTypeOK, ObserverTypeOK', NEW s \in TakenRec, SampleCounted(s),
         UNCHANGED <<identity, total, queued, published>>,
         \A i \in 1..Len(conns) : conns[i] # "closed" => i \in 1..Len(conns') /\ conns'[i] # "closed",
         \A i \in 1..Len(conns) : conns[i] = "up" => conns'[i] = "up"
  PROVE  SampleCounted(s)'
<1>1. s.id <= identity' /\ s.events <= published'
  BY DEF SampleCounted
<1>2. ASSUME s.id = identity'
      PROVE  /\ \E i \in 1..Len(conns') : conns'[i] = "up"
             /\ published' - s.events <= Counted(s, Taken)'
             /\ Counted(s, Taken)' <= Open' * (published' - s.events)
  <2>1. /\ \E i \in 1..Len(conns) : conns[i] = "up"
        /\ published - s.events <= Counted(s, Taken)
        /\ Counted(s, Taken) <= Open * (published - s.events)
    BY <1>2 DEF SampleCounted
  <2>2. \E i \in 1..Len(conns') : conns'[i] = "up"
    BY <2>1
  <2>3. Counted(s, Taken)' = Counted(s, Taken) /\ Counted(s, Taken) \in Int
    <3>1. Counted(s, Taken)' = total' + queued' - (s.total + s.queued)
      BY DEF Counted, Taken
    <3> QED BY <3>1, CountedNow
  <2>4. published - s.events \in Nat
    <3>1. published \in Nat /\ s.events \in Nat /\ s.events <= published
      BY ObserverTypes, CountedNow DEF SampleCounted
    <3> QED BY <3>1
  <2>5. Open \in Nat /\ Open' \in Nat /\ Open <= Open'
    BY OpenGrows, OpenCounts
  <2>6. /\ Open * (published - s.events) <= Open' * (published - s.events)
        /\ Open * (published - s.events) \in Nat /\ Open' * (published - s.events) \in Nat
    BY <2>4, <2>5, ProductGrows
  <2> HIDE DEF Open
  <2>7. Counted(s, Taken) <= Open' * (published - s.events)
    BY <2>1, <2>3, <2>6
  <2> QED BY <2>1, <2>2, <2>3, <2>7
<1> QED BY <1>1, <1>2 DEF SampleCounted

\* Steps of a call that leave counts and samples alone.
LEMMA CallMoves ==
  ASSUME ObserverAssumption, ObserverInv, ObserverTypeOK', UNCHANGED <<identity, total, queued, published, samples>>,
         \A i \in 1..Len(conns) : i \in 1..Len(conns') /\ conns'[i] = conns[i]
  PROVE  ObserverInv'
<1>1. ObserverTypeOK /\ CountsAreReal /\ \A k \in 1..Len(samples) : SampleCounted(samples[k])
  BY DEF ObserverInv
<1>2. CountsAreReal'
  BY <1>1 DEF CountsAreReal, Counted
<1>3. ASSUME NEW k \in 1..Len(samples) PROVE SampleCounted(samples[k])'
  <2>1. PICK s \in TakenRec : s = samples[k]
    BY <1>1, SampleTypes
  <2>2. SampleCounted(s)'
    BY <1>1, <2>1, CountsKept
  <2>3. samples'[k] = s
    BY <2>1
  <2> QED BY <2>2, <2>3 DEF SampleCounted, Counted
<1> QED BY <1>1, <1>2, <1>3 DEF ObserverInv

LEMMA DropCounted ==
  ASSUME ObserverAssumption, ObserverTypeOK, Drop
  PROVE  drops' = drops + 1 /\ drops' \in 0..MaxDrops /\ drops <= drops'
<1>1. drops \in 0..MaxDrops /\ MaxDrops \in Nat
  BY DEF ObserverTypeOK, ObserverAssumption
<1> QED BY <1>1 DEF Drop

\* Where a coroutine goes, with the connection it holds.
LEMMA GotoTypes ==
  ASSUME ObserverAssumption, ObserverTypeOK, NEW t \in Tasks,
         NEW state \in {"idle", "connecting", "subscribing", "flushing"}, ObserverGoto(t, state),
         UNCHANGED <<conns, current, identity, total, queued, published, samples, broken>>,
         handle' \in [Tasks -> 0..Len(conns)], drops' \in 0..MaxDrops, drops <= drops',
         \A u \in Tasks : u # t => handle'[u] = handle[u],
         state \in {"subscribing", "flushing"} => handle'[t] # 0 /\ current # 0
  PROVE  ObserverTypeOK'
<1>1. /\ observerPc \in [Tasks -> {"idle", "connecting", "subscribing", "flushing"}]
      /\ observerPc' = [observerPc EXCEPT ![t] = state]
  BY DEF ObserverTypeOK, ObserverGoto
<1>2. \A u \in Tasks : observerPc'[u] \in {"subscribing", "flushing"} => handle'[u] # 0 /\ current # 0
  BY <1>1 DEF ObserverTypeOK
<1>3. identity \in 0..drops'
  BY ObserverTypes
<1> QED BY <1>1, <1>2, <1>3 DEF ObserverTypeOK

LEMMA CallSteps ==
  ASSUME ObserverAssumption, ObserverInv, NEW t \in Tasks,
         Call(t) \/ ConnectFails(t) \/ Subscribed(t) \/ FlushFails(t) \/ ServeStats(t)
  PROVE  ObserverInv'
<1>0. /\ ObserverTypeOK /\ handle \in [Tasks -> 0..Len(conns)] /\ drops \in 0..MaxDrops
      /\ drops <= drops /\ current \in 0..Len(conns)
  <2>1. ObserverTypeOK
    BY DEF ObserverInv
  <2> QED BY <2>1, ObserverTypes DEF ObserverTypeOK
<1>1. UNCHANGED <<conns, current, identity, total, queued, published, samples, broken>>
  BY DEF Call, ConnectFails, Subscribed, FlushFails, ServeStats
<1>2. ObserverTypeOK'
  <2>1. CASE (Call(t) /\ Connected) \/ Subscribed(t)
    <3>1. handle' = [handle EXCEPT ![t] = current] /\ ObserverGoto(t, "flushing") /\ current # 0 /\ drops' = drops
      BY <1>0, <2>1 DEF Call, Connected, Subscribed, ObserverTypeOK
    <3>2. /\ handle' \in [Tasks -> 0..Len(conns)] /\ handle'[t] = current
          /\ \A u \in Tasks : u # t => handle'[u] = handle[u]
      BY <1>0, <3>1
    <3> QED BY <1>0, <1>1, <3>1, <3>2, GotoTypes
  <2>2. CASE Call(t) /\ ~Connected
    <3>1. UNCHANGED <<handle, drops>> /\ ObserverGoto(t, "connecting")
      BY <2>2 DEF Call
    <3> QED BY <1>0, <1>1, <3>1, GotoTypes
  <2>3. CASE ConnectFails(t)
    <3>1. UNCHANGED handle /\ ObserverGoto(t, "idle") /\ drops' \in 0..MaxDrops /\ drops <= drops'
      BY <1>0, <2>3, DropCounted DEF ConnectFails
    <3> QED BY <1>0, <1>1, <3>1, GotoTypes
  <2>4. CASE FlushFails(t) \/ ServeStats(t)
    <3>1. UNCHANGED <<handle, drops>> /\ ObserverGoto(t, "idle")
      BY <2>4 DEF FlushFails, ServeStats
    <3> QED BY <1>0, <1>1, <3>1, GotoTypes
  <2> QED BY <2>1, <2>2, <2>3, <2>4
<1> QED BY <1>1, <1>2, CallMoves

LEMMA ConnectionOpensStep ==
  ASSUME ObserverAssumption, ObserverInv, NEW t \in Tasks, ConnectionOpens(t)
  PROVE  ObserverInv'
<1>0. ObserverTypeOK
  BY DEF ObserverInv
<1> DEFINE n == Len(conns)
<1>1. /\ conns' = Append(conns, "up") /\ current' = n + 1
      /\ handle' = [handle EXCEPT ![t] = n + 1] /\ observerPc' = [observerPc EXCEPT ![t] = "subscribing"]
      /\ UNCHANGED <<identity, total, queued, published, samples, broken, drops>>
  BY DEF ConnectionOpens, ObserverGoto
<1>2. /\ observerPc \in [Tasks -> {"idle", "connecting", "subscribing", "flushing"}]
      /\ handle \in [Tasks -> 0..n] /\ conns \in Seq(States) /\ n \in Nat
  BY <1>0, ObserverTypes DEF ObserverTypeOK
<1>3. /\ conns' \in Seq(States) /\ Len(conns') = n + 1
      /\ \A i \in 1..n : i \in 1..(n + 1) /\ conns'[i] = conns[i]
  BY <1>1, <1>2 DEF States
<1> HIDE DEF n
<1>4. handle' \in [Tasks -> 0..Len(conns')] /\ handle'[t] # 0 /\ current' \in 0..Len(conns') /\ current' # 0
  BY <1>1, <1>2, <1>3
<1>5. \A u \in Tasks : observerPc'[u] \in {"subscribing", "flushing"} => handle'[u] # 0 /\ current' # 0
  <2> SUFFICES ASSUME NEW u \in Tasks, observerPc'[u] \in {"subscribing", "flushing"} PROVE handle'[u] # 0
    BY <1>4
  <2>1. CASE u = t
    BY <1>4, <2>1
  <2>2. CASE u # t
    BY <1>0, <1>1, <1>2, <2>2 DEF ObserverTypeOK
  <2> QED BY <2>1, <2>2
<1>6. ObserverTypeOK'
  BY <1>0, <1>1, <1>2, <1>3, <1>4, <1>5 DEF ObserverTypeOK
<1> QED BY <1>1, <1>3, <1>6, CallMoves DEF n

\* A sample just taken over a connection that is up.
LEMMA TakenCounted ==
  ASSUME ObserverAssumption, ObserverTypeOK, NEW i \in 1..Len(conns), conns[i] = "up"
  PROVE  SampleCounted(Taken)
<1>1. /\ Taken \in TakenRec /\ Taken.id = identity /\ Taken.events = published
      /\ Taken.total = total /\ Taken.queued = queued
  BY ObserverTypes DEF Taken
<1>2. identity \in Nat /\ published \in Nat /\ total \in Nat /\ queued \in Nat /\ Open \in Nat
  BY ObserverTypes, OpenCounts
<1>3. Counted(Taken, Taken) = 0 /\ published - Taken.events = 0
  BY <1>1, <1>2 DEF Counted
<1>4. Open * 0 = 0
  BY <1>2, ProductGrows
<1> HIDE DEF Open, Counted
<1> QED BY <1>1, <1>2, <1>3, <1>4 DEF SampleCounted

LEMMA ServeSampleStep ==
  ASSUME ObserverAssumption, ObserverInv, NEW t \in Tasks, ServeSample(t)
  PROVE  ObserverInv'
<1>0. ObserverTypeOK /\ CountsAreReal /\ \A k \in 1..Len(samples) : SampleCounted(samples[k])
  BY DEF ObserverInv
<1>1. /\ observerPc[t] = "flushing" /\ conns[handle[t]] = "up" /\ observerPc' = [observerPc EXCEPT ![t] = "idle"]
      /\ UNCHANGED <<conns, current, handle, identity, total, queued, published, broken, drops>>
      /\ observerPc \in [Tasks -> {"idle", "connecting", "subscribing", "flushing"}]
  BY <1>0 DEF ServeSample, RoundTrip, ObserverGoto, ObserverTypeOK
<1>2. \/ samples' = samples
      \/ Len(samples) < 2 /\ samples' = Append(samples, Taken)
      \/ Len(samples) >= 2 /\ samples' = <<samples[2], Taken>>
  BY <1>0, ObserverTypes DEF ServeSample
<1>3. SampleCounted(Taken)
  <2>1. handle[t] \in 0..Len(conns) /\ handle[t] # 0 /\ Len(conns) \in Nat
    BY <1>0, <1>1, ObserverTypes DEF ObserverTypeOK
  <2>2. handle[t] \in 1..Len(conns)
    BY <2>1
  <2> QED BY <1>0, <1>1, <2>2, TakenCounted
<1>4. /\ Taken \in TakenRec /\ Taken.id = identity /\ Taken.events = published /\ Taken.open = Open
      /\ samples \in Seq(TakenRec) /\ Len(samples) \in Nat /\ Len(samples) <= 2
  BY <1>0, ObserverTypes DEF Taken
<1>5. \A s \in TakenRec : SampleCounted(s) => SampleCounted(s)'
  BY <1>1 DEF SampleCounted, Counted, Taken, Open
<1>6. CASE samples' = samples
  <2>1. ObserverTypeOK'
    BY <1>0, <1>1, <1>6 DEF ObserverTypeOK
  <2> QED BY <1>1, <1>6, <2>1, CallMoves
<1>7. CASE samples' # samples
  <2>1. /\ samples' \in Seq(TakenRec) /\ Len(samples') \in 1..2 /\ samples'[Len(samples')] = Taken
        /\ Len(samples') = 2 => Len(samples) >= 1 /\ samples'[1] = samples[Len(samples)]
    <3>1. CASE Len(samples) < 2 /\ samples' = Append(samples, Taken)
      <4>1. Len(samples) \in Nat /\ Len(samples) < 2
        BY <1>4, <3>1
      <4>2. \A n \in Nat : n < 2 => n = 0 \/ n = 1
        OBVIOUS
      <4>3. Len(samples) = 0 \/ Len(samples) = 1
        BY <4>1, <4>2
      <4>4. /\ samples' \in Seq(TakenRec) /\ Len(samples') = Len(samples) + 1 /\ samples'[Len(samples) + 1] = Taken
            /\ \A k \in 1..Len(samples) : samples'[k] = samples[k]
        BY <1>4, <3>1, AppendProperties
      <4> QED BY <4>3, <4>4
    <3>2. CASE Len(samples) >= 2 /\ samples' = <<samples[2], Taken>>
      <4>1. Len(samples) = 2 /\ samples[2] \in TakenRec
        BY <1>4, <3>2
      <4> QED BY <1>4, <3>2, <4>1
    <3> QED BY <1>2, <1>7, <3>1, <3>2
  <2>2. \A k \in 1..Len(samples') : samples'[k] = Taken \/ \E j \in 1..Len(samples) : samples'[k] = samples[j]
    <3> SUFFICES ASSUME NEW k \in 1..Len(samples'), k # Len(samples')
                 PROVE  \E j \in 1..Len(samples) : samples'[k] = samples[j]
      BY <2>1
    <3>1. k = 1 /\ Len(samples') = 2
      BY <2>1
    <3>2. Len(samples) \in 1..Len(samples)
      BY <1>4, <2>1, <3>1
    <3> QED BY <2>1, <3>1, <3>2
  <2>3. ObserverTypeOK'
    BY <1>0, <1>1, <2>1 DEF ObserverTypeOK
  <2>4. \A k \in 1..Len(samples') : samples'[k] \in TakenRec /\ SampleCounted(samples'[k])
    <3> HIDE DEF SampleCounted, Taken
    <3> QED BY <1>0, <1>3, <1>4, <2>2, SampleTypes
  <2>5. ASSUME NEW k \in 1..Len(samples') PROVE SampleCounted(samples[k])'
    <3>1. PICK s \in TakenRec : s = samples'[k] /\ SampleCounted(s)
      BY <2>4
    <3>2. SampleCounted(s)'
      BY <1>5, <3>1
    <3> QED BY <3>1, <3>2 DEF SampleCounted, Counted
  <2>6. CountsAreReal'
    <3> SUFFICES ASSUME Len(samples') = 2, samples'[1].id = samples'[2].id
                 PROVE  LET events == samples'[2].events - samples'[1].events
                            counted == Counted(samples'[1], samples'[2])
                        IN  events <= counted /\ counted <= samples'[2].open * events
      BY DEF CountsAreReal, Counted
    <3>1. 1 \in 1..Len(samples') /\ samples'[2] = Taken
      BY <2>1
    <3>2. SampleCounted(samples'[1]) /\ samples'[1].id = identity
      BY <1>4, <2>4, <3>1
    <3> QED BY <1>4, <3>1, <3>2 DEF SampleCounted
  <2> QED BY <2>3, <2>5, <2>6 DEF ObserverInv
<1> QED BY <1>6, <1>7

LEMMA CountingStep ==
  ASSUME ObserverAssumption, ObserverInv, Event \/ Observe
  PROVE  ObserverInv'
<1>0. ObserverTypeOK /\ CountsAreReal /\ \A k \in 1..Len(samples) : SampleCounted(samples[k])
  BY DEF ObserverInv
<1>1. UNCHANGED <<observerPc, conns, current, handle, identity, samples, broken, drops>>
  BY DEF Event, Observe
<1>2. /\ total \in Nat /\ queued \in Nat /\ published \in 0..MaxPublished /\ published \in Nat /\ MaxPublished \in Nat
      /\ Open \in Nat /\ Deliveries \in Nat
  BY <1>0, ObserverTypes, OpenCounts DEF ObserverTypeOK
<1>3. \/ /\ published < MaxPublished /\ published' = published + 1 /\ total' = total
         /\ queued' = queued + Deliveries
      \/ queued > 0 /\ queued' = queued - 1 /\ total' = total + 1 /\ published' = published
  BY DEF Event, Observe
<1>4. total' \in Nat /\ queued' \in Nat /\ published' \in 0..MaxPublished
  <2> HIDE DEF Deliveries, Open
  <2> QED BY <1>2, <1>3
<1>5. ObserverTypeOK'
  BY <1>0, <1>1, <1>4 DEF ObserverTypeOK
<1>6. CountsAreReal'
  BY <1>0, <1>1 DEF CountsAreReal, Counted
<1>7. ASSUME NEW k \in 1..Len(samples) PROVE SampleCounted(samples[k])'
  <2>1. PICK s \in TakenRec : s = samples[k] /\ SampleCounted(s)
    BY <1>0, SampleTypes
  <2>2. /\ s.id \in Nat /\ s.events \in Nat /\ s.total \in Nat /\ s.queued \in Nat
        /\ s.id <= identity /\ s.events <= published
    BY <1>0, <2>1, CountedNow DEF SampleCounted
  <2> DEFINE e == published - s.events
             c == total + queued - (s.total + s.queued)
             o == Open
             d == Deliveries
  <2>3. e \in Nat /\ c \in Int /\ o \in Nat /\ d \in Nat
    <3> HIDE DEF Open, Deliveries
    <3> QED BY <1>2, <2>2
  <2>4. Counted(s, Taken) = c /\ Counted(s, Taken)' = total' + queued' - (s.total + s.queued) /\ Open' = o
    BY <1>1 DEF Counted, Taken, Open
  <2>5. s.events <= published'
    <3> HIDE DEF Deliveries
    <3> QED BY <1>2, <1>3, <2>2
  <2>6. ASSUME s.id = identity
        PROVE  /\ \E i \in 1..Len(conns) : conns[i] = "up"
               /\ published' - s.events <= Counted(s, Taken)' /\ Counted(s, Taken)' <= Open' * (published' - s.events)
    <3>1. /\ \E i \in 1..Len(conns) : conns[i] = "up"
          /\ e <= c /\ c <= o * e
      BY <2>1, <2>4, <2>6 DEF SampleCounted
    <3>2. 1 <= d /\ d <= o
      BY <1>0, <3>1, OpenCounts
    <3>3. o * e \in Nat /\ o * (e + 1) = o * e + o
      BY <2>3, ProductGrows
    <3>4. CASE published' = published + 1 /\ total' = total /\ queued' = queued + Deliveries
      <4>1. published' - s.events = e + 1
        BY <1>2, <2>2, <3>4
      <4>2. Counted(s, Taken)' = c + d
        BY <1>2, <2>2, <2>3, <2>4, <3>4
      <4> HIDE DEF e, c, o, d
      <4>3. e + 1 <= c + d /\ c + d <= o * (e + 1)
        BY <2>3, <3>1, <3>2, <3>3
      <4> QED BY <2>4, <3>1, <4>1, <4>2, <4>3
    <3>5. CASE queued > 0 /\ queued' = queued - 1 /\ total' = total + 1 /\ published' = published
      <4>1. Counted(s, Taken)' = c
        <5>1. \A x \in Nat : (total + 1) + ((queued - 1) - x) = total + (queued - x)
          BY <1>2
        <5>2. s.total + s.queued \in Nat
          BY <2>2
        <5>3. total' + queued' - (s.total + s.queued) = c
          BY <3>5, <5>1, <5>2
        <5> HIDE DEF c
        <5> QED BY <2>4, <5>3
      <4> QED BY <2>4, <3>1, <3>5, <4>1
    <3> QED BY <1>3, <3>4, <3>5
  <2>7. SampleCounted(s)'
    BY <1>1, <2>2, <2>5, <2>6 DEF SampleCounted
  <2>8. samples'[k] = s
    BY <1>1, <2>1
  <2> QED BY <2>7, <2>8 DEF SampleCounted, Counted
<1> QED BY <1>1, <1>5, <1>6, <1>7 DEF ObserverInv

LEMMA ConnectionStep ==
  ASSUME ObserverAssumption, ObserverInv, NEW i \in 1..Len(conns), ConnectionDrops(i) \/ Reconnects(i)
  PROVE  ObserverInv'
<1>0. ObserverTypeOK /\ CountsAreReal /\ \A k \in 1..Len(samples) : SampleCounted(samples[k])
  BY DEF ObserverInv
<1>1. /\ UNCHANGED <<observerPc, current, handle, queued, published, samples, broken>>
      /\ conns[i] # "closed" /\ \E state \in States : conns' = [conns EXCEPT ![i] = state]
  BY DEF ConnectionDrops, Reconnects, States
<1>2. /\ conns' \in Seq(States) /\ Len(conns') = Len(conns)
      /\ \A j \in 1..Len(conns) : j # i => conns'[j] = conns[j]
  <2>1. conns \in Seq(States)
    BY <1>0 DEF ObserverTypeOK
  <2> QED BY <1>1, <2>1
<1>5. CountsAreReal'
  BY <1>0, <1>1 DEF CountsAreReal, Counted
<1>6. CASE ConnectionDrops(i)
  <2>1. /\ total' = 0 /\ identity' = identity + 1 /\ drops' = drops + 1 /\ drops' \in 0..MaxDrops
    BY <1>0, <1>6, DropCounted DEF ConnectionDrops, Forget
  <2>2. identity' \in 0..drops'
    BY <1>0, <2>1, ObserverTypes, SMTT(30)
  <2>3. ObserverTypeOK'
    BY <1>0, <1>1, <1>2, <2>1, <2>2 DEF ObserverTypeOK
  <2>4. ASSUME NEW k \in 1..Len(samples) PROVE SampleCounted(samples[k])'
    <3>1. /\ samples[k].id <= identity /\ samples[k].id \in Nat /\ identity \in Nat
          /\ samples[k].events <= published
      BY <1>0, ObserverTypes, SampleTypes, CountedNow DEF SampleCounted
    <3>2. samples[k].id <= identity' /\ samples[k].id # identity'
      BY <2>1, <3>1
    <3> QED BY <1>1, <3>1, <3>2 DEF SampleCounted
  <2> QED BY <1>1, <1>5, <2>3, <2>4 DEF ObserverInv
<1>7. CASE Reconnects(i)
  <2>1. UNCHANGED <<identity, total, drops>> /\ conns[i] = "down" /\ conns'[i] = "up"
    BY <1>0, <1>7 DEF Reconnects, ObserverTypeOK
  <2>2. ObserverTypeOK'
    BY <1>0, <1>1, <1>2, <2>1 DEF ObserverTypeOK
  <2>3. /\ \A j \in 1..Len(conns) : conns[j] # "closed" => j \in 1..Len(conns') /\ conns'[j] # "closed"
        /\ \A j \in 1..Len(conns) : conns[j] = "up" => conns'[j] = "up"
    BY <1>2, <2>1
  <2>4. ASSUME NEW k \in 1..Len(samples) PROVE SampleCounted(samples[k])'
    <3>1. PICK s \in TakenRec : s = samples[k] /\ SampleCounted(s)
      BY <1>0, SampleTypes
    <3>2. SampleCounted(s)'
      BY <1>0, <1>1, <2>1, <2>2, <2>3, <3>1, CountsKept
    <3>3. samples'[k] = s
      BY <1>1, <3>1
    <3> QED BY <3>2, <3>3 DEF SampleCounted, Counted
  <2> QED BY <1>1, <1>5, <2>2, <2>4 DEF ObserverInv
<1> QED BY <1>6, <1>7

LEMMA ClientErrorStep ==
  ASSUME ObserverAssumption, ObserverInv, ClientError
  PROVE  ObserverInv'
<1>0. ObserverTypeOK
  BY DEF ObserverInv
<1>1. /\ broken' = TRUE /\ drops' \in 0..MaxDrops /\ drops <= drops'
      /\ UNCHANGED <<observerPc, conns, current, handle, identity, total, queued, published, samples>>
  BY <1>0, DropCounted DEF ClientError
<1>2. identity \in 0..drops'
  BY <1>0, <1>1, ObserverTypes
<1>3. ObserverTypeOK'
  BY <1>0, <1>1, <1>2 DEF ObserverTypeOK
<1> QED BY <1>1, <1>3, CallMoves

LEMMA ObserverStart ==
  ASSUME ObserverAssumption, ObserverInit
  PROVE  ObserverInv
<1>1. conns = << >> /\ samples = << >> /\ Len(conns) = 0 /\ Len(samples) = 0
  BY DEF ObserverInit
<1>2. conns \in Seq(States) /\ samples \in Seq(TakenRec)
  BY <1>1
<1>3. 0 \in 0..MaxPublished /\ 0 \in 0..MaxDrops /\ 0 \in 0..0
  BY DEF ObserverAssumption
<1>4. ObserverTypeOK
  <2>1. /\ observerPc \in [Tasks -> {"idle", "connecting", "subscribing", "flushing"}]
        /\ \A t \in Tasks : observerPc[t] = "idle"
    BY DEF ObserverInit
  <2>2. current \in 0..Len(conns) /\ handle \in [Tasks -> 0..Len(conns)]
    BY <1>1, <1>3 DEF ObserverInit
  <2>3. /\ published \in 0..MaxPublished /\ drops \in 0..MaxDrops /\ identity \in 0..drops
        /\ total \in Nat /\ queued \in Nat /\ broken \in BOOLEAN
    BY <1>3 DEF ObserverInit
  <2> QED BY <1>1, <1>2, <2>1, <2>2, <2>3 DEF ObserverTypeOK
<1>5. CountsAreReal /\ \A k \in 1..Len(samples) : SampleCounted(samples[k])
  BY <1>1 DEF CountsAreReal
<1> QED BY <1>4, <1>5 DEF ObserverInv

\* NatsMicroStatsClient (cluster_metrics.py): for any number of calls that overlap
\* and of connections they open, of events, drops and reconnections, two samples
\* with one identity count every event between them, and none more often than
\* there are open connections.
THEOREM ObserverCounts ==
  ASSUME ObserverAssumption
  PROVE  ObserverSpec => []ObservedIsReal
<1>1. ObserverInit => ObserverInv
  BY ObserverStart
<1>2. ObserverInv /\ [ObserverNext]_observerVars => ObserverInv'
  <2> SUFFICES ASSUME ObserverInv, [ObserverNext]_observerVars PROVE ObserverInv'
    OBVIOUS
  <2>1. CASE \E t \in Tasks : Step(t)
    BY <2>1, CallSteps, ConnectionOpensStep, ServeSampleStep DEF Step
  <2>2. CASE Event \/ Observe \/ ClientError
    BY <2>2, CountingStep, ClientErrorStep
  <2>3. CASE \E i \in 1..Len(conns) : ConnectionDrops(i) \/ Reconnects(i)
    BY <2>3, ConnectionStep
  <2>4. CASE UNCHANGED observerVars
    <3>1. UNCHANGED <<identity, total, queued, published, samples, conns>> /\ ObserverTypeOK'
      BY <2>4 DEF observerVars, ObserverInv, ObserverTypeOK
    <3> QED BY <3>1, CallMoves
  <2> QED BY <2>1, <2>2, <2>3, <2>4 DEF ObserverNext
<1>3. ObserverInv => ObservedIsReal
  BY DEF ObserverInv, ObservedIsReal
<1> QED BY <1>1, <1>2, <1>3, PTL DEF ObserverSpec

----------------------------------------------------------------------------
(* The checkout transactions                                               *)

LEMMA TransactionTypes ==
  ASSUME TransactionsAssumption, TransactionsTypeOK
  PROVE  /\ Count \in Nat /\ Concurrency \in Nat /\ Slots \in Nat /\ MaxBreaks \in Nat /\ Inline \in BOOLEAN
         /\ pc \in [Transactions -> Pcs] /\ order \in [Transactions -> OrderStates]
         /\ business \in [Transactions -> Seq(Records)] /\ accepted \subseteq Transactions
         /\ outstanding \in Nat /\ index \in Nat /\ breaks \in 0..MaxBreaks
         /\ \A t \in Transactions : /\ pc[t] \in Pcs /\ order[t] \in OrderStates
                                    /\ business[t] \in Seq(Records) /\ Len(business[t]) \in Nat
  BY DEF TransactionsAssumption, TransactionsTypeOK

LEMMA TransactionSetsFinite ==
  ASSUME TransactionsAssumption, TransactionsTypeOK, NEW S \in SUBSET Transactions
  PROVE  IsFiniteSet(S) /\ Cardinality(S) \in Nat /\ Cardinality(S) <= Count
<1>1. Count \in Nat /\ IsFiniteSet(Transactions) /\ Cardinality(Transactions) = Count
  BY TransactionTypes, FS_Interval, SMTT(30) DEF Transactions
<1> QED BY <1>1, FS_Subset, FS_CardinalityType

\* The lines that a step appends.
LEMMA LinesAppended ==
  ASSUME NEW b \in Seq(Records), NEW lines \in Seq(Records)
  PROVE  /\ b \o lines \in Seq(Records) /\ Len(b \o lines) = Len(b) + Len(lines)
         /\ \A i \in 1..Len(b) : (b \o lines)[i] = b[i]
         /\ \A i \in 1..Len(lines) : (b \o lines)[Len(b) + i] = lines[i]
<1>1. b \o lines \in Seq(Records) /\ Len(b \o lines) = Len(b) + Len(lines)
  BY ConcatProperties
<1>2. \A i \in 1..(Len(b) + Len(lines)) : (b \o lines)[i] = IF i <= Len(b) THEN b[i] ELSE lines[i - Len(b)]
  BY ConcatProperties
<1>3. Len(b) \in Nat /\ Len(lines) \in Nat
  OBVIOUS
<1>4. ASSUME NEW i \in 1..Len(b) PROVE (b \o lines)[i] = b[i]
  BY <1>2, <1>3
<1>5. ASSUME NEW i \in 1..Len(lines) PROVE (b \o lines)[Len(b) + i] = lines[i]
  <2>1. Len(b) + i \in 1..(Len(b) + Len(lines)) /\ ~(Len(b) + i <= Len(b)) /\ Len(b) + i - Len(b) = i
    BY <1>3
  <2> QED BY <1>2, <2>1
<1> QED BY <1>1, <1>4, <1>5

\* One transaction moves: what its step has to keep.
LEMMA TransactionMoves ==
  ASSUME TransactionsAssumption, TransactionsInv, NEW t \in Transactions, driver # "closed",
         NEW state \in Pcs, pc' = [pc EXCEPT ![t] = state], state # "waiting",
         NEW lines \in Seq(Records), business' = [business EXCEPT ![t] = lines],
         NEW o \in OrderStates, order' = [order EXCEPT ![t] = o],
         accepted' = accepted \/ accepted' = accepted \cup {t},
         Shape(state, lines, t \in accepted'), Truthful(state, lines, o),
         UNCHANGED <<driver, drained>>, index' \in 1..(Count + 1),
         breaks' \in 0..MaxBreaks,
         Inline => \A u \in Transactions : u >= index' => u >= index /\ u # t,
         state \notin {"waiting", "killed", "done"} /\ (Inline \/ state \notin Settling) =>
             \/ pc[t] \notin {"waiting", "killed", "done"} /\ (Inline \/ pc[t] \notin Settling)
             \/ driver = "schedule" /\ (Inline => Cardinality(InFlight) < Concurrency),
         state \in {"opening", "settle-opening"} =>
             pc[t] \in {"opening", "settle-opening"} \/ Cardinality(Opening) < Slots,
         outstanding' = IF t \in Owed /\ state \notin Following \cup {"killed"} THEN outstanding - 1
                        ELSE IF t \notin Owed /\ t \in accepted' /\ state \in Following \cup {"killed"}
                        THEN outstanding + 1 ELSE outstanding
  PROVE  TransactionsInv'
<1>0. /\ TransactionsTypeOK /\ outstanding = Cardinality(Owed)
      /\ \A u \in Transactions : Shape(pc[u], business[u], u \in accepted) /\ Truthful(pc[u], business[u], order[u])
      /\ Inline => \A u \in Transactions : u >= index => pc[u] = "waiting"
      /\ driver \in {"stopped", "closed"} => InFlight = {}
  BY DEF TransactionsInv
<1>1. /\ pc \in [Transactions -> Pcs] /\ order \in [Transactions -> OrderStates]
      /\ business \in [Transactions -> Seq(Records)] /\ accepted \subseteq Transactions
  BY <1>0, TransactionTypes
<1>2. /\ pc' \in [Transactions -> Pcs] /\ pc'[t] = state /\ \A u \in Transactions : u # t => pc'[u] = pc[u]
  BY <1>1
<1>3. /\ business' \in [Transactions -> Seq(Records)] /\ business'[t] = lines
      /\ \A u \in Transactions : u # t => business'[u] = business[u]
  BY <1>1
<1>4. /\ order' \in [Transactions -> OrderStates] /\ order'[t] = o
      /\ \A u \in Transactions : u # t => order'[u] = order[u]
  BY <1>1
<1>5. accepted' \subseteq Transactions /\ \A u \in Transactions : u # t => (u \in accepted' <=> u \in accepted)
  BY <1>1
<1>6. \A u \in Transactions : Shape(pc'[u], business'[u], u \in accepted') /\ Truthful(pc'[u], business'[u], order'[u])
  <2> SUFFICES ASSUME NEW u \in Transactions
               PROVE  Shape(pc'[u], business'[u], u \in accepted') /\ Truthful(pc'[u], business'[u], order'[u])
    OBVIOUS
  <2>1. CASE u = t
    BY <1>2, <1>3, <1>4, <2>1
  <2>2. CASE u # t
    <3>1. /\ pc'[u] = pc[u] /\ business'[u] = business[u] /\ order'[u] = order[u]
          /\ (u \in accepted') = (u \in accepted)
      BY <1>2, <1>3, <1>4, <1>5, <2>2
    <3>2. Shape(pc[u], business[u], u \in accepted) /\ Truthful(pc[u], business[u], order[u])
      BY <1>0
    <3> QED BY <3>1, <3>2
  <2> QED BY <2>1, <2>2
<1>7. outstanding' = Cardinality(Owed')
  <2>1. IsFiniteSet(Owed) /\ Cardinality(Owed) \in Nat
    <3>1. Owed \in SUBSET Transactions
      BY <1>1 DEF Owed
    <3> QED BY <1>0, <3>1, TransactionSetsFinite
  <2>2. \A u \in Transactions : u # t => (u \in Owed' <=> u \in Owed)
    BY <1>2, <1>5 DEF Owed
  <2>3. t \in Owed' <=> t \in accepted' /\ state \in Following \cup {"killed"}
    BY <1>2 DEF Owed
  <2>4. t \in Owed => t \in accepted'
    BY DEF Owed
  <2>5. Owed' \subseteq Transactions /\ Owed \subseteq Transactions
    BY <1>1, <1>5 DEF Owed
  <2>6. CASE t \in Owed /\ state \notin Following \cup {"killed"}
    <3>1. Owed' = Owed \ {t}
      BY <2>2, <2>3, <2>5, <2>6
    <3>2. Cardinality(Owed \ {t}) = Cardinality(Owed) - 1
      BY <2>1, <2>6, FS_RemoveElement
    <3> QED BY <1>0, <2>6, <3>1, <3>2
  <2>7. CASE t \notin Owed /\ t \in accepted' /\ state \in Following \cup {"killed"}
    <3>1. Owed' = Owed \cup {t}
      BY <2>2, <2>3, <2>5, <2>7
    <3>2. Cardinality(Owed \cup {t}) = Cardinality(Owed) + 1
      BY <2>1, <2>7, FS_AddElement
    <3> QED BY <1>0, <2>7, <3>1, <3>2
  <2>8. CASE /\ ~(t \in Owed /\ state \notin Following \cup {"killed"})
             /\ ~(t \notin Owed /\ t \in accepted' /\ state \in Following \cup {"killed"})
    <3>1. t \in Owed' <=> t \in Owed
      BY <2>3, <2>4, <2>8
    <3>2. Owed' = Owed
      <4>1. ASSUME NEW u \in Owed' PROVE u \in Owed
        BY <2>2, <2>5, <3>1
      <4>2. ASSUME NEW u \in Owed PROVE u \in Owed'
        BY <2>2, <2>5, <3>1
      <4> QED BY <4>1, <4>2
    <3> QED BY <1>0, <2>8, <3>2
  <2> QED BY <2>6, <2>7, <2>8
<1>8. outstanding' \in 0..Count
  <2>1. Owed' \in SUBSET Transactions
    BY <1>5 DEF Owed
  <2>2. Cardinality(Owed') \in Nat /\ Cardinality(Owed') <= Count /\ Count \in Nat
    BY <1>0, <2>1, TransactionSetsFinite, TransactionTypes
  <2> QED BY <1>7, <2>2
<1>9. /\ InFlight' \subseteq InFlight \/ (InFlight' \subseteq InFlight \cup {t} /\ driver = "schedule"
                                         /\ (Inline => Cardinality(InFlight) < Concurrency))
  <2>1. \A u \in Transactions : u # t => (u \in InFlight' <=> u \in InFlight)
    BY <1>2 DEF InFlight, Active
  <2>2. InFlight' \subseteq Transactions
    BY DEF InFlight, Active
  <2>3. t \in InFlight' => state \notin {"waiting", "killed", "done"} /\ (Inline \/ state \notin Settling)
    BY <1>2 DEF InFlight, Active
  <2>4. pc[t] \notin {"waiting", "killed", "done"} /\ (Inline \/ pc[t] \notin Settling) => t \in InFlight
    BY DEF InFlight, Active
  <2> QED BY <2>1, <2>2, <2>3, <2>4
<1>10. IsFiniteSet(InFlight) /\ Cardinality(InFlight) \in Nat
  <2>1. InFlight \in SUBSET Transactions
    BY DEF InFlight, Active
  <2> QED BY <1>0, <2>1, TransactionSetsFinite
<1>11. IsFiniteSet(InFlight') /\ Cardinality(InFlight') \in Nat
  <2>1. InFlight' \in SUBSET Transactions
    BY DEF InFlight, Active
  <2> QED BY <1>0, <2>1, TransactionSetsFinite
<1>12. Inline => Cardinality(InFlight') <= Concurrency
  <2> SUFFICES ASSUME Inline PROVE Cardinality(InFlight') <= Concurrency
    OBVIOUS
  <2>1. Cardinality(InFlight) <= Concurrency /\ Concurrency \in Nat
    BY <1>0, TransactionTypes DEF TransactionsTypeOK
  <2>2. CASE InFlight' \subseteq InFlight
    <3>1. Cardinality(InFlight') <= Cardinality(InFlight)
      BY <1>10, <2>2, FS_Subset
    <3> QED BY <1>10, <1>11, <2>1, <3>1
  <2>3. CASE InFlight' \subseteq InFlight \cup {t} /\ Cardinality(InFlight) < Concurrency
    <3>1. /\ IsFiniteSet(InFlight \cup {t}) /\ Cardinality(InFlight \cup {t}) \in Nat
          /\ Cardinality(InFlight \cup {t}) <= Cardinality(InFlight) + 1
      <4>1. CASE t \in InFlight
        <5>1. InFlight \cup {t} = InFlight
          BY <4>1
        <5>2. \A n \in Nat : n <= n + 1
          OBVIOUS
        <5>3. Cardinality(InFlight) <= Cardinality(InFlight) + 1
          BY <1>10, <5>2
        <5> QED BY <1>10, <5>1, <5>3
      <4>2. CASE t \notin InFlight
        <5>1. IsFiniteSet(InFlight \cup {t}) /\ Cardinality(InFlight \cup {t}) = Cardinality(InFlight) + 1
          BY <1>10, <4>2, FS_AddElement
        <5>2. \A n \in Nat : n + 1 \in Nat /\ n + 1 <= n + 1
          OBVIOUS
        <5> QED BY <1>10, <5>1, <5>2
      <4> QED BY <4>1, <4>2
    <3>2. Cardinality(InFlight') <= Cardinality(InFlight \cup {t})
      BY <2>3, <3>1, FS_Subset
    <3> QED BY <1>10, <1>11, <2>1, <2>3, <3>1, <3>2
  <2> QED BY <1>9, <2>2, <2>3
<1>13. Cardinality(Opening') <= Slots
  <2>1. Opening \in SUBSET Transactions /\ Opening' \in SUBSET Transactions
    BY DEF Opening
  <2>2. /\ IsFiniteSet(Opening) /\ Cardinality(Opening) \in Nat /\ IsFiniteSet(Opening')
               /\ Cardinality(Opening') \in Nat
        /\ Cardinality(Opening) <= Slots /\ Slots \in Nat
    BY <1>0, <2>1, TransactionSetsFinite, TransactionTypes DEF TransactionsTypeOK
  <2>3. \A u \in Transactions : u # t => (u \in Opening' <=> u \in Opening)
    BY <1>2 DEF Opening
  <2>4. CASE t \notin Opening' \/ t \in Opening
    <3>1. Opening' \subseteq Opening
      BY <2>1, <2>3, <2>4
    <3>2. Cardinality(Opening') <= Cardinality(Opening)
      BY <2>2, <3>1, FS_Subset
    <3> QED BY <2>2, <3>2
  <2>5. CASE t \in Opening' /\ t \notin Opening
    <3>1. Opening' = Opening \cup {t}
      BY <2>1, <2>3, <2>5
    <3>2. Cardinality(Opening \cup {t}) = Cardinality(Opening) + 1
      BY <2>2, <2>5, FS_AddElement
    <3>3. Cardinality(Opening) < Slots
      BY <1>2, <2>5 DEF Opening
    <3> QED BY <2>2, <3>1, <3>2, <3>3
  <2> QED BY <2>4, <2>5
<1>14. TransactionsTypeOK'
  BY <1>0, <1>2, <1>3, <1>4, <1>5, <1>8, <1>12, <1>13 DEF TransactionsTypeOK
<1>15. Inline => \A u \in Transactions : u >= index' => pc'[u] = "waiting"
  BY <1>0, <1>2
<1>16. driver' \in {"stopped", "closed"} => InFlight' = {}
  BY <1>0, <1>9
<1> QED BY <1>6, <1>7, <1>14, <1>15, <1>16 DEF TransactionsInv

\* One, two or three lines after those of a transaction.
LEMMA AppendedOne ==
  ASSUME NEW b \in Seq(Records), NEW x \in Records
  PROVE  /\ <<x>> \in Seq(Records) /\ Len(<<x>>) = 1 /\ <<x>>[1] = x
         /\ Len(b) = 0 => Len(b \o <<x>>) = 1 /\ (b \o <<x>>)[1] = x
         /\ Len(b) = 1 => Len(b \o <<x>>) = 2 /\ (b \o <<x>>)[1] = b[1] /\ (b \o <<x>>)[2] = x
         /\ Len(b) = 2 => /\ Len(b \o <<x>>) = 3 /\ (b \o <<x>>)[1] = b[1] /\ (b \o <<x>>)[2] = b[2]
                          /\ (b \o <<x>>)[3] = x
<1>1. <<x>> \in Seq(Records) /\ Len(<<x>>) = 1 /\ <<x>>[1] = x
  OBVIOUS
<1> DEFINE l == <<x>>
<1> HIDE DEF l
<1>2. l \in Seq(Records) /\ Len(l) = 1 /\ l[1] = x
  BY <1>1 DEF l
<1>3. /\ Len(b \o l) = Len(b) + 1 /\ (b \o l)[Len(b) + 1] = x /\ \A i \in 1..Len(b) : (b \o l)[i] = b[i]
  BY <1>2, LinesAppended
<1>4. Len(b) = 0 => Len(b \o l) = 1 /\ (b \o l)[1] = x
  BY <1>3
<1>5. Len(b) = 1 => Len(b \o l) = 2 /\ (b \o l)[1] = b[1] /\ (b \o l)[2] = x
  BY <1>3
<1>6. Len(b) = 2 => Len(b \o l) = 3 /\ (b \o l)[1] = b[1] /\ (b \o l)[2] = b[2] /\ (b \o l)[3] = x
  BY <1>3
<1> QED BY <1>1, <1>4, <1>5, <1>6 DEF l

LEMMA AppendedTwo ==
  ASSUME NEW b \in Seq(Records), NEW x \in Records, NEW y \in Records
  PROVE  /\ <<x, y>> \in Seq(Records) /\ Len(<<x, y>>) = 2 /\ <<x, y>>[1] = x /\ <<x, y>>[2] = y
         /\ Len(b) = 0 => Len(b \o <<x, y>>) = 2 /\ (b \o <<x, y>>)[1] = x /\ (b \o <<x, y>>)[2] = y
         /\ Len(b) = 1 => /\ Len(b \o <<x, y>>) = 3 /\ (b \o <<x, y>>)[1] = b[1] /\ (b \o <<x, y>>)[2] = x
                          /\ (b \o <<x, y>>)[3] = y
<1>1. <<x, y>> \in Seq(Records) /\ Len(<<x, y>>) = 2 /\ <<x, y>>[1] = x /\ <<x, y>>[2] = y
  OBVIOUS
<1> DEFINE l == <<x, y>>
<1> HIDE DEF l
<1>2. l \in Seq(Records) /\ Len(l) = 2 /\ l[1] = x /\ l[2] = y
  BY <1>1 DEF l
<1>3. /\ Len(b \o l) = Len(b) + 2 /\ (b \o l)[Len(b) + 1] = x /\ (b \o l)[Len(b) + 2] = y
      /\ \A i \in 1..Len(b) : (b \o l)[i] = b[i]
  BY <1>2, LinesAppended
<1>4. Len(b) = 0 => Len(b \o l) = 2 /\ (b \o l)[1] = x /\ (b \o l)[2] = y
  BY <1>3
<1>5. Len(b) = 1 => Len(b \o l) = 3 /\ (b \o l)[1] = b[1] /\ (b \o l)[2] = x /\ (b \o l)[3] = y
  BY <1>3
<1> QED BY <1>1, <1>4, <1>5 DEF l

LEMMA AppendedThree ==
  ASSUME NEW b \in Seq(Records), NEW x \in Records, NEW y \in Records, NEW z \in Records
  PROVE  /\ <<x, y, z>> \in Seq(Records) /\ Len(<<x, y, z>>) = 3
         /\ <<x, y, z>>[1] = x /\ <<x, y, z>>[2] = y /\ <<x, y, z>>[3] = z
         /\ Len(b) = 0 => /\ Len(b \o <<x, y, z>>) = 3 /\ (b \o <<x, y, z>>)[1] = x
                          /\ (b \o <<x, y, z>>)[2] = y /\ (b \o <<x, y, z>>)[3] = z
<1>1. /\ <<x, y, z>> \in Seq(Records) /\ Len(<<x, y, z>>) = 3
      /\ <<x, y, z>>[1] = x /\ <<x, y, z>>[2] = y /\ <<x, y, z>>[3] = z
  OBVIOUS
<1> DEFINE l == <<x, y, z>>
<1> HIDE DEF l
<1>2. l \in Seq(Records) /\ Len(l) = 3 /\ l[1] = x /\ l[2] = y /\ l[3] = z
  BY <1>1 DEF l
<1>3. Len(b \o l) = Len(b) + 3 /\ \A j \in 1..3 : (b \o l)[Len(b) + j] = l[j]
  BY SMTT(30), <1>2, LinesAppended
<1>4. Len(b) = 0 => Len(b \o l) = 3 /\ (b \o l)[1] = x /\ (b \o l)[2] = y /\ (b \o l)[3] = z
  <2> SUFFICES ASSUME Len(b) = 0 PROVE Len(b \o l) = 3 /\ (b \o l)[1] = x /\ (b \o l)[2] = y /\ (b \o l)[3] = z
    OBVIOUS
  <2>1. \A j \in 1..3 : Len(b) + j = j
    OBVIOUS
  <2>2. \A j \in 1..3 : (b \o l)[j] = l[j]
    BY <1>3, <2>1
  <2> QED BY <1>2, <1>3, <2>2
<1> QED BY <1>1, <1>4 DEF l

\* True lines and an order that goes on keep the records true.
LEMMA TruthKept ==
  ASSUME NEW b \in Seq(Records), NEW new \in Seq(Records), NEW o, NEW o2, NEW was, NEW state,
         Truthful(was, b, o),
         Len(b) = 0 \/ ((o.status = "COMPLETED" => o2.status = "COMPLETED") /\ (IsSettled(o) => IsSettled(o2))),
         \A i \in 1..Len(new) :
             /\ new[i].name = "outcome" /\ new[i].label = "COMPLETED" => o2.status = "COMPLETED"
             /\ new[i].name = "settled" /\ new[i].label = "SETTLED" => IsSettled(o2),
         state = "settle" => IsSettled(o2)
  PROVE  Truthful(state, b \o new, o2)
<1>1. Len(b) \in Nat /\ Len(new) \in Nat /\ Len(b \o new) = Len(b) + Len(new)
  BY LinesAppended
<1>2. ASSUME NEW i \in 1..Len(b \o new)
      PROVE  /\ (b \o new)[i].name = "outcome" /\ (b \o new)[i].label = "COMPLETED" => o2.status = "COMPLETED"
             /\ (b \o new)[i].name = "settled" /\ (b \o new)[i].label = "SETTLED" => IsSettled(o2)
  <2>1. CASE i \in 1..Len(b)
    <3>1. (b \o new)[i] = b[i]
      BY <2>1, LinesAppended
    <3>2. Len(b) # 0
      BY <1>1, <2>1
    <3> QED BY <2>1, <3>1, <3>2 DEF Truthful
  <2>2. CASE i \notin 1..Len(b)
    <3>1. i - Len(b) \in 1..Len(new) /\ i = Len(b) + (i - Len(b))
      BY <1>1, <2>2
    <3>2. (b \o new)[i] = new[i - Len(b)]
      BY <3>1, LinesAppended
    <3> QED BY <3>1, <3>2
  <2> QED BY <2>1, <2>2
<1> QED BY <1>2 DEF Truthful

\* What holds for every transaction that is under way.
LEMMA UnderWay ==
  ASSUME TransactionsAssumption, TransactionsInv, NEW t \in Transactions, pc[t] \notin {"waiting", "killed", "done"}
  PROVE  /\ driver # "closed" /\ index \in 1..(Count + 1) /\ breaks \in 0..MaxBreaks
         /\ Inline => \A u \in Transactions : u >= index => u >= index /\ u # t
         /\ order = [order EXCEPT ![t] = order[t]] /\ order[t] \in OrderStates
         /\ business = [business EXCEPT ![t] = business[t]] /\ business[t] \in Seq(Records)
         /\ Shape(pc[t], business[t], t \in accepted) /\ Truthful(pc[t], business[t], order[t])
         /\ t \in Owed <=> t \in accepted /\ pc[t] \in Following
         /\ outstanding \in Nat
<1>1. /\ TransactionsTypeOK /\ (driver = "closed" => Active = {})
      /\ Shape(pc[t], business[t], t \in accepted) /\ Truthful(pc[t], business[t], order[t])
      /\ Inline => \A u \in Transactions : u >= index => pc[u] = "waiting"
  BY DEF TransactionsInv
<1>2. t \in Active
  BY DEF Active
<1>3. /\ order \in [Transactions -> OrderStates] /\ business \in [Transactions -> Seq(Records)]
      /\ index \in 1..(Count + 1) /\ breaks \in 0..MaxBreaks /\ outstanding \in Nat
  BY <1>1, TransactionTypes DEF TransactionsTypeOK
<1>4. t \in Owed <=> t \in accepted /\ pc[t] \in Following
  BY DEF Owed
<1>5. driver # "closed"
  BY <1>1, <1>2
<1>6. /\ order = [order EXCEPT ![t] = order[t]] /\ order[t] \in OrderStates
      /\ business = [business EXCEPT ![t] = business[t]] /\ business[t] \in Seq(Records)
  BY <1>3
<1>7. Inline => \A u \in Transactions : u >= index => u >= index /\ u # t
  BY <1>1
<1> QED BY <1>1, <1>3, <1>4, <1>5, <1>6, <1>7

\* A step within one phase of a transaction writes nothing.
LEMMA SilentMoves ==
  ASSUME TransactionsAssumption, TransactionsInv, NEW t \in Transactions, NEW state \in Pcs,
         \/ pc[t] \in Preparing /\ state \in Preparing
         \/ pc[t] \in Following /\ state \in Following
         \/ pc[t] \in Settling /\ state \in Settling \ {"settle"},
         Goto(t, state), UNCHANGED <<order, logs, control>>, breaks' \in 0..MaxBreaks,
         state \in {"opening", "settle-opening"} => Cardinality(Opening) < Slots
  PROVE  TransactionsInv'
<1>1. pc[t] \notin {"waiting", "killed", "done"} /\ state \notin {"waiting", "killed", "done", "settle"}
  BY DEF Preparing, Following, Settling
<1>2. /\ driver # "closed" /\ index \in 1..(Count + 1)
      /\ Inline => \A u \in Transactions : u >= index => u >= index /\ u # t
      /\ order = [order EXCEPT ![t] = order[t]] /\ order[t] \in OrderStates
      /\ business = [business EXCEPT ![t] = business[t]] /\ business[t] \in Seq(Records)
      /\ Shape(pc[t], business[t], t \in accepted) /\ Truthful(pc[t], business[t], order[t])
      /\ t \in Owed <=> t \in accepted /\ pc[t] \in Following
  BY <1>1, UnderWay
<1>3. /\ UNCHANGED <<order, business, accepted, outstanding, index, driver, drained>>
      /\ pc' = [pc EXCEPT ![t] = state]
  BY DEF logs, control, Goto
<1>4. Shape(state, business[t], t \in accepted)
  BY <1>1, <1>2 DEF Shape, Preparing, Following, Settling
<1>5. Truthful(state, business[t], order[t])
  BY <1>1, <1>2 DEF Truthful
<1>6. state \in Following \cup {"killed"} <=> pc[t] \in Following
  BY <1>1 DEF Preparing, Following, Settling
<1>7. pc[t] \in Settling <=> state \in Settling
  BY <1>1 DEF Preparing, Following, Settling
<1>8. t \in Owed \/ t \notin accepted \/ state \notin Following \cup {"killed"}
  BY <1>2, <1>6
<1>9. t \in Owed => state \in Following \cup {"killed"}
  BY <1>2, <1>6
<1>10. outstanding' = IF t \in Owed /\ state \notin Following \cup {"killed"} THEN outstanding - 1
                      ELSE IF t \notin Owed /\ t \in accepted' /\ state \in Following \cup {"killed"}
                      THEN outstanding + 1 ELSE outstanding
  BY <1>3, <1>8, <1>9
<1> HIDE DEF Preparing, Following, Settling
<1> QED BY <1>1, <1>2, <1>3, <1>4, <1>5, <1>7, <1>10, TransactionMoves

\* A step that writes lines and ends a phase of a transaction.
LEMMA RecordMoves ==
  ASSUME TransactionsAssumption, TransactionsInv, NEW t \in Transactions, pc[t] \notin {"waiting", "killed", "done"},
         NEW state \in Pcs \ {"waiting", "opening", "settle-opening"}, Goto(t, state),
         NEW new \in Seq(Records), Record(t, new),
         NEW o \in OrderStates, order' = [order EXCEPT ![t] = o],
         \/ Len(business[t]) = 0
         \/ (order[t].status = "COMPLETED" => o.status = "COMPLETED") /\ (IsSettled(order[t]) => IsSettled(o)),
         \A i \in 1..Len(new) :
             /\ new[i].name = "outcome" /\ new[i].label = "COMPLETED" => o.status = "COMPLETED"
             /\ new[i].name = "settled" /\ new[i].label = "SETTLED" => IsSettled(o),
         state = "settle" => IsSettled(o),
         accepted' = accepted \/ accepted' = accepted \cup {t},
         Shape(state, business[t] \o new, t \in accepted'),
         state \in {"killed", "done"} \/ pc[t] \notin Settling,
         UNCHANGED <<control, breaks>>,
         outstanding' = IF t \in Owed /\ state \notin Following \cup {"killed"} THEN outstanding - 1
                        ELSE IF t \notin Owed /\ t \in accepted' /\ state \in Following \cup {"killed"}
                        THEN outstanding + 1 ELSE outstanding
  PROVE  TransactionsInv'
<1>1. /\ driver # "closed" /\ index \in 1..(Count + 1) /\ breaks \in 0..MaxBreaks
      /\ Inline => \A u \in Transactions : u >= index => u >= index /\ u # t
      /\ business[t] \in Seq(Records) /\ Truthful(pc[t], business[t], order[t])
  BY UnderWay
<1>2. /\ pc' = [pc EXCEPT ![t] = state] /\ UNCHANGED <<index, driver, drained, breaks>>
      /\ business' = [business EXCEPT ![t] = business[t] \o new]
  BY <1>1 DEF control, Goto, Record
<1> DEFINE lines == business[t] \o new
<1>3. lines \in Seq(Records) /\ Shape(state, lines, t \in accepted')
  BY <1>1, LinesAppended
<1>4. Truthful(state, lines, o)
  BY <1>1, TruthKept
<1> HIDE DEF lines
<1>5. business' = [business EXCEPT ![t] = lines]
  BY <1>2 DEF lines
<1> QED BY <1>1, <1>2, <1>3, <1>4, <1>5, TransactionMoves

\* A transaction that is under way ends.
LEMMA TransactionEnds ==
  ASSUME TransactionsAssumption, TransactionsInv, NEW t \in Transactions, pc[t] \notin {"waiting", "killed", "done"},
         NEW new \in Seq(Records), Record(t, new), Goto(t, "done"),
         NEW o \in OrderStates, order' = [order EXCEPT ![t] = o],
         \/ Len(business[t]) = 0
         \/ (order[t].status = "COMPLETED" => o.status = "COMPLETED") /\ (IsSettled(order[t]) => IsSettled(o)),
         \A i \in 1..Len(new) :
             /\ new[i].name = "outcome" /\ new[i].label = "COMPLETED" => o.status = "COMPLETED"
             /\ new[i].name = "settled" /\ new[i].label = "SETTLED" => IsSettled(o),
         accepted' = accepted \/ accepted' = accepted \cup {t},
         Shape("done", business[t] \o new, t \in accepted'),
         UNCHANGED <<control, breaks>>,
         outstanding' = IF pc[t] \in Following THEN outstanding - 1 ELSE outstanding
  PROVE  TransactionsInv'
<1>1. Shape(pc[t], business[t], t \in accepted) /\ (t \in Owed <=> t \in accepted /\ pc[t] \in Following)
  BY UnderWay
<1>2. t \in Owed <=> pc[t] \in Following
  BY <1>1 DEF Shape
<1>3. "done" \in Pcs \ {"waiting", "opening", "settle-opening"} /\ "done" \notin Following \cup {"killed"}
      /\ "done" # "settle"
  BY DEF Pcs, Following
<1>4. outstanding' = IF t \in Owed /\ "done" \notin Following \cup {"killed"} THEN outstanding - 1
                     ELSE IF t \notin Owed /\ t \in accepted' /\ "done" \in Following \cup {"killed"}
                     THEN outstanding + 1 ELSE outstanding
  BY <1>2, <1>3
<1> QED BY <1>3, <1>4, RecordMoves

\* add_item and _submit_cart_add.
LEMMA UnpreparedStep ==
  ASSUME TransactionsAssumption, TransactionsInv, NEW t \in Transactions, pc[t] \in Preparing, Unprepared(t)
  PROVE  TransactionsInv'
<1>1. pc[t] \notin {"waiting", "killed", "done"} /\ pc[t] \notin Following
  BY DEF Preparing, Following
<1>2. /\ order = [order EXCEPT ![t] = order[t]] /\ order[t] \in OrderStates /\ business[t] \in Seq(Records)
      /\ Shape(pc[t], business[t], t \in accepted)
  BY <1>1, UnderWay
<1> DEFINE x == Line("outcome", "ERROR", FALSE)
           new == <<x>>
<1>3. x \in Records /\ x.name = "outcome" /\ x.label = "ERROR"
  BY DEF Line, Records, RecordLabels
<1>4. /\ Record(t, new) /\ Goto(t, "done") /\ UNCHANGED <<order, accepted, outstanding, control, breaks>>
  BY DEF Unprepared
<1> HIDE DEF x
<1>5. Len(business[t]) = 0 /\ t \notin accepted
  BY <1>2 DEF Shape
<1>6. /\ new \in Seq(Records) /\ Len(new) = 1 /\ new[1] = x
      /\ Len(business[t] \o new) = 1 /\ (business[t] \o new)[1] = x
  BY <1>2, <1>3, <1>5, AppendedOne
<1> HIDE DEF new
<1>7. Shape("done", business[t] \o new, t \in accepted')
  BY <1>3, <1>4, <1>5, <1>6 DEF Shape, Preparing, Following, Settling
<1>8. \A i \in 1..Len(new) : new[i].name = "outcome" /\ new[i].label = "ERROR"
  BY <1>3, <1>6
<1> QED BY <1>1, <1>2, <1>4, <1>6, <1>7, <1>8, TransactionEnds

LEMMA PrepareSteps ==
  ASSUME TransactionsAssumption, TransactionsInv, NEW t \in Transactions,
         GetProduct(t) \/ AddToCart(t) \/ PollOperation(t)
  PROVE  TransactionsInv'
<1>1. pc[t] \in Preparing
  BY DEF GetProduct, AddToCart, PollOperation, Preparing
<1>2. CASE Unprepared(t)
  BY <1>1, <1>2, UnpreparedStep
<1>3. CASE ~Unprepared(t)
  <2>1. PICK state \in {"cart", "poll", "submit"} : Goto(t, state)
    BY <1>3 DEF GetProduct, AddToCart, PollOperation
  <2>2. UNCHANGED <<order, logs, control, breaks>>
    BY <1>3 DEF GetProduct, AddToCart, PollOperation
  <2>3. state \in Preparing /\ state \in Pcs /\ state \notin {"opening", "settle-opening"}
    BY DEF Preparing, Pcs
  <2>4. breaks' \in 0..MaxBreaks
    BY <2>2 DEF TransactionsInv, TransactionsTypeOK
  <2> QED BY <1>1, <2>1, <2>2, <2>3, <2>4, SilentMoves
<1> QED BY <1>2, <1>3

\* Lines after no line of a transaction that is being prepared.
LEMMA PreparedShape ==
  ASSUME TransactionsAssumption, TransactionsInv, NEW t \in Transactions, pc[t] \in Preparing
  PROVE  /\ pc[t] \notin {"waiting", "killed", "done"} /\ pc[t] \notin Following /\ pc[t] \notin Settling
         /\ Len(business[t]) = 0 /\ t \notin accepted /\ t \notin Owed /\ business[t] \in Seq(Records)
         /\ order \in [Transactions -> OrderStates] /\ order[t] \in OrderStates
         /\ order = [order EXCEPT ![t] = order[t]] /\ outstanding \in Nat
<1>1. pc[t] \notin {"waiting", "killed", "done"} /\ pc[t] \notin Following /\ pc[t] \notin Settling
  BY DEF Preparing, Following, Settling
<1>2. /\ Shape(pc[t], business[t], t \in accepted) /\ (t \in Owed <=> t \in accepted /\ pc[t] \in Following)
      /\ order[t] \in OrderStates /\ order = [order EXCEPT ![t] = order[t]] /\ outstanding \in Nat
      /\ business[t] \in Seq(Records)
  BY <1>1, UnderWay
<1>3. Len(business[t]) = 0 /\ t \notin accepted
  BY <1>2 DEF Shape
<1>4. order \in [Transactions -> OrderStates]
  BY DEF TransactionsInv, TransactionsTypeOK
<1> QED BY <1>1, <1>2, <1>3, <1>4

LEMMA RefusedStep ==
  ASSUME TransactionsAssumption, TransactionsInv, NEW t \in Transactions, Refused(t) \/ BadLocation(t)
  PROVE  TransactionsInv'
<1>1. pc[t] \in Preparing
  BY DEF Refused, BadLocation, Preparing
<1>2. /\ pc[t] \notin {"waiting", "killed", "done"} /\ pc[t] \notin Following
      /\ Len(business[t]) = 0 /\ business[t] \in Seq(Records)
      /\ order \in [Transactions -> OrderStates] /\ order = [order EXCEPT ![t] = order[t]]
  BY <1>1, PreparedShape
<1>3. NewOrder \in OrderStates /\ order[t] \in OrderStates
  BY <1>2 DEF NewOrder, OrderStates
<1>4. PICK o \in OrderStates : order' = [order EXCEPT ![t] = o]
  BY <1>2, <1>3 DEF Refused, BadLocation
<1>5. PICK x \in Records : /\ x.name = "acceptance"
                           /\ Record(t, <<x, Line("outcome", "ERROR", FALSE), Line("settled",
                                          "ORDER_NOT_COMPLETED", FALSE)>>)
  <2>1. CASE Refused(t)
    <3>1. Line("acceptance", "ERROR", FALSE) \in Records /\ Line("acceptance", "ERROR", FALSE).name = "acceptance"
      BY DEF Line, Records, RecordLabels
    <3> QED BY <2>1, <3>1 DEF Refused
  <2>2. CASE BadLocation(t)
    <3>1. Line("acceptance", "ACCEPTED", TRUE) \in Records /\ Line("acceptance", "ACCEPTED", TRUE).name = "acceptance"
      BY DEF Line, Records, RecordLabels
    <3> QED BY <2>2, <3>1 DEF BadLocation
  <2> QED BY <2>1, <2>2
<1> DEFINE y == Line("outcome", "ERROR", FALSE)
           z == Line("settled", "ORDER_NOT_COMPLETED", FALSE)
           new == <<x, y, z>>
<1>6. /\ y \in Records /\ y.name = "outcome" /\ y.label = "ERROR"
      /\ z \in Records /\ z.name = "settled" /\ z.label = "ORDER_NOT_COMPLETED"
  BY DEF Line, Records, RecordLabels
<1>7. /\ Record(t, new) /\ Goto(t, "done") /\ UNCHANGED <<outstanding, control, breaks>>
      /\ accepted' = accepted \/ accepted' = accepted \cup {t}
  BY <1>5 DEF Refused, BadLocation
<1> HIDE DEF y, z
<1>8. /\ new \in Seq(Records) /\ Len(new) = 3 /\ new[1] = x /\ new[2] = y /\ new[3] = z
      /\ Len(business[t] \o new) = 3 /\ (business[t] \o new)[1] = x /\ (business[t] \o new)[2] = y
      /\ (business[t] \o new)[3] = z
  BY <1>2, <1>5, <1>6, AppendedThree
<1> HIDE DEF new
<1>9. Shape("done", business[t] \o new, t \in accepted')
  BY <1>5, <1>6, <1>8 DEF Shape, Preparing, Following, Settling
<1>10. \A i \in 1..Len(new) :
           /\ new[i].name = "outcome" /\ new[i].label = "COMPLETED" => o.status = "COMPLETED"
           /\ new[i].name = "settled" /\ new[i].label = "SETTLED" => IsSettled(o)
  BY <1>5, <1>6, <1>8
<1>11. outstanding' = IF pc[t] \in Following THEN outstanding - 1 ELSE outstanding
  BY <1>2, <1>7
<1> QED BY <1>2, <1>4, <1>7, <1>8, <1>9, <1>10, <1>11, TransactionEnds

LEMMA GrpcCheckoutStep ==
  ASSUME TransactionsAssumption, TransactionsInv, NEW t \in Transactions, GrpcCheckout(t)
  PROVE  TransactionsInv'
<1>1. pc[t] \in Preparing
  BY DEF GrpcCheckout, Preparing
<1>2. /\ pc[t] \notin {"waiting", "killed", "done"} /\ pc[t] \notin Following /\ t \notin accepted
      /\ Len(business[t]) = 0 /\ business[t] \in Seq(Records)
      /\ order \in [Transactions -> OrderStates] /\ order = [order EXCEPT ![t] = order[t]]
  BY <1>1, PreparedShape
<1> DEFINE ok == [NewOrder EXCEPT !.status = "COMPLETED"]
<1>3. ok \in OrderStates /\ ok.status = "COMPLETED" /\ order[t] \in OrderStates
  BY <1>2 DEF NewOrder, OrderStates
<1>4. PICK o \in OrderStates, x \in Records :
          /\ order' = [order EXCEPT ![t] = o] /\ Record(t, <<x>>) /\ x.name = "outcome"
          /\ x.label = "COMPLETED" => o.status = "COMPLETED"
  <2>1. CASE order' = [order EXCEPT ![t] = ok] /\ Record(t, <<Line("outcome", "COMPLETED", TRUE)>>)
    <3>1. Line("outcome", "COMPLETED", TRUE) \in Records /\ Line("outcome", "COMPLETED", TRUE).name = "outcome"
      BY DEF Line, Records, RecordLabels
    <3> QED BY <1>3, <2>1, <3>1
  <2>2. CASE order' = order /\ Record(t, <<Line("outcome", "ERROR", FALSE)>>)
    <3>1. /\ Line("outcome", "ERROR", FALSE) \in Records /\ Line("outcome", "ERROR", FALSE).name = "outcome"
          /\ Line("outcome", "ERROR", FALSE).label = "ERROR"
      BY DEF Line, Records, RecordLabels
    <3> QED BY <1>2, <1>3, <2>2, <3>1
  <2> QED BY <2>1, <2>2 DEF GrpcCheckout
<1> HIDE DEF ok
<1> DEFINE new == <<x>>
<1>5. Record(t, new) /\ Goto(t, "done") /\ UNCHANGED <<accepted, outstanding, control, breaks>>
  BY <1>4 DEF GrpcCheckout
<1>6. /\ new \in Seq(Records) /\ Len(new) = 1 /\ new[1] = x
      /\ Len(business[t] \o new) = 1 /\ (business[t] \o new)[1] = x
  BY <1>2, <1>4, AppendedOne
<1> HIDE DEF new
<1>7. Shape("done", business[t] \o new, t \in accepted')
  BY <1>2, <1>4, <1>5, <1>6 DEF Shape, Preparing, Following, Settling
<1>8. \A i \in 1..Len(new) :
          /\ new[i].name = "outcome" /\ new[i].label = "COMPLETED" => o.status = "COMPLETED"
          /\ new[i].name = "settled" /\ new[i].label = "SETTLED" => IsSettled(o)
  BY <1>4, <1>6
<1>9. outstanding' = IF pc[t] \in Following THEN outstanding - 1 ELSE outstanding
  BY <1>2, <1>5
<1> QED BY <1>2, <1>4, <1>5, <1>6, <1>7, <1>8, <1>9, TransactionEnds

LEMMA AcceptedStep ==
  ASSUME TransactionsAssumption, TransactionsInv, NEW t \in Transactions, Accepted(t)
  PROVE  TransactionsInv'
<1>1. pc[t] \in Preparing
  BY DEF Accepted, Preparing
<1>2. /\ pc[t] \notin {"waiting", "killed", "done"} /\ pc[t] \notin Settling /\ t \notin Owed
      /\ Len(business[t]) = 0 /\ business[t] \in Seq(Records)
  BY <1>1, PreparedShape
<1> DEFINE x == Line("acceptance", "ACCEPTED", TRUE)
           new == <<x>>
<1>3. x \in Records /\ x.name = "acceptance" /\ NewOrder \in OrderStates
  BY DEF Line, Records, RecordLabels, NewOrder, OrderStates
<1>4. /\ Record(t, new) /\ Goto(t, "connect") /\ UNCHANGED <<control, breaks>>
      /\ accepted' = accepted \cup {t} /\ outstanding' = outstanding + 1
      /\ order' = [order EXCEPT ![t] = NewOrder]
  BY DEF Accepted
<1> HIDE DEF x
<1>5. /\ new \in Seq(Records) /\ Len(new) = 1 /\ new[1] = x
      /\ Len(business[t] \o new) = 1 /\ (business[t] \o new)[1] = x
  BY <1>2, <1>3, AppendedOne
<1> HIDE DEF new
<1>6. Shape("connect", business[t] \o new, t \in accepted')
  BY <1>3, <1>4, <1>5 DEF Shape, Preparing, Following, Settling
<1>7. "connect" \in Pcs \ {"waiting", "opening", "settle-opening"} /\ "connect" \in Following \cup {"killed"}
  BY DEF Pcs, Following
<1>8. \A i \in 1..Len(new) :
          /\ new[i].name = "outcome" /\ new[i].label = "COMPLETED" => NewOrder.status = "COMPLETED"
          /\ new[i].name = "settled" /\ new[i].label = "SETTLED" => IsSettled(NewOrder)
  BY <1>3, <1>5
<1>9. outstanding' = IF t \in Owed /\ "connect" \notin Following \cup {"killed"} THEN outstanding - 1
                     ELSE IF t \notin Owed /\ t \in accepted' /\ "connect" \in Following \cup {"killed"}
                     THEN outstanding + 1 ELSE outstanding
  BY <1>2, <1>4, <1>7
<1> QED BY <1>2, <1>3, <1>4, <1>5, <1>6, <1>7, <1>8, <1>9, RecordMoves

\* _open_order_event_stream and the streams that break off.
LEMMA StreamSteps ==
  ASSUME TransactionsAssumption, TransactionsInv, NEW t \in Transactions,
         Connect(t) \/ Opened(t) \/ NotYet(t) \/ StreamBreaks(t)
  PROVE  TransactionsInv'
<1>1. UNCHANGED <<order, logs, control>>
  BY DEF Connect, Opened, NotYet, StreamBreaks
<1>2. breaks' \in 0..MaxBreaks
  <2>1. breaks \in 0..MaxBreaks /\ MaxBreaks \in Nat
    BY TransactionTypes DEF TransactionsInv
  <2> QED BY <2>1 DEF Connect, Opened, NotYet, StreamBreaks
<1>3. CASE Connect(t)
  <2>1. Cardinality(Opening) < Slots
    BY <1>3 DEF Connect
  <2>2. CASE pc[t] = "connect"
    <3>1. Goto(t, "opening") /\ pc[t] \in Following /\ "opening" \in Following /\ "opening" \in Pcs
      BY <1>3, <2>2 DEF Connect, Following, Pcs
    <3> QED BY <1>1, <1>2, <2>1, <3>1, SilentMoves
  <2>3. CASE pc[t] = "settle-connect"
    <3>1. /\ Goto(t, "settle-opening") /\ pc[t] \in Settling /\ "settle-opening" \in Settling \ {"settle"}
          /\ "settle-opening" \in Pcs
      BY <1>3, <2>3 DEF Connect, Settling, Pcs
    <3> QED BY <1>1, <1>2, <2>1, <3>1, SilentMoves
  <2> QED BY <1>3, <2>2, <2>3 DEF Connect
<1>4. CASE Opened(t) \/ NotYet(t) \/ StreamBreaks(t)
  <2>1. CASE pc[t] \in {"opening", "stream"}
    <3>1. PICK state \in {"stream", "connect"} : Goto(t, state)
      BY <1>4, <2>1 DEF Opened, NotYet, StreamBreaks, Opening
    <3>2. /\ pc[t] \in Following /\ state \in Following /\ state \in Pcs
          /\ state \notin {"opening", "settle-opening"}
      BY <2>1 DEF Following, Pcs
    <3> QED BY <1>1, <1>2, <3>1, <3>2, SilentMoves
  <2>2. CASE pc[t] \in {"settle-opening", "settle-stream"}
    <3>1. PICK state \in {"settle-stream", "settle-connect"} : Goto(t, state)
      BY <1>4, <2>2 DEF Opened, NotYet, StreamBreaks, Opening
    <3>2. /\ pc[t] \in Settling /\ state \in Settling \ {"settle"} /\ state \in Pcs
          /\ state \notin {"opening", "settle-opening"}
      BY <2>2 DEF Settling, Pcs
    <3> QED BY <1>1, <1>2, <3>1, <3>2, SilentMoves
  <2> QED BY <1>4, <2>1, <2>2 DEF Opened, NotYet, StreamBreaks, Opening
<1> QED BY <1>3, <1>4

\* The lines and the counter of a transaction that follows an accepted order.
LEMMA FollowingShape ==
  ASSUME TransactionsAssumption, TransactionsInv, NEW t \in Transactions, pc[t] \in Following
  PROVE  /\ pc[t] \notin {"waiting", "killed", "done"} /\ pc[t] \notin Settling
         /\ Len(business[t]) = 1 /\ business[t][1].name = "acceptance" /\ business[t] \in Seq(Records)
         /\ t \in accepted /\ t \in Owed /\ outstanding \in Nat /\ outstanding > 0
         /\ order[t] \in OrderStates /\ order = [order EXCEPT ![t] = order[t]]
<1>1. pc[t] \notin {"waiting", "killed", "done"} /\ pc[t] \notin Settling
  BY DEF Following, Settling
<1>2. /\ Shape(pc[t], business[t], t \in accepted) /\ (t \in Owed <=> t \in accepted /\ pc[t] \in Following)
      /\ order[t] \in OrderStates /\ order = [order EXCEPT ![t] = order[t]] /\ outstanding \in Nat
      /\ business[t] \in Seq(Records)
  BY <1>1, UnderWay
<1>3. Len(business[t]) = 1 /\ business[t][1].name = "acceptance" /\ t \in accepted
  BY <1>2 DEF Shape
<1>4. t \in Owed
  BY <1>2, <1>3
<1>5. outstanding = Cardinality(Owed) /\ Owed \in SUBSET Transactions /\ TransactionsTypeOK
  BY TransactionTypes DEF TransactionsInv, Owed
<1>6. IsFiniteSet(Owed)
  BY <1>5, TransactionSetsFinite
<1>7. Cardinality(Owed) # 0
  BY <1>4, <1>6, FS_EmptySet
<1> QED BY <1>1, <1>2, <1>3, <1>4, <1>5, <1>7

\* Two lines that end a transaction whose order was followed.
LEMMA FollowingEnds ==
  ASSUME TransactionsAssumption, TransactionsInv, NEW t \in Transactions, pc[t] \in Following,
         NEW y \in Records, NEW z \in Records, y.name = "outcome", y.label # "UNKNOWN", z.name = "settled",
         y.label = "COMPLETED" => order[t].status = "COMPLETED", z.label = "SETTLED" => IsSettled(order[t]),
         Record(t, <<y, z>>), Terminal(t, y.label), Goto(t, "done"), UNCHANGED <<order, accepted, control, breaks>>
  PROVE  TransactionsInv'
<1>1. /\ pc[t] \notin {"waiting", "killed", "done"} /\ Len(business[t]) = 1 /\ business[t][1].name = "acceptance"
      /\ business[t] \in Seq(Records) /\ outstanding > 0 /\ order[t] \in OrderStates
      /\ order = [order EXCEPT ![t] = order[t]]
  BY FollowingShape
<1> DEFINE new == <<y, z>>
<1>2. /\ new \in Seq(Records) /\ Len(new) = 2 /\ new[1] = y /\ new[2] = z
      /\ Len(business[t] \o new) = 3 /\ (business[t] \o new)[1] = business[t][1]
      /\ (business[t] \o new)[2] = y /\ (business[t] \o new)[3] = z
  BY <1>1, AppendedTwo
<1>3. Record(t, new)
  OBVIOUS
<1> HIDE DEF new
<1>4. Shape("done", business[t] \o new, t \in accepted')
  BY <1>1, <1>2 DEF Shape, Preparing, Following, Settling
<1>5. \A i \in 1..Len(new) :
          /\ new[i].name = "outcome" /\ new[i].label = "COMPLETED" => order[t].status = "COMPLETED"
          /\ new[i].name = "settled" /\ new[i].label = "SETTLED" => IsSettled(order[t])
  BY <1>2
<1>6. outstanding' = IF pc[t] \in Following THEN outstanding - 1 ELSE outstanding
  BY <1>1 DEF Terminal
<1> QED BY SMTT(30), <1>1, <1>2, <1>3, <1>4, <1>5, <1>6, TransactionEnds

LEMMA FailSteps ==
  ASSUME TransactionsAssumption, TransactionsInv, NEW t \in Transactions,
         OpenFails(t) \/ BadEvent(t) \/ OutcomeDeadline(t)
  PROVE  TransactionsInv'
<1>1. pc[t] \in Following /\ UNCHANGED <<order, breaks>>
  BY DEF OpenFails, BadEvent, OutcomeDeadline, Following
<1>2. PICK label \in {"ERROR", "TIMEOUT", "INCOMPLETE"} : Fail(t, label)
  BY DEF OpenFails, BadEvent, OutcomeDeadline
<1> DEFINE y == Line("outcome", label, FALSE)
           z == Line("settled", "ORDER_NOT_COMPLETED", FALSE)
<1>3. /\ y \in Records /\ y.name = "outcome" /\ y.label = label
      /\ z \in Records /\ z.name = "settled" /\ z.label = "ORDER_NOT_COMPLETED"
  BY DEF Line, Records, RecordLabels
<1>4. /\ Record(t, <<y, z>>) /\ Terminal(t, label) /\ Goto(t, "done") /\ UNCHANGED <<accepted, control>>
  BY <1>2 DEF Fail
<1> HIDE DEF y, z
<1>5. y.label # "UNKNOWN" /\ y.label # "COMPLETED" /\ z.label # "SETTLED" /\ Terminal(t, y.label)
  BY <1>3, <1>4
<1> QED BY <1>1, <1>3, <1>4, <1>5, FollowingEnds

\* One line that leaves a settlement to follow.
LEMMA FollowingSettles ==
  ASSUME TransactionsAssumption, TransactionsInv, NEW t \in Transactions, pc[t] \in Following,
         NEW x \in Records, x.name = "outcome", x.label = "COMPLETED", order[t].status = "COMPLETED",
         NEW state \in {"settle", "settle-stream"}, state = "settle" => IsSettled(order[t]),
         Record(t, <<x>>), Terminal(t, x.label), Goto(t, state), UNCHANGED <<order, accepted, control, breaks>>
  PROVE  TransactionsInv'
<1>1. /\ pc[t] \notin {"waiting", "killed", "done"} /\ pc[t] \notin Settling
      /\ Len(business[t]) = 1 /\ business[t][1].name = "acceptance" /\ business[t] \in Seq(Records)
      /\ t \in Owed /\ outstanding > 0 /\ order[t] \in OrderStates /\ order = [order EXCEPT ![t] = order[t]]
  BY FollowingShape
<1> DEFINE new == <<x>>
<1>2. /\ new \in Seq(Records) /\ Len(new) = 1 /\ new[1] = x /\ Record(t, new)
      /\ Len(business[t] \o new) = 2 /\ (business[t] \o new)[1] = business[t][1] /\ (business[t] \o new)[2] = x
  BY <1>1, AppendedOne
<1> HIDE DEF new
<1>3. /\ state \in Pcs \ {"waiting", "opening", "settle-opening"} /\ state \notin Following \cup {"killed"}
      /\ state \in Settling
  BY DEF Pcs, Following, Settling
<1>4. Shape(state, business[t] \o new, t \in accepted')
  BY <1>1, <1>2 DEF Shape, Preparing, Following
<1>5. \A i \in 1..Len(new) :
          /\ new[i].name = "outcome" /\ new[i].label = "COMPLETED" => order[t].status = "COMPLETED"
          /\ new[i].name = "settled" /\ new[i].label = "SETTLED" => IsSettled(order[t])
  BY <1>2
<1>6. outstanding' = IF t \in Owed /\ state \notin Following \cup {"killed"} THEN outstanding - 1
                     ELSE IF t \notin Owed /\ t \in accepted' /\ state \in Following \cup {"killed"}
                     THEN outstanding + 1 ELSE outstanding
  BY <1>1, <1>3 DEF Terminal
<1>7. PICK o \in OrderStates : o = order[t]
  BY <1>1
<1>8. /\ order' = [order EXCEPT ![t] = o] /\ accepted' = accepted /\ UNCHANGED <<control, breaks>>
      /\ (order[t].status = "COMPLETED" => o.status = "COMPLETED") /\ (IsSettled(order[t]) => IsSettled(o))
      /\ state = "settle" => IsSettled(o)
  BY <1>1, <1>7
<1>9. \A i \in 1..Len(new) :
          /\ new[i].name = "outcome" /\ new[i].label = "COMPLETED" => o.status = "COMPLETED"
          /\ new[i].name = "settled" /\ new[i].label = "SETTLED" => IsSettled(o)
  BY <1>5, <1>7
<1>10. /\ \/ Len(business[t]) = 0
          \/ (order[t].status = "COMPLETED" => o.status = "COMPLETED") /\ (IsSettled(order[t]) => IsSettled(o))
       /\ accepted' = accepted \/ accepted' = accepted \cup {t}
       /\ state \in {"killed", "done"} \/ pc[t] \notin Settling
       /\ pc[t] \notin {"waiting", "killed", "done"}
  BY <1>1, <1>8
<1>11. new \in Seq(Records) /\ Record(t, new)
  BY <1>2
<1> QED BY <1>3, <1>4, <1>6, <1>8, <1>9, <1>10, <1>11, RecordMoves, ZenonT(40)

LEMMA OrderEventStep ==
  ASSUME TransactionsAssumption, TransactionsInv, NEW t \in Transactions, OrderEvent(t)
  PROVE  TransactionsInv'
<1>1. pc[t] \in Following /\ UNCHANGED <<order, accepted, control, breaks>>
  BY DEF OrderEvent, Following
<1>2. PICK seen \in Snapshots(t) :
          /\ IsTerminal(seen.status)
          /\ Terminal(t, seen.status)
          /\ IF seen.status # "COMPLETED"
             THEN /\ Record(t, <<Line("outcome", seen.status, FALSE),
                                 Line("settled", "ORDER_NOT_COMPLETED", FALSE)>>)
                  /\ Goto(t, "done")
             ELSE IF Inline /\ IsSettled(seen)
             THEN /\ Record(t, <<Line("outcome", "COMPLETED", TRUE),
                                 Line("settled", "SETTLED", TRUE)>>)
                  /\ Goto(t, "done")
             ELSE /\ Record(t, <<Line("outcome", "COMPLETED", TRUE)>>)
                  /\ Goto(t, IF IsSettled(seen) THEN "settle" ELSE "settle-stream")
  BY DEF OrderEvent
<1>3. /\ seen.status \in {"COMPLETED", "CANCELLED"}
      /\ seen.status = "COMPLETED" => order[t].status = "COMPLETED"
      /\ IsSettled(seen) => IsSettled(order[t])
  BY <1>2 DEF Snapshots, IsTerminal, IsSettled
<1>4. CASE seen.status # "COMPLETED"
  <2> DEFINE y == Line("outcome", seen.status, FALSE)
             z == Line("settled", "ORDER_NOT_COMPLETED", FALSE)
  <2>1. /\ y \in Records /\ y.name = "outcome" /\ y.label = seen.status
        /\ z \in Records /\ z.name = "settled" /\ z.label = "ORDER_NOT_COMPLETED"
    BY <1>3 DEF Line, Records, RecordLabels
  <2>2. /\ Record(t, <<y, z>>) /\ Terminal(t, seen.status) /\ Goto(t, "done")
    BY <1>2, <1>4
  <2> HIDE DEF y, z
  <2>3. y.label # "UNKNOWN" /\ y.label # "COMPLETED" /\ z.label # "SETTLED" /\ Terminal(t, y.label)
    BY <1>3, <1>4, <2>1, <2>2
  <2> QED BY <1>1, <2>1, <2>2, <2>3, FollowingEnds
<1>5. CASE seen.status = "COMPLETED" /\ Inline /\ IsSettled(seen)
  <2> DEFINE y == Line("outcome", "COMPLETED", TRUE)
             z == Line("settled", "SETTLED", TRUE)
  <2>1. /\ y \in Records /\ y.name = "outcome" /\ y.label = "COMPLETED"
        /\ z \in Records /\ z.name = "settled" /\ z.label = "SETTLED"
    BY DEF Line, Records, RecordLabels
  <2>2. /\ Record(t, <<y, z>>) /\ Terminal(t, "COMPLETED") /\ Goto(t, "done")
    BY <1>2, <1>5
  <2> HIDE DEF y, z
  <2>3. y.label # "UNKNOWN" /\ order[t].status = "COMPLETED" /\ IsSettled(order[t]) /\ Terminal(t, y.label)
    BY <1>3, <1>5, <2>1, <2>2
  <2> QED BY <1>1, <2>1, <2>2, <2>3, FollowingEnds
<1>6. CASE seen.status = "COMPLETED" /\ ~(Inline /\ IsSettled(seen))
  <2> DEFINE x == Line("outcome", "COMPLETED", TRUE)
  <2>1. x \in Records /\ x.name = "outcome" /\ x.label = "COMPLETED"
    BY DEF Line, Records, RecordLabels
  <2>2. Record(t, <<x>>) /\ Terminal(t, x.label) /\ order[t].status = "COMPLETED"
    BY <1>2, <1>3, <1>6, <2>1
  <2>3. PICK state \in {"settle", "settle-stream"} : Goto(t, state) /\ (state = "settle" => IsSettled(order[t]))
    BY <1>2, <1>3, <1>6
  <2> HIDE DEF x
  <2> QED BY <1>1, <2>1, <2>2, <2>3, FollowingSettles
<1> QED BY <1>4, <1>5, <1>6

\* One line that ends a settlement.
LEMMA SettlingEnds ==
  ASSUME TransactionsAssumption, TransactionsInv, NEW t \in Transactions, pc[t] \in Settling,
         NEW z \in Records, z.name = "settled", z.label = "SETTLED" => IsSettled(order[t]),
         Record(t, <<z>>), Goto(t, "done"), UNCHANGED <<order, accepted, outstanding, control, breaks>>
  PROVE  TransactionsInv'
<1>1. pc[t] \notin {"waiting", "killed", "done"} /\ pc[t] \notin Following
  BY DEF Following, Settling
<1>2. /\ order[t] \in OrderStates /\ order = [order EXCEPT ![t] = order[t]] /\ business[t] \in Seq(Records)
      /\ Shape(pc[t], business[t], t \in accepted)
  BY <1>1, UnderWay
<1>3. /\ Len(business[t]) = 2 /\ business[t][1].name = "acceptance" /\ business[t][2].name = "outcome"
      /\ business[t][2].label = "COMPLETED"
  BY <1>2 DEF Shape
<1> DEFINE new == <<z>>
<1>4. /\ new \in Seq(Records) /\ Len(new) = 1 /\ new[1] = z /\ Record(t, new)
      /\ Len(business[t] \o new) = 3 /\ (business[t] \o new)[1] = business[t][1]
      /\ (business[t] \o new)[2] = business[t][2] /\ (business[t] \o new)[3] = z
  BY <1>2, <1>3, AppendedOne
<1> HIDE DEF new
<1>5. Shape("done", business[t] \o new, t \in accepted')
  BY <1>3, <1>4 DEF Shape, Preparing, Following, Settling
<1>6. \A i \in 1..Len(new) :
          /\ new[i].name = "outcome" /\ new[i].label = "COMPLETED" => order[t].status = "COMPLETED"
          /\ new[i].name = "settled" /\ new[i].label = "SETTLED" => IsSettled(order[t])
  BY <1>4
<1>7. outstanding' = IF pc[t] \in Following THEN outstanding - 1 ELSE outstanding
  BY <1>1
<1> QED BY <1>1, <1>2, <1>4, <1>5, <1>6, <1>7, TransactionEnds

LEMMA SettlementSteps ==
  ASSUME TransactionsAssumption, TransactionsInv, NEW t \in Transactions, SettlementEvent(t) \/ SettlementFails(t)
  PROVE  TransactionsInv'
<1>1. /\ pc[t] \in Settling /\ Goto(t, "done") /\ UNCHANGED <<order, accepted, outstanding, control, breaks>>
  BY DEF SettlementEvent, SettlementFails, Settling
<1>2. CASE SettlementEvent(t)
  <2> DEFINE z == Line("settled", "SETTLED", TRUE)
  <2>1. z \in Records /\ z.name = "settled"
    BY DEF Line, Records, RecordLabels
  <2>2. Record(t, <<z>>)
    BY <1>2 DEF SettlementEvent
  <2> HIDE DEF z
  <2>3. IsSettled(order[t])
    <3>1. CASE pc[t] = "settle"
      BY <3>1 DEF TransactionsInv, Truthful
    <3>2. CASE \E seen \in Snapshots(t) : IsSettled(seen)
      BY <3>2 DEF Snapshots, IsSettled
    <3> QED BY <1>2, <3>1, <3>2 DEF SettlementEvent
  <2> QED BY <1>1, <2>1, <2>2, <2>3, SettlingEnds
<1>3. CASE SettlementFails(t)
  <2>1. PICK label \in {"ERROR", "SETTLEMENT_TIMEOUT", "INCOMPLETE"} : Record(t, <<Line("settled", label, FALSE)>>)
    BY <1>3 DEF SettlementFails
  <2> DEFINE z == Line("settled", label, FALSE)
  <2>2. z \in Records /\ z.name = "settled" /\ z.label # "SETTLED"
    BY DEF Line, Records, RecordLabels
  <2>3. Record(t, <<z>>)
    BY <2>1
  <2> HIDE DEF z
  <2> QED BY <1>1, <2>2, <2>3, SettlingEnds
<1> QED BY <1>2, <1>3

\* The lines of a transaction that is killed while it is prepared or followed.
LEMMA KilledMoves ==
  ASSUME TransactionsAssumption, TransactionsInv, NEW t \in Transactions, pc[t] \in Preparing \cup Following,
         NEW new \in Seq(Records), Record(t, new), Goto(t, "killed"),
         \A i \in 1..Len(new) : new[i].label = "UNKNOWN",
         Shape("killed", business[t] \o new, t \in accepted),
         UNCHANGED <<order, accepted, outstanding, control, breaks>>
  PROVE  TransactionsInv'
<1>1. pc[t] \notin {"waiting", "killed", "done"} /\ pc[t] \notin Settling
  BY DEF Preparing, Following, Settling
<1>2. /\ order[t] \in OrderStates /\ order = [order EXCEPT ![t] = order[t]]
      /\ Shape(pc[t], business[t], t \in accepted) /\ (t \in Owed <=> t \in accepted /\ pc[t] \in Following)
  BY <1>1, UnderWay
<1>3. t \in Owed <=> t \in accepted
  BY <1>2 DEF Shape
<1>4. "killed" \in Pcs \ {"waiting", "opening", "settle-opening"} /\ "killed" \in Following \cup {"killed"}
      /\ "killed" # "settle"
  BY DEF Pcs
<1>5. outstanding' = IF t \in Owed /\ "killed" \notin Following \cup {"killed"} THEN outstanding - 1
                     ELSE IF t \notin Owed /\ t \in accepted' /\ "killed" \in Following \cup {"killed"}
                     THEN outstanding + 1 ELSE outstanding
  BY <1>3, <1>4
<1>6. PICK o \in OrderStates : o = order[t]
  BY <1>2
<1>7. /\ order' = [order EXCEPT ![t] = o] /\ accepted' = accepted /\ UNCHANGED <<control, breaks>>
      /\ (order[t].status = "COMPLETED" => o.status = "COMPLETED") /\ (IsSettled(order[t]) => IsSettled(o))
  BY <1>2, <1>6
<1>8. \A i \in 1..Len(new) :
          /\ new[i].name = "outcome" /\ new[i].label = "COMPLETED" => o.status = "COMPLETED"
          /\ new[i].name = "settled" /\ new[i].label = "SETTLED" => IsSettled(o)
  OBVIOUS
<1>9. Shape("killed", business[t] \o new, t \in accepted')
  BY <1>7
<1> QED BY ZenonT(30), <1>1, <1>4, <1>5, <1>7, <1>8, <1>9, RecordMoves

LEMMA SettlingKilled ==
  ASSUME TransactionsAssumption, TransactionsInv, NEW t \in Transactions, pc[t] \in Settling,
         Record(t, LastWords(t)), Goto(t, "done"), UNCHANGED <<order, accepted, outstanding, control, breaks>>
  PROVE  TransactionsInv'
<1> DEFINE z == Line("settled", "INCOMPLETE", FALSE)
<1>1. z \in Records /\ z.name = "settled" /\ z.label # "SETTLED"
  BY DEF Line, Records, RecordLabels
<1>2. LastWords(t) = <<z>>
  BY DEF LastWords, Settling, Following
<1> HIDE DEF z
<1> QED BY <1>1, <1>2, SettlingEnds

LEMMA KillStep ==
  ASSUME TransactionsAssumption, TransactionsInv, NEW t \in Transactions, Kill(t)
  PROVE  TransactionsInv'
<1>1. /\ Record(t, LastWords(t)) /\ Goto(t, IF pc[t] \in Settling THEN "done" ELSE "killed")
      /\ UNCHANGED <<order, accepted, outstanding, control, breaks>> /\ pc[t] \notin {"waiting", "killed", "done"}
  BY DEF Kill, InFlight, Active
<1>2. /\ pc[t] \in Pcs /\ business[t] \in Seq(Records) /\ Shape(pc[t], business[t], t \in accepted)
  BY <1>1, UnderWay, TransactionTypes DEF TransactionsInv
<1>3. CASE pc[t] \in Settling
  BY <1>1, <1>3, SettlingKilled
<1>4. CASE pc[t] \in {"product", "cart", "poll"}
  <2>1. pc[t] \in Preparing /\ pc[t] \notin Settling
    BY <1>4 DEF Preparing, Settling
  <2>2. LastWords(t) = << >>
    BY <1>4 DEF LastWords, Settling, Following
  <2> DEFINE new == LastWords(t)
  <2>3. new \in Seq(Records) /\ Len(new) = 0
    BY <2>2
  <2> HIDE DEF new
  <2>4. Len(business[t]) = 0 /\ t \notin accepted
    BY <1>2, <2>1 DEF Shape
  <2>5. Len(business[t] \o new) = 0
    BY <1>2, <2>3, <2>4, LinesAppended
  <2>6. Shape("killed", business[t] \o new, t \in accepted)
    BY <2>4, <2>5 DEF Shape, Preparing, Following, Settling
  <2>7. Record(t, new) /\ Goto(t, "killed") /\ \A i \in 1..Len(new) : new[i].label = "UNKNOWN"
    BY <1>1, <2>1, <2>3 DEF new
  <2> QED BY <1>1, <2>1, <2>3, <2>6, <2>7, KilledMoves
<1>5. CASE pc[t] = "submit" /\ Application = "NATS"
  <2>1. pc[t] \in Preparing /\ pc[t] \notin Settling
    BY <1>5 DEF Preparing, Settling
  <2> DEFINE x == Line("acceptance", "UNKNOWN", TRUE)
             y == Line("outcome", "UNKNOWN", TRUE)
             new == <<x, y>>
  <2>2. /\ x \in Records /\ x.name = "acceptance" /\ x.label = "UNKNOWN"
        /\ y \in Records /\ y.name = "outcome" /\ y.label = "UNKNOWN"
    BY DEF Line, Records, RecordLabels
  <2>3. LastWords(t) = new
    BY <1>5 DEF LastWords, Settling, Following
  <2> HIDE DEF x, y
  <2>4. Len(business[t]) = 0
    BY <1>2, <2>1 DEF Shape
  <2>5. /\ new \in Seq(Records) /\ Len(new) = 2 /\ new[1] = x /\ new[2] = y
        /\ Len(business[t] \o new) = 2 /\ (business[t] \o new)[1] = x /\ (business[t] \o new)[2] = y
    BY <1>2, <2>2, <2>4, AppendedTwo
  <2> HIDE DEF new
  <2>6. Shape("killed", business[t] \o new, t \in accepted)
    BY <2>2, <2>5 DEF Shape, Preparing, Following, Settling
  <2>7. Record(t, new) /\ Goto(t, "killed") /\ \A i \in 1..Len(new) : new[i].label = "UNKNOWN"
    BY <1>1, <2>1, <2>2, <2>3, <2>5
  <2> QED BY <1>1, <2>1, <2>5, <2>6, <2>7, KilledMoves
<1>6. CASE pc[t] \in Following
  <2>1. pc[t] \notin Settling
    BY <1>6 DEF Following, Settling
  <2> DEFINE y == Line("outcome", "UNKNOWN", TRUE)
             new == <<y>>
  <2>2. y \in Records /\ y.name = "outcome" /\ y.label = "UNKNOWN"
    BY DEF Line, Records, RecordLabels
  <2>3. LastWords(t) = new
    BY <1>6 DEF LastWords, Settling, Following
  <2> HIDE DEF y
  <2>4. Len(business[t]) = 1 /\ business[t][1].name = "acceptance"
    BY <1>2, <1>6 DEF Shape
  <2>5. /\ new \in Seq(Records) /\ Len(new) = 1 /\ new[1] = y
        /\ Len(business[t] \o new) = 2 /\ (business[t] \o new)[1] = business[t][1] /\ (business[t] \o new)[2] = y
    BY <1>2, <2>2, <2>4, AppendedOne
  <2> HIDE DEF new
  <2>6. Shape("killed", business[t] \o new, t \in accepted)
    BY <2>2, <2>4, <2>5 DEF Shape, Preparing, Following, Settling
  <2>7. Record(t, new) /\ Goto(t, "killed") /\ \A i \in 1..Len(new) : new[i].label = "UNKNOWN"
    BY <1>1, <2>1, <2>2, <2>3, <2>5
  <2> QED BY <1>1, <1>6, <2>5, <2>6, <2>7, KilledMoves
<1>7. CASE pc[t] = "submit" /\ Application = "GRPC"
  <2>1. pc[t] \in Preparing /\ pc[t] \notin Settling
    BY <1>7 DEF Preparing, Settling
  <2> DEFINE y == Line("outcome", "UNKNOWN", TRUE)
             new == <<y>>
  <2>2. y \in Records /\ y.name = "outcome" /\ y.label = "UNKNOWN"
    BY DEF Line, Records, RecordLabels
  <2>3. LastWords(t) = new
    BY <1>7 DEF LastWords, Settling, Following
  <2> HIDE DEF y
  <2>4. Len(business[t]) = 0 /\ t \notin accepted
    BY <1>2, <2>1 DEF Shape
  <2>5. /\ new \in Seq(Records) /\ Len(new) = 1 /\ new[1] = y
        /\ Len(business[t] \o new) = 1 /\ (business[t] \o new)[1] = y
    BY <1>2, <2>2, <2>4, AppendedOne
  <2> HIDE DEF new
  <2>6. Shape("killed", business[t] \o new, t \in accepted)
    BY <2>2, <2>4, <2>5 DEF Shape, Preparing, Following, Settling
  <2>7. Record(t, new) /\ Goto(t, "killed") /\ \A i \in 1..Len(new) : new[i].label = "UNKNOWN"
    BY <1>1, <2>1, <2>2, <2>3, <2>5
  <2> QED BY <1>1, <2>1, <2>5, <2>6, <2>7, KilledMoves
<1> QED BY <1>1, <1>2, <1>3, <1>4, <1>5, <1>6, <1>7 DEF Pcs, Preparing, TransactionsAssumption

LEMMA KillTrackerStep ==
  ASSUME TransactionsAssumption, TransactionsInv, NEW t \in Transactions, KillTracker(t)
  PROVE  TransactionsInv'
<1>1. /\ Record(t, LastWords(t)) /\ Goto(t, "done") /\ t \in Active /\ driver = "stopped"
      /\ UNCHANGED <<order, accepted, outstanding, control, breaks>>
  BY DEF KillTracker
<1>2. pc[t] \in Settling
  BY <1>1 DEF TransactionsInv, InFlight
<1> QED BY <1>1, <1>2, SettlingKilled

\* A transaction that has not begun.
LEMMA WaitingShape ==
  ASSUME TransactionsAssumption, TransactionsInv, NEW t \in Transactions, pc[t] = "waiting"
  PROVE  /\ Len(business[t]) = 0 /\ t \notin accepted /\ t \notin Owed /\ business[t] \in Seq(Records)
         /\ business = [business EXCEPT ![t] = business[t]]
         /\ order[t] \in OrderStates /\ order = [order EXCEPT ![t] = order[t]]
         /\ Truthful("waiting", business[t], order[t])
         /\ index \in 1..(Count + 1) /\ Count \in Nat /\ breaks \in 0..MaxBreaks
<1>1. /\ TransactionsTypeOK /\ Shape(pc[t], business[t], t \in accepted) /\ Truthful(pc[t], business[t], order[t])
  BY DEF TransactionsInv
<1>2. Len(business[t]) = 0 /\ t \notin accepted
  BY <1>1 DEF Shape
<1>3. business \in [Transactions -> Seq(Records)] /\ order \in [Transactions -> OrderStates] /\ Count \in Nat
  BY <1>1, TransactionTypes
<1>4. t \notin Owed
  BY <1>2 DEF Owed
<1>5. index \in 1..(Count + 1) /\ breaks \in 0..MaxBreaks
  BY <1>1 DEF TransactionsTypeOK
<1>6. /\ business[t] \in Seq(Records) /\ business = [business EXCEPT ![t] = business[t]]
      /\ order[t] \in OrderStates /\ order = [order EXCEPT ![t] = order[t]]
  BY <1>3
<1> QED BY <1>1, <1>2, <1>3, <1>4, <1>5, <1>6

LEMMA UserCheckoutStep ==
  ASSUME TransactionsAssumption, TransactionsInv, NEW t \in Transactions, UserCheckout(t)
  PROVE  TransactionsInv'
<1>1. /\ ~Inline /\ driver = "schedule" /\ pc[t] = "waiting" /\ pc' = [pc EXCEPT ![t] = "product"]
      /\ UNCHANGED <<order, business, accepted, outstanding, index, driver, drained, breaks>>
  BY DEF UserCheckout, Goto, logs, control
<1>2. /\ Len(business[t]) = 0 /\ t \notin accepted /\ t \notin Owed /\ business[t] \in Seq(Records)
      /\ business = [business EXCEPT ![t] = business[t]]
      /\ order[t] \in OrderStates /\ order = [order EXCEPT ![t] = order[t]]
      /\ Truthful("waiting", business[t], order[t])
      /\ index \in 1..(Count + 1) /\ breaks \in 0..MaxBreaks
  BY <1>1, WaitingShape
<1>3. Shape("product", business[t], t \in accepted') /\ Truthful("product", business[t], order[t])
  BY <1>1, <1>2 DEF Shape, Truthful, Preparing, Following, Settling
<1>4. "product" \in Pcs /\ "product" \notin Following \cup {"killed"} /\ "product" \notin Settling
  BY DEF Pcs, Preparing, Following, Settling
<1>5. outstanding' = IF t \in Owed /\ "product" \notin Following \cup {"killed"} THEN outstanding - 1
                     ELSE IF t \notin Owed /\ t \in accepted' /\ "product" \in Following \cup {"killed"}
                     THEN outstanding + 1 ELSE outstanding
  BY <1>1, <1>2, <1>4
<1> QED BY <1>1, <1>2, <1>3, <1>4, <1>5, TransactionMoves

LEMMA ScheduleStep ==
  ASSUME TransactionsAssumption, TransactionsInv, Schedule
  PROVE  TransactionsInv'
<1>1. /\ Inline /\ driver = "schedule" /\ index <= Count /\ index' = index + 1
      /\ UNCHANGED <<order, accepted, outstanding, driver, drained, breaks>>
  BY DEF Schedule
<1>2. index \in 1..(Count + 1) /\ Count \in Nat
  BY TransactionTypes DEF TransactionsInv, TransactionsTypeOK
<1>3. index \in Transactions /\ index' \in 1..(Count + 1) /\ pc[index] = "waiting"
      /\ \A u \in Transactions : u >= index' => u >= index /\ u # index
  <2>1. index \in Transactions /\ index' \in 1..(Count + 1)
    BY <1>1, <1>2 DEF Transactions
  <2>2. \A u \in Transactions : u >= index' => u >= index /\ u # index
    BY <1>1, <1>2 DEF Transactions
  <2>3. pc[index] = "waiting"
    BY <1>1, <1>2, <2>1 DEF TransactionsInv
  <2> QED BY <2>1, <2>2, <2>3
<1> DEFINE t == index
<1>4. t \in Transactions /\ pc[t] = "waiting" /\ \A u \in Transactions : u >= index' => u >= index /\ u # t
  BY <1>3
<1>5. \/ /\ Saturated /\ Record(t, <<Line("outcome", "GENERATOR_SATURATED", FALSE)>>)
         /\ pc' = [pc EXCEPT ![t] = "done"]
      \/ /\ ~Saturated /\ pc' = [pc EXCEPT ![t] = "product"] /\ UNCHANGED business
  BY DEF Schedule, Goto
<1> HIDE DEF t
<1>6. /\ Len(business[t]) = 0 /\ t \notin accepted /\ t \notin Owed /\ business[t] \in Seq(Records)
      /\ business = [business EXCEPT ![t] = business[t]]
      /\ order[t] \in OrderStates /\ order = [order EXCEPT ![t] = order[t]]
      /\ Truthful("waiting", business[t], order[t]) /\ breaks \in 0..MaxBreaks
  BY <1>4, WaitingShape
<1>7. PICK o \in OrderStates : o = order[t]
  BY <1>6
<1>8. order' = [order EXCEPT ![t] = o]
  BY <1>1, <1>6, <1>7
<1>9. CASE ~Saturated /\ pc' = [pc EXCEPT ![t] = "product"] /\ UNCHANGED business
  <2>1. Cardinality(InFlight) < Concurrency
    <3>1. InFlight \in SUBSET Transactions /\ TransactionsTypeOK
      BY DEF InFlight, Active, TransactionsInv
    <3>2. Cardinality(InFlight) \in Nat /\ Concurrency \in Nat
      BY <3>1, TransactionSetsFinite, TransactionTypes
    <3> QED BY <1>9, <3>2 DEF Saturated
  <2>2. Shape("product", business[t], t \in accepted') /\ Truthful("product", business[t], o)
    BY <1>1, <1>6, <1>7 DEF Shape, Truthful, Preparing, Following, Settling
  <2>3. "product" \in Pcs /\ "product" \notin Following \cup {"killed"} /\ "product" \notin Settling
    BY DEF Pcs, Preparing, Following, Settling
  <2>4. outstanding' = IF t \in Owed /\ "product" \notin Following \cup {"killed"} THEN outstanding - 1
                       ELSE IF t \notin Owed /\ t \in accepted' /\ "product" \in Following \cup {"killed"}
                       THEN outstanding + 1 ELSE outstanding
    BY <1>1, <1>6, <2>3
  <2>5. business' = [business EXCEPT ![t] = business[t]]
    BY <1>6, <1>9
  <2> QED BY <1>1, <1>3, <1>4, <1>6, <1>8, <1>9, <2>1, <2>2, <2>3, <2>4, <2>5, TransactionMoves
<1>10. CASE /\ Record(t, <<Line("outcome", "GENERATOR_SATURATED", FALSE)>>)
            /\ pc' = [pc EXCEPT ![t] = "done"]
  <2> DEFINE x == Line("outcome", "GENERATOR_SATURATED", FALSE)
             lines == business[t] \o <<x>>
  <2>1. x \in Records /\ x.name = "outcome" /\ x.label = "GENERATOR_SATURATED"
    BY DEF Line, Records, RecordLabels
  <2>2. business' = [business EXCEPT ![t] = lines]
    BY <1>1, <1>10 DEF Record
  <2> HIDE DEF x
  <2>3. <<x>> \in Seq(Records) /\ Len(lines) = 1 /\ lines[1] = x
    BY <1>6, <2>1, AppendedOne
  <2>4. lines \in Seq(Records)
    BY <1>6, <2>3, LinesAppended
  <2> HIDE DEF lines
  <2>5. Shape("done", lines, t \in accepted') /\ Truthful("done", lines, o)
    BY <1>1, <1>6, <2>1, <2>3 DEF Shape, Truthful, Preparing, Following, Settling
  <2>6. "done" \in Pcs /\ "done" \notin Following \cup {"killed"}
    BY DEF Pcs, Following
  <2>7. outstanding' = IF t \in Owed /\ "done" \notin Following \cup {"killed"} THEN outstanding - 1
                       ELSE IF t \notin Owed /\ t \in accepted' /\ "done" \in Following \cup {"killed"}
                       THEN outstanding + 1 ELSE outstanding
    BY <1>1, <1>6, <2>6
  <2> QED BY <1>1, <1>3, <1>4, <1>6, <1>8, <1>10, <2>2, <2>4, <2>5, <2>6, <2>7, TransactionMoves
<1> QED BY <1>5, <1>9, <1>10

LEMMA DriverMoves ==
  ASSUME TransactionsAssumption, TransactionsInv,
         SubmissionEnds \/ DrainPasses \/ JoinReturns \/ DriverStops \/ TestStops
  PROVE  TransactionsInv'
<1>1. /\ UNCHANGED <<pc, order, business, accepted, outstanding, index, breaks>>
      /\ driver' \in {"schedule", "join", "kill", "stopped", "closed"} /\ drained' \in BOOLEAN
  BY DEF SubmissionEnds, DrainPasses, JoinReturns, DriverStops, TestStops, logs, TransactionsInv, TransactionsTypeOK
<1>2. /\ Active' = Active /\ InFlight' = InFlight /\ Opening' = Opening /\ Owed' = Owed
  BY <1>1 DEF Active, InFlight, Opening, Owed
<1>3. driver' \in {"stopped", "closed"} => InFlight = {}
  BY DEF SubmissionEnds, DrainPasses, JoinReturns, DriverStops, TestStops, TransactionsInv
<1>4. driver' = "closed" => Active = {}
  BY DEF SubmissionEnds, DrainPasses, JoinReturns, DriverStops, TestStops, TransactionsInv
<1>5. TransactionsTypeOK'
  BY <1>1, <1>2 DEF TransactionsInv, TransactionsTypeOK
<1>6. /\ \A t \in Transactions :
            Shape(pc'[t], business'[t], t \in accepted') /\ Truthful(pc'[t], business'[t], order'[t])
      /\ outstanding' = Cardinality(Owed')
      /\ Inline => \A t \in Transactions : t >= index' => pc'[t] = "waiting"
  BY <1>1, <1>2 DEF TransactionsInv
<1> QED BY <1>2, <1>3, <1>4, <1>5, <1>6 DEF TransactionsInv

LEMMA OrderProgressStep ==
  ASSUME TransactionsAssumption, TransactionsInv, NEW t \in Transactions, OrderProgress(t)
  PROVE  TransactionsInv'
<1>1. UNCHANGED <<pc, business, accepted, outstanding, index, driver, drained, breaks>>
  BY DEF OrderProgress, logs, control
<1>2. order \in [Transactions -> OrderStates] /\ TransactionsTypeOK
  BY DEF TransactionsInv, TransactionsTypeOK
<1>3. /\ order' \in [Transactions -> OrderStates] /\ \A u \in Transactions : u # t => order'[u] = order[u]
      /\ order[t].status = "COMPLETED" => order'[t].status = "COMPLETED"
      /\ IsSettled(order[t]) => IsSettled(order'[t])
  <2>0. order[t] \in OrderStates
    BY <1>2
  <2>1. CASE order[t].status = "PENDING" /\ \E s \in {"COMPLETED",
            "CANCELLED"} : order' = [order EXCEPT ![t].status = s]
    BY <1>2, <2>0, <2>1 DEF OrderStates, IsSettled
  <2>2. CASE order[t].note = "PENDING" /\ order' = [order EXCEPT ![t].note = "SENT"]
    BY <1>2, <2>0, <2>2 DEF OrderStates, IsSettled
  <2>3. CASE order[t].clear = "PENDING" /\ order' = [order EXCEPT ![t].clear = "SUCCEEDED"]
    BY <1>2, <2>0, <2>3 DEF OrderStates, IsSettled
  <2> QED BY <2>1, <2>2, <2>3 DEF OrderProgress
<1>4. /\ Active' = Active /\ InFlight' = InFlight /\ Opening' = Opening /\ Owed' = Owed
  BY <1>1 DEF Active, InFlight, Opening, Owed
<1>5. TransactionsTypeOK'
  BY <1>1, <1>2, <1>3, <1>4 DEF TransactionsTypeOK
<1>6. \A u \in Transactions : Shape(pc'[u], business'[u], u \in accepted') /\ Truthful(pc'[u], business'[u], order'[u])
  <2> SUFFICES ASSUME NEW u \in Transactions
               PROVE  Shape(pc[u], business[u], u \in accepted) /\ Truthful(pc[u], business[u], order'[u])
    BY <1>1
  <2>1. Shape(pc[u], business[u], u \in accepted) /\ Truthful(pc[u], business[u], order[u])
    BY DEF TransactionsInv
  <2>2. CASE u = t
    BY <1>3, <2>1, <2>2 DEF Truthful
  <2>3. CASE u # t
    BY <1>3, <2>1, <2>3
  <2> QED BY <2>1, <2>2, <2>3
<1> QED BY <1>1, <1>4, <1>5, <1>6 DEF TransactionsInv

LEMMA TransactionsStart ==
  ASSUME TransactionsAssumption, TransactionsInit
  PROVE  TransactionsInv
<1>1. Count \in Nat /\ Concurrency \in Nat /\ Slots \in Nat /\ MaxBreaks \in Nat
  BY DEF TransactionsAssumption
<1>2. Active = {} /\ InFlight = {} /\ Opening = {} /\ Owed = {}
  BY DEF TransactionsInit, Active, InFlight, Opening, Owed
<1>3. Cardinality({}) = 0
  BY FS_EmptySet
<1>4. NoOrder \in OrderStates /\ << >> \in Seq(Records) /\ "waiting" \in Pcs
  BY DEF NoOrder, OrderStates, Pcs
<1>5. TransactionsTypeOK
  <2>1. pc \in [Transactions -> Pcs]
    BY <1>4 DEF TransactionsInit
  <2>2. order \in [Transactions -> OrderStates]
    BY <1>4 DEF TransactionsInit
  <2>3. business \in [Transactions -> Seq(Records)]
    BY <1>4 DEF TransactionsInit
  <2>4. accepted \in SUBSET Transactions
    BY DEF TransactionsInit
  <2>5. outstanding \in 0..Count /\ index \in 1..(Count + 1) /\ breaks \in 0..MaxBreaks
    BY <1>1 DEF TransactionsInit
  <2>6. driver \in {"schedule", "join", "kill", "stopped", "closed"} /\ drained \in BOOLEAN
    BY DEF TransactionsInit
  <2>7. Cardinality(InFlight) <= Concurrency /\ Cardinality(Opening) <= Slots
    BY <1>1, <1>2, <1>3
  <2> QED BY <2>1, <2>2, <2>3, <2>4, <2>5, <2>6, <2>7 DEF TransactionsTypeOK
<1>6. \A t \in Transactions : Shape(pc[t], business[t], t \in accepted) /\ Truthful(pc[t], business[t], order[t])
  <2>1. \A t \in Transactions : pc[t] = "waiting" /\ Len(business[t]) = 0 /\ t \notin accepted
    BY DEF TransactionsInit
  <2> QED BY <2>1 DEF Shape, Truthful, Preparing, Following, Settling
<1> QED BY <1>2, <1>3, <1>5, <1>6 DEF TransactionsInv, TransactionsInit

\* The invariant says what the files have to.
LEMMA TransactionsImplied ==
  ASSUME TransactionsAssumption, TransactionsInv
  PROVE  TransactionsAreTrue
<1>1. TransactionsTypeOK
  BY DEF TransactionsInv
<1>2. ASSUME NEW t \in Transactions
      PROVE  /\ Shape(pc[t], business[t], t \in accepted) /\ Truthful(pc[t], business[t], order[t])
             /\ pc[t] \in Pcs /\ Len(business[t]) \in Nat
  BY <1>1, TransactionTypes DEF TransactionsInv
<1>3. EveryTransactionRecorded
  <2> SUFFICES ASSUME NEW t \in Transactions
               PROVE  /\ \A name \in {"outcome", "settled"} : \A i, j \in Lines(t, name) : i = j
                      /\ pc[t] = "done" =>
                            /\ Lines(t, "outcome") # {}
                            /\ Lines(t, "acceptance") # {} => Lines(t, "settled") # {}
    BY DEF EveryTransactionRecorded
  <2> DEFINE b == business[t]
  <2>1. /\ Shape(pc[t], b, t \in accepted) /\ pc[t] \in Pcs
    BY <1>2
  <2>2. \/ Len(b) = 0
        \/ Len(b) = 1
        \/ Len(b) = 2 /\ b[1].name = "acceptance"
        \/ Len(b) = 3 /\ b[1].name = "acceptance" /\ b[2].name = "outcome" /\ b[3].name = "settled"
    BY <2>1 DEF Shape, Pcs
  <2>3. \A name \in {"outcome", "settled"} : \A i, j \in Lines(t, name) : i = j
    <3> SUFFICES ASSUME NEW name \in {"outcome", "settled"}, NEW i \in Lines(t, name), NEW j \in Lines(t, name)
                 PROVE  i = j
      OBVIOUS
    <3>1. i \in 1..Len(b) /\ j \in 1..Len(b) /\ b[i].name = name /\ b[j].name = name
      BY DEF Lines
    <3>2. CASE Len(b) = 0
      BY <3>1, <3>2
    <3>3. CASE Len(b) = 1
      BY <3>1, <3>3
    <3>4. CASE Len(b) = 2 /\ b[1].name = "acceptance"
      BY <3>1, <3>4
    <3>5. CASE Len(b) = 3 /\ b[1].name = "acceptance" /\ b[2].name = "outcome" /\ b[3].name = "settled"
      BY <3>1, <3>5
    <3> QED BY <2>2, <3>2, <3>3, <3>4, <3>5
  <2>4. ASSUME pc[t] = "done"
        PROVE  Lines(t, "outcome") # {} /\ (Lines(t, "acceptance") # {} => Lines(t, "settled") # {})
    <3>1. CASE Len(b) = 1 /\ b[1].name = "outcome"
      <4>1. 1 \in Lines(t, "outcome")
        BY <3>1 DEF Lines
      <4>2. Lines(t, "acceptance") = {}
        BY <3>1 DEF Lines
      <4> QED BY <4>1, <4>2
    <3>2. CASE Len(b) = 3 /\ b[2].name = "outcome" /\ b[3].name = "settled"
      <4>1. 2 \in Lines(t, "outcome") /\ 3 \in Lines(t, "settled")
        BY <3>2 DEF Lines
      <4> QED BY <4>1
    <3> QED BY <2>1, <2>4, <3>1, <3>2 DEF Shape
  <2> QED BY <2>3, <2>4
<1>4. OutstandingExact
  <2> SUFFICES ASSUME NEW t \in accepted
               PROVE  Labels(t, "outcome") \subseteq {"UNKNOWN"} <=> pc[t] \in Following \cup {"killed"}
    BY DEF OutstandingExact, TransactionsInv, Owed
  <2>1. t \in Transactions
    BY <1>1, TransactionTypes
  <2> DEFINE b == business[t]
  <2>2. /\ Shape(pc[t], b, TRUE) /\ pc[t] \in Pcs
    BY <1>2, <2>1
  <2>3. CASE pc[t] \in Following
    <3>1. Lines(t, "outcome") = {}
      BY <2>2, <2>3 DEF Shape, Lines
    <3> QED BY <2>3, <3>1 DEF Labels
  <2>4. CASE pc[t] = "killed"
    <3>1. Len(b) = 2 /\ b[1].name = "acceptance" /\ b[2].label = "UNKNOWN"
      BY <2>2, <2>4 DEF Shape
    <3>2. \A i \in Lines(t, "outcome") : b[i].label = "UNKNOWN"
      BY <3>1 DEF Lines
    <3> QED BY <2>4, <3>2 DEF Labels
  <2>5. CASE pc[t] \in Settling \cup {"done"}
    <3>1. Len(b) \in {2, 3} /\ b[2].name = "outcome" /\ b[2].label # "UNKNOWN"
      BY <2>2, <2>5 DEF Shape
    <3>2. 2 \in Lines(t, "outcome")
      BY <3>1 DEF Lines
    <3>3. b[2].label \in Labels(t, "outcome")
      BY <3>2 DEF Labels
    <3>4. pc[t] \notin Following \cup {"killed"}
      BY <2>5 DEF Settling, Following
    <3> QED BY <3>1, <3>3, <3>4
  <2>6. pc[t] \notin {"waiting"} \cup Preparing
    BY <2>2 DEF Shape
  <2> QED BY <2>2, <2>3, <2>4, <2>5, <2>6 DEF Pcs
<1>5. RecordsAreTrue
  <2> SUFFICES ASSUME NEW t \in Transactions
               PROVE  /\ "COMPLETED" \in Labels(t, "outcome") => order[t].status = "COMPLETED"
                      /\ "SETTLED" \in Labels(t, "settled") => IsSettled(order[t])
    BY DEF RecordsAreTrue, IsSettled
  <2>1. Truthful(pc[t], business[t], order[t])
    BY <1>2
  <2> QED BY <2>1 DEF Truthful, Labels, Lines
<1> QED BY <1>1, <1>3, <1>4, <1>5 DEF TransactionsAreTrue

\* The checkout transactions (locustfile.py): for any number of transactions,
\* any concurrency limit and any number of reconnections, in the open and in the
\* closed loop, every transaction that is over is recorded exactly once, what is
\* recorded of an order is so, and the outstanding orders are counted exactly,
\* through broken streams, lagging replicas, deadlines and killed greenlets.
THEOREM TransactionsRecorded ==
  ASSUME TransactionsAssumption
  PROVE  TransactionsSpec => []TransactionsAreTrue
<1>1. TransactionsInit => TransactionsInv
  BY TransactionsStart
<1>2. TransactionsInv /\ [TransactionsNext]_transactionVars => TransactionsInv'
  <2> SUFFICES ASSUME TransactionsInv, [TransactionsNext]_transactionVars PROVE TransactionsInv'
    OBVIOUS
  <2>1. CASE DriverStep
    BY <2>1, ScheduleStep, DriverMoves, KillStep, KillTrackerStep DEF DriverStep
  <2>2. ASSUME NEW t \in Transactions, UserCheckout(t) \/ TransactionStep(t) \/ OrderProgress(t)
        PROVE  TransactionsInv'
    <3>1. CASE GetProduct(t) \/ AddToCart(t) \/ PollOperation(t)
      BY <3>1, PrepareSteps
    <3>2. CASE Refused(t) \/ BadLocation(t) \/ Accepted(t) \/ GrpcCheckout(t)
      BY <3>2, RefusedStep, AcceptedStep, GrpcCheckoutStep
    <3>3. CASE Connect(t) \/ Opened(t) \/ NotYet(t) \/ StreamBreaks(t)
      BY <3>3, StreamSteps
    <3>4. CASE OpenFails(t) \/ BadEvent(t) \/ OutcomeDeadline(t) \/ OrderEvent(t)
      BY <3>4, FailSteps, OrderEventStep
    <3>5. CASE SettlementEvent(t) \/ SettlementFails(t)
      BY <3>5, SettlementSteps
    <3>6. CASE UserCheckout(t) \/ OrderProgress(t)
      BY <3>6, UserCheckoutStep, OrderProgressStep
    <3> QED BY <2>2, <3>1, <3>2, <3>3, <3>4, <3>5, <3>6 DEF TransactionStep
  <2>3. CASE UNCHANGED transactionVars
    <3>1. UNCHANGED <<pc, order, business, accepted, outstanding, index, driver, drained, breaks>>
      BY <2>3 DEF transactionVars
    <3>2. /\ Active' = Active /\ InFlight' = InFlight /\ Opening' = Opening /\ Owed' = Owed
      BY <3>1 DEF Active, InFlight, Opening, Owed
    <3>3. TransactionsTypeOK'
      BY <3>1, <3>2 DEF TransactionsInv, TransactionsTypeOK
    <3> QED BY <3>1, <3>2, <3>3 DEF TransactionsInv
  <2> QED BY <2>1, <2>2, <2>3 DEF TransactionsNext
<1>3. TransactionsInv => TransactionsAreTrue
  BY TransactionsImplied
<1> QED BY <1>1, <1>2, <1>3, PTL DEF TransactionsSpec

----------------------------------------------------------------------------
(* The resource sampler                                                    *)

\* What division by an interval means.
LEMMA Division ==
  ASSUME NEW a \in Int, NEW d \in Nat \ {0}
  PROVE  /\ a \div d \in Int /\ (a \div d) * d <= a /\ a < (a \div d) * d + d
         /\ a >= 0 => a \div d \in Nat
<1>1. a \div d \in Int
  OBVIOUS
<1>2. (a \div d) * d <= a /\ a < (a \div d) * d + d
  OBVIOUS
<1>3. a >= 0 => a \div d \in Nat
  OBVIOUS
<1> QED BY <1>1, <1>2, <1>3

LEMMA Multiples ==
  ASSUME NEW d \in Nat \ {0}
  PROVE  /\ \A p, q \in Int : p * d < q * d => p < q
         /\ \A p, q \in Int : p * d <= q * d => p <= q
         /\ \A p \in Int : p * d \in Int /\ (p + 1) * d = p * d + d
         /\ \A p, q \in Int : (p + q) * d = p * d + q * d
         /\ \A p \in Nat : p * d \in Nat
<1>1. \A p \in Int : p * d \in Int /\ (p + 1) * d = p * d + d
  OBVIOUS
<1>2. \A p, q \in Int : (p + q) * d = p * d + q * d
  OBVIOUS
<1>3. \A p \in Nat : p * d \in Nat
  OBVIOUS
<1>4. \A p, q \in Int : p * d < q * d => p < q
  <2> SUFFICES ASSUME NEW p \in Int, NEW q \in Int, p >= q PROVE p * d >= q * d
    BY <1>1
  <2>1. PICK n \in Nat : p = q + n
    <3>1. p - q \in Nat /\ p = q + (p - q)
      OBVIOUS
    <3> QED BY <3>1
  <2>2. (q + n) * d = q * d + n * d /\ n * d \in Nat /\ q * d \in Int
    BY <1>1, <1>2, <1>3
  <2> QED BY <2>1, <2>2
<1>5. \A p, q \in Int : p * d <= q * d => p <= q
  <2> SUFFICES ASSUME NEW p \in Int, NEW q \in Int, p > q PROVE p * d > q * d
    BY <1>1
  <2>1. PICK n \in Nat : p = q + (n + 1)
    <3>1. p - q - 1 \in Nat /\ p = q + ((p - q - 1) + 1)
      OBVIOUS
    <3> QED BY <3>1
  <2>2. (q + (n + 1)) * d = q * d + (n + 1) * d /\ (n + 1) * d = n * d + d /\ n * d \in Nat /\ q * d \in Int
    BY <1>1, <1>2, <1>3
  <2> QED BY <2>1, <2>2
<1> QED BY <1>1, <1>2, <1>3, <1>4, <1>5

\* The quotient of a time that lies before, after or on the k-th tick.
LEMMA Quotients ==
  ASSUME NEW d \in Nat \ {0}, NEW k \in Nat, NEW a \in Int
  PROVE  /\ a < k * d => a \div d < k
         /\ a >= k * d => a \div d >= k
         /\ a = k * d => a \div d = k
<1> DEFINE q == a \div d
<1>1. q \in Int /\ q * d <= a /\ a < q * d + d
  BY Division
<1> HIDE DEF q
<1>2. k * d \in Int /\ q * d \in Int /\ (q + 1) * d = q * d + d /\ q + 1 \in Int
  BY <1>1, Multiples
<1>3. a < k * d => q < k
  <2> SUFFICES ASSUME a < k * d PROVE q < k
    OBVIOUS
  <2>1. q * d < k * d
    BY <1>1, <1>2
  <2> QED BY <1>1, <2>1, Multiples
<1>4. a >= k * d => q >= k
  <2> SUFFICES ASSUME a >= k * d PROVE q >= k
    OBVIOUS
  <2>1. k * d < (q + 1) * d
    BY <1>1, <1>2
  <2>2. k < q + 1
    BY <1>2, <2>1, Multiples
  <2> QED BY <1>1, <2>2
<1>5. a = k * d => q = k
  <2> SUFFICES ASSUME a = k * d PROVE q = k
    OBVIOUS
  <2>1. q * d <= k * d /\ a >= k * d
    BY <1>1, <1>2
  <2>2. q <= k
    BY <1>1, <2>1, Multiples
  <2> QED BY <1>1, <1>4, <2>1, <2>2
<1> QED BY <1>3, <1>4, <1>5 DEF q

LEMMA UsageTypes ==
  ASSUME UsageAssumption, UsageTypeOK
  PROVE  /\ Interval \in Nat \ {0} /\ MaxTime \in Nat /\ MaxWork \in Nat /\ MaxWorkflowEvents \in Nat
         /\ MaxFaults \in Nat /\ now \in Nat /\ now <= MaxTime /\ begun \in Nat /\ begun <= now
         /\ next \in Nat /\ skipped \in Nat /\ faults \in Nat /\ faults <= MaxFaults
         /\ records \in Seq([at : 0..MaxTime, pods : Answers]) /\ Len(records) \in Nat
         /\ \A i \in 1..Len(records) : records[i].at \in Nat /\ records[i].at <= now
         /\ workflowEvents \in Nat /\ workflowEvents <= MaxWorkflowEvents
         /\ workflowObserver \in [id : Nat \ {0}, count : 0..workflowEvents]
         /\ workflowObserver.id \in Nat \ {0} /\ workflowObserver.count \in Nat
         /\ workflowObserver.count <= workflowEvents
         /\ marks \in [started : MarkRec, ended : MarkRec] /\ marks.started \in MarkRec /\ marks.ended \in MarkRec
         /\ marks.started.id \in Nat /\ marks.started.count \in Nat /\ marks.started.events \in Nat
         /\ cache \in Answers /\ Empty \in Answers /\ None \in MarkRec
<1>1. /\ Interval \in Nat \ {0} /\ MaxTime \in Nat /\ MaxWork \in Nat /\ MaxWorkflowEvents \in Nat
      /\ MaxFaults \in Nat
  BY DEF UsageAssumption
<1>2. /\ now \in Nat /\ now <= MaxTime /\ begun \in Nat /\ begun <= now /\ next \in Nat /\ skipped \in Nat
      /\ faults \in Nat /\ faults <= MaxFaults
  BY <1>1 DEF UsageTypeOK
<1>3. /\ records \in Seq([at : 0..MaxTime, pods : Answers]) /\ Len(records) \in Nat
      /\ \A i \in 1..Len(records) : records[i].at <= now
  BY DEF UsageTypeOK
<1>4. \A i \in 1..Len(records) : records[i].at \in Nat
  <2> DEFINE R == [at : 0..MaxTime, pods : Answers]
  <2>1. records \in Seq(R)
    BY <1>3
  <2>2. \A r \in R : r.at \in 0..MaxTime
    OBVIOUS
  <2> HIDE DEF R
  <2>3. \A i \in 1..Len(records) : records[i] \in R
    BY <2>1
  <2> QED BY <1>1, <2>2, <2>3
<1>5. /\ workflowEvents \in Nat /\ workflowEvents <= MaxWorkflowEvents
      /\ workflowObserver \in [id : Nat \ {0}, count : 0..workflowEvents]
  BY <1>1 DEF UsageTypeOK
<1>6. /\ workflowObserver.id \in Nat \ {0} /\ workflowObserver.count \in Nat
      /\ workflowObserver.count <= workflowEvents
  BY <1>5
<1>7. /\ marks \in [started : MarkRec, ended : MarkRec] /\ marks.started \in MarkRec /\ marks.ended \in MarkRec
  BY DEF UsageTypeOK
<1>8. marks.started.id \in Nat /\ marks.started.count \in Nat /\ marks.started.events \in Nat
  BY <1>7 DEF MarkRec
<1>9. cache \in Answers
  BY DEF UsageTypeOK
<1>10. Empty \in Answers /\ None \in MarkRec
  <2>1. Empty \in [{} -> [Meters -> Reading]] /\ {} \in SUBSET Pods
    BY DEF Empty
  <2>2. Empty \in Answers
    BY <2>1 DEF Answers
  <2> QED BY <2>2 DEF None, MarkRec
<1> QED BY <1>1, <1>2, <1>3, <1>4, <1>5, <1>6, <1>7, <1>8, <1>9, <1>10

LEMMA UsageNumbers ==
  ASSUME UsageAssumption, UsageTypeOK
  PROVE  /\ Interval \in Nat \ {0} /\ MaxTime \in Nat /\ MaxWork \in Nat /\ MaxWorkflowEvents \in Nat
         /\ MaxFaults \in Nat /\ now \in Nat /\ now <= MaxTime /\ begun \in Nat /\ begun <= now
         /\ next \in Nat /\ skipped \in Nat /\ Len(records) \in Nat
         /\ \A i \in 1..Len(records) : records[i].at \in Nat /\ records[i].at <= now
BY UsageTypes

LEMMA WorkflowNumbers ==
  ASSUME UsageAssumption, UsageTypeOK
  PROVE  /\ MaxWorkflowEvents \in Nat
         /\ workflowEvents \in Nat /\ workflowEvents <= MaxWorkflowEvents
         /\ workflowObserver.id \in Nat \ {0} /\ workflowObserver.count \in Nat
         /\ workflowObserver.count <= workflowEvents
         /\ marks.started.id \in Nat /\ marks.started.count \in Nat /\ marks.started.events \in Nat
BY UsageTypes

\* What the sampler knows is not touched by the target.
LEMMA SamplerKept ==
  ASSUME UsageAssumption, UsageInv, UNCHANGED sampler
  PROVE  ScheduleOK' /\ TicksAccounted' /\ WorkflowCountsReal'
<1>1. UNCHANGED <<samplerPc, begun, next, skipped, stop, records, marks>>
  BY DEF sampler
<1>2. ScheduleOK'
  BY <1>1 DEF UsageInv, ScheduleOK, Origin
<1>3. TicksAccounted'
  BY <1>1 DEF UsageInv, TicksAccounted
<1>4. WorkflowCountsReal'
  BY <1>1 DEF UsageInv, WorkflowCountsReal, WorkflowAvailable
<1> QED BY <1>2, <1>3, <1>4

LEMMA UsageFaultCounted ==
  ASSUME UsageAssumption, UsageTypeOK, Fault \/ UNCHANGED faults
  PROVE  faults' \in 0..MaxFaults
<1>1. faults \in 0..MaxFaults /\ MaxFaults \in Nat
  BY DEF UsageTypeOK, UsageAssumption
<1>2. CASE UNCHANGED faults
  BY <1>1, <1>2
<1>3. CASE Fault
  <2>1. faults < MaxFaults /\ faults' = faults + 1
    BY <1>3 DEF Fault
  <2> QED BY <1>1, <2>1
<1> QED BY <1>2, <1>3

LEMMA TargetSteps ==
  ASSUME UsageAssumption, UsageInv,
         (\E p \in Pods : Work(p) \/ Restart(p)) \/ Refresh \/ Tick
  PROVE  UsageInv'
<1> DEFINE TargetOK ==
             /\ now \in 0..MaxTime
             /\ counter \in [Pods -> 0..MaxWork] /\ used \in [Pods -> 0..MaxWork]
             /\ \A p \in Pods : counter[p] <= used[p]
             /\ cadvisor \in [Pods -> Reading]
             /\ cache \in Answers
<1>0. UsageTypeOK /\ MarksOK
  BY DEF UsageInv
<1>1. /\ UNCHANGED <<sampler, workflow>> /\ (Fault \/ UNCHANGED faults)
  BY DEF Work, Restart, Refresh, Tick, target
<1>2. UNCHANGED <<samplerPc, begun, next, skipped, stop, records, marks, workflowEvents, workflowObserver>>
  BY <1>1 DEF sampler, workflow
<1>3. faults' \in 0..MaxFaults
  BY <1>0, <1>1, UsageFaultCounted
<1>4. TargetOK' /\ now' >= now
  <2>0. /\ now \in 0..MaxTime /\ counter \in [Pods -> 0..MaxWork] /\ used \in [Pods -> 0..MaxWork]
        /\ \A p \in Pods : counter[p] <= used[p]
        /\ cadvisor \in [Pods -> Reading] /\ cache \in Answers /\ MaxWork \in Nat /\ MaxTime \in Nat
    BY <1>0, UsageTypes DEF UsageTypeOK
  <2>1. ASSUME NEW p \in Pods, Work(p) PROVE TargetOK' /\ now' >= now
    <3>1. /\ used[p] < MaxWork /\ used[p] \in 0..MaxWork /\ counter[p] \in 0..MaxWork /\ counter[p] <= used[p]
          /\ used' = [used EXCEPT ![p] = used[p] + 1] /\ counter' = [counter EXCEPT ![p] = counter[p] + 1]
          /\ UNCHANGED <<now, cadvisor, cache>>
      BY <2>0, <2>1 DEF Work
    <3>2. used[p] + 1 \in 0..MaxWork /\ counter[p] + 1 \in 0..MaxWork /\ counter[p] + 1 <= used[p] + 1
      BY <2>0, <3>1
    <3> QED BY <2>0, <3>1, <3>2
  <2>2. ASSUME NEW p \in Pods, Restart(p) PROVE TargetOK' /\ now' >= now
    BY <2>0, <2>2 DEF Restart
  <2>3. CASE Refresh
    <3>0. PICK known \in SUBSET Pods : \E summary, asked \in SUBSET known :
             /\ cadvisor' = [p \in Pods |-> IF p \in asked THEN Read(p) ELSE cadvisor[p]]
             /\ cache' = [p \in known |-> [s \in Meters |->
                             CASE s = "cadvisor" -> cadvisor'[p]
                               [] p \in summary -> Read(p)
                               [] OTHER -> Absent]]
      BY <2>3 DEF Refresh
    <3>1. PICK summary \in SUBSET known, asked \in SUBSET known :
             /\ cadvisor' = [p \in Pods |-> IF p \in asked THEN Read(p) ELSE cadvisor[p]]
             /\ cache' = [p \in known |-> [s \in Meters |->
                             CASE s = "cadvisor" -> cadvisor'[p]
                               [] p \in summary -> Read(p)
                               [] OTHER -> Absent]]
      BY <3>0
    <3>2. Absent \in Reading /\ \A p \in Pods : Read(p) \in Reading
      BY <2>0 DEF Absent, Read, Reading
    <3>3. cadvisor' \in [Pods -> Reading]
      BY <2>0, <3>1, <3>2
    <3>4. ASSUME NEW p \in known, NEW s \in Meters PROVE cache'[p][s] \in Reading
      <4>1. cache'[p][s] = (CASE s = "cadvisor" -> cadvisor'[p]
                              [] p \in summary -> Read(p)
                              [] OTHER -> Absent)
        BY <3>1
      <4>2. cadvisor'[p] \in Reading /\ Read(p) \in Reading
        BY <3>2, <3>3
      <4>3. s = "cadvisor" \/ (s # "cadvisor" /\ p \in summary) \/ (s # "cadvisor" /\ p \notin summary)
        OBVIOUS
      <4>4. cache'[p][s] \in {cadvisor'[p], Read(p), Absent}
        BY <4>1, <4>3
      <4> QED BY <3>2, <4>2, <4>4
    <3>5. cache' \in [known -> [Meters -> Reading]]
      BY <3>1, <3>4
    <3>6. cache' \in Answers
      BY <3>5 DEF Answers
    <3> QED BY <2>0, <2>3, <3>3, <3>6 DEF Refresh
  <2>4. CASE Tick
    BY <2>0, <2>4 DEF Tick, target
  <2> QED BY <2>1, <2>2, <2>3, <2>4
<1>5. UsageTypeOK'
  <2>1. begun' \in 0..now' /\ \A i \in 1..Len(records) : records[i].at <= now'
    BY SMTT(30), <1>0, <1>2, <1>4, UsageNumbers
  <2> QED BY <1>0, <1>2, <1>3, <1>4, <2>1 DEF UsageTypeOK
<1>6. MarksOK'
  BY <1>0, <1>2 DEF MarksOK
<1> QED BY <1>1, <1>5, <1>6, SamplerKept DEF UsageInv

LEMMA WorkflowSteps ==
  ASSUME UsageAssumption, UsageInv, WorkflowEvent \/ ObserverLoses
  PROVE  UsageInv'
<1>0. UsageTypeOK /\ MarksOK
  BY DEF UsageInv
<1>1. /\ UNCHANGED <<now, target, sampler>> /\ (Fault \/ UNCHANGED faults)
  BY DEF WorkflowEvent, ObserverLoses
<1>2. UNCHANGED <<now, counter, used, cadvisor, cache, samplerPc, begun, next, skipped, stop, records, marks>>
  BY <1>1 DEF sampler, target
<1>3. faults' \in 0..MaxFaults
  BY <1>0, <1>1, UsageFaultCounted
<1>4. CASE WorkflowEvent
  <2>1. /\ workflowEvents < MaxWorkflowEvents /\ workflowEvents' = workflowEvents + 1
        /\ workflowObserver' = [workflowObserver EXCEPT !.count = workflowObserver.count + 1]
    BY <1>0, <1>4, WorkflowNumbers DEF WorkflowEvent
  <2>2. /\ workflowEvents' \in 0..MaxWorkflowEvents
        /\ workflowObserver'.id = workflowObserver.id /\ workflowObserver'.count = workflowObserver.count + 1
        /\ workflowObserver' \in [id : Nat \ {0}, count : 0..workflowEvents']
    <3>1. workflowObserver.count + 1 \in 0..(workflowEvents + 1) /\ workflowEvents + 1 \in 0..MaxWorkflowEvents
      BY <1>0, <2>1, WorkflowNumbers
    <3>2. workflowObserver \in [id : Nat \ {0}, count : 0..workflowEvents]
      BY <1>0, UsageTypes
    <3> QED BY <2>1, <3>1, <3>2
  <2>3. UsageTypeOK'
    BY <1>0, <1>2, <1>3, <2>2 DEF UsageTypeOK
  <2>4. MarksOK'
    BY <1>0, <1>2, <2>1, <2>2, WorkflowNumbers DEF MarksOK
  <2> QED BY <1>1, <2>3, <2>4, SamplerKept DEF UsageInv
<1>5. CASE ObserverLoses
  <2>1. PICK missed \in 0..(MaxWorkflowEvents - workflowEvents) : workflowEvents' = workflowEvents + missed
    BY <1>5 DEF ObserverLoses
  <2>2. workflowEvents' \in 0..MaxWorkflowEvents
    BY <1>0, <2>1, WorkflowNumbers
  <2>3. workflowObserver' = [id |-> workflowObserver.id + 1, count |-> 0]
    BY <1>5 DEF ObserverLoses
  <2>4. /\ workflowObserver' \in [id : Nat \ {0}, count : 0..workflowEvents']
        /\ workflowObserver'.id = workflowObserver.id + 1
    <3>1. workflowObserver.id + 1 \in Nat \ {0} /\ 0 \in 0..workflowEvents'
      BY <1>0, <2>2, WorkflowNumbers
    <3> QED BY <2>3, <3>1
  <2>5. UsageTypeOK'
    BY <1>0, <1>2, <1>3, <2>2, <2>4 DEF UsageTypeOK
  <2>6. MarksOK'
    BY <1>0, <1>2, <2>4, WorkflowNumbers DEF MarksOK
  <2> QED BY <1>1, <2>5, <2>6, SamplerKept DEF UsageInv
<1> QED BY <1>4, <1>5

\* A reading of the workflow events.
LEMMA MarkTaken ==
  ASSUME UsageAssumption, UsageTypeOK, NEW field \in {"started", "ended"}, Mark(field)
  PROVE  /\ faults' \in 0..MaxFaults /\ marks' \in [started : MarkRec, ended : MarkRec]
         /\ \A f \in {"started", "ended"} \ {field} : marks'[f] = marks[f]
         /\ \/ marks' = marks
            \/ /\ marks'[field].id = workflowObserver.id /\ marks'[field].count = workflowObserver.count
               /\ marks'[field].events = workflowEvents
<1> DEFINE m == [id |-> workflowObserver.id, count |-> workflowObserver.count, events |-> workflowEvents]
<1>1. /\ m \in MarkRec /\ m.id = workflowObserver.id /\ m.count = workflowObserver.count
      /\ m.events = workflowEvents
  BY WorkflowNumbers DEF MarkRec
<1>2. marks \in [started : MarkRec, ended : MarkRec]
  BY UsageTypes
<1>3. marks' = [marks EXCEPT ![field] = m] \/ marks' = marks
  BY DEF Mark
<1>4. faults' \in 0..MaxFaults
  BY UsageFaultCounted DEF Mark
<1> HIDE DEF m
<1>5. CASE marks' = marks
  BY <1>2, <1>4, <1>5
<1>6. CASE field = "started" /\ marks' = [marks EXCEPT !["started"] = m]
  BY <1>1, <1>2, <1>4, <1>6
<1>7. CASE field = "ended" /\ marks' = [marks EXCEPT !["ended"] = m]
  BY <1>1, <1>2, <1>4, <1>7
<1> QED BY <1>3, <1>5, <1>6, <1>7

LEMMA StartStep ==
  ASSUME UsageAssumption, UsageInv, Start
  PROVE  UsageInv'
<1>0. UsageTypeOK /\ MarksOK /\ ScheduleOK /\ TicksAccounted
  BY DEF UsageInv
<1>1. /\ samplerPc = "new" /\ samplerPc' = "sampling" /\ begun' = now /\ next' = now /\ Mark("started")
      /\ UNCHANGED <<now, counter, used, cadvisor, cache, workflowEvents, workflowObserver, skipped, stop, records>>
  BY DEF Start, target, workflow
<1>2. /\ faults' \in 0..MaxFaults /\ marks' \in [started : MarkRec, ended : MarkRec]
      /\ marks'.ended = marks.ended
      /\ \/ marks' = marks
         \/ /\ marks'.started.id = workflowObserver.id /\ marks'.started.count = workflowObserver.count
            /\ marks'.started.events = workflowEvents
  BY <1>0, <1>1, MarkTaken
<1>3. UsageTypeOK'
  <2>1. begun' \in 0..now' /\ next' \in 0..(MaxTime + Interval)
    BY <1>0, <1>1, UsageNumbers
  <2> QED BY <1>0, <1>1, <1>2, <2>1 DEF UsageTypeOK
<1>4. records = << >> /\ skipped = 0 /\ Len(records) = 0
  BY <1>0, <1>1 DEF ScheduleOK
<1>5. ScheduleOK'
  <2>1. now = now + (0 + 0) * Interval
    BY <1>0, UsageNumbers
  <2>2. Origin' = now
    BY <1>1, <1>4 DEF Origin
  <2>3. begun' >= next' /\ begun' = next'
    BY <1>0, <1>1, UsageNumbers
  <2>4. next' = Origin' + (Len(records') + skipped') * Interval
    BY <1>1, <1>4, <2>1, <2>2
  <2>5. \A i \in 1..Len(records') : FALSE
    BY <1>1, <1>4
  <2> QED BY <1>1, <1>4, <2>3, <2>4, <2>5 DEF ScheduleOK
<1>6. TicksAccounted'
  BY <1>1, <1>4 DEF TicksAccounted
<1>7. MarksOK'
  <2>1. samplerPc' # "ended" => marks'.ended = None
    BY <1>0, <1>1, <1>2 DEF MarksOK
  <2>2. CASE marks' = marks
    BY <1>0, <1>1, <2>1, <2>2 DEF MarksOK
  <2>3. CASE /\ marks'.started.id = workflowObserver.id /\ marks'.started.count = workflowObserver.count
             /\ marks'.started.events = workflowEvents
    BY <1>0, <1>1, <2>1, <2>3, WorkflowNumbers DEF MarksOK
  <2> QED BY <1>2, <2>2, <2>3
<1>8. WorkflowCountsReal'
  BY <1>0, <1>1, <1>2 DEF MarksOK, WorkflowCountsReal, WorkflowAvailable
<1> QED BY <1>3, <1>5, <1>6, <1>7, <1>8 DEF UsageInv

LEMMA StoppedStep ==
  ASSUME UsageAssumption, UsageInv, Stopped
  PROVE  UsageInv'
<1>0. UsageTypeOK /\ MarksOK /\ ScheduleOK /\ TicksAccounted
  BY DEF UsageInv
<1>1. /\ samplerPc \in {"waiting", "sampling"} /\ samplerPc' = "ended" /\ Mark("ended")
      /\ UNCHANGED <<now, counter, used, cadvisor, cache, workflowEvents, workflowObserver, begun, next, skipped, stop, records>>
  BY DEF Stopped, Joined, target, workflow
<1>2. /\ faults' \in 0..MaxFaults /\ marks' \in [started : MarkRec, ended : MarkRec]
      /\ marks'.started = marks.started
      /\ \/ marks' = marks
         \/ /\ marks'.ended.id = workflowObserver.id /\ marks'.ended.count = workflowObserver.count
            /\ marks'.ended.events = workflowEvents
  BY <1>0, <1>1, MarkTaken
<1>3. UsageTypeOK'
  BY <1>0, <1>1, <1>2 DEF UsageTypeOK
<1>4. ScheduleOK'
  BY <1>0, <1>1 DEF ScheduleOK
<1>5. TicksAccounted'
  BY <1>0, <1>1 DEF TicksAccounted
<1>6. MarksOK'
  BY <1>0, <1>1, <1>2 DEF MarksOK
<1>7. WorkflowCountsReal'
  <2>1. CASE marks' = marks
    BY <1>0, <1>1, <2>1 DEF MarksOK, WorkflowCountsReal, WorkflowAvailable
  <2>2. CASE /\ marks'.ended.id = workflowObserver.id /\ marks'.ended.count = workflowObserver.count
             /\ marks'.ended.events = workflowEvents
    BY <1>0, <1>1, <1>2, <2>2 DEF MarksOK, WorkflowCountsReal, WorkflowAvailable
  <2> QED BY <1>2, <2>1, <2>2
<1> QED BY <1>3, <1>4, <1>5, <1>6, <1>7 DEF UsageInv

LEMMA WaitingSteps ==
  ASSUME UsageAssumption, UsageInv, SampleBegins \/ Stop
  PROVE  UsageInv'
<1>0. UsageTypeOK /\ MarksOK /\ ScheduleOK /\ TicksAccounted /\ WorkflowCountsReal
  BY DEF UsageInv
<1>1. /\ UNCHANGED <<now, counter, used, cadvisor, cache, workflowEvents, workflowObserver, next, skipped, records, marks,
                     faults>>
  BY DEF SampleBegins, Stop, target, workflow
<1>2. /\ samplerPc' \in {"new", "sampling", "waiting", "ended"} /\ begun' \in 0..now' /\ stop' \in BOOLEAN
      /\ samplerPc' = "waiting" => next' > begun'
      /\ samplerPc' \in {"new", "ended"} => samplerPc' = samplerPc
      /\ samplerPc' = "waiting" => samplerPc = "waiting"
      /\ samplerPc' = "sampling" => /\ samplerPc \in {"sampling", "waiting"} /\ begun' >= next
                                    /\ records = << >> => begun' = next
      /\ samplerPc' # "ended" => samplerPc # "ended"
  <2>1. CASE SampleBegins
    <3>1. samplerPc = "waiting" /\ now >= next /\ samplerPc' = "sampling" /\ begun' = now /\ UNCHANGED <<now, stop>>
      BY <2>1 DEF SampleBegins
    <3>2. stop' \in BOOLEAN
      BY <1>0, <3>1, Zenon DEF UsageTypeOK
    <3>3. records # << >>
      BY <1>0, <3>1 DEF ScheduleOK
    <3> QED BY <1>0, <3>1, <3>2, <3>3, UsageNumbers
  <2>2. CASE Stop
    <3>1. samplerPc # "new" /\ UNCHANGED <<now, samplerPc, begun, next>>
      BY <2>2 DEF Stop
    <3>2. stop' \in BOOLEAN
      BY <2>2, Zenon DEF Stop
    <3>3. /\ samplerPc \in {"new", "sampling", "waiting", "ended"} /\ begun \in 0..now
          /\ samplerPc = "waiting" => next > begun
      BY <1>0 DEF UsageTypeOK
    <3>4. samplerPc = "sampling" => begun >= next /\ (records = << >> => begun = next)
      BY <1>0 DEF ScheduleOK
    <3> QED BY <3>1, <3>2, <3>3, <3>4
  <2> QED BY <2>1, <2>2
<1>3. UsageTypeOK'
  BY <1>0, <1>1, <1>2 DEF UsageTypeOK
<1>4. ScheduleOK'
  BY <1>0, <1>1, <1>2 DEF ScheduleOK, Origin
<1>5. TicksAccounted' /\ MarksOK' /\ WorkflowCountsReal'
  BY <1>0, <1>1, <1>2 DEF TicksAccounted, MarksOK, WorkflowCountsReal, WorkflowAvailable
<1> QED BY <1>3, <1>4, <1>5 DEF UsageInv

\* advance_sample_deadline: the deadline and what is skipped before it.
LEMMA DeadlineAdvanced ==
  ASSUME UsageAssumption, UsageTypeOK, next <= now
  PROVE  LET deadline == next + Interval
             n == Skipped(deadline)
         IN  /\ n \in Nat /\ deadline + n * Interval > now /\ deadline + n * Interval \in 0..(MaxTime + Interval)
             /\ deadline + n * Interval = next + (1 + n) * Interval
<1> DEFINE deadline == next + Interval
           n == Skipped(deadline)
           q == (now - deadline) \div Interval
<1>1. /\ Interval \in Nat \ {0} /\ now \in Nat /\ next \in Nat /\ MaxTime \in Nat /\ now <= MaxTime
      /\ deadline \in Nat /\ now - deadline \in Int
  BY UsageNumbers
<1>2. \A k \in Nat : k * Interval \in Nat /\ (1 + k) * Interval = Interval + k * Interval
  <2>1. \A k \in Nat : k * Interval \in Nat /\ (k + 1) * Interval = k * Interval + Interval
    BY <1>1, Multiples
  <2>2. \A k \in Nat : 1 + k = k + 1
    OBVIOUS
  <2> QED BY <1>1, <2>1, <2>2
<1>3. CASE deadline > now
  <2>1. n = 0
    BY <1>3 DEF Skipped
  <2>2. 0 * Interval = 0 /\ (1 + 0) * Interval = Interval
    BY <1>1
  <2> QED BY <1>1, <1>3, <2>1, <2>2
<1>4. CASE ~(deadline > now)
  <2>1. n = q + 1
    BY <1>4 DEF Skipped
  <2>2. q \in Nat /\ q * Interval <= now - deadline /\ now - deadline < q * Interval + Interval
    BY <1>1, <1>4, Division
  <2> HIDE DEF q
  <2>3. (q + 1) * Interval = q * Interval + Interval /\ q * Interval \in Nat /\ q + 1 \in Nat
    BY <1>1, <2>2, Multiples
  <2>4. deadline + n * Interval > now /\ deadline + n * Interval \in 0..(MaxTime + Interval)
    BY <1>1, <2>1, <2>2, <2>3
  <2>5. n \in Nat /\ (1 + n) * Interval = Interval + n * Interval /\ n * Interval \in Nat
    BY <1>2, <2>1, <2>3
  <2> HIDE DEF n
  <2>6. deadline + n * Interval = next + (1 + n) * Interval
    BY <1>1, <2>5
  <2> QED BY <2>4, <2>5, <2>6 DEF n
<1> QED BY <1>3, <1>4

LEMMA SampleEndsStep ==
  ASSUME UsageAssumption, UsageInv, SampleEnds
  PROVE  UsageInv'
<1>0. UsageTypeOK /\ MarksOK /\ ScheduleOK /\ TicksAccounted /\ WorkflowCountsReal
  BY DEF UsageInv
<1> DEFINE R == [at : 0..MaxTime, pods : Answers]
           deadline == next + Interval
           s == Skipped(deadline)
           n == Len(records)
           origin == Origin
<1>1. /\ samplerPc = "sampling" /\ samplerPc' = "waiting"
      /\ next' = deadline + s * Interval /\ skipped' = skipped + s
      /\ UNCHANGED <<now, counter, used, cadvisor, cache, workflowEvents, workflowObserver, begun, stop, marks>>
      /\ (Fault \/ UNCHANGED faults)
  BY DEF SampleEnds, target, workflow
<1>2. PICK r \in R : r.at = begun /\ records' = Append(records, r)
  <2>1. begun \in 0..MaxTime /\ cache \in Answers /\ Empty \in Answers
    BY <1>0, UsageTypes
  <2>2. [at |-> begun, pods |-> cache] \in R /\ [at |-> begun, pods |-> Empty] \in R
    BY <2>1
  <2> QED BY <2>2 DEF SampleEnds
<1>3. records \in Seq(R)
  BY <1>0, UsageTypes
<1> HIDE DEF R
<1>4. /\ n \in Nat /\ records' \in Seq(R) /\ Len(records') = n + 1 /\ records'[n + 1] = r
      /\ \A i \in 1..n : records'[i] = records[i]
      /\ \A i \in 1..(n + 1) : i \in 1..n \/ i = n + 1
  BY <1>2, <1>3
<1>5. /\ Interval \in Nat \ {0} /\ MaxTime \in Nat /\ now \in Nat /\ now <= MaxTime /\ begun \in Nat
      /\ begun <= now /\ next \in Nat /\ skipped \in Nat
      /\ \A i \in 1..n : records[i].at \in Nat /\ records[i].at <= now
  BY <1>0, UsageNumbers
<1>6. /\ begun >= next /\ next = origin + (n + skipped) * Interval
      /\ \A i \in 1..n : records[i].at < next
      /\ \A i \in 1..n : records[1].at <= records[i].at
  BY <1>0, <1>1 DEF ScheduleOK
<1>7. /\ s \in Nat /\ next' > now /\ next' \in 0..(MaxTime + Interval) /\ next' = next + (1 + s) * Interval
  BY <1>0, <1>1, <1>5, <1>6, DeadlineAdvanced
<1> HIDE DEF s, deadline
<1>8. /\ records' # << >> /\ origin \in Nat /\ records'[1].at = origin /\ origin <= next
      /\ n = 0 => origin = next /\ skipped = 0
      /\ n > 0 => origin = records[1].at
  <2>1. records = << >> <=> n = 0
    BY <1>3
  <2>2. CASE n = 0
    <3>1. origin = next /\ skipped = 0 /\ begun = next
      BY <1>0, <1>1, <2>1, <2>2 DEF Origin, ScheduleOK
    <3>2. records'[1] = r /\ records' # << >>
      <4>1. n + 1 = 1 /\ Len(records') = 1
        BY <1>4, <2>2
      <4>2. Len(<< >>) = 0
        OBVIOUS
      <4> HIDE DEF n
      <4>3. records'[1] = r
        BY <1>4, <4>1
      <4> QED BY <4>1, <4>2, <4>3
    <3> QED BY <1>2, <1>5, <2>2, <3>1, <3>2
  <2>3. CASE n > 0
    <3>1. origin = records[1].at /\ 1 \in 1..n
      BY <1>4, <2>1, <2>3 DEF Origin
    <3> QED BY <1>4, <1>5, <1>6, <2>3, <3>1
  <2> QED BY <1>4, <2>2, <2>3
<1> HIDE DEF origin, n
<1>9. UsageTypeOK'
  <2>1. faults' \in 0..MaxFaults
    BY <1>0, <1>1, UsageFaultCounted
  <2>2. skipped' \in Nat /\ next' > begun'
    BY <1>1, <1>5, <1>7
  <2>3. \A i \in 1..Len(records') : records'[i].at <= now'
    BY <1>1, <1>2, <1>4, <1>5
  <2>4. records' \in Seq([at : 0..MaxTime, pods : Answers])
    BY <1>4 DEF R
  <2>5. /\ (counter \in [Pods -> 0..MaxWork])' /\ (used \in [Pods -> 0..MaxWork])'
        /\ (\A p \in Pods : counter[p] <= used[p])'
        /\ (cadvisor \in [Pods -> Reading])' /\ (cache \in Answers)'
    BY <1>0, <1>1 DEF UsageTypeOK
  <2>6. /\ (now \in 0..MaxTime)' /\ (begun \in 0..now)' /\ (stop \in BOOLEAN)'
        /\ (workflowEvents \in 0..MaxWorkflowEvents)'
        /\ (workflowObserver \in [id : Nat \ {0}, count : 0..workflowEvents])'
        /\ (marks \in [started : MarkRec, ended : MarkRec])'
    BY <1>0, <1>1 DEF UsageTypeOK
  <2>7. samplerPc' = "waiting"
    BY <1>1
  <2> QED BY <1>7, <2>1, <2>2, <2>3, <2>4, <2>5, <2>6, <2>7 DEF UsageTypeOK
<1>10. next' = origin + ((n + 1) + skipped') * Interval
  <2>1. n + skipped \in Nat /\ 1 + s \in Nat /\ (n + skipped) + (1 + s) = (n + 1) + skipped'
    <3>1. n \in Nat /\ s \in Nat /\ skipped \in Nat /\ skipped' = skipped + s
      BY <1>1, <1>4, <1>5, <1>7
    <3> QED BY <3>1
  <2>2. ((n + skipped) + (1 + s)) * Interval = (n + skipped) * Interval + (1 + s) * Interval
    BY <1>5, <2>1, Multiples
  <2>3. (n + skipped) * Interval \in Nat /\ (1 + s) * Interval \in Nat
    BY <1>5, <2>1, Multiples
  <2> QED BY <1>6, <1>7, <1>8, <2>1, <2>2, <2>3
<1>11. ScheduleOK'
  <2>1. Origin' = origin
    BY <1>8 DEF Origin
  <2>2. \A i \in 1..Len(records') : records'[i].at < next'
    <3>1. next' \in Nat /\ next' > now
      BY <1>5, <1>7
    <3>2. \A i \in 1..n : records'[i].at < next'
      BY <1>4, <1>5, <3>1
    <3>3. records'[n + 1].at < next'
      BY <1>2, <1>4, <1>5, <3>1
    <3> QED BY <1>4, <3>2, <3>3
  <2>3. \A i \in 1..Len(records') : records'[1].at <= records'[i].at
    <3>1. ASSUME NEW i \in 1..n PROVE records'[1].at <= records'[i].at
      <4>1. n > 0 /\ records[1].at <= records[i].at
        BY <1>4, <1>6, <3>1
      <4> QED BY <1>4, <1>8, <4>1
    <3>2. records'[1].at <= records'[n + 1].at
      BY <1>2, <1>4, <1>5, <1>6, <1>8
    <3> QED BY <1>4, <3>1, <3>2
  <2> QED BY <1>1, <1>4, <1>8, <1>10, <2>1, <2>2, <2>3 DEF ScheduleOK
<1>12. TicksAccounted'
  <2>1. Len(records') + skipped' = (next' - records'[1].at) \div Interval
    <3>1. (n + 1) + skipped' \in Nat /\ next' - origin \in Int
      BY <1>1, <1>4, <1>5, <1>7, <1>8
    <3>2. next' - origin = ((n + 1) + skipped') * Interval
      <4>1. ((n + 1) + skipped') * Interval \in Nat
        BY <1>5, <3>1, Multiples
      <4> QED BY <1>8, <1>10, <4>1
    <3>3. (next' - origin) \div Interval = (n + 1) + skipped'
      BY <1>5, <3>1, <3>2, Quotients
    <3> QED BY <1>4, <1>8, <3>3
  <2>2. ASSUME NEW i \in 1..Len(records'), NEW j \in 1..Len(records'), i < j
        PROVE  (records'[i].at - records'[1].at) \div Interval < (records'[j].at - records'[1].at) \div Interval
    <3>1. i \in 1..n /\ n > 0 /\ records'[1].at = records[1].at /\ records'[i].at = records[i].at
      BY <1>4, <1>8, <2>2
    <3>2. CASE j \in 1..n
      <4>1. (records[i].at - records[1].at) \div Interval < (records[j].at - records[1].at) \div Interval
        BY <1>0, <2>2, <3>1, <3>2 DEF TicksAccounted, n
      <4> QED BY <1>4, <3>1, <3>2, <4>1
    <3>3. CASE j = n + 1
      <4> DEFINE k == n + skipped
                 a == records[i].at - origin
                 b == begun - origin
      <4>1. k \in Nat /\ a \in Int /\ b \in Int
        BY <1>4, <1>5, <1>8, <3>1
      <4>2. k * Interval \in Nat
        BY <1>5, <4>1, Multiples
      <4>3. a < k * Interval /\ b >= k * Interval
        BY SMTT(30), <1>5, <1>6, <1>8, <3>1, <4>2
      <4> HIDE DEF k, a, b
      <4>4. a \div Interval < k /\ b \div Interval >= k
        BY <1>5, <4>1, <4>3, Quotients
      <4>5. a \div Interval \in Int /\ b \div Interval \in Int
        BY <1>5, <4>1, Division
      <4>6. a \div Interval < b \div Interval
        BY <4>1, <4>4, <4>5
      <4> QED BY <1>2, <1>4, <1>8, <3>1, <3>3, <4>6 DEF a, b
    <3> QED BY <1>4, <2>2, <3>2, <3>3
  <2> QED BY <1>1, <2>1, <2>2 DEF TicksAccounted
<1>13. MarksOK' /\ WorkflowCountsReal'
  BY <1>0, <1>1 DEF MarksOK, WorkflowCountsReal, WorkflowAvailable
<1> QED BY <1>9, <1>11, <1>12, <1>13 DEF UsageInv

LEMMA UsageStart ==
  ASSUME UsageAssumption, UsageInit
  PROVE  UsageInv
<1>1. /\ Interval \in Nat \ {0} /\ MaxTime \in Nat /\ MaxWork \in Nat /\ MaxWorkflowEvents \in Nat
      /\ MaxFaults \in Nat
  BY DEF UsageAssumption
<1>2. UsageTypeOK
  <2>1. now \in 0..MaxTime /\ begun \in 0..now /\ skipped \in Nat /\ next \in 0..(MaxTime + Interval)
    BY <1>1 DEF UsageInit
  <2>2. counter \in [Pods -> 0..MaxWork] /\ used \in [Pods -> 0..MaxWork] /\ \A p \in Pods : counter[p] <= used[p]
    BY <1>1 DEF UsageInit
  <2>3. cache \in Answers
    <3>1. Empty \in [{} -> [Meters -> Reading]] /\ {} \in SUBSET Pods
      BY DEF Empty
    <3> QED BY <3>1 DEF Answers, UsageInit
  <2>8. cadvisor \in [Pods -> Reading]
    BY <1>1 DEF UsageInit, Absent, Reading
  <2>4. stop \in BOOLEAN
    BY Zenon DEF UsageInit
  <2>5. samplerPc = "new" /\ records \in Seq([at : 0..MaxTime, pods : Answers]) /\ Len(records) = 0
    BY DEF UsageInit
  <2>6. /\ workflowEvents \in 0..MaxWorkflowEvents /\ faults \in 0..MaxFaults
        /\ workflowObserver \in [id : Nat \ {0}, count : 0..workflowEvents]
    BY <1>1 DEF UsageInit
  <2>7. marks \in [started : MarkRec, ended : MarkRec]
    BY DEF UsageInit, None, MarkRec
  <2> QED BY <2>1, <2>2, <2>3, <2>4, <2>5, <2>6, <2>7, <2>8 DEF UsageTypeOK
<1>3. ScheduleOK
  BY DEF UsageInit, ScheduleOK
<1>4. TicksAccounted
  BY DEF UsageInit, TicksAccounted
<1>5. MarksOK /\ WorkflowCountsReal
  BY DEF UsageInit, MarksOK, WorkflowCountsReal, WorkflowAvailable, None
<1> QED BY <1>2, <1>3, <1>4, <1>5 DEF UsageInv

\* The resource sampler (locustfile.py, runtime.py): for any interval, any pods
\* and any clock, through slow and failed requests, restarts and lost places,
\* every tick of the schedule is sampled once or counted as skipped, and a
\* workflow count that is reported is the events between its two readings.
THEOREM SamplesAccountedFor ==
  ASSUME UsageAssumption
  PROVE  UsageSpec => []SamplesAccounted
<1>1. UsageInit => UsageInv
  BY UsageStart
<1>2. UsageInv /\ [UsageNext]_usageVars => UsageInv'
  <2> SUFFICES ASSUME UsageInv, [UsageNext]_usageVars PROVE UsageInv'
    OBVIOUS
  <2>1. CASE (\E p \in Pods : Work(p) \/ Restart(p)) \/ Refresh \/ Tick
    BY <2>1, TargetSteps
  <2>2. CASE WorkflowEvent \/ ObserverLoses
    BY <2>2, WorkflowSteps
  <2>3. CASE Start \/ Stopped
    BY <2>3, StartStep, StoppedStep
  <2>4. CASE SampleBegins \/ Stop \/ SampleEnds
    BY <2>4, WaitingSteps, SampleEndsStep
  <2>5. CASE UNCHANGED usageVars
    <3>1. /\ UNCHANGED sampler
          /\ UNCHANGED <<now, counter, used, cadvisor, cache, samplerPc, begun, next, skipped, stop, records,
                         workflowEvents, workflowObserver, marks, faults>>
      BY <2>5 DEF usageVars, sampler
    <3>2. UsageTypeOK' /\ MarksOK'
      BY <3>1 DEF UsageInv, UsageTypeOK, MarksOK
    <3> QED BY <3>1, <3>2, SamplerKept DEF UsageInv
  <2> QED BY <2>1, <2>2, <2>3, <2>4, <2>5 DEF UsageNext
<1>3. UsageInv => SamplesAccounted
  BY DEF UsageInv, SamplesAccounted
<1> QED BY <1>1, <1>2, <1>3, PTL DEF UsageSpec

----------------------------------------------------------------------------
(* The plan of a run                                                       *)

\* Every ordinal belongs to exactly one of the workers.
LEMMA OrdinalsPartition ==
  ASSUME NEW count \in Int, NEW n \in Nat \ {0}
  PROVE  /\ \A k \in 0..(count - 1) : \E w \in 0..(n - 1) : k \in Ordinals(count, w, n)
         /\ \A v, w \in 0..(n - 1) : v # w => Ordinals(count, v, n) \cap Ordinals(count, w, n) = {}
<1>1. ASSUME NEW k \in 0..(count - 1)
      PROVE  \E w \in 0..(n - 1) : k \in Ordinals(count, w, n)
  <2> DEFINE q == k \div n
             w == k - q * n
  <2>1. q \in Int /\ q * n <= k /\ k < q * n + n /\ q \in Nat /\ q * n \in Nat
    BY Division, Multiples
  <2>2. w \in 0..(n - 1) /\ w <= k /\ k - w = q * n
    BY <2>1
  <2>3. (q * n) % n = 0
    <3>1. q * n = n * q
      BY <2>1
    <3> HIDE DEF q
    <3>2. (n * q) % n = 0
      <4>1. (q * n) \div n = q
        BY <2>1, Quotients
      <4> QED BY <2>1, <3>1, <4>1
    <3> QED BY <3>1, <3>2
  <2>4. k \in Ordinals(count, w, n)
    BY <2>2, <2>3 DEF Ordinals
  <2> QED BY <2>2, <2>4
<1>2. ASSUME NEW v \in 0..(n - 1), NEW w \in 0..(n - 1),
             NEW k \in Ordinals(count, v, n) \cap Ordinals(count, w, n)
      PROVE  v = w
  <2> DEFINE a == (k - v) \div n
             b == (k - w) \div n
  <2>1. k \in Int /\ k - v \in Int /\ k - w \in Int /\ (k - v) % n = 0 /\ (k - w) % n = 0
    BY DEF Ordinals
  <2>2. a \in Int /\ b \in Int /\ a * n \in Int /\ b * n \in Int
    BY <2>1, Division, Multiples
  <2>3. k - v = a * n /\ k - w = b * n
    BY <2>1
  <2> HIDE DEF a, b
  <2>4. (a + 1) * n = a * n + n /\ (b + 1) * n = b * n + n
    BY <2>2, Multiples
  <2>5. a * n < (b + 1) * n /\ b * n < (a + 1) * n
    BY <2>1, <2>2, <2>3, <2>4
  <2>6. a < b + 1 /\ b < a + 1
    BY <2>2, <2>5, Multiples
  <2>7. a = b
    BY <2>2, <2>6
  <2> QED BY <2>1, <2>2, <2>3, <2>7
<1> QED BY <1>1, <1>2

LEMMA ExtremeOfTwo ==
  ASSUME NEW a \in Int, NEW b \in Int
  PROVE  /\ Max({a, b}) \in Int /\ Max({a, b}) >= a /\ Max({a, b}) >= b
         /\ Min({a, b}) \in Int
<1>1. \E x \in {a, b} : \A y \in {a, b} : x >= y
  BY a >= b \/ b >= a
<1>2. \E x \in {a, b} : \A y \in {a, b} : x <= y
  BY a >= b \/ b >= a
<1> QED BY <1>1, <1>2 DEF Max, Min

LEMMA CeilIsInt ==
  ASSUME NEW a \in Int, NEW b \in Nat \ {0}
  PROVE  Ceil(a, b) \in Int
<1>1. a + b - 1 \in Int
  OBVIOUS
<1> QED BY <1>1, Division DEF Ceil

LEMMA RequestFields ==
  ASSUME PlanAssumption, NEW c \in Requests
  PROVE  /\ c.rate \in Nat /\ c.users \in Nat /\ c.seconds \in Nat /\ c.start \in Nat /\ c.max \in Nat
         /\ c.collect \in BOOLEAN /\ c.workload \in Workloads
         /\ {Unit, MaxOpen, MaxClosed, StepRate, StepSeconds} \subseteq Nat \ {0}
<1>1. /\ {Unit, MinRate, MaxOpen, MaxClosed, StepRate, StepSeconds} \subseteq Nat \ {0}
      /\ Rates \subseteq Nat /\ Users \subseteq Nat /\ Durations \subseteq Nat
  BY DEF PlanAssumption, SplitAssumption
<1>2. /\ c.rate \in Rates /\ c.users \in Users /\ c.seconds \in Durations /\ c.start \in {MinRate, MaxOpen}
      /\ c.max \in Rates /\ c.workload \in Workloads
  BY DEF Requests
<1>3. c.collect \in BOOLEAN
  BY DEF Requests
<1> QED BY <1>1, <1>2, <1>3

LEMMA PlanNumbers ==
  ASSUME PlanAssumption, NEW c \in Requests
  PROVE  /\ WorkerCount(c) \in Nat \ {0}
         /\ \A r \in Int : Scheduled(c, r) \in Int
         /\ StepCount(c) \in Int
<1>1. /\ c.rate \in Nat /\ c.users \in Nat /\ c.seconds \in Nat /\ c.start \in Nat /\ c.max \in Nat
      /\ c.workload \in Workloads
      /\ Unit \in Nat \ {0} /\ MaxOpen \in Nat \ {0} /\ MaxClosed \in Nat \ {0} /\ StepRate \in Nat \ {0}
      /\ StepSeconds \in Nat \ {0}
  BY RequestFields
<1>2. StepCount(c) \in Int
  BY <1>1, CeilIsInt DEF StepCount
<1>3. EffectiveMax(c) \in Int
  <2>1. c.start + (StepCount(c) - 1) * StepRate \in Int
    BY <1>1, <1>2
  <2>2. c.max \in Int
    BY <1>1
  <2> QED BY <2>1, <2>2, ExtremeOfTwo, Zenon DEF EffectiveMax
<1>4. WorkerCount(c) \in Nat \ {0}
  <2>1. ASSUME NEW needed \in Int PROVE Max({1, needed}) \in Nat \ {0}
    <3>1. Max({1, needed}) \in Int /\ Max({1, needed}) >= 1
      BY 1 \in Int, ExtremeOfTwo, Zenon
    <3> QED BY <3>1
  <2>2. Ceil(c.rate, MaxOpen) \in Int /\ Ceil(EffectiveMax(c), MaxOpen) \in Int /\ Ceil(c.users, MaxClosed) \in Int
    BY <1>1, <1>3, CeilIsInt
  <2>3. CASE c.workload \in {"open", "fault_tolerance"}
    BY <2>1, <2>2, <2>3 DEF WorkerCount
  <2>4. CASE c.workload = "saturation"
    BY <2>1, <2>2, <2>4 DEF WorkerCount
  <2>5. CASE c.workload = "closed"
    BY <2>1, <2>2, <2>5 DEF WorkerCount
  <2> QED BY <1>1, <2>3, <2>4, <2>5 DEF Workloads
<1>5. ASSUME NEW r \in Int PROVE Scheduled(c, r) \in Int
  <2>1. /\ c.start + r * StepRate \in Int /\ c.seconds - r * StepSeconds \in Int
        /\ c.max \in Int /\ StepSeconds \in Int
    BY <1>1
  <2>2. TargetRate(c, r) \in Int /\ RungSeconds(c, r) \in Int
    BY <2>1, ExtremeOfTwo, Zenon DEF TargetRate, RungSeconds
  <2>3. TargetRate(c, r) * RungSeconds(c, r) \in Int
    BY <2>2
  <2> QED BY <1>1, <2>3, CeilIsInt DEF Scheduled
<1> QED BY <1>2, <1>4, <1>5

LEMMA SamplesOnce ==
  ASSUME PlanAssumption, PlanInv
  PROVE  OneSampler
<1> SUFFICES ASSUME phase = "split"
             PROVE  Cardinality({w \in Indexes : Share(w).collect}) = (IF config.collect THEN 1 ELSE 0)
  BY DEF OneSampler
<1>1. config \in Requests /\ WorkerCount(config) \in Nat \ {0} /\ config.workload \in Workloads
      /\ config.collect \in BOOLEAN
  BY PlanNumbers, RequestFields DEF PlanInv
<1>2. Indexes = 0..(WorkerCount(config) - 1) /\ 0 \in Indexes
  BY <1>1 DEF Indexes
<1>3. \A w \in Indexes : Share(w).collect = (config.collect /\ w = 0)
  <2>1. /\ \A v : [config EXCEPT !.collect = v].collect = v
        /\ \A v, x : [[config EXCEPT !.collect = v] EXCEPT !.rate = x].collect = v
        /\ \A v, x : [[config EXCEPT !.collect = v] EXCEPT !.users = x].collect = v
    BY <1>1 DEF Requests
  <2>2. CASE config.workload \in {"open", "fault_tolerance"}
    BY <2>1, <2>2 DEF Share, ForWorker
  <2>3. CASE config.workload = "saturation"
    BY <2>1, <2>3 DEF Share, ForWorker
  <2>4. CASE config.workload = "closed"
    <3>1. ASSUME NEW w \in Indexes
          PROVE  \E x : Share(w) = [[config EXCEPT !.collect = config.collect /\ w = 0] EXCEPT !.users = x]
      BY <2>4 DEF Share, ForWorker
    <3> SUFFICES ASSUME NEW w \in Indexes
                 PROVE  Share(w).collect = (config.collect /\ w = 0)
      OBVIOUS
    <3> DEFINE v == config.collect /\ w = 0
    <3>2. PICK x : Share(w) = [[config EXCEPT !.collect = v] EXCEPT !.users = x]
      BY <3>1, Zenon
    <3>3. [[config EXCEPT !.collect = v] EXCEPT !.users = x].collect = v
      BY <2>1, Zenon
    <3> QED BY <3>2, <3>3, Zenon
  <2> QED BY <1>1, <2>2, <2>3, <2>4 DEF Workloads
<1>4. CASE config.collect
  <2>1. {w \in Indexes : Share(w).collect} = {0}
    BY <1>2, <1>3, <1>4
  <2> QED BY <1>4, <2>1, FS_Singleton
<1>5. CASE ~config.collect
  <2>1. {w \in Indexes : Share(w).collect} = {}
    BY <1>3, <1>5
  <2> QED BY <1>5, <2>1, FS_EmptySet
<1> QED BY <1>4, <1>5

LEMMA RungsAreShared ==
  ASSUME PlanAssumption, PlanInv
  PROVE  RungsShared
<1> SUFFICES ASSUME AllEnded, config.workload = "saturation"
             PROVE  /\ UNION {scheduled[w] : w \in Indexes} =
                          UNION {{r} \X (0..(Scheduled(config, r) - 1)) : r \in PlannedRungs}
                    /\ \A v, w \in Indexes : v # w => scheduled[v] \cap scheduled[w] = {}
  BY DEF RungsShared
<1> DEFINE n == WorkerCount(config)
<1>1. config \in Requests /\ n \in Nat \ {0} /\ StepCount(config) \in Int
  BY PlanNumbers DEF PlanInv
<1>2. Indexes = 0..(n - 1) /\ PlannedRungs = 0..(StepCount(config) - 1)
  BY DEF AllEnded, Indexes, PlannedRungs
<1>3. \A r \in PlannedRungs : Scheduled(config, r) \in Int
  BY <1>1, <1>2, PlanNumbers
<1>4. \A w, r : Requested(w, r) = Ordinals(Scheduled(config, r), w, n)
  BY DEF Requested
<1> HIDE DEF n
<1>5. ASSUME NEW w \in Indexes
      PROVE  \A x : x \in scheduled[w] <=> \E r \in PlannedRungs : \E k \in Requested(w, r) : x = <<r, k>>
  <2>1. /\ \A x \in scheduled[w] : \E r \in PlannedRungs : \E k \in Requested(w, r) : x = <<r, k>>
        /\ \A x \in scheduled[w] : \A k \in Requested(w, x[1]) : <<x[1], k>> \in scheduled[w]
        /\ \A r \in PlannedRungs : Requested(w, r) # {} => \E x \in scheduled[w] : x[1] = r
    BY <1>5 DEF PlanInv, ScheduledOK, AllEnded
  <2>2. ASSUME NEW r \in PlannedRungs, NEW k \in Requested(w, r) PROVE <<r, k>> \in scheduled[w]
    <3>1. PICK x \in scheduled[w] : x[1] = r
      BY <2>1, <2>2
    <3> QED BY <2>1, <3>1
  <2> QED BY <2>1, <2>2
<1>6. \A v, w \in Indexes : v # w => scheduled[v] \cap scheduled[w] = {}
  <2> SUFFICES ASSUME NEW v \in Indexes, NEW w \in Indexes, v # w, NEW x \in scheduled[v] \cap scheduled[w] PROVE FALSE
    OBVIOUS
  <2>1. PICK r \in PlannedRungs : \E k \in Requested(v, r) : x = <<r, k>>
    BY <1>5
  <2>2. PICK k \in Requested(v, r) : x = <<r, k>>
    BY <2>1
  <2>3. k \in Requested(w, r)
    BY <1>5, <2>2
  <2> QED BY <1>1, <1>2, <1>3, <1>4, <2>2, <2>3, OrdinalsPartition
<1>7. ASSUME NEW w \in Indexes, NEW x \in scheduled[w]
      PROVE  x \in UNION {{r} \X (0..(Scheduled(config, r) - 1)) : r \in PlannedRungs}
  <2>1. PICK r \in PlannedRungs : \E k \in Requested(w, r) : x = <<r, k>>
    BY <1>5
  <2>2. x \in {r} \X (0..(Scheduled(config, r) - 1))
    BY <1>4, <2>1 DEF Ordinals
  <2> QED BY <2>1, <2>2
<1>8. ASSUME NEW r \in PlannedRungs, NEW x \in {r} \X (0..(Scheduled(config, r) - 1))
      PROVE  \E w \in Indexes : x \in scheduled[w]
  <2>1. PICK k \in 0..(Scheduled(config, r) - 1) : x = <<r, k>>
    BY <1>8
  <2>2. PICK w \in Indexes : k \in Requested(w, r)
    BY <1>1, <1>2, <1>3, <1>4, OrdinalsPartition
  <2> QED BY <1>5, <2>1, <2>2
<1> QED BY <1>6, <1>7, <1>8

LEMMA PlanSteps ==
  ASSUME PlanAssumption, PlanInv, [PlanNext]_planVars
  PROVE  PlanInv'
<1>0. /\ config \in Requests /\ phase \in {"request", "refused", "split"}
      /\ DOMAIN status = Indexes /\ DOMAIN scheduled = Indexes
      /\ status = [w \in Indexes |-> status[w]] /\ scheduled = [w \in Indexes |-> scheduled[w]]
      /\ ScheduledOK
  BY DEF PlanInv
<1>1. CASE Submit
  <2>1. /\ config' = config /\ phase' \in {"refused", "split"}
        /\ status' = [w \in Indexes' |-> "none"] /\ scheduled' = [w \in Indexes' |-> {}]
    BY <1>1 DEF Submit, Indexes
  <2>2. ScheduledOK'
    BY <2>1 DEF ScheduledOK
  <2>3. /\ DOMAIN status' = Indexes' /\ DOMAIN scheduled' = Indexes'
        /\ status' = [w \in Indexes' |-> status'[w]] /\ scheduled' = [w \in Indexes' |-> scheduled'[w]]
    BY <2>1
  <2> QED BY <1>0, <2>1, <2>2, <2>3 DEF PlanInv
<1>2. ASSUME UNCHANGED <<config, phase>>
      PROVE  /\ Indexes' = Indexes /\ PlannedRungs' = PlannedRungs
             /\ \A w, r : Requested(w, r)' = Requested(w, r)
  BY <1>2 DEF Indexes, PlannedRungs, Requested, Share
<1>3. ASSUME NEW w \in Indexes, NEW i \in PlannedRungs, Send(w, i)
      PROVE  PlanInv'
  <2>1. /\ scheduled' = [scheduled EXCEPT ![w] = scheduled[w] \cup ({i} \X Requested(w, i))]
        /\ status[w] = "running" /\ UNCHANGED <<config, phase, status>>
    BY <1>3 DEF Send
  <2>2. /\ Indexes' = Indexes /\ PlannedRungs' = PlannedRungs
        /\ \A v, r : Requested(v, r)' = Requested(v, r)
    BY <1>2, <2>1
  <2>3. /\ DOMAIN scheduled' = Indexes /\ scheduled' = [v \in Indexes |-> scheduled'[v]]
        /\ scheduled'[w] = scheduled[w] \cup ({i} \X Requested(w, i))
        /\ \A v \in Indexes : v # w => scheduled'[v] = scheduled[v]
    BY <1>0, <2>1
  <2>4. ASSUME NEW v \in Indexes
        PROVE  /\ \A x \in scheduled'[v] : \E r \in PlannedRungs : \E k \in Requested(v, r) : x = <<r, k>>
               /\ \A x \in scheduled'[v] : \A k \in Requested(v, x[1]) : <<x[1], k>> \in scheduled'[v]
               /\ status[v] = "ended" =>
                     \A r \in PlannedRungs : Requested(v, r) # {} => \E x \in scheduled'[v] : x[1] = r
    <3>0. /\ \A x \in scheduled[v] : \E r \in PlannedRungs : \E k \in Requested(v, r) : x = <<r, k>>
          /\ \A x \in scheduled[v] : \A k \in Requested(v, x[1]) : <<x[1], k>> \in scheduled[v]
          /\ status[v] = "ended" =>
                \A r \in PlannedRungs : Requested(v, r) # {} => \E x \in scheduled[v] : x[1] = r
      BY <1>0 DEF ScheduledOK
    <3>1. CASE v # w
      BY <2>3, <3>0, <3>1
    <3>2. CASE v = w
      <4>1. \A x : x \in scheduled'[w] <=> x \in scheduled[w] \/ \E k \in Requested(w, i) : x = <<i, k>>
        BY <2>3
      <4>2. \A x \in scheduled'[w] : \E r \in PlannedRungs : \E k \in Requested(w, r) : x = <<r, k>>
        BY <3>0, <3>2, <4>1
      <4>3. ASSUME NEW x \in scheduled'[w], NEW k \in Requested(w, x[1]) PROVE <<x[1], k>> \in scheduled'[w]
        <5>1. CASE x \in scheduled[w]
          BY <3>0, <3>2, <4>1, <4>3, <5>1
        <5>2. CASE \E l \in Requested(w, i) : x = <<i, l>>
          BY <4>1, <4>3, <5>2
        <5> QED BY <4>1, <4>3, <5>1, <5>2
      <4> QED BY <2>1, <3>2, <4>2, <4>3
    <3> QED BY <3>1, <3>2
  <2>5. ScheduledOK'
    BY <2>1, <2>2, <2>4 DEF ScheduledOK
  <2> QED BY <1>0, <2>1, <2>2, <2>3, <2>5 DEF PlanInv
<1>4. ASSUME NEW w \in Indexes, Load(w) \/ Finish(w)
      PROVE  PlanInv'
  <2>1. /\ UNCHANGED <<config, phase, scheduled>>
        /\ \E s \in {"running", "failed", "ended"} :
              /\ status' = [status EXCEPT ![w] = s]
              /\ s = "ended" =>
                    {x[1] : x \in scheduled[w]} = {r \in PlannedRungs : Requested(w, r) # {}}
    BY <1>4 DEF Load, Finish
  <2>2. PICK s \in {"running", "failed", "ended"} :
              /\ status' = [status EXCEPT ![w] = s]
              /\ s = "ended" =>
                    {x[1] : x \in scheduled[w]} = {r \in PlannedRungs : Requested(w, r) # {}}
    BY <2>1
  <2>3. /\ Indexes' = Indexes /\ PlannedRungs' = PlannedRungs
        /\ \A v, r : Requested(v, r)' = Requested(v, r)
    BY <1>2, <2>1
  <2>4. /\ DOMAIN status' = Indexes /\ status' = [v \in Indexes |-> status'[v]]
        /\ status'[w] = s /\ \A v \in Indexes : v # w => status'[v] = status[v]
    BY <1>0, <2>2
  <2>5. s = "ended" => \A r \in PlannedRungs : Requested(w, r) # {} => \E x \in scheduled[w] : x[1] = r
    <3> SUFFICES ASSUME s = "ended", NEW r \in PlannedRungs, Requested(w, r) # {}
                 PROVE  \E x \in scheduled[w] : x[1] = r
      OBVIOUS
    <3>1. r \in {x[1] : x \in scheduled[w]}
      BY <2>2
    <3> QED BY <3>1
  <2>6. ScheduledOK'
    BY <1>0, <2>1, <2>3, <2>4, <2>5 DEF ScheduledOK
  <2> QED BY <1>0, <2>1, <2>3, <2>4, <2>6 DEF PlanInv
<1>5. CASE UNCHANGED planVars
  <2>1. UNCHANGED <<config, phase, status, scheduled>>
    BY <1>5 DEF planVars
  <2>2. /\ Indexes' = Indexes /\ PlannedRungs' = PlannedRungs
        /\ \A v, r : Requested(v, r)' = Requested(v, r)
    BY <1>2, <2>1
  <2>3. ScheduledOK'
    BY <1>0, <2>1, <2>2 DEF ScheduledOK
  <2> QED BY <1>0, <2>1, <2>2, <2>3 DEF PlanInv
<1> QED BY <1>1, <1>3, <1>4, <1>5 DEF PlanNext

\* The division of the load (config.py, locustfile.py): for any limits and any
\* requests, when the workers of a saturation run are through, every scheduled
\* request of every rung was taken up by one worker and no other, and the target is
\* sampled by exactly one worker if metrics are wanted.
THEOREM PlanDivided ==
  ASSUME PlanAssumption
  PROVE  PlanSpec => [](RungsShared /\ OneSampler)
<1>1. PlanInit => PlanInv
  <2> SUFFICES ASSUME PlanInit PROVE PlanInv
    OBVIOUS
  <2>1. config \in Requests /\ phase = "request" /\ status = << >> /\ scheduled = << >>
    BY DEF PlanInit
  <2>2. Indexes = {}
    BY <2>1 DEF Indexes
  <2>3. << >> = [w \in {} |-> << >>[w]] /\ DOMAIN << >> = {}
    OBVIOUS
  <2> QED BY <2>1, <2>2, <2>3 DEF PlanInv, ScheduledOK
<1>2. PlanInv /\ [PlanNext]_planVars => PlanInv'
  BY PlanSteps
<1>3. PlanInv => RungsShared /\ OneSampler
  BY RungsAreShared, SamplesOnce
<1> QED BY <1>1, <1>2, <1>3, PTL DEF PlanSpec
==============================================================================
