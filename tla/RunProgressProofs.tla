-------------------------- MODULE RunProgressProofs --------------------------
(***************************************************************************)
(* Proofs about the pods of one benchmark run, for any set of workers and  *)
(* any number of faults, and about the injection of faults, for any number *)
(* of deployments, replicas, Locust processes and failing calls: the       *)
(* cluster is restored or the failure to restore it is on record.          *)
(***************************************************************************)
EXTENDS BenchmarkWorkers, FaultInjection, FiniteSetTheorems, TLAPS

----------------------------------------------------------------------------
(* The pods of a run                                                       *)

LEMMA WorkersInitInv ==
  ASSUME WorkersAssumption PROVE WorkersInit => WorkersInv
<1> SUFFICES ASSUME WorkersInit PROVE WorkersInv
  OBVIOUS
<1>1. /\ start \in BOOLEAN /\ uploaded \in BOOLEAN
      /\ requested \in BOOLEAN /\ deleted \in BOOLEAN
  BY Zenon DEF WorkersInit
<1>2. stop \in [Workers -> BOOLEAN]
  BY DEF WorkersInit
<1>3. WorkersTypeOK
  BY <1>1, <1>2 DEF WorkersInit, WorkersTypeOK, WorkersAssumption, Pcs, Statuses,
         ActiveStates, TerminalStates
<1>4. BarrierOK
  BY DEF WorkersInit, BarrierOK, Passed, WorkersAssumption
<1>5. ResultsOK
  BY DEF WorkersInit, ResultsOK, WorkersAssumption
<1>6. VerdictOK
  BY DEF WorkersInit, VerdictOK, WorkersAssumption
<1> QED BY <1>3, <1>4, <1>5, <1>6 DEF WorkersInv

LEMMA WorkerStepInv ==
  ASSUME WorkersAssumption, WorkersInv, NEW w \in Workers,
         WorkerStep(w) \/ CallFails(w) \/ Signal(w) \/ PodLost(w) \/ Collect(w)
  PROVE  WorkersInv'
<1>1. /\ Coordinator \in Workers /\ MaxFaults \in Nat
      /\ WorkersTypeOK /\ BarrierOK /\ ResultsOK /\ VerdictOK
  BY DEF WorkersAssumption, WorkersInv
<1>2. pc \in [Workers -> Pcs]
  BY <1>1 DEF WorkersTypeOK
<1>3. CASE Setup(w)
  <2>1. WorkersTypeOK'
    BY <1>1, <1>3 DEF Setup, Goto, WorkersTypeOK, ResultsOK, Pcs, Statuses,
         ActiveStates, TerminalStates, objects, control
  <2>2. BarrierOK'
    BY <1>1, <1>2, <1>3 DEF Setup, Goto, BarrierOK, Passed, WorkersTypeOK, objects, control
  <2>3. ResultsOK'
    BY <1>1, <1>2, <1>3 DEF Setup, Goto, ResultsOK, WorkersTypeOK, objects, control
  <2>4. VerdictOK'
    BY <1>1, <1>2, <1>3 DEF Setup, Goto, VerdictOK, ResultsOK, WorkersTypeOK, objects, control
  <2> QED BY <2>1, <2>2, <2>3, <2>4 DEF WorkersInv
<1>4. CASE Arrive(w)
  <2>1. WorkersTypeOK'
    BY <1>1, <1>4 DEF Arrive, Goto, WorkersTypeOK, ResultsOK, Pcs, Statuses,
         ActiveStates, TerminalStates, objects, control
  <2>2. BarrierOK'
    BY <1>1, <1>2, <1>4 DEF Arrive, Goto, BarrierOK, Passed, WorkersTypeOK, objects, control
  <2>3. ResultsOK'
    BY <1>1, <1>2, <1>4 DEF Arrive, Goto, ResultsOK, WorkersTypeOK, objects, control
  <2>4. VerdictOK'
    BY <1>1, <1>2, <1>4 DEF Arrive, Goto, VerdictOK, ResultsOK, WorkersTypeOK, objects, control
  <2> QED BY <2>1, <2>2, <2>3, <2>4 DEF WorkersInv
<1>5. CASE PassBarrier(w)
  <2>1. WorkersTypeOK'
    BY <1>1, <1>5 DEF PassBarrier, Goto, WorkersTypeOK, ResultsOK, Pcs, Statuses,
         ActiveStates, TerminalStates, objects, control
  <2>2. BarrierOK'
    BY <1>1, <1>2, <1>5 DEF PassBarrier, Goto, BarrierOK, Passed, WorkersTypeOK, objects, control
  <2>3. ResultsOK'
    BY <1>1, <1>2, <1>5 DEF PassBarrier, Goto, ResultsOK, WorkersTypeOK, objects, control
  <2>4. VerdictOK'
    BY <1>1, <1>2, <1>5 DEF PassBarrier, Goto, VerdictOK, ResultsOK, WorkersTypeOK, objects, control
  <2> QED BY <2>1, <2>2, <2>3, <2>4 DEF WorkersInv
<1>6. CASE Interrupted(w)
  <2>1. WorkersTypeOK'
    BY <1>1, <1>6 DEF Interrupted, Goto, WorkersTypeOK, ResultsOK, Pcs, Statuses,
         ActiveStates, TerminalStates, objects, control
  <2>2. BarrierOK'
    BY <1>1, <1>2, <1>6 DEF Interrupted, Goto, BarrierOK, Passed, WorkersTypeOK, objects, control
  <2>3. ResultsOK'
    BY <1>1, <1>2, <1>6 DEF Interrupted, Goto, ResultsOK, WorkersTypeOK, objects, control
  <2>4. VerdictOK'
    BY <1>1, <1>2, <1>6 DEF Interrupted, Goto, VerdictOK, ResultsOK, WorkersTypeOK, objects, control
  <2> QED BY <2>1, <2>2, <2>3, <2>4 DEF WorkersInv
<1>7. CASE Launch(w)
  <2>1. WorkersTypeOK'
    BY <1>1, <1>7 DEF Launch, Goto, WorkersTypeOK, ResultsOK, Pcs, Statuses,
         ActiveStates, TerminalStates, objects, control
  <2>2. BarrierOK'
    BY <1>1, <1>2, <1>7 DEF Launch, Goto, BarrierOK, Passed, WorkersTypeOK, objects, control
  <2>3. ResultsOK'
    BY <1>1, <1>2, <1>7 DEF Launch, Goto, ResultsOK, WorkersTypeOK, objects, control
  <2>4. VerdictOK'
    BY <1>1, <1>2, <1>7 DEF Launch, Goto, VerdictOK, ResultsOK, WorkersTypeOK, objects, control
  <2> QED BY <2>1, <2>2, <2>3, <2>4 DEF WorkersInv
<1>8. CASE LocustEnds(w)
  <2>1. WorkersTypeOK'
    BY <1>1, <1>8 DEF LocustEnds, Goto, WorkersTypeOK, ResultsOK, Pcs, Statuses,
         ActiveStates, TerminalStates, objects, control
  <2>2. BarrierOK'
    BY <1>1, <1>2, <1>8 DEF LocustEnds, Goto, BarrierOK, Passed, WorkersTypeOK, objects, control
  <2>3. ResultsOK'
    BY <1>1, <1>2, <1>8 DEF LocustEnds, Goto, ResultsOK, WorkersTypeOK, objects, control
  <2>4. VerdictOK'
    BY <1>1, <1>2, <1>8 DEF LocustEnds, Goto, VerdictOK, ResultsOK, WorkersTypeOK, objects, control
  <2> QED BY <2>1, <2>2, <2>3, <2>4 DEF WorkersInv
<1>9. CASE PutResult(w)
  <2>1. WorkersTypeOK'
    BY <1>1, <1>9 DEF PutResult, Goto, WorkersTypeOK, ResultsOK, Pcs, Statuses,
         ActiveStates, TerminalStates, objects, control
  <2>2. BarrierOK'
    BY <1>1, <1>2, <1>9 DEF PutResult, Goto, BarrierOK, Passed, WorkersTypeOK, objects, control
  <2>3. ResultsOK'
    BY <1>1, <1>2, <1>9 DEF PutResult, Goto, ResultsOK, WorkersTypeOK, objects, control
  <2>4. VerdictOK'
    BY <1>1, <1>2, <1>9 DEF PutResult, Goto, VerdictOK, ResultsOK, WorkersTypeOK, objects, control
  <2> QED BY <2>1, <2>2, <2>3, <2>4 DEF WorkersInv
<1>10. CASE HandleError(w)
  <2>1. WorkersTypeOK'
    BY <1>1, <1>10 DEF HandleError, Goto, WorkersTypeOK, ResultsOK, Pcs, Statuses,
         ActiveStates, TerminalStates, objects, control
  <2>2. BarrierOK'
    BY <1>1, <1>2, <1>10 DEF HandleError, Goto, BarrierOK, Passed, WorkersTypeOK, objects, control
  <2>3. ResultsOK'
    BY <1>1, <1>2, <1>10 DEF HandleError, Goto, ResultsOK, WorkersTypeOK, objects, control
  <2>4. VerdictOK'
    BY <1>1, <1>2, <1>10 DEF HandleError, Goto, VerdictOK, ResultsOK, WorkersTypeOK, objects, control
  <2> QED BY <2>1, <2>2, <2>3, <2>4 DEF WorkersInv
<1>11. CASE TimesOut(w)
  <2>1. WorkersTypeOK'
    BY <1>1, <1>11 DEF TimesOut, Goto, WorkersTypeOK, ResultsOK, Pcs, Statuses,
         ActiveStates, TerminalStates, objects, control
  <2>2. BarrierOK'
    BY <1>1, <1>2, <1>11 DEF TimesOut, Goto, BarrierOK, Passed, WorkersTypeOK, objects, control
  <2>3. ResultsOK'
    BY <1>1, <1>2, <1>11 DEF TimesOut, Goto, ResultsOK, WorkersTypeOK, objects, control
  <2>4. VerdictOK'
    BY <1>1, <1>2, <1>11 DEF TimesOut, Goto, VerdictOK, ResultsOK, WorkersTypeOK, objects, control
  <2> QED BY <2>1, <2>2, <2>3, <2>4 DEF WorkersInv
<1>12. CASE CallFails(w)
  <2>1. WorkersTypeOK'
    BY <1>1, <1>12 DEF CallFails, Goto, Fault, WorkersTypeOK, ResultsOK, Pcs, Statuses,
         ActiveStates, TerminalStates, objects, control
  <2>2. BarrierOK'
    BY <1>1, <1>2, <1>12 DEF CallFails, Goto, BarrierOK, Passed, WorkersTypeOK, objects, control
  <2>3. ResultsOK'
    BY <1>1, <1>2, <1>12 DEF CallFails, Goto, ResultsOK, WorkersTypeOK, objects, control
  <2>4. VerdictOK'
    BY <1>1, <1>2, <1>12 DEF CallFails, Goto, VerdictOK, ResultsOK, WorkersTypeOK, objects, control
  <2> QED BY <2>1, <2>2, <2>3, <2>4 DEF WorkersInv
<1>13. CASE Signal(w)
  <2>1. WorkersTypeOK'
    BY <1>1, <1>13 DEF Signal, Fault, WorkersTypeOK, ResultsOK, Pcs, Statuses,
         ActiveStates, TerminalStates, objects, control
  <2>2. BarrierOK'
    BY <1>1, <1>2, <1>13 DEF Signal, BarrierOK, Passed, WorkersTypeOK, objects, control
  <2>3. ResultsOK'
    BY <1>1, <1>2, <1>13 DEF Signal, ResultsOK, WorkersTypeOK, objects, control
  <2>4. VerdictOK'
    BY <1>1, <1>2, <1>13 DEF Signal, VerdictOK, ResultsOK, WorkersTypeOK, objects, control
  <2> QED BY <2>1, <2>2, <2>3, <2>4 DEF WorkersInv
<1>14. CASE PodLost(w)
  <2>1. WorkersTypeOK'
    BY <1>1, <1>14 DEF PodLost, Goto, Fault, WorkersTypeOK, ResultsOK, Pcs, Statuses,
         ActiveStates, TerminalStates, objects, control
  <2>2. BarrierOK'
    BY <1>1, <1>2, <1>14 DEF PodLost, Goto, BarrierOK, Passed, WorkersTypeOK, objects, control
  <2>3. ResultsOK'
    BY <1>1, <1>2, <1>14 DEF PodLost, Goto, ResultsOK, WorkersTypeOK, objects, control
  <2>4. VerdictOK'
    BY <1>1, <1>2, <1>14 DEF PodLost, Goto, VerdictOK, ResultsOK, WorkersTypeOK, objects, control
  <2> QED BY <2>1, <2>2, <2>3, <2>4 DEF WorkersInv
<1>15. CASE Collect(w)
  <2>1. WorkersTypeOK'
    BY <1>1, <1>15 DEF Collect, WorkersTypeOK, ResultsOK, Pcs, Statuses,
         ActiveStates, TerminalStates, objects, control
  <2>2. BarrierOK'
    BY <1>1, <1>2, <1>15 DEF Collect, BarrierOK, Passed, WorkersTypeOK, objects, control
  <2>3. ResultsOK'
    BY <1>1, <1>2, <1>15 DEF Collect, ResultsOK, WorkersTypeOK, objects, control
  <2>4. VerdictOK'
    BY <1>1, <1>2, <1>15 DEF Collect, VerdictOK, ResultsOK, WorkersTypeOK, objects, control
  <2> QED BY <2>1, <2>2, <2>3, <2>4 DEF WorkersInv
<1> QED
  BY <1>3, <1>4, <1>5, <1>6, <1>7, <1>8, <1>9, <1>10, <1>11, <1>12, <1>13, <1>14, <1>15 DEF WorkerStep

LEMMA CoordinatorStepInv ==
  ASSUME WorkersAssumption, WorkersInv,
         OpenBarrier \/ Collected \/ Decide \/ Upload \/ Finish \/ Cleanup
  PROVE  WorkersInv'
<1>1. /\ Coordinator \in Workers /\ MaxFaults \in Nat
      /\ WorkersTypeOK /\ BarrierOK /\ ResultsOK /\ VerdictOK
  BY DEF WorkersAssumption, WorkersInv
<1>2. pc \in [Workers -> Pcs]
  BY <1>1 DEF WorkersTypeOK
<1>3. CASE OpenBarrier
  <2>1. WorkersTypeOK'
    BY <1>1, <1>3 DEF OpenBarrier, Goto, AllReady, WorkersTypeOK, ResultsOK, Pcs, Statuses,
         ActiveStates, TerminalStates, objects, control
  <2>2. BarrierOK'
    BY <1>1, <1>2, <1>3 DEF OpenBarrier, Goto, AllReady, BarrierOK, Passed, WorkersTypeOK, objects, control
  <2>3. ResultsOK'
    BY <1>1, <1>2, <1>3 DEF OpenBarrier, Goto, AllReady, ResultsOK, WorkersTypeOK, objects, control
  <2>4. VerdictOK'
    BY <1>1, <1>2, <1>3 DEF OpenBarrier, Goto, AllReady, VerdictOK, ResultsOK, WorkersTypeOK, objects, control
  <2> QED BY <2>1, <2>2, <2>3, <2>4 DEF WorkersInv
<1>4. CASE Collected
  <2>1. WorkersTypeOK'
    BY <1>1, <1>4 DEF Collected, Goto, WorkersTypeOK, ResultsOK, Pcs, Statuses,
         ActiveStates, TerminalStates, objects, control
  <2>2. BarrierOK'
    BY <1>1, <1>2, <1>4 DEF Collected, Goto, BarrierOK, Passed, WorkersTypeOK, objects, control
  <2>3. ResultsOK'
    BY <1>1, <1>2, <1>4 DEF Collected, Goto, ResultsOK, WorkersTypeOK, objects, control
  <2>4. VerdictOK'
    BY <1>1, <1>2, <1>4 DEF Collected, Goto, VerdictOK, ResultsOK, WorkersTypeOK, objects, control
  <2> QED BY <2>1, <2>2, <2>3, <2>4 DEF WorkersInv
<1>5. CASE Decide
  <2>1. WorkersTypeOK'
    BY <1>1, <1>5 DEF Decide, Goto, Verdict, Fault, WorkersTypeOK, ResultsOK, Pcs, Statuses,
         ActiveStates, TerminalStates, objects, control
  <2>2. BarrierOK'
    BY <1>1, <1>2, <1>5 DEF Decide, Goto, Verdict, BarrierOK, Passed, WorkersTypeOK, objects, control
  <2>3. ResultsOK'
    BY <1>1, <1>2, <1>5 DEF Decide, Goto, Verdict, ResultsOK, WorkersTypeOK, objects, control
  <2>4. VerdictOK'
    <3>1. /\ pc[Coordinator] = "decide" /\ pc' = [pc EXCEPT ![Coordinator] = "upload"]
          /\ verdict' = Verdict \/ verdict' = "failed"
          /\ UNCHANGED <<outcome, collected, uploaded, record>>
      BY <1>5 DEF Decide, Goto
    <3>2. collected = Workers /\ \A w \in Workers : result[w] # "none" /\ outcome[w] = result[w]
      BY <1>1, <3>1 DEF ResultsOK
    <3>3. verdict' # "none"
      BY <3>1 DEF Verdict
    <3>4. \A w \in Workers \ {Coordinator} : pc'[w] = "end"
      BY <1>1, <1>2, <3>1, <3>2 DEF ResultsOK
    <3>5. verdict' = "completed" => \A w \in Workers : result[w] = "completed"
      <4>1. \A w \in Workers : result[w] \in {"completed", "failed", "stopped"}
        BY <1>1, <3>2 DEF WorkersTypeOK, Statuses
      <4> QED BY <3>1, <4>1 DEF Verdict
    <3>6. /\ pc'[Coordinator] = "upload"
          /\ record # "completed" /\ (record = "stopped" => requested)
      BY <1>1, <1>2, <3>1 DEF VerdictOK
    <3>7. /\ UNCHANGED <<requested, stopCall>>
          /\ stopCall \in {"delete", "stopped", "done"} => requested
      BY <1>1, <1>5 DEF Decide, control, VerdictOK
    <3> QED BY <3>1, <3>2, <3>3, <3>4, <3>5, <3>6, <3>7 DEF VerdictOK
  <2> QED BY <2>1, <2>2, <2>3, <2>4 DEF WorkersInv
<1>6. CASE Upload
  <2>1. WorkersTypeOK'
    BY <1>1, <1>6 DEF Upload, Goto, WorkersTypeOK, ResultsOK, Pcs, Statuses,
         ActiveStates, TerminalStates, objects, control
  <2>2. BarrierOK'
    BY <1>1, <1>2, <1>6 DEF Upload, Goto, BarrierOK, Passed, WorkersTypeOK, objects, control
  <2>3. ResultsOK'
    BY <1>1, <1>2, <1>6 DEF Upload, Goto, ResultsOK, WorkersTypeOK, objects, control
  <2>4. VerdictOK'
    BY <1>1, <1>2, <1>6 DEF Upload, Goto, VerdictOK, ResultsOK, WorkersTypeOK, objects, control
  <2> QED BY <2>1, <2>2, <2>3, <2>4 DEF WorkersInv
<1>7. CASE Finish
  <2>1. WorkersTypeOK'
    <3>1. verdict \in Statuses /\ pc' \in [Workers -> Pcs] /\ pc'[Coordinator] = "cleanup"
      BY <1>1, <1>2, <1>7 DEF Finish, Goto, WorkersTypeOK, VerdictOK, Pcs
    <3> QED
      BY <1>1, <1>7, <3>1
      DEF Finish, WorkersTypeOK, Statuses, ActiveStates, TerminalStates, objects, control
  <2>2. BarrierOK'
    BY <1>1, <1>2, <1>7 DEF Finish, Goto, BarrierOK, Passed, WorkersTypeOK, objects, control
  <2>3. ResultsOK'
    BY <1>1, <1>2, <1>7 DEF Finish, Goto, ResultsOK, WorkersTypeOK, objects, control
  <2>4. VerdictOK'
    BY <1>1, <1>2, <1>7 DEF Finish, Goto, VerdictOK, ResultsOK, WorkersTypeOK, objects, control
  <2> QED BY <2>1, <2>2, <2>3, <2>4 DEF WorkersInv
<1>8. CASE Cleanup
  <2>1. WorkersTypeOK'
    BY <1>1, <1>8 DEF Cleanup, Goto, WorkersTypeOK, ResultsOK, Pcs, Statuses,
         ActiveStates, TerminalStates, objects, control
  <2>2. BarrierOK'
    BY <1>1, <1>2, <1>8 DEF Cleanup, Goto, BarrierOK, Passed, WorkersTypeOK, objects, control
  <2>3. ResultsOK'
    BY <1>1, <1>2, <1>8 DEF Cleanup, Goto, ResultsOK, WorkersTypeOK, objects, control
  <2>4. VerdictOK'
    BY <1>1, <1>2, <1>8 DEF Cleanup, Goto, VerdictOK, ResultsOK, WorkersTypeOK, objects, control
  <2> QED BY <2>1, <2>2, <2>3, <2>4 DEF WorkersInv
<1> QED BY <1>3, <1>4, <1>5, <1>6, <1>7, <1>8

\* The API replicas write the record, and nothing of the pods.
LEMMA ControlStepInv ==
  ASSUME WorkersAssumption, WorkersInv, StopStep \/ Reconcile \/ JobExpires
  PROVE  WorkersInv'
<1>1. WorkersTypeOK /\ BarrierOK /\ ResultsOK /\ VerdictOK
  BY DEF WorkersInv
<1>2. CASE StopRequest
  <2>1. WorkersTypeOK'
    BY <1>1, <1>2 DEF StopRequest, WorkersTypeOK, Statuses, ActiveStates, TerminalStates,
         pods, objects, control
  <2>2. BarrierOK'
    BY <1>1, <1>2 DEF StopRequest, BarrierOK, Passed, pods, objects
  <2>3. ResultsOK'
    BY <1>1, <1>2 DEF StopRequest, ResultsOK, pods, objects
  <2>4. VerdictOK'
    BY <1>1, <1>2 DEF StopRequest, VerdictOK, ActiveStates, pods, objects, control
  <2> QED BY <2>1, <2>2, <2>3, <2>4 DEF WorkersInv
<1>3. CASE StopMarks
  <2>1. WorkersTypeOK'
    BY <1>1, <1>3 DEF StopMarks, WorkersTypeOK, Statuses, ActiveStates, TerminalStates,
         pods, objects, control
  <2>2. BarrierOK'
    BY <1>1, <1>3 DEF StopMarks, BarrierOK, Passed, pods, objects
  <2>3. ResultsOK'
    BY <1>1, <1>3 DEF StopMarks, ResultsOK, pods, objects
  <2>4. VerdictOK'
    BY <1>1, <1>3 DEF StopMarks, VerdictOK, ActiveStates, pods, objects, control
  <2> QED BY <2>1, <2>2, <2>3, <2>4 DEF WorkersInv
<1>4. CASE StopDeletes
  <2>1. WorkersTypeOK'
    BY <1>1, <1>4 DEF StopDeletes, WorkersTypeOK, Statuses, ActiveStates, TerminalStates,
         pods, objects, control
  <2>2. BarrierOK'
    BY <1>1, <1>4 DEF StopDeletes, BarrierOK, Passed, pods, objects
  <2>3. ResultsOK'
    BY <1>1, <1>4 DEF StopDeletes, ResultsOK, pods, objects
  <2>4. VerdictOK'
    BY <1>1, <1>4 DEF StopDeletes, VerdictOK, ActiveStates, pods, objects, control
  <2> QED BY <2>1, <2>2, <2>3, <2>4 DEF WorkersInv
<1>5. CASE StopRecords
  <2>1. WorkersTypeOK'
    BY <1>1, <1>5 DEF StopRecords, WorkersTypeOK, Statuses, ActiveStates, TerminalStates,
         pods, objects, control
  <2>2. BarrierOK'
    BY <1>1, <1>5 DEF StopRecords, BarrierOK, Passed, pods, objects
  <2>3. ResultsOK'
    BY <1>1, <1>5 DEF StopRecords, ResultsOK, pods, objects
  <2>4. VerdictOK'
    BY <1>1, <1>5 DEF StopRecords, VerdictOK, ActiveStates, pods, objects, control
  <2> QED BY <2>1, <2>2, <2>3, <2>4 DEF WorkersInv
<1>6. CASE Reconcile
  <2>1. WorkersTypeOK'
    BY <1>1, <1>6 DEF Reconcile, WorkersTypeOK, Statuses, ActiveStates, TerminalStates,
         pods, objects, control
  <2>2. BarrierOK'
    BY <1>1, <1>6 DEF Reconcile, BarrierOK, Passed, pods, objects
  <2>3. ResultsOK'
    BY <1>1, <1>6 DEF Reconcile, ResultsOK, pods, objects
  <2>4. VerdictOK'
    BY <1>1, <1>6 DEF Reconcile, VerdictOK, ActiveStates, pods, objects, control
  <2> QED BY <2>1, <2>2, <2>3, <2>4 DEF WorkersInv
<1>7. CASE JobExpires
  <2>1. WorkersTypeOK'
    BY <1>1, <1>7 DEF JobExpires, WorkersTypeOK, Statuses, ActiveStates, TerminalStates,
         pods, objects, control
  <2>2. BarrierOK'
    BY <1>1, <1>7 DEF JobExpires, BarrierOK, Passed, pods, objects
  <2>3. ResultsOK'
    BY <1>1, <1>7 DEF JobExpires, ResultsOK, pods, objects
  <2>4. VerdictOK'
    BY <1>1, <1>7 DEF JobExpires, VerdictOK, ActiveStates, pods, objects, control
  <2> QED BY <2>1, <2>2, <2>3, <2>4 DEF WorkersInv
<1> QED BY <1>2, <1>3, <1>4, <1>5, <1>6, <1>7 DEF StopStep

\* The inductive invariant of the pods of a run, whoever is lost, told to stop or
\* late, and whatever stop requests and reconciling replicas write.
THEOREM WorkersInvariant ==
  ASSUME WorkersAssumption PROVE WorkersSpec => []WorkersInv
<1>1. WorkersInit => WorkersInv
  BY WorkersInitInv
<1>2. WorkersInv /\ [WorkersNext]_workerVars => WorkersInv'
  <2> SUFFICES ASSUME WorkersInv, [WorkersNext]_workerVars PROVE WorkersInv'
    OBVIOUS
  <2>1. CASE UNCHANGED workerVars
    BY <2>1 DEF workerVars, objects, control, WorkersInv, WorkersTypeOK, BarrierOK, Passed, ResultsOK, VerdictOK
  <2>2. CASE WorkersNext
    BY <2>2, WorkerStepInv, CoordinatorStepInv, ControlStepInv DEF WorkersNext, CoordinatorStep
  <2> QED BY <2>1, <2>2
<1> QED BY <1>1, <1>2, PTL DEF WorkersSpec

\* job.py sends load only after coordinate_start has seen every worker; a run
\* recorded as completed had every worker complete and merged, and no stop request
\* before its record was finished; what the coordinator records as completed or
\* stopped has its artifacts, and only control.py's stop records one without.
THEOREM WorkersVerdictsTrue ==
  ASSUME WorkersAssumption PROVE WorkersSpec => []VerdictsAreTrue
<1>1. ASSUME WorkersInv PROVE VerdictsAreTrue
  <2>1. StartTogether
    BY <1>1 DEF WorkersInv, BarrierOK, Passed, StartTogether, Launched
  <2>2. CompletedMeansAll /\ VerdictHasArtifacts /\ StopIsObeyed
    BY <1>1 DEF WorkersInv, VerdictOK, CompletedMeansAll, VerdictHasArtifacts, StopIsObeyed
  <2> QED BY <2>1, <2>2 DEF VerdictsAreTrue
<1> QED BY <1>1, WorkersInvariant, PTL

----------------------------------------------------------------------------
(* The injection of faults                                                 *)

\* The bounds as numbers.
LEMMA Bounds ==
  ASSUME FaultAssumption
  PROVE  /\ Deployments \in Nat \ {0} /\ WorkerCount \in Nat \ {0}
         /\ MaxReplicas \in Nat /\ MaxErrors \in Nat
BY DEF FaultAssumption

\* How many entries of its fault the controller has written.
LEMMA EntriesNow ==
  /\ ctl = "wait-down" => Entries = 0
  /\ ctl = "down" => Entries = 1
  /\ ctl = "wait-up" => Entries = 2
  /\ ctl = "up" => Entries = 3
BY DEF Entries

LEMMA FaultInitInv ==
  ASSUME FaultAssumption PROVE FaultInit => FaultInv
<1> SUFFICES ASSUME FaultInit PROVE FaultInv
  OBVIOUS
<1>1. FaultTypeOK
  <2>1. {crashed, controllerStop, raised, failed} \subseteq BOOLEAN
    BY Zenon DEF FaultInit
  <2>2. /\ {replicas, before, original} \subseteq [D -> 0..MaxReplicas]
        /\ next \in 1..(WorkerCount + 1) /\ fault \in 1..(Deployments + 1)
        /\ errors \in 0..MaxErrors /\ events \in Seq(D \X Actions)
    BY Bounds DEF FaultInit
  <2> QED BY <2>1, <2>2 DEF FaultInit, FaultTypeOK
<1>2. ThreadsOK /\ ControllerOK
  BY Bounds DEF FaultInit, ThreadsOK, ControllerOK, Processes
<1>3. ClusterOK
  BY DEF FaultInit, ClusterOK
<1>4. LogOK
  BY Bounds DEF FaultInit, LogOK, Entries
<1> QED BY <1>1, <1>2, <1>3, <1>4 DEF FaultInv

\* The steps of main and of Locust that leave the cluster and the controller
\* alone.
LEMMA MainOnly ==
  ASSUME FaultAssumption, FaultInv, UNCHANGED <<replicas, before, ctlVars>>,
         original' = original \/ (main = "plan" /\ original' = replicas),
         original' \in [D -> 0..MaxReplicas],
         main' = "over" \/ main' = main \/ original' = before
  PROVE  ControllerOK' /\ ClusterOK' /\ LogOK'
<1>1. ControllerOK' /\ LogOK'
  BY DEF FaultInv, ctlVars, ControllerOK, LogOK, Entries, Injected
<1>2. original = before => original' = before
  BY DEF FaultInv, ClusterOK, ThreadsOK
<1>3. ClusterOK'
  BY <1>2 DEF FaultInv, ctlVars, ClusterOK, ThreadsOK
<1> QED BY <1>1, <1>3

LEMMA MainStepInv ==
  ASSUME FaultAssumption, FaultInv,
         MainStep \/ RequestStop \/ \E w \in Processes : ProcessEnds(w)
  PROVE  FaultInv'
<1>1. /\ FaultTypeOK /\ ThreadsOK /\ ControllerOK /\ ClusterOK /\ LogOK
      /\ Deployments \in Nat \ {0} /\ WorkerCount \in Nat \ {0}
      /\ MaxReplicas \in Nat /\ MaxErrors \in Nat
  BY Bounds DEF FaultInv
<1>2. CASE Plan
  <2>1. /\ main = "plan" /\ original' = replicas /\ main' = "spawn"
        /\ UNCHANGED <<replicas, before, next, crashed, state, proc, controllerStop, ctlVars, errors>>
    BY <1>2 DEF Plan
  <2>2. FaultTypeOK'
    BY <1>1, <2>1 DEF FaultTypeOK, ctlVars
  <2>3. ThreadsOK'
    BY <1>1, <2>1 DEF ThreadsOK, ctlVars
  <2>4. original' = before /\ original' \in [D -> 0..MaxReplicas]
    BY <1>1, <2>1 DEF ThreadsOK, ClusterOK, FaultTypeOK
  <2> QED BY <2>1, <2>2, <2>3, <2>4, MainOnly DEF FaultInv
<1>3. CASE PlanFails
  <2>1. /\ main = "plan" /\ main' = "over" /\ errors' \in 0..MaxErrors
        /\ UNCHANGED <<cluster, next, crashed, state, proc, controllerStop, ctlVars>>
    BY <1>1, <1>3 DEF PlanFails, Error, FaultTypeOK
  <2>2. FaultTypeOK'
    BY <1>1, <2>1 DEF FaultTypeOK, ctlVars, cluster
  <2>3. ThreadsOK'
    BY <1>1, <2>1 DEF ThreadsOK, ctlVars
  <2>4. UNCHANGED <<replicas, before, ctlVars>> /\ original' = original
    BY <2>1 DEF cluster
  <2> QED BY <2>1, <2>2, <2>3, <2>4, MainOnly DEF FaultInv, FaultTypeOK
<1>4. CASE Spawn
  <2>1. /\ main = "spawn" /\ proc' = [proc EXCEPT ![next] = "running"]
        /\ UNCHANGED <<cluster, crashed, state, controllerStop, fault, scaledDown, raised, events, failed, errors>>
        /\ \/ next < WorkerCount /\ next' = next + 1 /\ main' = main /\ ctl' = ctl
           \/ next' = 1 /\ main' = "wait" /\ ctl' = "wait-down"
    BY <1>4 DEF Spawn
  <2>2. FaultTypeOK'
    <3>1. proc' \in [Processes -> {"none", "running", "stopping", "completed", "failed"}]
      BY <1>1, <2>1 DEF FaultTypeOK
    <3>2. next' \in 1..(WorkerCount + 1)
      BY <1>1, <2>1 DEF FaultTypeOK
    <3>3. /\ main' \in {"plan", "spawn", "wait", "join", "report", "over"}
          /\ ctl' \in {"none", "down", "up", "restore", "signal", "ended"} \cup Waits
      BY <1>1, <2>1 DEF FaultTypeOK, Waits
    <3>4. UNCHANGED <<replicas, before, original, crashed, state, controllerStop, fault, scaledDown, raised,
                      events, failed, errors>>
      BY <2>1 DEF cluster
    <3> QED BY <1>1, <3>1, <3>2, <3>3, <3>4 DEF FaultTypeOK
  <2>3. ThreadsOK'
    BY <1>1, <2>1 DEF ThreadsOK, Processes
  <2>6. ControllerOK'
    BY <1>1, <2>1 DEF ThreadsOK, ControllerOK, D
  <2>4. ClusterOK'
    BY <1>1, <2>1 DEF ThreadsOK, ClusterOK, cluster
  <2>5. LogOK'
    BY <1>1, <2>1 DEF LogOK, ThreadsOK, ControllerOK, Entries, Injected
  <2> QED BY <2>2, <2>3, <2>4, <2>5, <2>6 DEF FaultInv
<1>5. CASE SpawnFails
  <2>1. /\ main = "spawn" /\ main' = "join" /\ crashed' = TRUE /\ controllerStop' = TRUE
        /\ errors' \in 0..MaxErrors
        /\ UNCHANGED <<cluster, next, state, proc, ctlVars>>
    BY <1>1, <1>5 DEF SpawnFails, Error, FaultTypeOK
  <2>2. FaultTypeOK'
    BY <1>1, <2>1 DEF FaultTypeOK, ctlVars, cluster
  <2>3. ThreadsOK'
    BY <1>1, <2>1 DEF ThreadsOK, ctlVars
  <2>4. UNCHANGED <<replicas, before, ctlVars>> /\ original' = original /\ original' = before
    BY <1>1, <2>1 DEF cluster, ClusterOK
  <2> QED BY <2>1, <2>2, <2>3, <2>4, MainOnly DEF FaultInv, FaultTypeOK
<1>6. CASE WaitReturns
  <2>1. /\ main = "wait" /\ next' = next + 1 /\ next \in 1..WorkerCount
        /\ UNCHANGED <<cluster, crashed, state, proc, ctlVars, errors>>
        /\ \/ UNCHANGED <<main, controllerStop>> /\ next' \in Processes
           \/ main' = "join" /\ controllerStop' = TRUE
    BY <1>1, <1>6 DEF WaitReturns, ThreadsOK, Processes
  <2>2. FaultTypeOK'
    <3>1. {crashed, controllerStop', raised, failed} \subseteq BOOLEAN
      BY <1>1, <2>1 DEF FaultTypeOK
    <3>2. /\ main' \in {"plan", "spawn", "wait", "join", "report", "over"}
          /\ next' \in 1..(WorkerCount + 1)
      BY <1>1, <2>1 DEF FaultTypeOK
    <3>3. UNCHANGED <<replicas, before, original, crashed, state, proc, ctl, fault, scaledDown,
                      raised, events, failed, errors>>
      BY <2>1 DEF cluster, ctlVars
    <3> QED BY <1>1, <3>1, <3>2, <3>3 DEF FaultTypeOK
  <2>3. ThreadsOK'
    BY <1>1, <2>1 DEF ThreadsOK, ctlVars
  <2>4. UNCHANGED <<replicas, before, ctlVars>> /\ original' = original /\ original' = before
    BY <1>1, <2>1 DEF cluster, ClusterOK
  <2> QED BY <1>1, <2>1, <2>2, <2>3, <2>4, MainOnly DEF FaultInv, FaultTypeOK
<1>7. CASE JoinReturns
  <2>1. /\ main = "join" /\ ctl \in {"none", "ended"}
        /\ proc' = [w \in Processes |-> IF proc[w] = "running" THEN "stopping" ELSE proc[w]]
        /\ main' = IF crashed THEN "over" ELSE "report"
        /\ UNCHANGED <<cluster, next, crashed, state, controllerStop, ctlVars, errors>>
    BY <1>7 DEF JoinReturns, Joined
  <2>2. FaultTypeOK'
    <3>1. proc' \in [Processes -> {"none", "running", "stopping", "completed", "failed"}]
      BY <1>1, <2>1 DEF FaultTypeOK
    <3> QED BY <1>1, <2>1, <3>1 DEF FaultTypeOK, ctlVars, cluster
  <2>3. ThreadsOK'
    BY <1>1, <2>1 DEF ThreadsOK, ctlVars
  <2>4. UNCHANGED <<replicas, before, ctlVars>> /\ original' = original /\ original' = before
    BY <1>1, <2>1 DEF cluster, ClusterOK
  <2> QED BY <1>1, <2>1, <2>2, <2>3, <2>4, MainOnly DEF FaultInv, FaultTypeOK
<1>8. CASE Report
  <2>1. /\ main = "report" /\ main' = "over" /\ errors' \in 0..MaxErrors
        /\ state' \in {"failed", "completed", state} /\ (state' = "completed" => ~failed)
        /\ UNCHANGED <<cluster, next, crashed, proc, controllerStop, ctlVars>>
    BY <1>1, <1>8 DEF Report, Error, FaultTypeOK, ThreadsOK
  <2>2. FaultTypeOK'
    BY <1>1, <2>1 DEF FaultTypeOK, ctlVars, cluster
  <2>3. ThreadsOK'
    BY <1>1, <2>1 DEF ThreadsOK, ctlVars
  <2>4. UNCHANGED <<replicas, before, ctlVars>> /\ original' = original
    BY <2>1 DEF cluster
  <2> QED BY <1>1, <2>1, <2>2, <2>3, <2>4, MainOnly DEF FaultInv, FaultTypeOK
<1>9. CASE RequestStop
  <2>1. /\ proc' = [w \in Processes |-> IF proc[w] = "running" THEN "stopping" ELSE proc[w]]
        /\ controllerStop' = TRUE /\ UNCHANGED <<cluster, mainVars, ctlVars, errors>>
    BY <1>9 DEF RequestStop
  <2>2. FaultTypeOK'
    <3>1. proc' \in [Processes -> {"none", "running", "stopping", "completed", "failed"}]
      BY <1>1, <2>1 DEF FaultTypeOK
    <3> QED BY <1>1, <2>1, <3>1 DEF FaultTypeOK, ctlVars, cluster, mainVars
  <2>3. ThreadsOK'
    BY <1>1, <2>1 DEF ThreadsOK, ctlVars, mainVars
  <2>4. UNCHANGED <<replicas, before, ctlVars>> /\ original' = original /\ main' = main
    BY <2>1 DEF cluster, mainVars
  <2> QED BY <1>1, <2>2, <2>3, <2>4, MainOnly DEF FaultInv, FaultTypeOK
<1>10. ASSUME NEW w \in Processes, ProcessEnds(w) PROVE FaultInv'
  <2>1. /\ \E code \in {"completed", "failed"} : proc' = [proc EXCEPT ![w] = code]
        /\ UNCHANGED <<cluster, mainVars, controllerStop, ctlVars, errors>>
    BY <1>10 DEF ProcessEnds
  <2>2. FaultTypeOK'
    <3>1. proc' \in [Processes -> {"none", "running", "stopping", "completed", "failed"}]
      BY <1>1, <2>1 DEF FaultTypeOK
    <3> QED BY <1>1, <2>1, <3>1 DEF FaultTypeOK, ctlVars, cluster, mainVars
  <2>3. ThreadsOK'
    BY <1>1, <2>1 DEF ThreadsOK, ctlVars, mainVars
  <2>4. UNCHANGED <<replicas, before, ctlVars>> /\ original' = original /\ main' = main
    BY <2>1 DEF cluster, mainVars
  <2> QED BY <1>1, <2>2, <2>3, <2>4, MainOnly DEF FaultInv, FaultTypeOK
<1> QED BY <1>2, <1>3, <1>4, <1>5, <1>6, <1>7, <1>8, <1>9, <1>10 DEF MainStep

\* While the controller runs, main waits for it or for Locust.
LEMMA ControllerThreads ==
  ASSUME FaultInv, ctl \notin {"none", "ended"}, ctl' # "none", UNCHANGED mainVars
  PROVE  ThreadsOK' /\ original = before
BY DEF FaultInv, ThreadsOK, ClusterOK, mainVars

\* The log with one more entry.
LEMMA Logged ==
  ASSUME FaultTypeOK, NEW action \in Actions, fault \in D, Log(action)
  PROVE  /\ events' \in Seq(D \X Actions) /\ Len(events') = Len(events) + 1
         /\ Len(events) \in Nat
         /\ \A i \in 1..Len(events) : events'[i] = events[i]
         /\ events'[Len(events) + 1] = <<fault, action>>
         /\ Contains(events', <<fault, action>>)
         /\ \A e : Contains(events, e) => Contains(events', e)
<1>1. events \in Seq(D \X Actions) /\ <<fault, action>> \in D \X Actions
  BY DEF FaultTypeOK
<1>2. events' = Append(events, <<fault, action>>)
  BY DEF Log
<1>3. /\ events' \in Seq(D \X Actions) /\ Len(events') = Len(events) + 1 /\ Len(events) \in Nat
      /\ \A i \in 1..Len(events) : events'[i] = events[i]
      /\ events'[Len(events) + 1] = <<fault, action>>
  BY <1>1, <1>2
<1>4. Len(events) + 1 \in 1..Len(events') /\ \A i \in 1..Len(events) : i \in 1..Len(events')
  BY <1>3
<1> QED BY <1>3, <1>4 DEF Contains

\* An entry keeps the faults that were injected before.
LEMMA InjectedStay ==
  ASSUME FaultAssumption, FaultTypeOK, \A i \in 1..Len(events) : events'[i] = events[i],
         Len(events) >= 4 * (fault - 1), \A d \in 1..(fault - 1) : Injected(d)
  PROVE  \A d \in 1..(fault - 1) : Injected(d)'
<1>1. fault \in Nat /\ Len(events) \in Nat
  BY Bounds DEF FaultTypeOK
<1>2. ASSUME NEW d \in 1..(fault - 1) PROVE Injected(d)'
  <2>1. {4 * d - 3, 4 * d - 2, 4 * d - 1, 4 * d} \subseteq 1..Len(events)
    BY <1>1
  <2>2. /\ events'[4 * d - 3] = events[4 * d - 3] /\ events'[4 * d - 2] = events[4 * d - 2]
        /\ events'[4 * d - 1] = events[4 * d - 1] /\ events'[4 * d] = events[4 * d]
    BY <2>1
  <2> QED BY <2>2 DEF Injected
<1> QED BY <1>2

LEMMA ControllerStepInv ==
  ASSUME FaultAssumption, FaultInv, ControllerStep PROVE FaultInv'
<1>1. /\ FaultTypeOK /\ ThreadsOK /\ ControllerOK /\ ClusterOK /\ LogOK
      /\ Deployments \in Nat \ {0} /\ WorkerCount \in Nat \ {0}
      /\ MaxReplicas \in Nat /\ MaxErrors \in Nat
      /\ fault \in 1..(Deployments + 1) /\ Len(events) \in Nat
  BY SMTT(30), Bounds DEF FaultInv, FaultTypeOK
<1>2. CASE WaitOver
  <2>1. UNCHANGED <<replicas, before, original, mainVars, proc, controllerStop, fault, raised, failed, errors>>
    BY <1>2 DEF WaitOver, cluster
  <2>2. CASE ctl = "wait-down"
    <3>1. Log("scale_down_started") /\ scaledDown' = scaledDown \cup {fault} /\ ctl' = "down"
      BY <1>2, <2>2 DEF WaitOver
    <3>2. fault \in D /\ scaledDown = {} /\ ~raised
      BY <1>1, <2>2 DEF ControllerOK
    <3>3. FaultTypeOK'
      BY <1>1, <2>1, <3>1, <3>2, Logged DEF FaultTypeOK, mainVars, Actions
    <3>4. ThreadsOK' /\ original = before
      BY <2>1, <2>2, <3>1, ControllerThreads
    <3>5. ControllerOK'
      BY <2>1, <3>1, <3>2 DEF ControllerOK
    <3>6. ClusterOK'
      BY <1>1, <2>1, <2>2, <3>1, <3>2, <3>4 DEF ClusterOK
    <3>7. LogOK'
      <4>1. Len(events) = 4 * (fault - 1) /\ \A d \in 1..(fault - 1) : Injected(d)
        BY <1>1, <2>2, <3>2, EntriesNow DEF LogOK
      <4>2. /\ Len(events') = Len(events) + 1 /\ events'[Len(events) + 1] = <<fault, "scale_down_started">>
            /\ \A i \in 1..Len(events) : events'[i] = events[i]
        BY <1>1, <3>1, <3>2, Logged DEF Actions
      <4>3. \A d \in 1..(fault - 1) : Injected(d)'
        BY <1>1, <4>1, <4>2, InjectedStay
      <4>4. Entries' = 1
        BY <3>1 DEF Entries
      <4>5. Len(events) + 1 = 4 * fault - 3 /\ Len(events') = 4 * (fault - 1) + 1
        BY <1>1, <4>1, <4>2
      <4> QED BY <2>1, <4>2, <4>3, <4>4, <4>5 DEF LogOK
    <3> QED BY <3>3, <3>4, <3>5, <3>6, <3>7 DEF FaultInv
  <2>3. CASE ctl = "wait-up"
    <3>1. Log("scale_up_started") /\ scaledDown' = scaledDown /\ ctl' = "up"
      BY <1>2, <2>3 DEF WaitOver
    <3>2. fault \in D /\ scaledDown = {fault} /\ ~raised
      BY <1>1, <2>3 DEF ControllerOK
    <3>3. FaultTypeOK'
      BY <1>1, <2>1, <3>1, <3>2, Logged DEF FaultTypeOK, mainVars, Actions
    <3>4. ThreadsOK' /\ original = before
      BY <2>1, <2>3, <3>1, ControllerThreads
    <3>5. ControllerOK'
      BY <2>1, <3>1, <3>2 DEF ControllerOK
    <3>6. ClusterOK'
      BY <1>1, <2>1, <2>3, <3>1, <3>2, <3>4 DEF ClusterOK
    <3>7. LogOK'
      <4>1. /\ Len(events) = 4 * (fault - 1) + 2 /\ \A d \in 1..(fault - 1) : Injected(d)
            /\ events[4 * fault - 3] = <<fault, "scale_down_started">>
            /\ events[4 * fault - 2] = <<fault, "disabled">>
        BY <1>1, <2>3, <3>2, EntriesNow DEF LogOK
      <4>2. /\ Len(events') = Len(events) + 1 /\ events'[Len(events) + 1] = <<fault, "scale_up_started">>
            /\ \A i \in 1..Len(events) : events'[i] = events[i]
        BY <1>1, <3>1, <3>2, Logged DEF Actions
      <4>3. \A d \in 1..(fault - 1) : Injected(d)'
        BY <1>1, <4>1, <4>2, InjectedStay
      <4>4. Entries' = 3
        BY <3>1 DEF Entries
      <4>5. /\ Len(events) + 1 = 4 * fault - 1 /\ Len(events') = 4 * (fault - 1) + 3
            /\ 4 * fault - 3 \in 1..Len(events) /\ 4 * fault - 2 \in 1..Len(events)
        BY <1>1, <4>1, <4>2
      <4> QED BY <2>1, <4>1, <4>2, <4>3, <4>4, <4>5 DEF LogOK
    <3> QED BY <3>3, <3>4, <3>5, <3>6, <3>7 DEF FaultInv
  <2>4. CASE ctl = "wait-end"
    <3>1. ctl' = "restore" /\ UNCHANGED <<events, scaledDown>>
      BY <1>2, <2>4 DEF WaitOver
    <3>3. FaultTypeOK'
      BY <1>1, <2>1, <3>1 DEF FaultTypeOK, mainVars
    <3>4. ThreadsOK' /\ original = before
      BY <2>1, <2>4, <3>1, ControllerThreads
    <3>5. ControllerOK'
      BY <1>1, <2>1, <2>4, <3>1 DEF ControllerOK
    <3>6. ClusterOK'
      BY <1>1, <2>1, <2>4, <3>1, <3>4 DEF ClusterOK
    <3>7. LogOK'
      BY <1>1, <2>1, <2>4, <3>1 DEF LogOK, Entries, Injected
    <3> QED BY <3>3, <3>4, <3>5, <3>6, <3>7 DEF FaultInv
  <2> QED BY <1>2, <2>2, <2>3, <2>4 DEF WaitOver, Waits
<1>3. CASE WaitInterrupted
  <2>1. /\ ctl \in Waits /\ ctl' = "restore" /\ raised' = TRUE
        /\ UNCHANGED <<replicas, before, original, mainVars, proc, controllerStop, fault, scaledDown, events,
                       failed, errors>>
    BY <1>3 DEF WaitInterrupted, cluster
  <2>2. FaultTypeOK'
    BY <1>1, <2>1 DEF FaultTypeOK, mainVars
  <2>3. ThreadsOK' /\ original = before
    BY <2>1, ControllerThreads DEF Waits
  <2>4. ControllerOK'
    BY <2>1 DEF ControllerOK
  <2>5. ClusterOK'
    BY <1>1, <2>1, <2>3 DEF ClusterOK, Waits
  <2>6. LogOK'
    BY <2>1 DEF LogOK
  <2> QED BY <2>2, <2>3, <2>4, <2>5, <2>6 DEF FaultInv
<1>4. CASE ScaleDown
  <2>1. /\ ctl = "down" /\ replicas' = [replicas EXCEPT ![fault] = 0]
        /\ Log("disabled") /\ ctl' = "wait-up"
        /\ UNCHANGED <<before, original, mainVars, proc, controllerStop, fault, scaledDown, raised, failed, errors>>
    BY <1>4 DEF ScaleDown
  <2>2. fault \in D /\ scaledDown = {fault} /\ ~raised
    BY <1>1, <2>1 DEF ControllerOK
  <2>3. FaultTypeOK'
    <3>1. replicas' \in [D -> 0..MaxReplicas]
      <4>1. replicas \in [D -> 0..MaxReplicas] /\ 0 \in 0..MaxReplicas
        BY <1>1 DEF FaultTypeOK
      <4> QED BY <2>1, <4>1
    <3>2. events' \in Seq(D \X Actions)
      BY <1>1, <2>1, <2>2, Logged DEF Actions
    <3>3. /\ ctl' \in {"none", "down", "up", "restore", "signal", "ended"} \cup Waits
          /\ UNCHANGED <<before, original, main, next, crashed, state, proc, controllerStop, fault, scaledDown,
                         raised, failed, errors>>
      BY <2>1 DEF Waits, mainVars
    <3> QED BY <1>1, <3>1, <3>2, <3>3 DEF FaultTypeOK
  <2>4. ThreadsOK' /\ original = before
    BY <2>1, ControllerThreads
  <2>5. ControllerOK'
    BY <2>1, <2>2 DEF ControllerOK
  <2>6. ClusterOK'
    BY <1>1, <2>1, <2>2, <2>4 DEF ClusterOK, FaultTypeOK
  <2>7. LogOK'
    <3>1. /\ Len(events) = 4 * (fault - 1) + 1 /\ \A d \in 1..(fault - 1) : Injected(d)
          /\ events[4 * fault - 3] = <<fault, "scale_down_started">>
      BY <1>1, <2>1, <2>2, EntriesNow DEF LogOK
    <3>2. /\ Len(events') = Len(events) + 1 /\ events'[Len(events) + 1] = <<fault, "disabled">>
          /\ \A i \in 1..Len(events) : events'[i] = events[i]
      BY <1>1, <2>1, <2>2, Logged DEF Actions
    <3>3. \A d \in 1..(fault - 1) : Injected(d)'
      BY <1>1, <3>1, <3>2, InjectedStay
    <3>4. Entries' = 2
      BY <2>1 DEF Entries
    <3>5. /\ Len(events) + 1 = 4 * fault - 2 /\ Len(events') = 4 * (fault - 1) + 2
          /\ 4 * fault - 3 \in 1..Len(events)
      BY SMTT(30), <1>1, <3>1, <3>2
    <3> QED BY <2>1, <3>1, <3>2, <3>3, <3>4, <3>5 DEF LogOK
  <2> QED BY <2>3, <2>4, <2>5, <2>6, <2>7 DEF FaultInv
<1>5. CASE ScaleUp
  <2>1. /\ ctl = "up" /\ replicas' = [replicas EXCEPT ![fault] = original[fault]]
        /\ Log("reenabled") /\ scaledDown' = scaledDown \ {fault} /\ fault' = fault + 1
        /\ ctl' = IF fault < Deployments THEN "wait-down" ELSE "wait-end"
        /\ UNCHANGED <<before, original, mainVars, proc, controllerStop, raised, failed, errors>>
    BY <1>5 DEF ScaleUp
  <2>2. fault \in D /\ scaledDown = {fault} /\ scaledDown' = {} /\ ~raised
    BY <1>1, <2>1 DEF ControllerOK
  <2>3. FaultTypeOK'
    <3>1. replicas' \in [D -> 0..MaxReplicas]
      BY <1>1, <2>1, <2>2 DEF FaultTypeOK
    <3>2. fault' \in 1..(Deployments + 1)
      BY <1>1, <2>1, <2>2 DEF D
    <3>3. events' \in Seq(D \X Actions)
      BY <1>1, <2>1, <2>2, Logged DEF Actions
    <3>4. ctl' \in {"none", "down", "up", "restore", "signal", "ended"} \cup Waits
      BY <2>1 DEF Waits
    <3> QED BY <1>1, <2>1, <2>2, <3>1, <3>2, <3>3, <3>4 DEF FaultTypeOK, mainVars
  <2>4. ThreadsOK' /\ original = before
    BY <2>1, ControllerThreads
  <2>5. ControllerOK'
    BY <1>1, <2>1, <2>2 DEF ControllerOK, D
  <2>6. ClusterOK'
    <3>1. \A d \in D : replicas'[d] = before[d]
      BY <1>1, <2>1, <2>2, <2>4 DEF ClusterOK, FaultTypeOK
    <3>2. ctl' # "none"
      BY <2>1
    <3> QED BY <2>1, <2>4, <3>1, <3>2 DEF ClusterOK
  <2>7. LogOK'
    <3>1. /\ Len(events) = 4 * (fault - 1) + 3 /\ \A d \in 1..(fault - 1) : Injected(d)
          /\ events[4 * fault - 3] = <<fault, "scale_down_started">>
          /\ events[4 * fault - 2] = <<fault, "disabled">>
          /\ events[4 * fault - 1] = <<fault, "scale_up_started">>
      BY <1>1, <2>1, <2>2, EntriesNow DEF LogOK
    <3>2. /\ Len(events') = Len(events) + 1 /\ events'[Len(events) + 1] = <<fault, "reenabled">>
          /\ \A i \in 1..Len(events) : events'[i] = events[i]
      BY <1>1, <2>1, <2>2, Logged DEF Actions
    <3>3. \A d \in 1..(fault - 1) : Injected(d)'
      BY <1>1, <3>1, <3>2, InjectedStay
    <3>4. Entries' = 0
      BY <2>1 DEF Entries
    <3>5. /\ Len(events) + 1 = 4 * fault /\ Len(events') = 4 * fault
          /\ {4 * fault - 3, 4 * fault - 2, 4 * fault - 1} \subseteq 1..Len(events)
      BY SMTT(30), <1>1, <3>1, <3>2
    <3>6. /\ events'[4 * fault - 3] = <<fault, "scale_down_started">>
          /\ events'[4 * fault - 2] = <<fault, "disabled">>
          /\ events'[4 * fault - 1] = <<fault, "scale_up_started">>
          /\ events'[4 * fault] = <<fault, "reenabled">>
      BY <3>1, <3>2, <3>5
    <3>7. ASSUME NEW d \in 1..fault PROVE Injected(d)'
      <4>1. CASE d = fault
        BY <3>6, <4>1 DEF Injected
      <4>2. CASE d # fault
        BY <1>1, <3>3, <4>2
      <4> QED BY <4>1, <4>2
    <3>8. fault' - 1 = fault /\ 4 * (fault' - 1) + Entries' = 4 * fault
      BY <1>1, <2>1, <3>4
    <3> QED BY <3>4, <3>5, <3>7, <3>8 DEF LogOK
  <2> QED BY <2>3, <2>4, <2>5, <2>6, <2>7 DEF FaultInv
<1>6. CASE ScaleFails
  <2>1. /\ ctl \in {"down", "up"} /\ errors' \in 0..MaxErrors
        /\ \/ replicas' = replicas
           \/ replicas' = [replicas EXCEPT ![fault] = 0]
           \/ replicas' = [replicas EXCEPT ![fault] = original[fault]]
        /\ ctl' = "restore" /\ raised' = TRUE /\ UNCHANGED <<fault, scaledDown>>
        /\ UNCHANGED <<before, original, mainVars, proc, controllerStop, events, failed>>
    <3>1. errors' \in 0..MaxErrors
      BY <1>1, <1>6 DEF ScaleFails, Error, FaultTypeOK
    <3> QED BY <1>6, <3>1 DEF ScaleFails, AfterFailure
  <2>2. fault \in D /\ scaledDown = {fault}
    BY <1>1, <2>1 DEF ControllerOK
  <2>3. FaultTypeOK'
    <3>1. replicas' \in [D -> 0..MaxReplicas]
      <4>1. /\ replicas \in [D -> 0..MaxReplicas] /\ 0 \in 0..MaxReplicas
            /\ original[fault] \in 0..MaxReplicas
        BY <1>1, <2>2 DEF FaultTypeOK
      <4> QED BY <2>1, <4>1
    <3> QED BY <1>1, <2>1, <3>1 DEF FaultTypeOK, mainVars
  <2>4. ThreadsOK' /\ original = before
    BY <2>1, ControllerThreads
  <2>5. ControllerOK'
    BY <2>1 DEF ControllerOK
  <2>6. ClusterOK'
    <3>1. \A d \in D : d # fault => replicas'[d] = replicas[d]
      BY <1>1, <2>1, <2>2 DEF FaultTypeOK
    <3> QED BY <1>1, <2>1, <2>2, <2>4, <3>1 DEF ClusterOK
  <2>7. LogOK'
    BY <2>1 DEF LogOK
  <2> QED BY <2>3, <2>4, <2>5, <2>6, <2>7 DEF FaultInv
<1>7. CASE Restore /\ scaledDown = {}
  <2>1. /\ ctl = "restore" /\ ctl' = IF raised THEN "signal" ELSE "ended"
        /\ UNCHANGED <<replicas, events, raised, scaledDown, errors, before, original, mainVars,
                       proc, controllerStop, fault, failed>>
    BY <1>7 DEF Restore
  <2>2. FaultTypeOK'
    BY <1>1, <2>1 DEF FaultTypeOK, mainVars
  <2>3. ThreadsOK' /\ original = before
    BY <2>1, ControllerThreads
  <2>4. ControllerOK'
    BY <1>1, <1>7, <2>1 DEF ControllerOK
  <2>5. ClusterOK'
    BY <1>1, <1>7, <2>1, <2>3 DEF ClusterOK
  <2>6. LogOK'
    BY <1>1, <2>1 DEF LogOK, Entries, Injected
  <2> QED BY <2>2, <2>3, <2>4, <2>5, <2>6 DEF FaultInv
<1>8. CASE Restore /\ scaledDown # {}
  <2>1. fault \in D /\ scaledDown = {fault} /\ raised
    BY <1>1, <1>8 DEF FaultTypeOK, ControllerOK, D, Restore
  <2>2. /\ ctl = "restore" /\ ctl' = "restore" /\ scaledDown' = {}
        /\ \/ /\ replicas' = [replicas EXCEPT ![fault] = original[fault]]
              /\ Log("restored") /\ UNCHANGED <<raised, errors>>
           \/ /\ Error
              /\ replicas' \in {replicas, [replicas EXCEPT ![fault] = original[fault]]}
              /\ Log("restore_failed") /\ raised' = TRUE
        /\ UNCHANGED <<before, original, mainVars, proc, controllerStop, fault, failed>>
    BY <1>8 DEF Restore
  <2>3. /\ events' \in Seq(D \X Actions)
        /\ replicas' = [replicas EXCEPT ![fault] = original[fault]]
           \/ (replicas' = replicas /\ Contains(events', <<fault, "restore_failed">>))
        /\ errors' \in 0..MaxErrors /\ raised'
    <3>1. errors' \in 0..MaxErrors
      BY <1>1, <2>2 DEF Error, FaultTypeOK
    <3> QED BY <1>1, <2>1, <2>2, <3>1, Logged DEF Actions
  <2>4. FaultTypeOK'
    <3>1. replicas' \in [D -> 0..MaxReplicas]
      BY <1>1, <2>1, <2>3 DEF FaultTypeOK
    <3>2. {crashed, controllerStop, raised', failed} \subseteq BOOLEAN
      BY <1>1, <2>2 DEF FaultTypeOK
    <3> QED BY <1>1, <2>2, <2>3, <3>1, <3>2 DEF FaultTypeOK, mainVars
  <2>5. ThreadsOK' /\ original = before
    BY <2>2, ControllerThreads
  <2>6. ControllerOK' /\ LogOK'
    BY <2>2, <2>3 DEF ControllerOK, LogOK
  <2>7. ClusterOK'
    <3>1. \A d \in D : replicas'[d] # before[d] =>
            d = fault /\ Contains(events', <<fault, "restore_failed">>)
      BY <1>1, <2>1, <2>3, <2>5 DEF ClusterOK, FaultTypeOK
    <3> QED BY <2>2, <2>3, <2>5, <3>1 DEF ClusterOK
  <2> QED BY <2>4, <2>5, <2>6, <2>7 DEF FaultInv
<1>9. CASE ControlRun
  <2>1. /\ ctl = "signal" /\ ctl' = "ended" /\ failed' = TRUE /\ controllerStop' = TRUE
        /\ \E signalled \in SUBSET Processes :
              proc' = [w \in Processes |-> IF w \in signalled THEN "stopping" ELSE proc[w]]
        /\ UNCHANGED <<replicas, before, original, mainVars, fault, scaledDown, raised, events, errors>>
    BY <1>9 DEF ControlRun, Running, cluster
  <2>2. FaultTypeOK'
    <3>1. proc' \in [Processes -> {"none", "running", "stopping", "completed", "failed"}]
      BY <1>1, <2>1 DEF FaultTypeOK
    <3> QED BY <1>1, <2>1, <3>1 DEF FaultTypeOK, mainVars
  <2>3. ThreadsOK' /\ original = before
    BY <2>1, ControllerThreads
  <2>4. ControllerOK'
    BY <1>1, <2>1 DEF ControllerOK
  <2>5. ClusterOK'
    BY <1>1, <2>1, <2>3 DEF ClusterOK
  <2>6. LogOK'
    BY <1>1, <2>1 DEF LogOK, Entries, Injected
  <2> QED BY <2>2, <2>3, <2>4, <2>5, <2>6 DEF FaultInv
<1> QED BY <1>2, <1>3, <1>4, <1>5, <1>6, <1>7, <1>8, <1>9 DEF ControllerStep

\* The inductive invariant of a fault-tolerance run, for every plan and every
\* failure of kubectl, of Locust and of the threads.
THEOREM FaultInvariant ==
  ASSUME FaultAssumption PROVE FaultSpec => []FaultInv
<1>1. FaultInit => FaultInv
  BY FaultInitInv
<1>2. FaultInv /\ [FaultNext]_faultVars => FaultInv'
  <2> SUFFICES ASSUME FaultInv, [FaultNext]_faultVars PROVE FaultInv'
    OBVIOUS
  <2>1. CASE UNCHANGED faultVars
    <3>1. UNCHANGED <<replicas, before, original, main, next, crashed, proc, controllerStop, ctl,
                      fault, scaledDown, raised, events, failed, state, errors>>
      BY <2>1 DEF faultVars
    <3>2. FaultTypeOK' /\ ThreadsOK' /\ ControllerOK'
      BY <3>1 DEF FaultInv, FaultTypeOK, ThreadsOK, ControllerOK
    <3>3. ClusterOK' /\ LogOK'
      BY <3>1 DEF FaultInv, ClusterOK, LogOK, Entries, Injected
    <3> QED BY <3>2, <3>3 DEF FaultInv
  <2>2. CASE FaultNext
    BY <2>2, MainStepInv, ControllerStepInv DEF FaultNext
  <2> QED BY <2>1, <2>2
<1> QED BY <1>1, <1>2, PTL DEF FaultSpec

\* When fault_tolerance.py is over, the cluster is as it was or the failed
\* restoration is on record and the run not completed; never are two services
\* out at once; and a completed run has injected and reverted every fault.
THEOREM FaultClusterRestored ==
  ASSUME FaultAssumption PROVE FaultSpec => []ClusterRestored
<1>1. ASSUME FaultInv PROVE ClusterRestored
  <2>1. /\ FaultTypeOK /\ ThreadsOK /\ ControllerOK /\ ClusterOK /\ LogOK
        /\ Deployments \in Nat \ {0}
    BY <1>1, Bounds DEF FaultInv
  <2>2. NothingLeftDown
    BY <2>1 DEF NothingLeftDown, ClusterOK, ControllerOK, ThreadsOK
  <2>3. OneOutage
    <3>1. {d \in D : replicas[d] # before[d]} \subseteq {fault}
      BY <2>1 DEF ClusterOK
    <3>2. IsFiniteSet({fault}) /\ Cardinality({fault}) = 1
      BY FS_Singleton
    <3>3. /\ Cardinality({d \in D : replicas[d] # before[d]}) <= Cardinality({fault})
          /\ IsFiniteSet({d \in D : replicas[d] # before[d]})
      BY <3>1, <3>2, FS_Subset
    <3> QED BY <3>2, <3>3 DEF OneOutage
  <2>4. CompletedMeansInjected
    <3> SUFFICES ASSUME state = "completed"
                 PROVE  Len(events) = 4 * Deployments /\ \A d \in D : Injected(d)
      BY DEF CompletedMeansInjected
    <3>1. ctl = "ended" /\ ~raised /\ fault = Deployments + 1
      BY <2>1 DEF ThreadsOK, ControllerOK
    <3>2. Entries = 0 /\ 1..(fault - 1) = D /\ 4 * (fault - 1) = 4 * Deployments
      BY <2>1, <3>1 DEF Entries, D
    <3> QED BY <2>1, <3>1, <3>2 DEF LogOK
  <2> QED BY <2>2, <2>3, <2>4 DEF ClusterRestored
<1> QED BY <1>1, FaultInvariant, PTL

=============================================================================
