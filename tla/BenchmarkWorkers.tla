--------------------------- MODULE BenchmarkWorkers ---------------------------
(***************************************************************************)
(* The pods of one parallel benchmark run (job.py with more than one       *)
(* worker): they meet at a barrier made of objects in the Object Store,    *)
(* run Locust, put their results there, and the coordinator (worker 0)     *)
(* collects, merges, uploads and records the verdict.  Beside them the API *)
(* replicas stop the run and reconcile its record with the Job, and        *)
(* Kubernetes ends the pods of a Job that was deleted or of which one pod  *)
(* failed.  The lease is BenchmarkRuns' business; here a failed heartbeat  *)
(* is a stop signal.                                                       *)
(***************************************************************************)
EXTENDS Naturals, FiniteSets

CONSTANTS
    Workers,
    Coordinator,
    MaxFaults      \* bound on lost pods, failed calls and time-outs

WorkersAssumption == Coordinator \in Workers /\ MaxFaults \in Nat

VARIABLES
    pc,            \* per worker
    stop,          \* per worker: stop_requested
    outcome,       \* per worker: the state of its worker-status.json
    ready, start, result,   \* the coordination objects; result[w] is its status
    collected,     \* workers whose archive the coordinator has extracted
    verdict,       \* the state the coordinator decides on
    uploaded,      \* whether the artifacts are in the Object Store
    record,        \* the state of the run record
    requested,     \* its stop_requested
    stopCall,      \* the stop request an API replica is serving
    died,          \* pods that ended with an error
    deleted,       \* whether the Job is gone from the API server
    faults

objects == <<ready, start, result>>
control == <<requested, stopCall, deleted>>
workerVars == <<pc, stop, outcome, objects, collected, verdict, uploaded, record, control,
                died, faults>>

Statuses == {"completed", "failed", "stopped"}
Pcs == {"setup", "arrive", "barrier", "launch", "run", "put", "collect", "decide",
        "upload", "finish", "cleanup", "error", "end"}
ActiveStates == {"submitted", "starting", "running", "stopping"}
TerminalStates == Statuses \cup {"interrupted"}

WorkersTypeOK ==
    /\ pc \in [Workers -> Pcs]
    /\ stop \in [Workers -> BOOLEAN]
    /\ outcome \in [Workers -> Statuses \cup {"none"}]
    /\ ready \in SUBSET Workers
    /\ start \in BOOLEAN
    /\ result \in [Workers -> Statuses \cup {"none"}]
    /\ collected \in SUBSET Workers
    /\ verdict \in Statuses \cup {"none"}
    /\ uploaded \in BOOLEAN
    /\ record \in ActiveStates \cup TerminalStates
    /\ requested \in BOOLEAN /\ deleted \in BOOLEAN
    /\ stopCall \in {"none", "stopping", "delete", "stopped", "done"}
    /\ died \in SUBSET Workers
    /\ faults \in 0..MaxFaults
    /\ pc[Coordinator] \in {"collect", "decide"} => result[Coordinator] # "none"

WorkersInit ==
    /\ pc = [w \in Workers |-> "setup"]
    /\ stop = [w \in Workers |-> FALSE]
    /\ outcome = [w \in Workers |-> "none"]
    /\ ready = {} /\ start = FALSE
    /\ result = [w \in Workers |-> "none"]
    /\ collected = {} /\ verdict = "none" /\ uploaded = FALSE
    /\ record = "submitted"
    /\ requested = FALSE /\ stopCall = "none" /\ deleted = FALSE
    /\ died = {}
    /\ faults = 0

Fault == faults < MaxFaults /\ faults' = faults + 1
Goto(w, state) == pc' = [pc EXCEPT ![w] = state]

----------------------------------------------------------------------------
(* Setup and coordinate_start                                              *)

\* The coordinator marks the run as starting.
Setup(w) ==
    /\ pc[w] = "setup"
    /\ record' = IF w = Coordinator THEN "starting" ELSE record
    /\ Goto(w, "arrive")
    /\ UNCHANGED <<stop, outcome, objects, collected, verdict, uploaded, control, died, faults>>

Arrive(w) ==
    /\ pc[w] = "arrive"
    /\ ready' = ready \cup {w}
    /\ Goto(w, "barrier")
    /\ UNCHANGED <<stop, outcome, start, result, collected, verdict, uploaded, record, control, died, faults>>

\* Mutant of AllReady: the last worker is not waited for.
AlmostAllReady == Cardinality(ready) >= Cardinality(Workers) - 1

AllReady == ready = Workers

\* The coordinator waits for every ready object and puts the start object.
OpenBarrier ==
    /\ pc[Coordinator] = "barrier" /\ ~stop[Coordinator]
    /\ AllReady
    /\ start' = TRUE
    /\ Goto(Coordinator, "launch")
    /\ UNCHANGED <<stop, outcome, ready, result, collected, verdict, uploaded, record, control, died, faults>>

PassBarrier(w) ==
    /\ w # Coordinator
    /\ pc[w] = "barrier" /\ ~stop[w]
    /\ start
    /\ Goto(w, "launch")
    /\ UNCHANGED <<stop, outcome, objects, collected, verdict, uploaded, record, control, died, faults>>

\* wait_for_object raises when a stop was requested.
Interrupted(w) ==
    /\ pc[w] \in {"barrier", "collect"} /\ stop[w]
    /\ Goto(w, "error")
    /\ UNCHANGED <<stop, outcome, objects, collected, verdict, uploaded, record, control, died, faults>>

----------------------------------------------------------------------------
(* Locust and the worker's result                                          *)

\* Popen; the coordinator marks the run as running.
Launch(w) ==
    /\ pc[w] = "launch"
    /\ record' = IF w = Coordinator THEN "running" ELSE record
    /\ Goto(w, "run")
    /\ UNCHANGED <<stop, outcome, objects, collected, verdict, uploaded, control, died, faults>>

\* process.wait returns; a requested stop comes before the exit code.
LocustEnds(w) ==
    /\ pc[w] = "run"
    /\ \E status \in {"completed", "failed"} :
          outcome' = [outcome EXCEPT ![w] = IF stop[w] THEN "stopped" ELSE status]
    /\ Goto(w, "put")
    /\ UNCHANGED <<stop, objects, collected, verdict, uploaded, record, control, died, faults>>

\* The archive is put; the other workers end here, whatever their exit code.
PutResult(w) ==
    /\ pc[w] = "put"
    /\ result' = [result EXCEPT ![w] = outcome[w]]
    /\ collected' = IF w = Coordinator THEN {w} ELSE collected
    /\ Goto(w, IF w = Coordinator THEN "collect" ELSE "end")
    /\ UNCHANGED <<stop, outcome, ready, start, verdict, uploaded, record, control, died, faults>>

----------------------------------------------------------------------------
(* The coordinator's finalization                                          *)

Collect(w) ==
    /\ pc[Coordinator] = "collect" /\ ~stop[Coordinator]
    /\ w \notin collected /\ result[w] # "none"
    /\ collected' = collected \cup {w}
    /\ UNCHANGED <<pc, stop, outcome, objects, verdict, uploaded, record, control, died, faults>>

Collected ==
    /\ pc[Coordinator] = "collect"
    /\ collected = Workers
    /\ Goto(Coordinator, "decide")
    /\ UNCHANGED <<stop, outcome, objects, collected, verdict, uploaded, record, control, died, faults>>

\* Mutant of Verdict: only the coordinator's own result counts.
OwnVerdict ==
    IF stop[Coordinator] THEN "stopped" ELSE result[Coordinator]

\* A stop anywhere comes first, then a failure anywhere.
Verdict ==
    IF stop[Coordinator] \/ \E w \in Workers : result[w] = "stopped" THEN "stopped"
    ELSE IF \E w \in Workers : result[w] = "failed" THEN "failed"
    ELSE "completed"

\* A report that cannot be built fails the run.
Decide ==
    /\ pc[Coordinator] = "decide"
    /\ \/ verdict' = Verdict /\ UNCHANGED faults
       \/ verdict' = "failed" /\ Fault
    /\ Goto(Coordinator, "upload")
    /\ UNCHANGED <<stop, outcome, objects, collected, uploaded, record, control, died>>

\* Mutant of Upload: the record is finished before the upload.
UploadLater ==
    /\ pc[Coordinator] = "upload"
    /\ Goto(Coordinator, "finish")
    /\ UNCHANGED <<stop, outcome, objects, collected, verdict, uploaded, record, control, died, faults>>

Upload ==
    /\ pc[Coordinator] = "upload"
    /\ uploaded' = TRUE
    /\ Goto(Coordinator, "finish")
    /\ UNCHANGED <<stop, outcome, objects, collected, verdict, record, control, died, faults>>

\* Mutant of Finish: the coordinator does not look for a stop request.
FinishUnasked ==
    /\ pc[Coordinator] = "finish"
    /\ record' = verdict
    /\ Goto(Coordinator, "cleanup")
    /\ UNCHANGED <<stop, outcome, objects, collected, verdict, uploaded, control, died, faults>>

\* A stop that was asked for through the API comes before the verdict.
Finish ==
    /\ pc[Coordinator] = "finish"
    /\ record' = IF requested THEN "stopped" ELSE verdict
    /\ Goto(Coordinator, "cleanup")
    /\ UNCHANGED <<stop, outcome, objects, collected, verdict, uploaded, control, died, faults>>

\* delete_coordination_objects, each on its own and without raising; the exit
\* code follows the workers' verdict.
Cleanup ==
    /\ pc[Coordinator] = "cleanup"
    /\ ready' = {} /\ start' = FALSE
    /\ result' = [w \in Workers |-> "none"]
    /\ died' = IF verdict = "failed" THEN died \cup {Coordinator} ELSE died
    /\ Goto(Coordinator, "end")
    /\ UNCHANGED <<stop, outcome, collected, verdict, uploaded, record, control, faults>>

----------------------------------------------------------------------------
(* Errors, signals and faults                                              *)

\* The exception handler of main: the coordinator fails the run, any other
\* worker puts a failed result and still exits with 0.
HandleError(w) ==
    /\ pc[w] = "error"
    /\ IF w = Coordinator
       THEN /\ record' = "failed" /\ died' = died \cup {w}
            /\ UNCHANGED <<outcome, result>>
       ELSE /\ outcome' = [outcome EXCEPT ![w] = "failed"]
            /\ result' = [result EXCEPT ![w] = "failed"]
            /\ UNCHANGED <<record, died>>
    /\ Goto(w, "end")
    /\ UNCHANGED <<stop, ready, start, collected, verdict, uploaded, control, faults>>

\* Mutant of TimesOut: the barrier has no deadline.
TimesOutCollecting(w) ==
    /\ w = Coordinator /\ pc[w] = "collect" /\ collected # Workers
    /\ Goto(w, "error")
    /\ UNCHANGED <<stop, outcome, objects, collected, verdict, uploaded, record, control, died, faults>>

\* The deadline of wait_for_object passes while an object is missing.
TimesOut(w) ==
    /\ \/ pc[w] = "barrier" /\ w = Coordinator /\ ready # Workers
       \/ pc[w] = "barrier" /\ w # Coordinator /\ ~start
       \/ pc[w] = "collect" /\ w = Coordinator /\ \E v \in Workers : result[v] = "none"
    /\ Goto(w, "error")
    /\ UNCHANGED <<stop, outcome, objects, collected, verdict, uploaded, record, control, died, faults>>

\* A call of the store raises.
CallFails(w) ==
    /\ pc[w] \in {"setup", "arrive", "put", "upload"} /\ Fault
    /\ Goto(w, "error")
    /\ UNCHANGED <<stop, outcome, objects, collected, verdict, uploaded, record, control, died>>

\* backoffLimit 0: a pod that failed fails the Job, and Kubernetes ends the
\* pods of a failed or deleted Job, with SIGTERM and a grace period.
Ending == deleted \/ died # {}

\* SIGTERM of an ending Job or of a drained node; a failed heartbeat.
Signal(w) ==
    /\ ~stop[w] /\ pc[w] # "end"
    /\ IF Ending THEN UNCHANGED faults ELSE Fault
    /\ stop' = [stop EXCEPT ![w] = TRUE]
    /\ UNCHANGED <<pc, outcome, objects, collected, verdict, uploaded, record, control, died>>

\* The pod is lost, its grace period is over, or its exception handler fails.
PodLost(w) ==
    /\ pc[w] # "end"
    /\ IF Ending THEN UNCHANGED faults ELSE Fault
    /\ died' = died \cup {w}
    /\ Goto(w, "end")
    /\ UNCHANGED <<stop, outcome, objects, collected, verdict, uploaded, record, control>>

----------------------------------------------------------------------------
(* The API replicas and the Job                                            *)

pods == <<pc, stop, outcome, objects, collected, verdict, uploaded, died>>

\* BenchmarkManager.stop reads an active record; what it does then comes later.
StopRequest ==
    /\ stopCall = "none" /\ record \in ActiveStates
    /\ stopCall' = "stopping"
    /\ UNCHANGED <<pods, record, requested, deleted, faults>>

\* Without a job name in the record that was read there is nothing to delete.
StopMarks ==
    /\ stopCall = "stopping"
    /\ record' = "stopping" /\ requested' = TRUE
    /\ stopCall' \in {"delete", "stopped"}
    /\ UNCHANGED <<pods, deleted, faults>>

StopDeletes ==
    /\ stopCall = "delete"
    /\ deleted' = TRUE
    /\ stopCall' = "stopped"
    /\ UNCHANGED <<pods, record, requested, faults>>

\* The run is recorded as stopped while its pods still drain.
StopRecords ==
    /\ stopCall = "stopped"
    /\ record' = "stopped"
    /\ stopCall' = "done"
    /\ UNCHANGED <<pods, requested, deleted, faults>>

\* KubernetesJobs.state: one index that succeeded hides the ones that failed.
JobFailed == died # {} /\ \A w \in Workers : pc[w] = "end" => w \in died

\* Mutant of Reconcile: a Job that is gone is left alone.
ReconcileFailed ==
    /\ record \in ActiveStates /\ ~deleted /\ JobFailed
    /\ record' = "failed"
    /\ UNCHANGED <<pods, control, faults>>

\* _reconcile.  A Job that is gone ends the run when lease_until has passed, which
\* it may before the grace period is over.
Reconcile ==
    /\ record \in ActiveStates
    /\ \/ ~deleted /\ JobFailed /\ record' = "failed"
       \/ deleted /\ record' = IF requested THEN "stopped" ELSE "interrupted"
    /\ UNCHANGED <<pods, control, faults>>

\* ttlSecondsAfterFinished: Kubernetes deletes a Job a day after its end.
JobExpires ==
    /\ ~deleted /\ \A w \in Workers : pc[w] = "end"
    /\ deleted' = TRUE
    /\ UNCHANGED <<pods, record, requested, stopCall, faults>>

----------------------------------------------------------------------------

WorkerStep(w) ==
    \/ Setup(w) \/ Arrive(w) \/ PassBarrier(w) \/ Interrupted(w)
    \/ Launch(w) \/ LocustEnds(w) \/ PutResult(w) \/ HandleError(w) \/ TimesOut(w)
CoordinatorStep ==
    \/ OpenBarrier \/ Collected \/ Decide \/ Upload \/ Finish \/ Cleanup
    \/ \E w \in Workers : Collect(w)

StopStep == StopRequest \/ StopMarks \/ StopDeletes \/ StopRecords

WorkersNext ==
    \/ CoordinatorStep
    \/ StopStep \/ Reconcile \/ JobExpires
    \/ \E w \in Workers : WorkerStep(w) \/ CallFails(w) \/ Signal(w) \/ PodLost(w)

\* Every process goes on; deadlines pass; the page lists the runs again and
\* again, and Kubernetes removes what is over.  A stop request need not go on: its
\* replica may crash between any two of its calls.
WorkersFairness ==
    /\ WF_workerVars(Reconcile) /\ WF_workerVars(JobExpires)
    /\ WF_workerVars(CoordinatorStep)
    /\ \A w \in Workers : WF_workerVars(WorkerStep(w))

WorkersSpec == WorkersInit /\ [][WorkersNext]_workerVars /\ WorkersFairness

----------------------------------------------------------------------------

Launched(w) == pc[w] \in {"run", "put"} \/ outcome[w] \in {"completed", "stopped"}

\* No worker sends load before all of them are ready.
StartTogether ==
    (\E w \in Workers : Launched(w)) /\ pc[Coordinator] # "end" => ready = Workers

\* A run recorded as completed had every worker complete, none of them stopped,
\* failed, lost or left out of the merge.
CompletedMeansAll ==
    record = "completed" => collected = Workers /\ \A w \in Workers : outcome[w] = "completed"

\* A run recorded as completed, or as stopped without a stop request, has its
\* artifacts in the store: only a request, which records the stop while the pods
\* still drain, may leave a run stopped without them.
VerdictHasArtifacts ==
    record = "completed" \/ (record = "stopped" /\ ~requested) => uploaded

\* Whoever asks for a stop gets it: a run that was asked to stop is never recorded
\* as completed, however late the request and however early the coordinator.
StopIsObeyed == requested => record # "completed"

\* The state a run is recorded with is what happened: all workers started
\* together, completed means that all of them completed and nobody asked for a
\* stop, and the coordinator's verdict has its artifacts.
VerdictsAreTrue == StartTogether /\ CompletedMeansAll /\ VerdictHasArtifacts /\ StopIsObeyed

\* The run ends on every worker and in its record: nobody waits for ever at the
\* barrier or for a result that will not come, and the record gets to a terminal
\* state and stays there, though a stop request crashes on its way, the
\* coordinator is lost or a pod that succeeded hides the ones that failed.
AllEnd == <>[]((\A w \in Workers : pc[w] = "end") /\ record \in TerminalStates)

\* What the README says of a runner: it publishes its terminal state and its
\* artifacts before it exits; here, when it was told to stop during the run.
StopPublished ==
    pc[Coordinator] = "end" /\ outcome[Coordinator] = "stopped" /\ faults = 1 /\ ~requested
        => record = "stopped" /\ uploaded

----------------------------------------------------------------------------
(* The inductive invariant (proved in RunProgressProofs)                   *)

\* The worker has passed the barrier, and reports so at most until it fails.
Passed(w) ==
    \/ pc[w] \in {"launch", "run", "put", "collect", "decide", "upload", "finish", "cleanup"}
    \/ outcome[w] \in {"completed", "stopped"}

\* Until the coordinator has ended nobody passes without the start object, which
\* was put when all were ready.
BarrierOK ==
    pc[Coordinator] # "end" =>
        /\ start => ready = Workers
        /\ \A w \in Workers : Passed(w) => start

\* A result in the store is the final outcome of a worker that has ended.
ResultsOK ==
    /\ \A w \in Workers : result[w] # "none" => outcome[w] = result[w]
    /\ \A w \in Workers : pc[w] = "put" => outcome[w] # "none"
    /\ \A w \in Workers \ {Coordinator} : result[w] # "none" => pc[w] = "end"
    /\ pc[Coordinator] \in {"setup", "arrive", "barrier", "launch", "run", "put"}
          => result[Coordinator] = "none"
    /\ pc[Coordinator] \in {"collect", "decide"} => \A w \in collected : result[w] # "none"
    /\ pc[Coordinator] = "decide" => collected = Workers

\* The verdict is decided when nobody else can change an outcome, and recorded
\* after the upload.
VerdictOK ==
    /\ verdict # "none" =>
          /\ pc[Coordinator] \in {"upload", "finish", "cleanup", "error", "end"}
          /\ \A w \in Workers \ {Coordinator} : pc[w] = "end"
    /\ pc[Coordinator] \in {"upload", "finish", "cleanup"} => verdict # "none"
    /\ pc[Coordinator] \in {"finish", "cleanup"} => uploaded
    /\ verdict = "completed" =>
          collected = Workers /\ \A w \in Workers : outcome[w] = "completed"
    /\ record = "completed" => ~requested /\ verdict = "completed"
    /\ record = "completed" \/ (record = "stopped" /\ ~requested) =>
          uploaded /\ pc[Coordinator] \in {"cleanup", "end"}
    /\ stopCall \in {"delete", "stopped", "done"} => requested

WorkersInv == WorkersTypeOK /\ BarrierOK /\ ResultsOK /\ VerdictOK

=============================================================================
