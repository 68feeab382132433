--------------------------- MODULE FaultInjection ---------------------------
(***************************************************************************)
(* A fault-tolerance run (fault_tolerance.py over standalone.py): the main *)
(* thread starts Locust processes and waits for them, while a controller   *)
(* thread scales one deployment after the other to zero and back with      *)
(* kubectl.  Signals, kubectl calls that fail with or without effect and   *)
(* processes that cannot be started may come at any time; deadlines are    *)
(* moments that may come.                                                  *)
(***************************************************************************)
EXTENDS Naturals, Sequences, FiniteSets, SequencesExt

CONSTANTS
    Deployments,   \* how many deployments the plan disables, in order
    MaxReplicas,   \* bound on a deployment's replicas
    WorkerCount,   \* config.worker_count
    MaxErrors      \* bound on calls that fail

FaultAssumption ==
    /\ {Deployments, MaxReplicas, WorkerCount, MaxErrors} \subseteq Nat
    /\ Deployments > 0 /\ WorkerCount > 0

VARIABLES
    replicas,      \* the cluster: replicas of each deployment
    before,        \* replicas before the run
    original,      \* the plan: original_replicas
    main,          \* "plan", "spawn", "wait", "join", "report", "over"
    next,          \* the process that main starts or waits for
    crashed,       \* an exception is leaving run()
    proc,          \* the Locust processes
    controllerStop, \* controller_stop
    ctl,           \* the controller thread
    fault,         \* the fault it is at
    scaledDown,    \* scaled_down
    raised,        \* the exception __call__ ends with, if any
    events,        \* faults.jsonl
    failed,        \* controller_errors is not empty
    state,         \* status.json
    errors

faultVars == <<replicas, before, original, main, next, crashed, proc, controllerStop, ctl, fault,
               scaledDown, raised, events, failed, state, errors>>
cluster == <<replicas, before, original>>
mainVars == <<main, next, crashed, state>>
ctlVars == <<ctl, fault, scaledDown, raised, events, failed>>

D == 1..Deployments
Processes == 1..WorkerCount
Running == {w \in Processes : proc[w] = "running"}
Actions == {"scale_down_started", "disabled", "scale_up_started", "reenabled",
            "restored", "restore_failed"}
Waits == {"wait-down", "wait-up", "wait-end"}

FaultTypeOK ==
    /\ {replicas, before, original} \subseteq [D -> 0..MaxReplicas]
    /\ main \in {"plan", "spawn", "wait", "join", "report", "over"}
    /\ next \in 1..(WorkerCount + 1)
    /\ {crashed, controllerStop, raised, failed} \subseteq BOOLEAN
    /\ proc \in [Processes -> {"none", "running", "stopping", "completed", "failed"}]
    /\ ctl \in {"none", "down", "up", "restore", "signal", "ended"} \cup Waits
    /\ fault \in 1..(Deployments + 1)
    /\ scaledDown \subseteq {fault} \cap D
    /\ events \in Seq(D \X Actions)
    /\ state \in {"none", "completed", "failed"}
    /\ errors \in 0..MaxErrors

FaultInit ==
    /\ before \in [D -> 0..MaxReplicas] /\ replicas = before
    /\ original = [d \in D |-> 0]
    /\ main = "plan" /\ next = 1 /\ crashed = FALSE /\ state = "none"
    /\ proc = [w \in Processes |-> "none"]
    /\ controllerStop = FALSE
    /\ ctl = "none" /\ fault = 1 /\ scaledDown = {} /\ raised = FALSE
    /\ events = << >> /\ failed = FALSE
    /\ errors = 0

Error == errors < MaxErrors /\ errors' = errors + 1

----------------------------------------------------------------------------
(* The main thread                                                         *)

\* plan_from_args: both deployments can be scaled and have replicas, which
\* the plan keeps.
Plan ==
    /\ main = "plan"
    /\ \A d \in D : replicas[d] >= 1
    /\ original' = replicas
    /\ main' = "spawn"
    /\ UNCHANGED <<replicas, before, next, crashed, state, proc, controllerStop, ctlVars, errors>>

\* A deployment has no replica, or kubectl refuses: nothing is started.
PlanFails ==
    /\ main = "plan"
    /\ \/ (\E d \in D : replicas[d] < 1) /\ UNCHANGED errors
       \/ Error
    /\ main' = "over"
    /\ UNCHANGED <<cluster, next, crashed, state, proc, controllerStop, ctlVars>>

\* A worker process; after the last one, the controller thread.
Spawn ==
    /\ main = "spawn"
    /\ proc' = [proc EXCEPT ![next] = "running"]
    /\ IF next < WorkerCount
       THEN next' = next + 1 /\ UNCHANGED <<main, ctl>>
       ELSE next' = 1 /\ main' = "wait" /\ ctl' = "wait-down"
    /\ UNCHANGED <<cluster, crashed, state, controllerStop, fault, scaledDown, raised, events, failed, errors>>

\* A process cannot be started: the exception leaves run() through finally.
SpawnFails ==
    /\ main = "spawn" /\ Error
    /\ main' = "join" /\ crashed' = TRUE /\ controllerStop' = TRUE
    /\ UNCHANGED <<cluster, next, state, proc, ctlVars>>

\* process.wait(), one process after the other; finally sets the stop event.
WaitReturns ==
    /\ main = "wait" /\ proc[next] \in {"completed", "failed"}
    /\ next' = next + 1
    /\ IF next < WorkerCount
       THEN UNCHANGED <<main, controllerStop>>
       ELSE main' = "join" /\ controllerStop' = TRUE
    /\ UNCHANGED <<cluster, crashed, state, proc, ctlVars, errors>>

\* Mutant of Joined: a thread that was never started is joined too.
JoinedAlways == ctl = "ended"

\* controller_thread.join(), if there is one.
Joined == ctl \in {"none", "ended"}

\* The rest of finally: what still runs is terminated.
JoinReturns ==
    /\ main = "join" /\ Joined
    /\ proc' = [w \in Processes |-> IF proc[w] = "running" THEN "stopping" ELSE proc[w]]
    /\ main' = IF crashed THEN "over" ELSE "report"
    /\ UNCHANGED <<cluster, next, crashed, state, controllerStop, ctlVars, errors>>

\* The worker outputs are merged, the report is built and status.json written.
Report ==
    /\ main = "report"
    /\ \/ /\ state' = IF failed \/ \E w \in Processes : proc[w] # "completed"
                      THEN "failed" ELSE "completed"
          /\ UNCHANGED errors
       \/ Error /\ state' \in {"failed", state}   \* no report; or nothing to merge
    /\ main' = "over"
    /\ UNCHANGED <<cluster, next, crashed, proc, controllerStop, ctlVars>>

\* SIGINT and SIGTERM: request_stop, once run() has installed it.
RequestStop ==
    /\ main \in {"spawn", "wait", "join", "report"} /\ ~controllerStop
    /\ controllerStop' = TRUE
    /\ proc' = [w \in Processes |-> IF proc[w] = "running" THEN "stopping" ELSE proc[w]]
    /\ UNCHANGED <<cluster, mainVars, ctlVars, errors>>

\* A Locust process ends by itself or after a signal.
ProcessEnds(w) ==
    /\ proc[w] \in {"running", "stopping"}
    /\ \E code \in {"completed", "failed"} : proc' = [proc EXCEPT ![w] = code]
    /\ UNCHANGED <<cluster, mainVars, controllerStop, ctlVars, errors>>

----------------------------------------------------------------------------
(* The controller thread                                                   *)

Log(action) == events' = Append(events, <<fault, action>>)

\* Mutant of WaitOver: the deployment is noted once it is known to be down.
WaitOverUnmarked ==
    /\ ctl \in Waits
    /\ CASE ctl = "wait-down" -> Log("scale_down_started") /\ ctl' = "down" /\ UNCHANGED scaledDown
         [] ctl = "wait-up" ->
              /\ Log("scale_up_started")
              /\ ctl' = "up"
              /\ scaledDown' = scaledDown \cup {fault}
         [] ctl = "wait-end" -> ctl' = "restore" /\ UNCHANGED <<events, scaledDown>>
    /\ UNCHANGED <<cluster, mainVars, proc, controllerStop, fault, raised, failed, errors>>

\* _wait_until: the moment has come.
WaitOver ==
    /\ ctl \in Waits
    /\ CASE ctl = "wait-down" ->
              /\ Log("scale_down_started")
              /\ scaledDown' = scaledDown \cup {fault}
              /\ ctl' = "down"
         [] ctl = "wait-up" ->
              /\ Log("scale_up_started")
              /\ ctl' = "up"
              /\ UNCHANGED scaledDown
         [] ctl = "wait-end" -> ctl' = "restore" /\ UNCHANGED <<events, scaledDown>>
    /\ UNCHANGED <<cluster, mainVars, proc, controllerStop, fault, raised, failed, errors>>

\* _wait_until: the stop event comes first; InterruptedError.
WaitInterrupted ==
    /\ ctl \in Waits /\ controllerStop
    /\ ctl' = "restore" /\ raised' = TRUE
    /\ UNCHANGED <<cluster, mainVars, proc, controllerStop, fault, scaledDown, events, failed, errors>>

ScaleDown ==
    /\ ctl = "down"
    /\ replicas' = [replicas EXCEPT ![fault] = 0]
    /\ Log("disabled")
    /\ ctl' = "wait-up"
    /\ UNCHANGED <<before, original, mainVars, proc, controllerStop, fault, scaledDown, raised, failed, errors>>

ScaleUp ==
    /\ ctl = "up"
    /\ replicas' = [replicas EXCEPT ![fault] = original[fault]]
    /\ Log("reenabled")
    /\ scaledDown' = scaledDown \ {fault}
    /\ fault' = fault + 1
    /\ ctl' = IF fault < Deployments THEN "wait-down" ELSE "wait-end"
    /\ UNCHANGED <<before, original, mainVars, proc, controllerStop, raised, failed, errors>>

\* Mutant of AfterFailure: a failed call is skipped and the plan goes on.
AfterFailureOn ==
    /\ fault' = fault + 1 /\ scaledDown' = scaledDown \ {fault}
    /\ ctl' = IF fault < Deployments THEN "wait-down" ELSE "wait-end"
    /\ UNCHANGED raised

\* The exception leaves the loop for finally.
AfterFailure == ctl' = "restore" /\ raised' = TRUE /\ UNCHANGED <<fault, scaledDown>>

\* kubectl fails or times out; the cluster may have scaled anyway.
ScaleFails ==
    /\ ctl \in {"down", "up"} /\ Error
    /\ replicas' \in {replicas, [replicas EXCEPT ![fault] = IF ctl = "down" THEN 0 ELSE original[fault]]}
    /\ AfterFailure
    /\ UNCHANGED <<before, original, mainVars, proc, controllerStop, events, failed>>

\* finally: one attempt to restore what is still scaled down.
Restore ==
    /\ ctl = "restore"
    /\ IF scaledDown = {}
       THEN /\ ctl' = IF raised THEN "signal" ELSE "ended"
            /\ UNCHANGED <<replicas, events, raised, scaledDown, errors>>
       ELSE /\ scaledDown' = {}
            /\ \/ /\ replicas' = [replicas EXCEPT ![fault] = original[fault]]
                  /\ Log("restored")
                  /\ UNCHANGED <<raised, errors>>
               \/ /\ Error
                  /\ replicas' \in {replicas, [replicas EXCEPT ![fault] = original[fault]]}
                  /\ Log("restore_failed")
                  /\ raised' = TRUE
            /\ ctl' = "restore"
    /\ UNCHANGED <<before, original, mainVars, proc, controllerStop, fault, failed>>

\* Mutant of ControlRun: an interrupted controller is not an error.
ControlRunQuiet ==
    /\ ctl = "signal" /\ ctl' = "ended"
    /\ failed' = (failed \/ ~controllerStop) /\ controllerStop' = TRUE
    /\ proc' = [w \in Processes |-> IF proc[w] = "running" THEN "stopping" ELSE proc[w]]
    /\ UNCHANGED <<cluster, mainVars, fault, scaledDown, raised, events, errors>>

\* control_run: the error is kept and every process signalled; killpg raises
\* if main has reaped a process meanwhile, and the others are left running.
ControlRun ==
    /\ ctl = "signal" /\ ctl' = "ended"
    /\ failed' = TRUE /\ controllerStop' = TRUE
    /\ \E signalled \in {Running} \cup {{w \in Running : w < n} : n \in Processes \ Running} :
          proc' = [w \in Processes |-> IF w \in signalled THEN "stopping" ELSE proc[w]]
    /\ UNCHANGED <<cluster, mainVars, fault, scaledDown, raised, events, errors>>

----------------------------------------------------------------------------

MainStep == Plan \/ PlanFails \/ Spawn \/ SpawnFails \/ WaitReturns \/ JoinReturns \/ Report
ControllerStep ==
    WaitOver \/ WaitInterrupted \/ ScaleDown \/ ScaleUp \/ ScaleFails \/ Restore \/ ControlRun

FaultNext ==
    \/ MainStep \/ ControllerStep \/ RequestStop
    \/ \E w \in Processes : ProcessEnds(w)

\* Both threads go on (kubectl has a time-out, _wait_until a deadline), and
\* Locust has a run time and a stop time-out.
FaultFairness ==
    /\ WF_faultVars(MainStep) /\ WF_faultVars(ControllerStep)
    /\ \A w \in Processes : WF_faultVars(ProcessEnds(w))

FaultSpec == FaultInit /\ [][FaultNext]_faultVars /\ FaultFairness

----------------------------------------------------------------------------

\* When the run is over every deployment has the replicas it had before, or
\* the failed attempt to restore it is in faults.jsonl and the run did not
\* complete: the target cluster is never left disabled silently, whatever
\* failed, timed out or was interrupted.
NothingLeftDown ==
    main = "over" =>
        \A d \in D :
            \/ replicas[d] = before[d]
            \/ Contains(events, <<d, "restore_failed">>) /\ state # "completed"

\* Two services are never out at once: the next outage begins only after the
\* previous service has been scaled up, so an outage measures one service.
OneOutage ==
    Cardinality({d \in D : replicas[d] # before[d]}) <= 1

\* The four entries of a fault that was injected and reverted.
Injected(d) ==
    /\ events[4 * d - 3] = <<d, "scale_down_started">> /\ events[4 * d - 2] = <<d, "disabled">>
    /\ events[4 * d - 1] = <<d, "scale_up_started">> /\ events[4 * d] = <<d, "reenabled">>

\* A run is reported as completed only if every fault of the plan was injected
\* and reverted, in order, and nothing else was done to the cluster.
CompletedMeansInjected ==
    state = "completed" => Len(events) = 4 * Deployments /\ \A d \in D : Injected(d)

\* Fault injection takes down one service at a time and leaves none down
\* silently, and a completed run has injected all faults of its plan.
ClusterRestored == NothingLeftDown /\ OneOutage /\ CompletedMeansInjected

\* The run ends, also when the controller never started or has to roll back.
FaultRunEnds == <>(main = "over")

----------------------------------------------------------------------------
(* The inductive invariant (proved in RunProgressProofs)                   *)

\* Which controller goes with which state of main: it exists from the last spawn
\* on, and main is past join only without it.
ThreadsOK ==
    /\ main \in {"plan", "spawn", "wait"} => next \in Processes
    /\ main \in {"plan", "spawn"} => ctl = "none" /\ ~crashed
    /\ main = "wait" => ctl # "none" /\ ~crashed
    /\ main = "join" => (ctl = "none" <=> crashed)
    /\ main = "report" => ctl = "ended" /\ ~crashed
    /\ main = "over" => ctl \in {"none", "ended"}
    /\ state = "completed" => main = "over" /\ ctl = "ended" /\ ~failed

\* What the controller has in hand at each of its steps.
ControllerOK ==
    /\ ctl = "none" => fault = 1 /\ scaledDown = {} /\ ~raised /\ events = << >>
    /\ ctl \in {"wait-down", "down", "wait-up", "up"} => fault \in D /\ ~raised
    /\ ctl \in {"down", "wait-up", "up"} => scaledDown = {fault}
    /\ ctl \in {"wait-down", "wait-end", "signal", "ended"} => scaledDown = {}
    /\ ctl = "wait-end" => ~raised
    /\ ctl = "signal" => raised
    /\ ctl = "ended" /\ raised => failed
    /\ ctl \in {"wait-end", "restore", "ended"} /\ ~raised => fault = Deployments + 1

\* A deployment that is not as it was is the one the controller is at: it is
\* still to be restored, or its restoration has failed and was logged.
ClusterOK ==
    /\ ctl = "none" => replicas = before
    /\ ctl # "none" \/ main \notin {"plan", "over"} => original = before
    /\ \A d \in D : replicas[d] # before[d] =>
          /\ d = fault
          /\ \/ fault \in scaledDown
             \/ /\ raised /\ ctl \in {"restore", "signal", "ended"}
                /\ Contains(events, <<fault, "restore_failed">>)

\* Entries of the current fault in faults.jsonl, until an exception.
Entries ==
    CASE ctl = "down" -> 1 [] ctl = "wait-up" -> 2 [] ctl = "up" -> 3 [] OTHER -> 0

LogOK ==
    ~raised =>
        /\ Len(events) = 4 * (fault - 1) + Entries
        /\ \A d \in 1..(fault - 1) : Injected(d)
        /\ Entries >= 1 => events[4 * fault - 3] = <<fault, "scale_down_started">>
        /\ Entries >= 2 => events[4 * fault - 2] = <<fault, "disabled">>
        /\ Entries >= 3 => events[4 * fault - 1] = <<fault, "scale_up_started">>

FaultInv == FaultTypeOK /\ ThreadsOK /\ ControllerOK /\ ClusterOK /\ LogOK

=============================================================================
