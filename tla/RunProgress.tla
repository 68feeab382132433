---------------------------- MODULE RunProgress -----------------------------
(***************************************************************************)
(* What the control of benchmark runs promises about their end, checked    *)
(* side by side as in RunControl, with the worker pods of a run and the    *)
(* injection of faults.                                                    *)
(***************************************************************************)
EXTENDS BenchmarkWorkers, FaultInjection

VARIABLES
    part,          \* the component whose behaviour this is
    lease, runRecord, job, runner, locust, signalled, beat, runCall, disowned, runFaults,
    current, conns, lock, storeThread, storeResult, wire, log, closed, shaken, storeFaults,
    runs, plan, plans, active, inFlight, post, refresh, stopping, excused, others,
    sequenceFaults

runState == <<lease, runRecord, job, runner, locust, signalled, beat, runCall, disowned,
       runFaults>>
storeState == <<current, conns, lock, storeThread, storeResult, wire, log, closed, shaken, storeFaults>>
sequenceState == <<runs, plan, plans, active, inFlight, post, refresh, stopping, excused, others,
       sequenceFaults>>

\* One run, and two requests at a time: its start, stops and looks at its state.
Control == INSTANCE BenchmarkRuns WITH
    Runs <- {"a"}, Calls <- {"c1", "c2"}, NoRun <- "none", MaxFaults <- 1,
    record <- runRecord, call <- runCall, faults <- runFaults

\* One thread: overlapping calls can close each other's connections.
Store == INSTANCE SharedStore WITH
    ThreadCount <- 1, Kinds <- {"update", "get", "put"}, MaxCalls <- 2, MaxConns <- 4,
    MaxStoreFaults <- 2, Troubles <- {"drop", "timeout"}, thread <- storeThread,
    result <- storeResult

\* One sequence of two runs and another user.
Sequence == INSTANCE RunSequence WITH
    Total <- 2, MaxPlans <- 1, MaxOthers <- 1, MaxSequenceFaults <- 1

ASSUME RunProgressAssumption ==
    /\ Control!RunsAssumption
    /\ Store!StoreAssumption
    /\ Sequence!SequenceAssumption
    /\ WorkersAssumption
    /\ FaultAssumption

Parts == {"runs", "store", "sequence", "workers", "faults"}

RunProgressInit ==
    /\ part \in Parts
    /\ Control!RunsInit
    /\ Store!StoreInit
    /\ Sequence!SequenceInit
    /\ WorkersInit
    /\ FaultInit
    /\ part # "faults" => before = [d \in D |-> 1]

\* A behaviour of one component; the others keep their initial states.
RunProgressNext ==
    \/ /\ part = "runs" /\ Control!RunsNext
       /\ UNCHANGED <<part, storeState, sequenceState, workerVars, faultVars>>
    \/ /\ part = "store" /\ Store!StoreNext
       /\ UNCHANGED <<part, runState, sequenceState, workerVars, faultVars>>
    \/ /\ part = "sequence" /\ Sequence!SequenceNext
       /\ UNCHANGED <<part, runState, storeState, workerVars, faultVars>>
    \/ /\ part = "workers" /\ WorkersNext
       /\ UNCHANGED <<part, runState, storeState, sequenceState, faultVars>>
    \/ /\ part = "faults" /\ FaultNext
       /\ UNCHANGED <<part, runState, storeState, sequenceState, workerVars>>

runProgressVars ==
    <<part, runState, storeState, sequenceState, workerVars, faultVars>>

RunProgressFairness ==
    /\ \A c \in {"c1", "c2"} : WF_runState(part = "runs" /\ Control!CallStep(c))
    /\ WF_runState(part = "runs" /\ Control!RunnerStep("a"))
    /\ WF_runState(part = "runs" /\ Control!JobExpires("a"))
    /\ SF_runState(part = "runs" /\ \E c \in {"c1", "c2"} : Control!Details(c, "a"))
    /\ SF_runState(part = "runs" /\ \E c \in {"c1", "c2"} : Control!JobOver(c))
    /\ \A t \in Store!Threads : WF_storeState(part = "store" /\ Store!CoroutineStep(t))
    /\ WF_storeState(part = "store" /\ \E q \in wire : Store!Serve(q))
    /\ \A c \in 1..4 : WF_storeState(part = "store" /\ Store!Reconnect(c))
    /\ WF_sequenceState(part = "sequence" /\ Sequence!Answers)
    /\ WF_sequenceState(part = "sequence" /\ Sequence!StopAnswered)
    /\ WF_sequenceState(part = "sequence" /\ Sequence!Refreshing)
    /\ SF_sequenceState(part = "sequence" /\ Sequence!Submitting)
    /\ \A i \in 1..(2 * 1 + 1) : WF_sequenceState(part = "sequence" /\ Sequence!RunEnds(i))
    /\ WF_workerVars(part = "workers" /\ CoordinatorStep)
    /\ WF_workerVars(part = "workers" /\ Reconcile)
    /\ WF_workerVars(part = "workers" /\ JobExpires)
    /\ \A w \in Workers : WF_workerVars(part = "workers" /\ WorkerStep(w))
    /\ WF_faultVars(part = "faults" /\ MainStep)
    /\ WF_faultVars(part = "faults" /\ ControllerStep)
    /\ \A w \in Processes : WF_faultVars(part = "faults" /\ ProcessEnds(w))

RunProgressSpec ==
    /\ RunProgressInit /\ [][RunProgressNext]_runProgressVars
    /\ RunProgressFairness

----------------------------------------------------------------------------

\* Every submitted run ends in its record, and stays ended: a coordinator that is
\* lost is found by a request, at the latest when its Job has been deleted, unless
\* the replica that started the run stopped before it recorded the Job's name, or
\* users never cease to stop it.
RunSettles == Control!RunSettles

\* Every call returns to its thread, also when the store is closed meanwhile.
CallReturns == Store!CallReturns

\* Once calls are neither lost nor slow any more, every call that begins ends
\* with an answer of the server: nothing a cancelled call has left behind
\* (the lock, a connection that was lost) stops it, unless the store is closed.
StoreRecovers == Store!StoreRecovers

\* A sequence ends: with its last run, with the user's stop or with an error.
SequenceEnds == Sequence!SequenceEnds

----------------------------------------------------------------------------
(* The properties of the run                                              *)

\* Types of the state of the components.
RunProgressTypeOK ==
    /\ WorkersTypeOK
    /\ FaultTypeOK

\* Runs come to an end though pods and calls are lost, replicas stop in the middle
\* of a request and users stop runs: records settle, with the two exceptions
\* RunSettles names, sequences end, nobody waits for ever at the barrier, and an
\* injection that failed is rolled back.  Every call of the store returns to its
\* thread, and once nothing fails any more with an answer of the server; that is
\* for one call at a time.
RunsEnd ==
    /\ []RunProgressTypeOK
    /\ RunSettles /\ SequenceEnds /\ CallReturns /\ StoreRecovers
    /\ part = "workers" => AllEnd
    /\ part = "faults" => FaultRunEnds

=============================================================================
