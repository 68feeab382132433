---------------------------- MODULE BenchmarkRuns ----------------------------
(***************************************************************************)
(* The run control of benchmarkservice: API replicas (BenchmarkManager)    *)
(* that start, stop and reconcile runs, the one-active-run lease and the   *)
(* run records in a KV bucket, the Kubernetes Jobs, and the coordinator of *)
(* each run (job.py) with its heartbeat and its Locust process.            *)
(*                                                                         *)
(* mutate, _acquire_lease, renew_lease and release_lease are retried       *)
(* compare-and-set loops, that is atomic changes of the current record;    *)
(* what a caller read before it calls them is a step of its own.           *)
(***************************************************************************)
EXTENDS Naturals, FiniteSets

CONSTANTS
    Runs,          \* run ids, in the order of use
    Calls,         \* concurrent requests of all API replicas
    NoRun,
    MaxFaults      \* bound on crashes, killed pods and failed calls

RunsAssumption == NoRun \notin Runs /\ MaxFaults \in Nat

VARIABLES
    lease,         \* lease.active: run, live (lease_until > now), released
    record,        \* run.<id>: state, named (job_name known), stop (stop_requested)
    job,           \* the Kubernetes Job, as its status is reported
    runner,        \* the coordinator process of the run
    locust,        \* whether its Locust process runs
    signalled,     \* stop_requested of the coordinator
    beat,          \* whether its heartbeat thread runs
    call,          \* the API requests
    disowned,      \* history: runs whose lease a request released under a coordinator
    faults

pod == <<runner, locust, signalled, beat>>
kube == <<job, pod>>
runVars == <<lease, record, kube, call, disowned, faults>>

ActiveStates == {"submitted", "starting", "running", "stopping"}
TerminalStates == {"completed", "failed", "stopped", "interrupted"}
NoRecord == [state |-> "absent", named |-> FALSE, stop |-> FALSE]
IdleCall == [pc |-> "idle", run |-> NoRun, named |-> FALSE, verdict |-> "none"]

\* The coordinator waits for its Locust process.
Waiting == {"announce", "run"}
Alive == Waiting \cup {"boot", "mark", "launch", "error", "finish", "release",
                       "releaseError", "exit", "exitError"}

RunsTypeOK ==
    /\ lease \in [run : Runs \cup {NoRun}, live : BOOLEAN, released : BOOLEAN]
    /\ record \in [Runs -> [state : ActiveStates \cup TerminalStates \cup {"absent"},
                            named : BOOLEAN, stop : BOOLEAN]]
    /\ job \in [Runs -> {"none", "active", "succeeded", "failed", "deleted"}]
    /\ runner \in [Runs -> Alive \cup {"none", "dead"}]
    /\ locust \in [Runs -> BOOLEAN]
    /\ signalled \in [Runs -> BOOLEAN]
    /\ beat \in [Runs -> BOOLEAN]
    /\ disowned \in SUBSET Runs
    /\ call \in [Calls -> [pc : {"idle", "lease", "create", "job", "name", "fail", "release",
                                 "stopping", "delete", "stopped", "query", "settle"},
                           run : Runs \cup {NoRun}, named : BOOLEAN,
                           verdict : TerminalStates \cup {"none"}]]
    /\ faults \in 0..MaxFaults

RunsInit ==
    /\ lease = [run |-> NoRun, live |-> FALSE, released |-> FALSE]
    /\ record = [r \in Runs |-> NoRecord]
    /\ job = [r \in Runs |-> "none"]
    /\ runner = [r \in Runs |-> "none"]
    /\ locust = [r \in Runs |-> FALSE]
    /\ signalled = [r \in Runs |-> FALSE]
    /\ beat = [r \in Runs |-> FALSE]
    /\ disowned = {}
    /\ call = [c \in Calls |-> IdleCall]
    /\ faults = 0

Fault == faults < MaxFaults /\ faults' = faults + 1
SetState(r, state) == record' = [record EXCEPT ![r].state = state]
Step(c, pc) == call' = [call EXCEPT ![c].pc = pc]
Done(c) == call' = [call EXCEPT ![c] = IdleCall]

\* Mutant of Released: the lease is released whoever has it.
ReleasedAny(r) == [lease EXCEPT !.live = FALSE, !.released = TRUE]

\* _release_lease, release_lease: only the run's own lease.
Released(r) ==
    IF lease.run = r THEN [lease EXCEPT !.live = FALSE, !.released = TRUE] ELSE lease

----------------------------------------------------------------------------
(* BenchmarkManager.start                                                  *)

Start(c, r) ==
    /\ call[c].pc = "idle"
    /\ record[r] = NoRecord /\ lease.run # r
    /\ \A d \in Calls : call[d].run # r
    /\ call' = [call EXCEPT ![c] = [IdleCall EXCEPT !.pc = "lease", !.run = r]]
    /\ UNCHANGED <<lease, record, kube, disowned, faults>>

\* Mutant of LeaseFree: the test of lease_until is missing.
LeaseIgnored == TRUE

\* lease_until has passed, or is 0 since the release.
LeaseFree == ~lease.live

\* A live lease answers 409; a free or expired one is taken.
AcquireLease(c) ==
    /\ call[c].pc = "lease"
    /\ IF LeaseFree
       THEN /\ lease' = [run |-> call[c].run, live |-> TRUE, released |-> FALSE]
            /\ Step(c, "create")
       ELSE /\ Done(c)
            /\ UNCHANGED lease
    /\ UNCHANGED <<record, kube, disowned, faults>>

\* The write was replayed after its reply was lost: the caller finds its own
\* lease live and answers 409.
AcquireReplyLost(c) ==
    /\ call[c].pc = "lease" /\ LeaseFree /\ Fault
    /\ lease' = [run |-> call[c].run, live |-> TRUE, released |-> FALSE]
    /\ Done(c)
    /\ UNCHANGED <<record, kube, disowned>>

CreateRecord(c) ==
    /\ call[c].pc = "create"
    /\ SetState(call[c].run, "submitted")
    /\ Step(c, "job")
    /\ UNCHANGED <<lease, kube, disowned, faults>>

\* store.create raises, also when it is replayed after the write took effect.
CreateRecordFails(c) ==
    /\ call[c].pc = "create" /\ Fault
    /\ record' \in {record, [record EXCEPT ![call[c].run].state = "submitted"]}
    /\ Step(c, "fail")
    /\ UNCHANGED <<lease, kube, disowned>>

StartJob(r) ==
    /\ job' = [job EXCEPT ![r] = "active"]
    /\ runner' = [runner EXCEPT ![r] = "boot"]
    /\ UNCHANGED <<locust, signalled, beat>>

\* A failed POST whose Job can be read is a success.
CreateJob(c) ==
    /\ call[c].pc = "job"
    /\ StartJob(call[c].run)
    /\ Step(c, "name")
    /\ UNCHANGED <<lease, record, disowned, faults>>

CreateJobFails(c) ==
    /\ call[c].pc = "job" /\ Fault
    /\ Step(c, "fail")
    /\ UNCHANGED <<lease, record, kube, disowned>>

\* The POST took effect and neither its reply nor the Job could be read.
CreateJobUnknown(c) ==
    /\ call[c].pc = "job" /\ Fault
    /\ StartJob(call[c].run)
    /\ Step(c, "fail")
    /\ UNCHANGED <<lease, record, disowned>>

NameJob(c) ==
    /\ call[c].pc = "name"
    /\ record' = [record EXCEPT ![call[c].run].named = TRUE]
    /\ Done(c)
    /\ UNCHANGED <<lease, kube, disowned, faults>>

\* The record cannot be updated, although the Job runs.
NameJobFails(c) ==
    /\ call[c].pc = "name" /\ Fault
    /\ Step(c, "fail")
    /\ UNCHANGED <<lease, record, kube, disowned>>

\* The exception handler of start; a missing record is ignored.
StartFailed(c) ==
    /\ call[c].pc = "fail"
    /\ IF record[call[c].run] = NoRecord THEN UNCHANGED record
       ELSE SetState(call[c].run, "failed")
    /\ Step(c, "release")
    /\ UNCHANGED <<lease, kube, disowned, faults>>

ReleaseLease(c) ==
    LET r == call[c].run IN
    /\ call[c].pc = "release"
    /\ lease' = Released(r)
    /\ disowned' = IF lease.run = r /\ runner[r] \in Alive THEN disowned \cup {r} ELSE disowned
    /\ Done(c)
    /\ UNCHANGED <<record, kube, faults>>

----------------------------------------------------------------------------
(* BenchmarkManager.stop                                                   *)

\* The state and the job name are read once.
Stop(c, r) ==
    /\ call[c].pc = "idle"
    /\ record[r].state \in ActiveStates
    /\ call' = [call EXCEPT ![c] = [IdleCall EXCEPT !.pc = "stopping", !.run = r,
                                                    !.named = record[r].named]]
    /\ UNCHANGED <<lease, record, kube, disowned, faults>>

Stopping(c) ==
    /\ call[c].pc = "stopping"
    /\ record' = [record EXCEPT ![call[c].run].state = "stopping", ![call[c].run].stop = TRUE]
    /\ Step(c, IF call[c].named THEN "delete" ELSE "stopped")
    /\ UNCHANGED <<lease, kube, disowned, faults>>

\* Background deletion: the Job is gone, the pods get SIGTERM and 75 seconds.
DeleteJob(c) ==
    /\ call[c].pc = "delete"
    /\ job' = [job EXCEPT ![call[c].run] = "deleted"]
    /\ Step(c, "stopped")
    /\ UNCHANGED <<lease, record, pod, disowned, faults>>

Stopped(c) ==
    /\ call[c].pc = "stopped"
    /\ SetState(call[c].run, "stopped")
    /\ Step(c, "release")
    /\ UNCHANGED <<lease, kube, disowned, faults>>

----------------------------------------------------------------------------
(* BenchmarkManager._reconcile, for details and list_runs                  *)

Details(c, r) ==
    /\ call[c].pc = "idle"
    /\ record[r].state \in ActiveStates /\ record[r].named
    /\ call' = [call EXCEPT ![c] = [IdleCall EXCEPT !.pc = "query", !.run = r,
         !.verdict = IF record[r].stop THEN "stopped" ELSE "interrupted"]]
    /\ UNCHANGED <<lease, record, kube, disowned, faults>>

\* A Job reported as failed fails the run; a missing one ends it when lease_until
\* of the record has passed, which it has not while the coordinator renews it or
\* still has the one of the start request.
JobOver(c) ==
    LET r == call[c].run IN
    /\ call[c].pc = "query"
    /\ \/ /\ job[r] = "failed"
          /\ call' = [call EXCEPT ![c].pc = "settle", ![c].verdict = "failed"]
       \/ /\ job[r] = "deleted" /\ ~beat[r] /\ runner[r] \notin {"boot", "mark"}
          /\ Step(c, "settle")
    /\ UNCHANGED <<lease, record, kube, disowned, faults>>

\* The Job runs, is reported as succeeded, cannot be read, or its run's lease_until
\* has not passed.
JobGoesOn(c) ==
    /\ call[c].pc = "query" /\ job[call[c].run] # "failed"
    /\ Done(c)
    /\ UNCHANGED <<lease, record, kube, disowned, faults>>

QueryJob(c) == JobOver(c) \/ JobGoesOn(c)

\* Mutant of Settle: the verdict is not written.
SettleNothing(c) ==
    /\ call[c].pc = "settle"
    /\ Step(c, "release")
    /\ UNCHANGED <<lease, record, kube, disowned, faults>>

Settle(c) ==
    /\ call[c].pc = "settle"
    /\ SetState(call[c].run, call[c].verdict)
    /\ Step(c, "release")
    /\ UNCHANGED <<lease, kube, disowned, faults>>

----------------------------------------------------------------------------
(* The coordinator: job.py main                                            *)

Goto(r, pc) == runner' = [runner EXCEPT ![r] = pc]

\* Mutant of Renewable: a released lease is taken back.
RenewableMine(r) == lease.run = r

\* renew_lease asks for the run's own lease, not yet released, expired or not.
Renewable(r) == lease.run = r /\ ~lease.released

RunnerRenews(r) ==
    /\ runner[r] = "boot"
    /\ lease' = IF Renewable(r) THEN [lease EXCEPT !.live = TRUE] ELSE lease
    /\ Goto(r, IF Renewable(r) THEN "mark" ELSE "error")
    /\ UNCHANGED <<record, job, locust, signalled, beat, call, disowned, faults>>

\* Whatever state the record has by now; then the heartbeat thread begins.
RunnerMarks(r) ==
    /\ runner[r] = "mark"
    /\ SetState(r, "starting")
    /\ beat' = [beat EXCEPT ![r] = TRUE]
    /\ Goto(r, "launch")
    /\ UNCHANGED <<lease, job, locust, signalled, call, disowned, faults>>

\* Popen; a stop signal that came before is not passed on to it.
RunnerLaunches(r) ==
    /\ runner[r] = "launch"
    /\ locust' = [locust EXCEPT ![r] = TRUE]
    /\ Goto(r, "announce")
    /\ UNCHANGED <<lease, record, job, signalled, beat, call, disowned, faults>>

RunnerAnnounces(r) ==
    /\ runner[r] = "announce"
    /\ SetState(r, "running")
    /\ Goto(r, "run")
    /\ UNCHANGED <<lease, job, locust, signalled, beat, call, disowned, faults>>

\* process.wait returns: the time is over or the process was interrupted.
LocustEnds(r) ==
    /\ runner[r] = "run"
    /\ locust' = [locust EXCEPT ![r] = FALSE]
    /\ Goto(r, "finish")
    /\ UNCHANGED <<lease, record, job, signalled, beat, call, disowned, faults>>

\* The heartbeat is stopped.  finish: a requested stop wins; otherwise the
\* workers' verdict, which is also the exit code.
RunnerFinishes(r) ==
    /\ runner[r] = "finish"
    /\ \E verdict \in (IF signalled[r] THEN {"stopped"} ELSE {"completed", "failed"}) :
          /\ SetState(r, IF record[r].stop THEN "stopped" ELSE verdict)
          /\ Goto(r, IF verdict = "failed" THEN "releaseError" ELSE "release")
    /\ beat' = [beat EXCEPT ![r] = FALSE]
    /\ UNCHANGED <<lease, job, locust, signalled, call, disowned, faults>>

\* A call of the store raises, or a wait for the other workers that a stop signal
\* interrupts.  The heartbeat is stopped; after Popen the Locust process runs on
\* until the container ends.
RunnerCallFails(r) ==
    /\ runner[r] \in {"boot", "mark", "launch", "announce", "finish"}
    /\ IF signalled[r] /\ runner[r] \in {"launch", "finish"} THEN UNCHANGED faults ELSE Fault
    /\ Goto(r, "error")
    /\ beat' = [beat EXCEPT ![r] = FALSE]
    /\ UNCHANGED <<lease, record, job, locust, signalled, call, disowned>>

\* The exception handler of main.
RunnerErrs(r) ==
    /\ runner[r] = "error"
    /\ SetState(r, "failed")
    /\ Goto(r, "releaseError")
    /\ UNCHANGED <<lease, job, locust, signalled, beat, call, disowned, faults>>

RunnerReleases(r) ==
    /\ runner[r] \in {"release", "releaseError"}
    /\ lease' = Released(r)
    /\ Goto(r, IF runner[r] = "release" THEN "exit" ELSE "exitError")
    /\ UNCHANGED <<record, job, locust, signalled, beat, call, disowned, faults>>

\* The status of an active Job after the failure of one of its pods: when another
\* index has succeeded, the Job is reported as succeeded.
JobFails(r) == job' \in {[job EXCEPT ![r] = report] : report \in {"failed", "succeeded"}}

\* The container ends, and with it what is left in it.
RunnerExits(r) ==
    /\ runner[r] \in {"exit", "exitError"}
    /\ IF job[r] # "active" THEN UNCHANGED job
       ELSE IF runner[r] = "exit" THEN job' = [job EXCEPT ![r] = "succeeded"]
       ELSE JobFails(r)
    /\ Goto(r, "dead")
    /\ locust' = [locust EXCEPT ![r] = FALSE]
    /\ UNCHANGED <<lease, record, signalled, beat, call, disowned, faults>>

\* heartbeat: renew the lease, or stop the run and end.
Heartbeat(r) ==
    /\ beat[r]
    /\ IF Renewable(r)
       THEN /\ lease' = [lease EXCEPT !.live = TRUE]
            /\ UNCHANGED <<signalled, beat>>
       ELSE /\ signalled' = [signalled EXCEPT ![r] = TRUE]
            /\ beat' = [beat EXCEPT ![r] = FALSE]
            /\ UNCHANGED lease
    /\ UNCHANGED <<record, job, runner, locust, call, disowned, faults>>

\* Mutant of HeartbeatFails: the thread ends and nobody is told.
HeartbeatEnds(r) ==
    /\ beat[r] /\ Fault
    /\ beat' = [beat EXCEPT ![r] = FALSE]
    /\ UNCHANGED <<lease, record, job, runner, locust, signalled, call, disowned>>

\* Any exception stops the run and ends the thread: nobody renews the lease while
\* the coordinator drains.
HeartbeatFails(r) ==
    /\ beat[r] /\ Fault
    /\ signalled' = [signalled EXCEPT ![r] = TRUE]
    /\ beat' = [beat EXCEPT ![r] = FALSE]
    /\ UNCHANGED <<lease, record, job, runner, locust, call, disowned>>

----------------------------------------------------------------------------
(* Time, Kubernetes and faults                                             *)

\* A lease runs out without a heartbeat, also under a coordinator that drains; but
\* the start request's own lasts longer than the run, and boot to heartbeat takes
\* less than the 90 seconds.
LeaseExpires ==
    /\ lease.live
    /\ ~beat[lease.run] /\ runner[lease.run] \notin {"boot", "mark"}
    /\ \A c \in Calls : call[c].run = lease.run => call[c].pc \notin {"create", "job", "name", "fail"}
    /\ lease' = [lease EXCEPT !.live = FALSE]
    /\ UNCHANGED <<record, kube, call, disowned, faults>>

\* Kubernetes sends SIGTERM to the pods of a Job that was deleted or has failed.
SigTerm(r) ==
    /\ job[r] # "active" /\ runner[r] \in Alive /\ ~signalled[r]
    /\ signalled' = [signalled EXCEPT ![r] = TRUE]
    /\ UNCHANGED <<lease, record, job, runner, locust, beat, call, disowned, faults>>

\* Another pod of the run fails, and with it the Job (backoffLimit 0).
SiblingFails(r) ==
    /\ job[r] = "active" /\ Fault
    /\ JobFails(r)
    /\ UNCHANGED <<lease, record, pod, call, disowned>>

\* The coordinator's pod is lost, or its grace period is over.
PodEnds(r) ==
    /\ runner[r] \in Alive
    /\ IF job[r] # "active" THEN UNCHANGED <<job, faults>> ELSE JobFails(r) /\ Fault
    /\ Goto(r, "dead")
    /\ locust' = [locust EXCEPT ![r] = FALSE]
    /\ beat' = [beat EXCEPT ![r] = FALSE]
    /\ UNCHANGED <<lease, record, signalled, call, disowned>>

\* ttlSecondsAfterFinished: the Job is deleted a day after its end.
JobExpires(r) ==
    /\ job[r] \in {"succeeded", "failed"} /\ runner[r] = "dead"
    /\ job' = [job EXCEPT ![r] = "deleted"]
    /\ UNCHANGED <<lease, record, pod, call, disowned, faults>>

\* An API replica stops, or a call of the store or of Kubernetes fails where the
\* request has no handler for it.
ReplicaStops(c) ==
    /\ call[c].pc # "idle" /\ Fault
    /\ Done(c)
    /\ UNCHANGED <<lease, record, kube, disowned>>

----------------------------------------------------------------------------

StartStep(c) == AcquireLease(c) \/ CreateRecord(c) \/ CreateJob(c) \/ NameJob(c) \/ StartFailed(c)
StopStep(c) == Stopping(c) \/ DeleteJob(c) \/ Stopped(c)
CallStep(c) == StartStep(c) \/ StopStep(c) \/ QueryJob(c) \/ Settle(c) \/ ReleaseLease(c)
CallFault(c) == AcquireReplyLost(c) \/ CreateRecordFails(c) \/ CreateJobFails(c)
                \/ CreateJobUnknown(c) \/ NameJobFails(c) \/ ReplicaStops(c)
RunnerStep(r) == RunnerRenews(r) \/ RunnerMarks(r) \/ RunnerLaunches(r) \/ RunnerAnnounces(r)
                 \/ LocustEnds(r) \/ RunnerFinishes(r) \/ RunnerErrs(r) \/ RunnerReleases(r)
                 \/ RunnerExits(r)
RunnerFault(r) == RunnerCallFails(r) \/ HeartbeatFails(r) \/ SiblingFails(r) \/ PodEnds(r)

RunsNext ==
    \/ \E c \in Calls : CallStep(c) \/ CallFault(c)
    \/ \E c \in Calls, r \in Runs : Start(c, r) \/ Stop(c, r) \/ Details(c, r)
    \/ \E r \in Runs :
          RunnerStep(r) \/ RunnerFault(r) \/ Heartbeat(r) \/ SigTerm(r) \/ JobExpires(r)
    \/ LeaseExpires

RunsSpec == RunsInit /\ [][RunsNext]_runVars

\* Requests and coordinators go on; the page lists the runs again and again, until
\* lease_until of a run without a heartbeat has passed; Kubernetes deletes what is
\* over.
RunsFairness ==
    /\ \A c \in Calls : WF_runVars(CallStep(c))
    /\ \A r \in Runs :
          /\ WF_runVars(RunnerStep(r)) /\ WF_runVars(JobExpires(r))
          /\ SF_runVars(\E c \in Calls : Details(c, r))
          /\ SF_runVars(\E c \in Calls : call[c].run = r /\ JobOver(c))

FairRunsSpec == RunsSpec /\ RunsFairness

----------------------------------------------------------------------------

\* The coordinator waits for a Locust process that nobody has told to stop.
Running(r) == runner[r] \in Waiting /\ ~signalled[r]

\* Why a request may release the lease of a run: its stop was requested, its start
\* failed before the Job's name was recorded, or its Job is over.
Reason(r) ==
    \/ record[r].stop
    \/ /\ ~record[r].named
       /\ \A c \in Calls : call[c].run = r => call[c].pc \notin {"lease", "create", "job", "name"}
    \/ job[r] \notin {"none", "active"}

\* However many replicas start, stop, fail and crash, and though leases run out
\* under coordinators that drain: two runs have a workload at once only when a
\* request released the lease of one of them while its coordinator lived, and that
\* request had a reason.
OneWorkload ==
    /\ \A r, s \in Runs \ disowned : Running(r) /\ Running(s) => r = s
    /\ \A r \in disowned : Reason(r)

\* Nobody's workload goes on: a Locust process that runs without the lease of its
\* run has been told to stop, or is watched by a heartbeat that will find out, or
\* its coordinator has failed and its container ends.
Watched ==
    \A r \in Runs : locust[r] /\ ~(lease.run = r /\ lease.live) =>
        \/ signalled[r] \/ beat[r]
        \/ runner[r] \in {"error", "releaseError", "exitError"}

\* What the README says: the compare-and-set on the lease lets concurrent requests
\* create one workload.
OneWorkloadEver ==
    \A r, s \in Runs : locust[r] /\ ~signalled[r] /\ locust[s] /\ ~signalled[s] => r = s

\* A released lease is never live again for the same run: a late heartbeat or a
\* late pod cannot take back what a stop or a failure has released.
ReleaseIsFinal ==
    [][lease.released /\ lease'.run = lease.run => ~lease'.live]_runVars

\* Nobody releases the lease of a run that is neither over nor to be ended: neither
\* a late request about an earlier run nor that run's late coordinator.
ReleasesRight ==
    lease.live /\ lease'.released =>
        record[lease.run].state \in TerminalStates \cup {"absent"} \/ Reason(lease.run)
ReleasedWhenOver == [][ReleasesRight]_runVars

\* The lease is released when its run is over or a request ends it, not earlier,
\* and never comes back to it.
LeaseReleases == ReleasedWhenOver /\ ReleaseIsFinal

\* No coordinator, and no name under which a request could look for the Job: the
\* replica stopped in the middle of the start request.
Lost(r) == ~record[r].named /\ runner[r] \notin Alive

\* Every submitted run ends in its record, and stays ended: a coordinator that is
\* lost is found by a request, at the latest when its Job has been deleted, unless
\* the replica that started the run stopped before it recorded the Job's name, or
\* users never cease to stop it.
RunSettles ==
    \A r \in Runs : record[r].state = "submitted" ~>
        \/ [](record[r].state \in TerminalStates)
        \/ []Lost(r)
        \/ []<>(\E c \in Calls : call[c].run = r /\ call[c].pc = "stopping")

----------------------------------------------------------------------------
(* The inductive invariants (proved in RunProofs)                          *)

\* A Job and a coordinator exist only for a run that has a record, and a request
\* that asks for the lease has a run id of its own, under which nothing exists yet
\* and which never had the lease that is there.
FreshOK ==
    /\ \A r \in Runs : record[r].state = "absent" => runner[r] = "none" /\ job[r] = "none"
    /\ \A r \in Runs : beat[r] => runner[r] # "none"
    /\ \A c \in Calls :
          /\ call[c].pc # "idle" => call[c].run \in Runs
          /\ call[c].pc \in {"query", "settle"} => call[c].verdict \in TerminalStates
          /\ call[c].pc \in {"job", "stopping", "delete"} => record[call[c].run].state # "absent"
    /\ \A c \in Calls : call[c].pc = "lease" =>
          /\ record[call[c].run] = NoRecord /\ runner[call[c].run] = "none"
          /\ lease.run # call[c].run
          /\ \A d \in Calls \ {c} : call[d].run # call[c].run

ReleasedOK == lease.released => ~lease.live

RunsInv == RunsTypeOK /\ FreshOK /\ ReleasedOK

\* The steps of start, its exception handler included.
Starting == {"lease", "create", "job", "name", "fail"}

\* One request starts a run, and its Job has no name before that request is done;
\* nobody deletes a Job without a name; a request that goes to the release has a
\* reason.
RequestOK(c) ==
    LET r == call[c].run IN
    /\ call[c].pc \in Starting =>
          /\ ~record[r].named
          /\ \A d \in Calls \ {c} : call[d].pc \in Starting => call[d].run # r
    /\ call[c].pc \in {"lease", "create", "job"} => job[r] = "none" /\ runner[r] = "none"
    /\ call[c].pc = "stopping" /\ call[c].named => record[r].named
    /\ call[c].pc = "delete" => record[r].named
    /\ call[c].pc \in {"delete", "stopped"} => record[r].stop
    /\ call[c].pc = "settle" => job[r] \notin {"none", "active"}
    /\ call[c].pc = "release" => Reason(r)

\* A coordinator that waits is signalled or has its heartbeat; a Locust process
\* has a coordinator that waits for it or has failed; a coordinator that goes to
\* the release has ended the record, or somebody else had a reason to.
PodOK(r) ==
    /\ beat[r] => runner[r] \in Waiting \cup {"launch", "finish"}
    /\ runner[r] \in Waiting \cup {"launch"} => signalled[r] \/ beat[r]
    /\ locust[r] => runner[r] \in Waiting \cup {"error", "releaseError", "exitError"}
    /\ runner[r] \in {"release", "releaseError"} =>
          record[r].state \in TerminalStates \/ Reason(r)

\* A coordinator with a heartbeat has the lease, unless a request released it.
HolderOK(r) ==
    r \notin disowned /\ (beat[r] \/ runner[r] = "mark") =>
        lease.run = r /\ lease.live /\ ~lease.released

ControlInv ==
    /\ RunsInv
    /\ \A c \in Calls : RequestOK(c)
    /\ \A r \in Runs : PodOK(r) /\ HolderOK(r)
    /\ \A r \in disowned : runner[r] # "none" /\ Reason(r)

=============================================================================
