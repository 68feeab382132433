------------------------------ MODULE RunProofs ------------------------------
(***************************************************************************)
(* Proofs about the control of benchmark runs, for any set of runs, of     *)
(* concurrent requests and of faults.                                      *)
(***************************************************************************)
EXTENDS BenchmarkRuns, TLAPS

CallPcs == {"idle", "lease", "create", "job", "name", "fail", "release",
            "stopping", "delete", "stopped", "query", "settle"}
CallRec == [pc : CallPcs, run : Runs \cup {NoRun}, named : BOOLEAN,
            verdict : TerminalStates \cup {"none"}]
RecordRec == [state : ActiveStates \cup TerminalStates \cup {"absent"},
              named : BOOLEAN, stop : BOOLEAN]
LeaseRec == [run : Runs \cup {NoRun}, live : BOOLEAN, released : BOOLEAN]

----------------------------------------------------------------------------
(* The requests and the records, one change at a time                      *)

LEMMA CallForms ==
  ASSUME NEW r \in Runs
  PROVE  /\ IdleCall \in CallRec /\ IdleCall.pc = "idle" /\ IdleCall.run = NoRun
         /\ [IdleCall EXCEPT !.pc = "lease", !.run = r] \in CallRec
         /\ [IdleCall EXCEPT !.pc = "lease", !.run = r].pc = "lease"
         /\ [IdleCall EXCEPT !.pc = "lease", !.run = r].run = r
<1>1. IdleCall \in CallRec /\ IdleCall.pc = "idle" /\ IdleCall.run = NoRun
  BY DEF IdleCall, CallRec, CallPcs
<1> DEFINE s == [IdleCall EXCEPT !.pc = "lease", !.run = r]
<1>2. s \in CallRec /\ s.pc = "lease" /\ s.run = r
  BY <1>1 DEF CallRec, CallPcs
<1> QED BY <1>1, <1>2

\* A request goes on in its own state.
LEMMA CallSet ==
  ASSUME RunsTypeOK, NEW c \in Calls, NEW x \in CallRec, call' = [call EXCEPT ![c] = x]
  PROVE  /\ call' \in [Calls -> CallRec] /\ call'[c] = x
         /\ \A d \in Calls \ {c} : call'[d] = call[d]
BY DEF RunsTypeOK, CallRec, CallPcs

LEMMA StepSet ==
  ASSUME RunsTypeOK, NEW c \in Calls, NEW p \in CallPcs, Step(c, p)
  PROVE  /\ call' \in [Calls -> CallRec] /\ call'[c].pc = p /\ call'[c].run = call[c].run
         /\ call'[c].verdict = call[c].verdict /\ call'[c].named = call[c].named
         /\ \A d \in Calls \ {c} : call'[d] = call[d]
<1> DEFINE x == [call[c] EXCEPT !.pc = p]
<1>1. call \in [Calls -> CallRec]
  BY DEF RunsTypeOK, CallRec, CallPcs
<1>2. call' = [call EXCEPT ![c] = x]
  BY DEF Step
<1>3. x \in CallRec /\ x.pc = p /\ x.run = call[c].run /\ x.verdict = call[c].verdict
      /\ x.named = call[c].named
  BY <1>1 DEF CallRec
<1> HIDE DEF x
<1> QED BY <1>2, <1>3, CallSet

LEMMA DoneSet ==
  ASSUME RunsAssumption, RunsTypeOK, NEW c \in Calls, Done(c)
  PROVE  /\ call' \in [Calls -> CallRec] /\ call'[c] = IdleCall
         /\ call'[c].pc = "idle" /\ call'[c].run = NoRun
         /\ \A d \in Calls \ {c} : call'[d] = call[d]
<1>1. IdleCall \in CallRec /\ IdleCall.pc = "idle" /\ IdleCall.run = NoRun
  BY DEF IdleCall, CallRec, CallPcs
<1> QED BY <1>1, CallSet DEF Done

\* mutate writes one run's record.
LEMMA StateSet ==
  ASSUME RunsTypeOK, NEW r \in Runs,
         NEW s \in ActiveStates \cup TerminalStates \cup {"absent"}, SetState(r, s)
  PROVE  /\ record' \in [Runs -> RecordRec] /\ record'[r].state = s
         /\ record'[r].named = record[r].named /\ record'[r].stop = record[r].stop
         /\ \A q \in Runs \ {r} : record'[q] = record[q]
<1>1. record \in [Runs -> RecordRec]
  BY DEF RunsTypeOK, RecordRec
<1> DEFINE x == [record[r] EXCEPT !.state = s]
<1>2. record' = [record EXCEPT ![r] = x]
  BY DEF SetState
<1>3. x \in RecordRec /\ x.state = s /\ x.named = record[r].named /\ x.stop = record[r].stop
  BY <1>1 DEF RecordRec
<1> HIDE DEF x
<1> QED BY <1>1, <1>2, <1>3

\* release_lease
LEMMA ReleaseSet ==
  ASSUME RunsTypeOK, NEW r
  PROVE  /\ Released(r) \in LeaseRec /\ Released(r).run = lease.run
         /\ Released(r) # lease => Released(r).released /\ ~Released(r).live /\ lease.run = r
         /\ lease.run # r => Released(r) = lease
<1>1. lease \in LeaseRec
  BY DEF RunsTypeOK, LeaseRec
<1> DEFINE x == [lease EXCEPT !.live = FALSE, !.released = TRUE]
<1>2. x \in LeaseRec /\ x.run = lease.run /\ x.released /\ ~x.live
  BY <1>1 DEF LeaseRec
<1> HIDE DEF x
<1>3. Released(r) = IF lease.run = r THEN x ELSE lease
  BY DEF Released, x
<1> QED BY <1>1, <1>2, <1>3

\* renew_lease
LEMMA RenewSet ==
  ASSUME RunsTypeOK
  PROVE  /\ [lease EXCEPT !.live = TRUE] \in LeaseRec /\ [lease EXCEPT !.live = FALSE] \in LeaseRec
         /\ [lease EXCEPT !.live = TRUE].run = lease.run
         /\ [lease EXCEPT !.live = FALSE].run = lease.run
         /\ [lease EXCEPT !.live = TRUE].released = lease.released
         /\ [lease EXCEPT !.live = FALSE].released = lease.released
         /\ [lease EXCEPT !.live = TRUE].live /\ ~[lease EXCEPT !.live = FALSE].live
<1>1. lease \in LeaseRec
  BY DEF RunsTypeOK, LeaseRec
<1> QED BY <1>1 DEF LeaseRec

----------------------------------------------------------------------------
(* What a step may change                                                  *)

JobStates == {"none", "active", "succeeded", "failed", "deleted"}

\* The state after a step, part by part.
LEMMA TypeParts ==
  /\ RunsTypeOK => /\ lease \in LeaseRec /\ record \in [Runs -> RecordRec]
                   /\ call \in [Calls -> CallRec] /\ faults \in 0..MaxFaults
                   /\ job \in [Runs -> JobStates]
                   /\ runner \in [Runs -> Alive \cup {"none", "dead"}]
                   /\ locust \in [Runs -> BOOLEAN] /\ signalled \in [Runs -> BOOLEAN]
                   /\ beat \in [Runs -> BOOLEAN] /\ disowned \in SUBSET Runs
  /\ /\ lease' \in LeaseRec /\ record' \in [Runs -> RecordRec] /\ call' \in [Calls -> CallRec]
     /\ job' \in [Runs -> JobStates]
     /\ runner' \in [Runs -> Alive \cup {"none", "dead"}]
     /\ locust' \in [Runs -> BOOLEAN] /\ signalled' \in [Runs -> BOOLEAN]
     /\ beat' \in [Runs -> BOOLEAN] /\ disowned' \in SUBSET Runs
     /\ faults' \in 0..MaxFaults
     => RunsTypeOK'
BY DEF RunsTypeOK, LeaseRec, RecordRec, CallRec, CallPcs, JobStates

LEMMA FaultCounts ==
  ASSUME RunsAssumption, RunsTypeOK, Fault
  PROVE  faults' \in 0..MaxFaults
BY DEF RunsAssumption, RunsTypeOK, Fault

\* How a request goes on.
Moves(p, q) ==
    \/ p = "lease" /\ q = "create"
    \/ p = "create" /\ q \in {"job", "fail"}
    \/ p = "job" /\ q \in {"name", "fail"}
    \/ p = "name" /\ q = "fail"
    \/ p = "stopping" /\ q \in {"delete", "stopped"}
    \/ p = "delete" /\ q = "stopped"
    \/ p = "query" /\ q = "settle"
    \/ p \in {"fail", "stopped", "settle"} /\ q = "release"

\* What a request may change in the record of its run ...
RecordEffect(c) ==
    LET r == call[c].run IN
    /\ record' \in [Runs -> RecordRec]
    /\ \A q \in Runs \ {r} : record'[q] = record[q]
    /\ record[r].stop => record'[r].stop
    /\ record'[r].named = record[r].named \/ (call[c].pc = "name" /\ call'[c].pc = "idle")
    /\ \/ record'[r].state \in TerminalStates \/ record'[r].state = record[r].state
       \/ call[c].pc = "create" \/ record'[r].stop
    /\ record'[r].state = "absent" => record[r].state = "absent"
    /\ call'[c].pc = "job" => record'[r].state # "absent"
    /\ call[c].pc = "stopping" /\ call'[c].pc # "idle" => record'[r].stop

\* ... in its own state ...
StateEffect(c) ==
    /\ call' \in [Calls -> CallRec]
    /\ \A d \in Calls \ {c} : call'[d] = call[d]
    /\ \/ call'[c].pc = "idle" /\ call'[c].run = NoRun
       \/ /\ Moves(call[c].pc, call'[c].pc)
          /\ call'[c].run = call[c].run /\ call'[c].named = call[c].named
    /\ call'[c].pc \in {"query", "settle"} => call'[c].verdict \in TerminalStates
    /\ call'[c].pc = "delete" => call[c].named
    /\ call'[c].pc = "settle" => job[call[c].run] \notin {"none", "active"}

\* ... of the Job and the lease, which it takes when it is free and releases when
\* it is the run's own.
CallEffect(c) ==
    LET r == call[c].run IN
    /\ RunsTypeOK'
    /\ call[c].pc # "idle" /\ r \in Runs
    /\ RecordEffect(c) /\ StateEffect(c)
    /\ locust' = locust /\ signalled' = signalled /\ beat' = beat
    /\ \A q \in Runs \ {r} : runner'[q] = runner[q] /\ job'[q] = job[q]
    /\ \/ job' = job /\ runner' = runner
       \/ call[c].pc = "job" /\ job'[r] = "active" /\ runner'[r] = "boot"
       \/ call[c].pc = "delete" /\ job'[r] = "deleted" /\ runner' = runner
    /\ \/ lease' = lease /\ disowned' = disowned
       \/ /\ call[c].pc = "lease" /\ ~lease.live /\ disowned' = disowned
          /\ lease'.run = r /\ lease'.live /\ ~lease'.released
       \/ /\ call[c].pc = "release" /\ lease.run = r
          /\ lease'.run = r /\ lease'.released /\ ~lease'.live
          /\ disowned' = IF runner[r] \in Alive THEN disowned \cup {r} ELSE disowned

LEMMA CallEffects ==
  ASSUME RunsAssumption, RunsInv, NEW c \in Calls, CallStep(c) \/ CallFault(c)
  PROVE  CallEffect(c)
<1> DEFINE r == call[c].run
<1>1. /\ RunsTypeOK /\ lease \in LeaseRec /\ record \in [Runs -> RecordRec]
      /\ call \in [Calls -> CallRec] /\ faults \in 0..MaxFaults
      /\ job \in [Runs -> JobStates] /\ runner \in [Runs -> Alive \cup {"none", "dead"}]
      /\ locust \in [Runs -> BOOLEAN] /\ signalled \in [Runs -> BOOLEAN]
      /\ beat \in [Runs -> BOOLEAN] /\ disowned \in SUBSET Runs
  BY TypeParts DEF RunsInv
<1>2. call[c].pc # "idle"
  BY DEF CallStep, StartStep, StopStep, QueryJob, CallFault, AcquireLease, CreateRecord, CreateJob,
         NameJob, StartFailed, Stopping, DeleteJob, Stopped, JobOver, JobGoesOn, Settle, ReleaseLease,
         AcquireReplyLost, CreateRecordFails, CreateJobFails, CreateJobUnknown, NameJobFails, ReplicaStops
<1>3. /\ r \in Runs
      /\ call[c].pc \in {"query", "settle"} => call[c].verdict \in TerminalStates
      /\ call[c].pc = "job" => record[r].state # "absent"
  BY <1>2 DEF RunsInv, FreshOK
<1> HIDE DEF r
\* The state of the request: it moves on or is done.
<1>4. ASSUME NEW p \in CallPcs, Step(c, p), Moves(call[c].pc, p), p # "settle",
             p = "delete" => call[c].named
      PROVE  StateEffect(c) /\ call'[c].pc = p
  <2>1. /\ call' \in [Calls -> CallRec] /\ call'[c].pc = p /\ call'[c].run = call[c].run
        /\ call'[c].named = call[c].named /\ \A d \in Calls \ {c} : call'[d] = call[d]
    BY <1>1, <1>4, StepSet
  <2>2. p # "query"
    BY <1>4 DEF Moves
  <2> QED BY <1>4, <2>1, <2>2 DEF StateEffect
<1>5. ASSUME Done(c)
      PROVE  StateEffect(c) /\ call'[c].pc = "idle"
  BY <1>1, <1>5, DoneSet DEF StateEffect
\* The record: unchanged, or with another state.
<1>6. ASSUME record' = record, call[c].pc # "stopping" \/ call'[c].pc = "idle",
             call'[c].pc # "job"
      PROVE  RecordEffect(c)
  BY <1>1, <1>6 DEF RecordEffect, r
<1>7. ASSUME NEW s \in TerminalStates, SetState(r, s), call[c].pc # "stopping"
      PROVE  RecordEffect(c)
  <2>1. /\ record' \in [Runs -> RecordRec] /\ record'[r].state = s
        /\ record'[r].named = record[r].named /\ record'[r].stop = record[r].stop
        /\ \A q \in Runs \ {r} : record'[q] = record[q]
    BY <1>1, <1>3, <1>7, StateSet
  <2>2. s # "absent"
    BY DEF TerminalStates
  <2> QED BY <1>7, <2>1, <2>2 DEF RecordEffect, r
\* A step that leaves lease and processes alone.
<1>8. ASSUME UNCHANGED <<lease, kube, disowned>>, faults' \in 0..MaxFaults,
             RecordEffect(c), StateEffect(c)
      PROVE  CallEffect(c)
  <2>1. RunsTypeOK'
    BY <1>1, <1>8, TypeParts DEF kube, pod, RecordEffect, StateEffect
  <2> QED BY <1>2, <1>3, <1>8, <2>1 DEF CallEffect, kube, pod, r
<1>9. CASE AcquireLease(c) \/ AcquireReplyLost(c)
  <2>1. /\ call[c].pc = "lease" /\ UNCHANGED <<record, kube, disowned>> /\ faults' \in 0..MaxFaults
        /\ Step(c, "create") \/ Done(c)
        /\ \/ lease' = lease
           \/ ~lease.live /\ lease' = [run |-> r, live |-> TRUE, released |-> FALSE]
    BY <1>1, <1>9, FaultCounts DEF AcquireLease, AcquireReplyLost, LeaseFree, r
  <2>2. StateEffect(c) /\ call'[c].pc # "job"
    BY <1>4, <1>5, <2>1 DEF CallPcs, Moves
  <2>3. RecordEffect(c)
    BY <1>6, <2>1, <2>2
  <2>4. lease' \in LeaseRec
        /\ (lease' = lease \/ (~lease.live /\ lease'.run = r /\ lease'.live /\ ~lease'.released))
    <3> DEFINE x == [run |-> r, live |-> TRUE, released |-> FALSE]
    <3>1. x \in LeaseRec /\ x.run = r /\ x.live /\ ~x.released
      BY <1>3 DEF LeaseRec
    <3> HIDE DEF x
    <3> QED BY <1>1, <2>1, <3>1 DEF x
  <2>5. RunsTypeOK'
    BY <1>1, <2>1, <2>2, <2>3, <2>4, TypeParts DEF kube, pod, RecordEffect, StateEffect
  <2> QED BY <1>3, <2>1, <2>2, <2>3, <2>4, <2>5 DEF CallEffect, kube, pod, r
<1>10. CASE ReleaseLease(c)
  <2>1. /\ call[c].pc = "release" /\ lease' = Released(r) /\ Done(c) /\ UNCHANGED <<record, kube, faults>>
        /\ disowned' = IF lease.run = r /\ runner[r] \in Alive THEN disowned \cup {r} ELSE disowned
    BY <1>10 DEF ReleaseLease, r
  <2>2. StateEffect(c) /\ RecordEffect(c)
    BY <1>5, <1>6, <2>1
  <2>3. lease' \in LeaseRec
    BY <1>1, <2>1, ReleaseSet
  <2>4. disowned' \in SUBSET Runs
    BY <1>1, <1>3, <2>1
  <2>5. RunsTypeOK'
    BY <1>1, <2>1, <2>2, <2>3, <2>4, TypeParts DEF kube, pod, RecordEffect, StateEffect
  <2>6. \/ lease' = lease /\ lease.run # r
        \/ /\ lease.run = r /\ lease'.run = r /\ lease'.released /\ ~lease'.live
    <3> DEFINE x == [lease EXCEPT !.live = FALSE, !.released = TRUE]
    <3>1. x.run = lease.run /\ x.released /\ ~x.live
      BY <1>1 DEF LeaseRec
    <3>2. lease' = IF lease.run = r THEN x ELSE lease
      BY <2>1 DEF Released
    <3> HIDE DEF x
    <3> QED BY <3>1, <3>2
  <2>7. CASE lease' = lease /\ lease.run # r
    BY <1>3, <2>1, <2>2, <2>5, <2>7 DEF CallEffect, kube, pod, r
  <2>8. CASE lease.run = r /\ lease'.run = r /\ lease'.released /\ ~lease'.live
    BY <1>3, <2>1, <2>2, <2>5, <2>8 DEF CallEffect, kube, pod, r
  <2> QED BY <2>6, <2>7, <2>8
<1>11. CASE CreateJob(c) \/ CreateJobUnknown(c)
  <2>1. /\ StartJob(r) /\ (Step(c, "name") \/ Step(c, "fail")) /\ call[c].pc = "job"
        /\ UNCHANGED <<lease, record, disowned>> /\ faults' \in 0..MaxFaults
    BY <1>1, <1>11, FaultCounts DEF CreateJob, CreateJobUnknown, r
  <2>2. StateEffect(c) /\ call'[c].pc # "job"
    BY <1>4, <2>1 DEF CallPcs, Moves
  <2>3. RecordEffect(c)
    BY <1>6, <2>1, <2>2
  <2>4. /\ job' \in [Runs -> JobStates] /\ runner' \in [Runs -> Alive \cup {"none", "dead"}]
        /\ UNCHANGED <<locust, signalled, beat>>
        /\ \A q \in Runs \ {r} : runner'[q] = runner[q] /\ job'[q] = job[q]
        /\ job'[r] = "active" /\ runner'[r] = "boot"
    BY <1>1, <1>3, <2>1 DEF StartJob, Alive, JobStates
  <2>5. RunsTypeOK'
    BY <1>1, <2>1, <2>2, <2>3, <2>4, TypeParts DEF RecordEffect, StateEffect
  <2> QED BY <1>3, <2>1, <2>2, <2>3, <2>4, <2>5 DEF CallEffect, r
<1>12. CASE CreateRecord(c) \/ CreateRecordFails(c)
  <2>1. /\ call[c].pc = "create" /\ UNCHANGED <<lease, kube, disowned>> /\ faults' \in 0..MaxFaults
        /\ \/ SetState(r, "submitted") /\ (Step(c, "job") \/ Step(c, "fail"))
           \/ record' = record /\ Step(c, "fail")
    BY <1>1, <1>12, FaultCounts DEF CreateRecord, CreateRecordFails, SetState, r
  <2>2. StateEffect(c) /\ (call'[c].pc = "job" => SetState(r, "submitted"))
    BY <1>4, <2>1 DEF CallPcs, Moves
  <2>3. RecordEffect(c)
    <3>1. CASE SetState(r, "submitted")
      <4>1. /\ record' \in [Runs -> RecordRec] /\ record'[r].state = "submitted"
            /\ record'[r].named = record[r].named /\ record'[r].stop = record[r].stop
            /\ \A q \in Runs \ {r} : record'[q] = record[q]
        BY <1>1, <1>3, <3>1, StateSet DEF ActiveStates
      <4> QED BY <2>1, <4>1 DEF RecordEffect, r
    <3>2. CASE record' = record /\ ~SetState(r, "submitted")
      BY <1>6, <2>1, <2>2, <3>2
    <3> QED BY <2>1, <3>1, <3>2
  <2> QED BY <1>8, <2>1, <2>2, <2>3
<1>13. CASE CreateJobFails(c) \/ NameJobFails(c)
  <2>1. /\ Step(c, "fail") /\ call[c].pc \in {"job", "name"} /\ UNCHANGED <<lease, record, kube, disowned>>
        /\ faults' \in 0..MaxFaults
    BY <1>1, <1>13, FaultCounts DEF CreateJobFails, NameJobFails
  <2>2. StateEffect(c) /\ call'[c].pc = "fail"
    BY <1>4, <2>1 DEF CallPcs, Moves
  <2> QED BY <1>6, <1>8, <2>1, <2>2
<1>14. CASE NameJob(c)
  <2> DEFINE x == [record[r] EXCEPT !.named = TRUE]
  <2>1. /\ record' = [record EXCEPT ![r] = x] /\ Done(c) /\ call[c].pc = "name"
        /\ UNCHANGED <<lease, kube, disowned, faults>>
    BY <1>14 DEF NameJob, r
  <2>2. x \in RecordRec /\ x.state = record[r].state /\ x.stop = record[r].stop
    BY <1>1, <1>3, <2>1 DEF RecordRec
  <2> HIDE DEF x
  <2>3. /\ record' \in [Runs -> RecordRec] /\ \A q \in Runs \ {r} : record'[q] = record[q]
        /\ record'[r].state = record[r].state /\ record'[r].stop = record[r].stop
    BY <1>1, <1>3, <2>1, <2>2
  <2>4. StateEffect(c) /\ call'[c].pc = "idle"
    BY <1>5, <2>1
  <2>5. RecordEffect(c)
    BY <2>1, <2>3, <2>4 DEF RecordEffect, r
  <2> QED BY <1>1, <1>8, <2>1, <2>4, <2>5
<1>15. CASE StartFailed(c)
  <2>1. /\ record' = record \/ SetState(r, "failed")
        /\ Step(c, "release") /\ call[c].pc = "fail" /\ UNCHANGED <<lease, kube, disowned, faults>>
    BY <1>15 DEF StartFailed, r
  <2>2. StateEffect(c) /\ call'[c].pc = "release"
    BY <1>4, <2>1 DEF CallPcs, Moves
  <2> QED BY <1>1, <1>6, <1>7, <1>8, <2>1, <2>2 DEF TerminalStates
<1>16. CASE Stopping(c)
  <2> DEFINE y == [record[r] EXCEPT !.state = "stopping"]
  <2> DEFINE x == [y EXCEPT !.stop = TRUE]
  <2>1. /\ record' = [record EXCEPT ![r] = x] /\ call[c].pc = "stopping"
        /\ Step(c, IF call[c].named THEN "delete" ELSE "stopped")
        /\ UNCHANGED <<lease, kube, disowned, faults>>
    BY <1>1, <1>3, <1>16 DEF Stopping, r
  <2>2. y \in RecordRec /\ y.named = record[r].named
    BY <1>1, <1>3 DEF RecordRec, ActiveStates
  <2>20. y.state = "stopping"
    BY <1>1, <1>3 DEF RecordRec
  <2> HIDE DEF y
  <2>3. x \in RecordRec /\ x.state = "stopping" /\ x.stop /\ x.named = record[r].named
    BY <2>2, <2>20 DEF RecordRec
  <2> HIDE DEF x
  <2>4. /\ record' \in [Runs -> RecordRec] /\ \A q \in Runs \ {r} : record'[q] = record[q]
        /\ record'[r].state = "stopping" /\ record'[r].stop /\ record'[r].named = record[r].named
    BY <1>1, <1>3, <2>1, <2>3
  <2>5. StateEffect(c) /\ call'[c].pc # "job"
    BY <1>4, <2>1 DEF CallPcs, Moves
  <2>6. RecordEffect(c)
    BY <2>1, <2>4, <2>5 DEF RecordEffect, r
  <2> QED BY <1>1, <1>8, <2>1, <2>5, <2>6
<1>17. CASE DeleteJob(c)
  <2>1. /\ job' = [job EXCEPT ![r] = "deleted"] /\ Step(c, "stopped") /\ call[c].pc = "delete"
        /\ UNCHANGED <<lease, record, runner, locust, signalled, beat, disowned, faults>>
    BY <1>17 DEF DeleteJob, pod, r
  <2>2. /\ job' \in [Runs -> JobStates] /\ job'[r] = "deleted"
        /\ \A q \in Runs \ {r} : job'[q] = job[q]
    BY <1>1, <1>3, <2>1 DEF JobStates
  <2>3. StateEffect(c) /\ call'[c].pc = "stopped"
    BY <1>4, <2>1 DEF CallPcs, Moves
  <2>4. RecordEffect(c)
    BY <1>6, <2>1, <2>3
  <2>5. RunsTypeOK'
    BY <1>1, <2>1, <2>2, <2>3, <2>4, TypeParts DEF RecordEffect, StateEffect
  <2> QED BY <1>3, <2>1, <2>2, <2>3, <2>4, <2>5 DEF CallEffect, r
<1>18. CASE Stopped(c) \/ Settle(c)
  <2>1. /\ call[c].pc \in {"stopped", "settle"} /\ Step(c, "release") /\ UNCHANGED <<lease, kube, disowned, faults>>
        /\ \E s \in TerminalStates : SetState(r, s)
    BY <1>3, <1>18 DEF Stopped, Settle, TerminalStates, r
  <2>2. StateEffect(c) /\ call'[c].pc = "release"
    BY <1>4, <2>1 DEF CallPcs, Moves
  <2> QED BY <1>1, <1>7, <1>8, <2>1, <2>2
<1>19. CASE QueryJob(c)
  <2> DEFINE y == [call[c] EXCEPT !.pc = "settle"]
  <2> DEFINE x == [y EXCEPT !.verdict = "failed"]
  <2>1. /\ call[c].pc = "query" /\ UNCHANGED <<lease, record, kube, disowned, faults>>
        /\ \/ /\ call' = [call EXCEPT ![c] = x] \/ Step(c, "settle")
              /\ job[r] \notin {"none", "active"}
           \/ Done(c)
    BY <1>1, <1>19 DEF QueryJob, JobOver, JobGoesOn, r
  <2>2. y \in CallRec /\ y.pc = "settle" /\ y.run = r /\ y.named = call[c].named
    BY <1>1 DEF CallRec, CallPcs, r
  <2> HIDE DEF y
  <2>3. /\ x \in CallRec /\ x.pc = "settle" /\ x.run = r /\ x.verdict \in TerminalStates
        /\ x.named = call[c].named
    BY <2>2 DEF CallRec, TerminalStates
  <2> HIDE DEF x
  <2>4. CASE Done(c)
    BY <1>1, <1>5, <1>6, <1>8, <2>1, <2>4
  <2>5. CASE ~Done(c)
    <3>1. /\ call' \in [Calls -> CallRec] /\ call'[c].pc = "settle" /\ call'[c].run = r
          /\ call'[c].verdict \in TerminalStates /\ call'[c].named = call[c].named
          /\ \A d \in Calls \ {c} : call'[d] = call[d]
      BY <1>1, <1>3, <2>1, <2>3, <2>5, CallSet, StepSet DEF CallPcs, r
    <3>2. StateEffect(c)
      BY <2>1, <2>5, <3>1 DEF StateEffect, Moves, r
    <3> QED BY <1>1, <1>6, <1>8, <2>1, <3>1, <3>2
  <2> QED BY <2>4, <2>5
<1>20. CASE ReplicaStops(c)
  <2>1. Done(c) /\ UNCHANGED <<lease, record, kube, disowned>> /\ faults' \in 0..MaxFaults
    BY <1>1, <1>20, FaultCounts DEF ReplicaStops
  <2> QED BY <1>5, <1>6, <1>8, <2>1
<1> QED
  BY <1>9, <1>10, <1>11, <1>12, <1>13, <1>14, <1>15, <1>16, <1>17, <1>18, <1>19, <1>20
  DEF CallStep, StartStep, StopStep, CallFault

RunnerAct(r) ==
    RunnerStep(r) \/ RunnerFault(r) \/ Heartbeat(r) \/ SigTerm(r) \/ JobExpires(r)

\* What a coordinator, its heartbeat and Kubernetes may change in the pods of the
\* run ...
PodEffect(r) ==
    /\ job' \in [Runs -> JobStates] /\ runner' \in [Runs -> Alive \cup {"none", "dead"}]
    /\ locust' \in [Runs -> BOOLEAN] /\ signalled' \in [Runs -> BOOLEAN] /\ beat' \in [Runs -> BOOLEAN]
    /\ \A q \in Runs \ {r} : /\ runner'[q] = runner[q] /\ job'[q] = job[q] /\ locust'[q] = locust[q]
                             /\ signalled'[q] = signalled[q] /\ beat'[q] = beat[q]
    /\ runner[r] # "none" \/ job[r] # "none"
    /\ runner[r] # "none" => runner'[r] # "none"
    /\ beat'[r] => runner'[r] # "none"
    /\ job'[r] = job[r] \/ (job[r] # "none" /\ job'[r] \notin {"none", "active"})

\* ... and of the record of the run; the lease stays with its run, and a released
\* one with nobody.
RunnerEffect(r) ==
    /\ RunsTypeOK' /\ PodEffect(r)
    /\ call' = call /\ disowned' = disowned
    /\ \A q \in Runs \ {r} : record'[q] = record[q]
    /\ record'[r].state # "absent"
    /\ record'[r].named = record[r].named /\ record'[r].stop = record[r].stop
    /\ \/ lease' = lease
       \/ /\ lease.run = r /\ ~lease.released
          /\ lease'.run = r /\ lease'.live /\ ~lease'.released
       \/ /\ runner[r] \in {"release", "releaseError"} /\ lease.run = r
          /\ lease'.run = r /\ lease'.released /\ ~lease'.live

LEMMA PodEffects ==
  ASSUME RunsInv, NEW r \in Runs, RunnerAct(r)
  PROVE  PodEffect(r)
<1>1. /\ job \in [Runs -> JobStates] /\ runner \in [Runs -> Alive \cup {"none", "dead"}]
      /\ locust \in [Runs -> BOOLEAN] /\ signalled \in [Runs -> BOOLEAN]
      /\ beat \in [Runs -> BOOLEAN] /\ (beat[r] => runner[r] # "none")
  BY TypeParts DEF RunsInv, FreshOK
<1>2. CASE RunnerRenews(r) \/ RunnerErrs(r) \/ RunnerReleases(r) \/ RunnerAnnounces(r)
  <2>1. /\ runner[r] \in {"boot", "error", "release", "releaseError", "announce"}
        /\ UNCHANGED <<job, locust, signalled, beat>>
        /\ \E p \in {"mark", "error", "releaseError", "exit", "exitError", "run"} : Goto(r, p)
    BY <1>2 DEF RunnerRenews, RunnerErrs, RunnerReleases, RunnerAnnounces
  <2> QED BY <1>1, <2>1 DEF PodEffect, Goto, Alive, Waiting
<1>3. CASE RunnerMarks(r) \/ RunnerCallFails(r)
  <2>1. /\ runner[r] \in {"boot", "mark", "launch", "announce", "finish"}
        /\ UNCHANGED <<job, locust, signalled>>
        /\ \E p \in {"launch", "error"} : Goto(r, p)
        /\ \E b \in BOOLEAN : beat' = [beat EXCEPT ![r] = b]
    BY <1>3 DEF RunnerMarks, RunnerCallFails
  <2> QED BY <1>1, <2>1 DEF PodEffect, Goto, Alive, Waiting
<1>4. CASE RunnerLaunches(r) \/ LocustEnds(r)
  <2>1. /\ runner[r] \in {"launch", "run"} /\ UNCHANGED <<job, signalled, beat>>
        /\ \E p \in {"announce", "finish"} : Goto(r, p)
        /\ \E b \in BOOLEAN : locust' = [locust EXCEPT ![r] = b]
    BY <1>4 DEF RunnerLaunches, LocustEnds
  <2> QED BY <1>1, <2>1 DEF PodEffect, Goto, Alive, Waiting
<1>5. CASE RunnerFinishes(r)
  <2>1. /\ runner[r] = "finish" /\ UNCHANGED <<job, locust, signalled>>
        /\ \E p \in {"releaseError", "release"} : Goto(r, p)
        /\ beat' = [beat EXCEPT ![r] = FALSE]
    BY <1>5 DEF RunnerFinishes
  <2> QED BY <1>1, <2>1 DEF PodEffect, Goto, Alive, Waiting
<1>6. CASE RunnerExits(r) \/ PodEnds(r)
  <2>1. /\ runner[r] \in Alive /\ Goto(r, "dead") /\ signalled' = signalled
        /\ locust' = [locust EXCEPT ![r] = FALSE]
        /\ beat' = beat \/ beat' = [beat EXCEPT ![r] = FALSE]
        /\ \/ job' = job
           \/ job[r] = "active" /\ \E v \in {"succeeded", "failed"} : job' = [job EXCEPT ![r] = v]
    BY <1>6 DEF RunnerExits, PodEnds, JobFails, Alive, Waiting
  <2> QED BY <1>1, <2>1 DEF PodEffect, Goto, Alive, Waiting, JobStates
<1>7. CASE Heartbeat(r) \/ HeartbeatFails(r) \/ SigTerm(r)
  <2>1. /\ UNCHANGED <<job, runner, locust>>
        /\ \/ UNCHANGED <<signalled, beat>>
           \/ /\ signalled' = [signalled EXCEPT ![r] = TRUE]
              /\ beat' = beat \/ beat' = [beat EXCEPT ![r] = FALSE]
    BY <1>7 DEF Heartbeat, HeartbeatFails, SigTerm
  <2>2. runner[r] # "none"
    BY <1>1, <1>7 DEF Heartbeat, HeartbeatFails, SigTerm, Alive, Waiting
  <2> QED BY <1>1, <2>1, <2>2 DEF PodEffect
<1>8. CASE SiblingFails(r) \/ JobExpires(r)
  <2>1. /\ UNCHANGED <<runner, locust, signalled, beat>> /\ job[r] # "none"
        /\ \E v \in {"succeeded", "failed", "deleted"} : job' = [job EXCEPT ![r] = v]
    BY <1>8 DEF SiblingFails, JobExpires, JobFails, pod
  <2> QED BY <1>1, <2>1 DEF PodEffect, JobStates
<1> QED BY <1>2, <1>3, <1>4, <1>5, <1>6, <1>7, <1>8 DEF RunnerAct, RunnerStep, RunnerFault

LEMMA RunnerEffects ==
  ASSUME RunsAssumption, RunsInv, NEW r \in Runs, RunnerAct(r)
  PROVE  RunnerEffect(r)
<1>1. /\ RunsTypeOK /\ lease \in LeaseRec /\ record \in [Runs -> RecordRec]
      /\ call \in [Calls -> CallRec] /\ faults \in 0..MaxFaults /\ disowned \in SUBSET Runs
      /\ runner \in [Runs -> Alive \cup {"none", "dead"}]
  BY TypeParts DEF RunsInv
<1>2. PodEffect(r)
  BY PodEffects
<1>3. record[r].state # "absent"
  BY <1>2 DEF RunsInv, FreshOK, PodEffect
<1>4. call' = call /\ disowned' = disowned /\ faults' \in 0..MaxFaults
  BY <1>1, FaultCounts
  DEF RunnerAct, RunnerStep, RunnerFault, RunnerRenews, RunnerMarks, RunnerLaunches, RunnerAnnounces,
      LocustEnds, RunnerFinishes, RunnerErrs, RunnerReleases, RunnerExits, RunnerCallFails,
      HeartbeatFails, SiblingFails, PodEnds, Heartbeat, SigTerm, JobExpires
<1>5. record' = record \/ \E s \in ActiveStates \cup TerminalStates : SetState(r, s)
  BY DEF RunnerAct, RunnerStep, RunnerFault, RunnerRenews, RunnerMarks, RunnerLaunches, RunnerAnnounces,
      LocustEnds, RunnerFinishes, RunnerErrs, RunnerReleases, RunnerExits, RunnerCallFails,
      HeartbeatFails, SiblingFails, PodEnds, Heartbeat, SigTerm, JobExpires, ActiveStates, TerminalStates
<1>6. /\ record' \in [Runs -> RecordRec] /\ \A q \in Runs \ {r} : record'[q] = record[q]
      /\ record'[r].state # "absent"
      /\ record'[r].named = record[r].named /\ record'[r].stop = record[r].stop
  <2>1. CASE record' = record
    BY <1>1, <1>3, <2>1
  <2>2. ASSUME NEW s \in ActiveStates \cup TerminalStates, SetState(r, s)
        PROVE  /\ record' \in [Runs -> RecordRec] /\ \A q \in Runs \ {r} : record'[q] = record[q]
               /\ record'[r].state # "absent"
               /\ record'[r].named = record[r].named /\ record'[r].stop = record[r].stop
    BY <1>1, <2>2, StateSet DEF ActiveStates, TerminalStates
  <2> QED BY <1>5, <2>1, <2>2
<1>7. \/ lease' = lease
      \/ lease.run = r /\ ~lease.released /\ lease' = [lease EXCEPT !.live = TRUE]
      \/ runner[r] \in {"release", "releaseError"} /\ lease.run = r /\ lease' = Released(r)
  BY DEF RunnerAct, RunnerStep, RunnerFault, RunnerRenews, RunnerMarks, RunnerLaunches, RunnerAnnounces,
      LocustEnds, RunnerFinishes, RunnerErrs, RunnerReleases, RunnerExits, RunnerCallFails,
      HeartbeatFails, SiblingFails, PodEnds, Heartbeat, SigTerm, JobExpires, Renewable, Released
<1>8. /\ lease' \in LeaseRec
      /\ \/ lease' = lease
         \/ /\ lease.run = r /\ ~lease.released
            /\ lease'.run = r /\ lease'.live /\ ~lease'.released
         \/ /\ runner[r] \in {"release", "releaseError"} /\ lease.run = r
            /\ lease'.run = r /\ lease'.released /\ ~lease'.live
  <2>1. CASE lease.run = r /\ ~lease.released /\ lease' = [lease EXCEPT !.live = TRUE]
    BY <1>1, <2>1, RenewSet
  <2>2. CASE runner[r] \in {"release", "releaseError"} /\ lease.run = r /\ lease' = Released(r)
    BY <1>1, <2>2, ReleaseSet
  <2> QED BY <1>1, <1>7, <2>1, <2>2
<1>9. RunsTypeOK'
  BY <1>1, <1>2, <1>4, <1>6, <1>8, TypeParts DEF PodEffect
<1> QED BY <1>2, <1>4, <1>6, <1>8, <1>9 DEF RunnerEffect

LEMMA ExpiryEffect ==
  ASSUME RunsAssumption, RunsInv, LeaseExpires
  PROVE  /\ RunsTypeOK'
         /\ UNCHANGED <<record, job, runner, locust, signalled, beat, call, disowned, faults>>
         /\ lease'.run = lease.run /\ ~lease'.live /\ lease'.released = lease.released
<1>1. RunsTypeOK
  BY DEF RunsInv
<1>2. /\ lease' = [lease EXCEPT !.live = FALSE]
      /\ UNCHANGED <<record, job, runner, locust, signalled, beat, call, disowned, faults>>
  BY DEF LeaseExpires, kube, pod
<1>3. lease' \in LeaseRec /\ lease'.run = lease.run /\ ~lease'.live /\ lease'.released = lease.released
  BY <1>1, <1>2, RenewSet
<1>4. RunsTypeOK'
  BY <1>1, <1>2, <1>3 DEF RunsTypeOK, LeaseRec
<1> QED BY <1>2, <1>3, <1>4

\* A new request: only the request changes.
LEMMA NewCall ==
  ASSUME RunsAssumption, RunsInv, NEW c \in Calls, NEW r \in Runs,
         Start(c, r) \/ Stop(c, r) \/ Details(c, r)
  PROVE  /\ RunsTypeOK' /\ UNCHANGED <<lease, record, job, runner, locust, signalled, beat, disowned, faults>>
         /\ call[c].pc = "idle" /\ call'[c].run = r
         /\ \A d \in Calls \ {c} : call'[d] = call[d]
         /\ \/ Start(c, r) /\ call'[c].pc = "lease"
            \/ Stop(c, r) /\ call'[c].pc = "stopping" /\ call'[c].named = record[r].named
            \/ /\ Details(c, r) /\ call'[c].pc = "query"
               /\ call'[c].verdict \in TerminalStates
<1>1. RunsTypeOK /\ record \in [Runs -> RecordRec] /\ record[r].named \in BOOLEAN
  BY TypeParts DEF RunsInv, RecordRec
<1>2. ASSUME NEW x \in CallRec, call' = [call EXCEPT ![c] = x],
             UNCHANGED <<lease, record, kube, disowned, faults>>
      PROVE  /\ RunsTypeOK' /\ UNCHANGED <<lease, record, job, runner, locust, signalled, beat, disowned, faults>>
             /\ call'[c] = x /\ \A d \in Calls \ {c} : call'[d] = call[d]
  <2>1. /\ call' \in [Calls -> CallRec] /\ call'[c] = x
        /\ \A d \in Calls \ {c} : call'[d] = call[d]
    BY <1>1, <1>2, CallSet
  <2>2. UNCHANGED <<lease, record, job, runner, locust, signalled, beat, disowned, faults>>
    BY <1>2 DEF kube, pod
  <2>3. RunsTypeOK'
    BY <1>1, <2>1, <2>2 DEF RunsTypeOK, CallRec, CallPcs
  <2> QED BY <2>1, <2>2, <2>3
<1>3. CASE Start(c, r)
  <2> DEFINE x == [IdleCall EXCEPT !.pc = "lease", !.run = r]
  <2>1. x \in CallRec /\ x.pc = "lease" /\ x.run = r
    BY CallForms
  <2>2. /\ call' = [call EXCEPT ![c] = x] /\ UNCHANGED <<lease, record, kube, disowned, faults>>
        /\ call[c].pc = "idle"
    BY <1>3 DEF Start
  <2> HIDE DEF x
  <2> QED BY <1>2, <1>3, <2>1, <2>2
<1>4. CASE Stop(c, r)
  <2> DEFINE a == [IdleCall EXCEPT !.pc = "stopping", !.run = r]
  <2> DEFINE x == [a EXCEPT !.named = record[r].named]
  <2>2. x \in CallRec /\ x.pc = "stopping" /\ x.run = r /\ x.named = record[r].named
    <3>1. a \in CallRec /\ a.pc = "stopping" /\ a.run = r
      BY CallForms DEF CallRec, CallPcs
    <3> HIDE DEF a
    <3> QED BY <1>1, <3>1 DEF CallRec
  <2>3. /\ call' = [call EXCEPT ![c] = x] /\ UNCHANGED <<lease, record, kube, disowned, faults>>
        /\ call[c].pc = "idle"
    BY <1>4 DEF Stop
  <2> HIDE DEF x
  <2> QED BY <1>2, <1>4, <2>2, <2>3
<1>5. CASE Details(c, r)
  <2>1. PICK v \in TerminalStates : v = IF record[r].stop THEN "stopped" ELSE "interrupted"
    BY DEF TerminalStates
  <2> DEFINE a == [IdleCall EXCEPT !.pc = "query", !.run = r]
  <2> DEFINE x == [a EXCEPT !.verdict = v]
  <2>2. x \in CallRec /\ x.pc = "query" /\ x.run = r /\ x.verdict = v
    <3>1. a \in CallRec /\ a.pc = "query" /\ a.run = r
      BY CallForms DEF CallRec, CallPcs
    <3> HIDE DEF a
    <3> QED BY <3>1 DEF CallRec
  <2>3. /\ call' = [call EXCEPT ![c] = x] /\ UNCHANGED <<lease, record, kube, disowned, faults>>
        /\ call[c].pc = "idle"
    BY <1>5, <2>1 DEF Details
  <2> HIDE DEF x
  <2> QED BY <1>2, <1>5, <2>1, <2>2, <2>3
<1> QED BY <1>3, <1>4, <1>5

LEMMA RunsStep ==
  ASSUME RunsAssumption, RunsInv, [RunsNext]_runVars
  PROVE  RunsInv' /\ (lease.released /\ lease'.run = lease.run => ~lease'.live)
<1>1. NoRun \notin Runs /\ RunsTypeOK /\ FreshOK /\ ReleasedOK
  BY DEF RunsInv, RunsAssumption
<1>2. CASE UNCHANGED runVars
  <2>1. UNCHANGED <<lease, record, job, runner, locust, signalled, beat, call, disowned, faults>>
    BY <1>2 DEF runVars, kube, pod
  <2> QED BY <1>1, <2>1 DEF RunsInv, RunsTypeOK, FreshOK, ReleasedOK
<1>3. ASSUME NEW c \in Calls, CallStep(c) \/ CallFault(c)
      PROVE  RunsInv' /\ (lease.released /\ lease'.run = lease.run => ~lease'.live)
  <2>1. CallEffect(c)
    BY <1>3, CallEffects
  <2>2. call[c].pc # "idle" /\ call[c].run \in Runs
    BY <1>1, <2>1 DEF CallEffect, RecordEffect, StateEffect, Moves, FreshOK
  <2>8. call[c].pc = "stopping" => record[call[c].run].state # "absent"
    BY <1>1, <2>2 DEF FreshOK
  <2>9. call[c].pc = "delete" => record[call[c].run].state # "absent"
    BY <1>1, <2>2 DEF FreshOK
  \* no other request that asks for the lease has this run
  <2>3. ASSUME NEW d \in Calls, call'[d].pc = "lease"
        PROVE  /\ d # c /\ call'[d] = call[d] /\ call[d].run \in Runs /\ call[d].run # call[c].run
               /\ record[call[d].run] = NoRecord /\ runner[call[d].run] = "none"
               /\ lease.run # call[d].run /\ \A e \in Calls \ {d} : call[e].run # call[d].run
    <3>1. d # c /\ call'[d] = call[d]
      BY <2>1, <2>3 DEF CallEffect, RecordEffect, StateEffect, Moves
    <3>2. call[d].pc = "lease" /\ call[d].run \in Runs
      BY <1>1, <2>3, <3>1 DEF FreshOK
    <3>3. /\ record[call[d].run] = NoRecord /\ runner[call[d].run] = "none"
          /\ lease.run # call[d].run /\ \A e \in Calls \ {d} : call[e].run # call[d].run
      BY <1>1, <3>2 DEF FreshOK
    <3> QED BY <3>1, <3>2, <3>3
  <2>4. FreshOK'
    <3>1. ASSUME NEW q \in Runs
          PROVE  /\ record'[q].state = "absent" => runner'[q] = "none" /\ job'[q] = "none"
                 /\ beat'[q] => runner'[q] # "none"
      BY <1>1, <2>1, <2>9 DEF CallEffect, RecordEffect, FreshOK
    <3>2. ASSUME NEW d \in Calls
          PROVE  /\ call'[d].pc # "idle" => call'[d].run \in Runs
                 /\ call'[d].pc \in {"query", "settle"} => call'[d].verdict \in TerminalStates
                 /\ call'[d].pc \in {"job", "stopping", "delete"} => record'[call'[d].run].state # "absent"
      <4>1. CASE d = c
        BY <2>1, <2>2, <2>8, <4>1 DEF CallEffect, RecordEffect, StateEffect, Moves
      <4>2. CASE d # c
        <5>1. call'[d] = call[d]
          BY <2>1, <4>2 DEF CallEffect, RecordEffect, StateEffect, Moves
        <5>2. /\ call[d].pc # "idle" => call[d].run \in Runs
              /\ call[d].pc \in {"query", "settle"} => call[d].verdict \in TerminalStates
              /\ call[d].pc \in {"job", "stopping", "delete"} => record[call[d].run].state # "absent"
          BY <1>1 DEF FreshOK
        <5>3. \A q \in Runs : record[q].state # "absent" => record'[q].state # "absent"
          BY <2>1 DEF CallEffect, RecordEffect, StateEffect, Moves
        <5> QED BY <5>1, <5>2, <5>3
      <4> QED BY <4>1, <4>2
    <3>3. ASSUME NEW d \in Calls, call'[d].pc = "lease"
          PROVE  /\ record'[call'[d].run] = NoRecord /\ runner'[call'[d].run] = "none"
                 /\ lease'.run # call'[d].run
                 /\ \A e \in Calls \ {d} : call'[e].run # call'[d].run
      <4>1. /\ d # c /\ call'[d] = call[d] /\ call[d].run \in Runs /\ call[d].run # call[c].run
            /\ record[call[d].run] = NoRecord /\ runner[call[d].run] = "none"
            /\ lease.run # call[d].run /\ \A e \in Calls \ {d} : call[e].run # call[d].run
        BY <2>3, <3>3
      <4>2. record'[call'[d].run] = NoRecord /\ runner'[call'[d].run] = "none"
        BY <2>1, <4>1 DEF CallEffect, RecordEffect, StateEffect, Moves
      <4>3. lease'.run # call'[d].run
        BY <2>1, <4>1 DEF CallEffect, RecordEffect, StateEffect, Moves
      <4>4. ASSUME NEW e \in Calls \ {d} PROVE call'[e].run # call'[d].run
        <5>1. CASE e = c
          BY <1>1, <2>1, <4>1, <5>1 DEF CallEffect, RecordEffect, StateEffect, Moves
        <5>2. CASE e # c
          BY <2>1, <4>1, <5>2 DEF CallEffect, RecordEffect, StateEffect, Moves
        <5> QED BY <5>1, <5>2
      <4> QED BY <4>2, <4>3, <4>4
    <3> QED BY <3>1, <3>2, <3>3 DEF FreshOK
  <2>5. ReleasedOK'
    BY <1>1, <2>1 DEF CallEffect, RecordEffect, StateEffect, Moves, ReleasedOK
  <2>6. lease.released /\ lease'.run = lease.run => ~lease'.live
    BY <1>1, <2>1, <2>2 DEF CallEffect, RecordEffect, StateEffect, Moves, ReleasedOK, FreshOK
  <2> QED BY <2>1, <2>4, <2>5, <2>6 DEF RunsInv, CallEffect
<1>4. ASSUME NEW c \in Calls, NEW r \in Runs, Start(c, r) \/ Stop(c, r) \/ Details(c, r)
      PROVE  RunsInv' /\ (lease.released /\ lease'.run = lease.run => ~lease'.live)
  <2>1. /\ RunsTypeOK' /\ UNCHANGED <<lease, record, job, runner, locust, signalled, beat, disowned, faults>>
        /\ call[c].pc = "idle" /\ call'[c].run = r
        /\ \A d \in Calls \ {c} : call'[d] = call[d]
    BY <1>4, NewCall
  <2>2. \/ Start(c, r) /\ call'[c].pc = "lease"
        \/ Stop(c, r) /\ call'[c].pc = "stopping" /\ call'[c].named = record[r].named
        \/ Details(c, r) /\ call'[c].pc = "query" /\ call'[c].verdict \in TerminalStates
    BY <1>4, NewCall
  <2>3. record[r] = NoRecord => runner[r] = "none"
    BY <1>1 DEF FreshOK, NoRecord
  <2>4. FreshOK'
    <3>1. ASSUME NEW d \in Calls
          PROVE  /\ call'[d].pc # "idle" => call'[d].run \in Runs
                 /\ call'[d].pc \in {"query", "settle"} => call'[d].verdict \in TerminalStates
                 /\ call'[d].pc \in {"job", "stopping", "delete"} => record[call'[d].run].state # "absent"
      BY <1>1, <2>1, <2>2 DEF FreshOK, Stop, ActiveStates
    <3>2. ASSUME NEW d \in Calls, call'[d].pc = "lease"
          PROVE  /\ record[call'[d].run] = NoRecord /\ runner[call'[d].run] = "none"
                 /\ lease.run # call'[d].run
                 /\ \A e \in Calls \ {d} : call'[e].run # call'[d].run
      <4>1. CASE d = c
        <5>1. /\ record[r] = NoRecord /\ lease.run # r
              /\ \A e \in Calls : call[e].run # r
          BY <2>2, <3>2, <4>1 DEF Start
        <5> QED BY <2>1, <2>3, <4>1, <5>1
      <4>2. CASE d # c
        <5>1. /\ call'[d] = call[d] /\ record[call[d].run] = NoRecord
              /\ runner[call[d].run] = "none" /\ lease.run # call[d].run
              /\ \A e \in Calls \ {d} : call[e].run # call[d].run
          BY <1>1, <2>1, <3>2, <4>2 DEF FreshOK
        <5>2. call[d].run # r
          BY <2>2, <5>1, <3>2 DEF Start, Stop, Details, NoRecord, ActiveStates
        <5> QED BY <2>1, <5>1, <5>2
      <4> QED BY <4>1, <4>2
    <3> QED BY <1>1, <2>1, <3>1, <3>2 DEF FreshOK
  <2> QED BY <1>1, <2>1, <2>4 DEF RunsInv, ReleasedOK
<1>5. ASSUME NEW r \in Runs, RunnerAct(r)
      PROVE  RunsInv' /\ (lease.released /\ lease'.run = lease.run => ~lease'.live)
  <2>1. RunnerEffect(r)
    BY <1>5, RunnerEffects
  <2>2. FreshOK'
    <3>1. ASSUME NEW q \in Runs
          PROVE  /\ record'[q].state = "absent" => runner'[q] = "none" /\ job'[q] = "none"
                 /\ beat'[q] => runner'[q] # "none"
      BY <1>1, <2>1 DEF RunnerEffect, PodEffect, FreshOK
    <3>2. ASSUME NEW d \in Calls
          PROVE  /\ call[d].pc # "idle" => call[d].run \in Runs
                 /\ call[d].pc \in {"query", "settle"} => call[d].verdict \in TerminalStates
                 /\ call[d].pc \in {"job", "stopping", "delete"} => record'[call[d].run].state # "absent"
      BY <1>1, <2>1 DEF RunnerEffect, PodEffect, FreshOK
    <3>3. ASSUME NEW d \in Calls, call[d].pc = "lease"
          PROVE  /\ record'[call[d].run] = NoRecord /\ runner'[call[d].run] = "none"
                 /\ lease'.run # call[d].run
                 /\ \A e \in Calls \ {d} : call[e].run # call[d].run
      <4>1. /\ record[call[d].run] = NoRecord /\ runner[call[d].run] = "none"
            /\ lease.run # call[d].run /\ call[d].run \in Runs
            /\ \A e \in Calls \ {d} : call[e].run # call[d].run
        BY <1>1, <3>3 DEF FreshOK
      <4>2. job[call[d].run] = "none"
        BY <1>1, <4>1 DEF FreshOK, NoRecord
      <4>3. call[d].run # r
        BY <2>1, <4>1, <4>2 DEF RunnerEffect, PodEffect
      <4> QED BY <2>1, <4>1, <4>3 DEF RunnerEffect, PodEffect
    <3>4. call' = call
      BY <2>1 DEF RunnerEffect
    <3> QED BY <3>1, <3>2, <3>3, <3>4 DEF FreshOK
  <2> QED BY <2>1, <2>2 DEF RunsInv, RunnerEffect, ReleasedOK
<1>6. CASE LeaseExpires
  <2>1. /\ RunsTypeOK' /\ UNCHANGED <<record, job, runner, locust, signalled, beat, call, disowned, faults>>
        /\ lease'.run = lease.run /\ ~lease'.live /\ lease'.released = lease.released
    BY <1>6, ExpiryEffect
  <2>2. FreshOK'
    BY <1>1, <2>1 DEF FreshOK
  <2> QED BY <2>1, <2>2 DEF RunsInv, ReleasedOK
<1> QED BY <1>2, <1>3, <1>4, <1>5, <1>6 DEF RunsNext, RunnerAct

LEMMA RunsStart ==
  ASSUME RunsAssumption, RunsInit
  PROVE  RunsInv
<1>1. IdleCall \in CallRec /\ IdleCall.pc = "idle"
  BY DEF IdleCall, CallRec, CallPcs
<1>2. call \in [Calls -> CallRec] /\ \A c \in Calls : call[c].pc = "idle"
  BY <1>1 DEF RunsInit
<1>3. NoRecord \in RecordRec
  BY DEF NoRecord, RecordRec
<1>4. record \in [Runs -> RecordRec]
  BY <1>3 DEF RunsInit
<1>5. lease \in LeaseRec /\ ~lease.released
  BY DEF RunsInit, LeaseRec
<1>6. /\ job \in [Runs -> {"none", "active", "succeeded", "failed", "deleted"}]
      /\ runner \in [Runs -> Alive \cup {"none", "dead"}]
      /\ locust \in [Runs -> BOOLEAN] /\ signalled \in [Runs -> BOOLEAN] /\ faults \in 0..MaxFaults
      /\ beat \in [Runs -> BOOLEAN] /\ disowned \in SUBSET Runs
  BY DEF RunsInit, RunsAssumption
<1>7. RunsTypeOK
  BY <1>2, <1>4, <1>5, <1>6 DEF RunsTypeOK, CallRec, CallPcs, RecordRec, LeaseRec
<1>8. FreshOK
  BY <1>2 DEF FreshOK, RunsInit
<1> QED BY <1>5, <1>7, <1>8 DEF RunsInv, ReleasedOK

\* Requests, coordinators and lease in every behaviour, stop requests and calls
\* that fail although they took effect included.
THEOREM RunsInvariant ==
  ASSUME RunsAssumption
  PROVE  RunsSpec => []RunsInv
<1>1. RunsInit => RunsInv
  BY RunsStart
<1>2. RunsInv /\ [RunsNext]_runVars => RunsInv'
  BY RunsStep
<1> QED BY <1>1, <1>2, PTL DEF RunsSpec

\* What was released stays released: neither a late heartbeat nor a late pod has
\* the lease of a stopped or failed run again.
THEOREM RunsReleaseIsFinal ==
  ASSUME RunsAssumption
  PROVE  RunsSpec => ReleaseIsFinal
<1>1. RunsInv /\ [RunsNext]_runVars =>
        [lease.released /\ lease'.run = lease.run => ~lease'.live]_runVars
  BY RunsStep
<1> QED BY <1>1, RunsInvariant, PTL DEF RunsSpec, ReleaseIsFinal
----------------------------------------------------------------------------
(* One workload, and who may release the lease                             *)

Submitting == {"lease", "create", "job", "name"}

\* A reason to end a run does not go away.
LEMMA ReasonKept ==
  ASSUME NEW r \in Runs, Reason(r),
         record[r].stop => record'[r].stop,
         \/ record'[r].named = record[r].named
         \/ \E c \in Calls : call[c].run = r /\ call[c].pc = "name",
         \A c \in Calls : call'[c].run = r /\ call'[c].pc \in Submitting =>
                          call[c].run = r /\ call[c].pc \in Submitting,
         job[r] \notin {"none", "active"} => job'[r] \notin {"none", "active"}
  PROVE  Reason(r)'
<1>1. CASE record[r].stop
  BY <1>1 DEF Reason
<1>2. CASE job[r] \notin {"none", "active"}
  BY <1>2 DEF Reason
<1>3. CASE ~record[r].named /\ \A c \in Calls : call[c].run = r => call[c].pc \notin Submitting
  <2>1. record'[r].named = record[r].named
    BY <1>3 DEF Submitting
  <2>2. \A c \in Calls : call'[c].run = r => call'[c].pc \notin Submitting
    BY <1>3
  <2> QED BY <1>3, <2>1, <2>2 DEF Reason, Submitting
<1> QED BY <1>1, <1>2, <1>3 DEF Reason, Submitting

LEMMA CallReasons ==
  ASSUME RunsAssumption, ControlInv, NEW c \in Calls, CallEffect(c), NEW r \in Runs, Reason(r)
  PROVE  Reason(r)'
<1>1. RequestOK(c)
  BY DEF ControlInv
<1>2. record[r].stop => record'[r].stop
  BY DEF CallEffect, RecordEffect
<1>3. \/ record'[r].named = record[r].named
      \/ \E d \in Calls : call[d].run = r /\ call[d].pc = "name"
  BY DEF CallEffect, RecordEffect
<1>4. ASSUME NEW d \in Calls, call'[d].run = r, call'[d].pc \in Submitting
      PROVE  call[d].run = r /\ call[d].pc \in Submitting
  BY <1>4 DEF CallEffect, StateEffect, Moves, Submitting, RunsAssumption
<1>5. job[r] \notin {"none", "active"} => job'[r] \notin {"none", "active"}
  BY <1>1 DEF CallEffect, RequestOK
<1> QED BY <1>2, <1>3, <1>4, <1>5, ReasonKept

LEMMA NewReasons ==
  ASSUME RunsAssumption, ControlInv, NEW c \in Calls, NEW q \in Runs,
         Start(c, q) \/ Stop(c, q) \/ Details(c, q),
         NEW r \in Runs, Reason(r), record[r] # NoRecord \/ \E d \in Calls : call[d].run = r
  PROVE  Reason(r)'
<1>1. /\ UNCHANGED <<record, job>> /\ call'[c].run = q
      /\ \A d \in Calls \ {c} : call'[d] = call[d]
      /\ \/ Start(c, q) /\ call'[c].pc = "lease"
         \/ call'[c].pc \in {"stopping", "query"}
  BY NewCall DEF ControlInv
<1>2. Start(c, q) => q # r
  BY DEF Start
<1>3. ASSUME NEW d \in Calls, call'[d].run = r, call'[d].pc \in Submitting
      PROVE  call[d].run = r /\ call[d].pc \in Submitting
  BY <1>1, <1>2, <1>3 DEF Submitting
<1> QED BY <1>1, <1>3, ReasonKept

LEMMA RunnerReasons ==
  ASSUME ControlInv, NEW q \in Runs, RunnerEffect(q), NEW r \in Runs, Reason(r)
  PROVE  Reason(r)'
<1>1. record'[r].stop = record[r].stop /\ record'[r].named = record[r].named /\ call' = call
  BY DEF RunnerEffect
<1>2. job[r] \notin {"none", "active"} => job'[r] \notin {"none", "active"}
  BY DEF RunnerEffect, PodEffect
<1> QED BY <1>1, <1>2, ReasonKept

----------------------------------------------------------------------------

\* A step of a request.
LEMMA CallControl ==
  ASSUME RunsAssumption, ControlInv, NEW c \in Calls, CallEffect(c), RunsInv'
  PROVE  ControlInv' /\ ReleasesRight
<1>0. PICK r \in Runs : call[c].run = r
  BY DEF CallEffect
<1>1. /\ r \in Runs /\ call[c].pc # "idle" /\ NoRun \notin Runs
      /\ \A d \in Calls \ {c} : call'[d] = call[d]
      /\ locust' = locust /\ signalled' = signalled /\ beat' = beat
      /\ \A q \in Runs \ {r} : record'[q] = record[q] /\ runner'[q] = runner[q] /\ job'[q] = job[q]
  BY <1>0 DEF CallEffect, RecordEffect, StateEffect, RunsAssumption
<1>2. \A d \in Calls : RequestOK(d) /\ (call[d].pc # "idle" => call[d].run \in Runs)
  BY DEF ControlInv, RunsInv, FreshOK
<1>3. \A q \in Runs : PodOK(q) /\ HolderOK(q)
  BY DEF ControlInv
<1>4. \A q \in Runs : Reason(q) => Reason(q)'
  BY CallReasons
<1>5. \/ job' = job /\ runner' = runner
      \/ call[c].pc = "job" /\ job'[r] = "active" /\ runner'[r] = "boot"
      \/ call[c].pc = "delete" /\ job'[r] = "deleted" /\ runner' = runner
  BY <1>0 DEF CallEffect
<1>6. /\ record[r].stop => record'[r].stop
      /\ record'[r].named = record[r].named \/ (call[c].pc = "name" /\ call'[c].pc = "idle")
      /\ \/ record'[r].state \in TerminalStates \/ record'[r].state = record[r].state
         \/ call[c].pc = "create" \/ record'[r].stop
      /\ call[c].pc = "stopping" /\ call'[c].pc # "idle" => record'[r].stop
  BY <1>0 DEF CallEffect, RecordEffect
<1>7. /\ \/ call'[c].pc = "idle" /\ call'[c].run = NoRun
         \/ /\ Moves(call[c].pc, call'[c].pc)
            /\ call'[c].run = r /\ call'[c].named = call[c].named
      /\ call'[c].pc = "delete" => call[c].named
      /\ call'[c].pc = "settle" => job[r] \notin {"none", "active"}
  BY <1>0 DEF CallEffect, StateEffect
<1>8. /\ record[r] \in RecordRec /\ record'[r] \in RecordRec
      /\ record[r].named \in BOOLEAN /\ record'[r].named \in BOOLEAN
  BY <1>0, TypeParts DEF ControlInv, RunsInv, CallEffect, RecordEffect, RecordRec
<1>10. RequestOK(c)'
  <2>1. CASE call'[c].pc = "idle"
    BY <2>1 DEF RequestOK, Starting
  <2>2. CASE Moves(call[c].pc, call'[c].pc) /\ call'[c].run = r /\ call'[c].named = call[c].named
    <3>1. call'[c].pc \in Starting => call[c].pc \in Starting
      BY <2>2 DEF Moves, Starting
    <3>2. call'[c].pc \in Starting =>
            /\ ~record'[r].named
            /\ \A d \in Calls \ {c} : call'[d].pc \in Starting => call'[d].run # r
      BY <1>0, <1>1, <1>2, <1>6, <3>1 DEF RequestOK, Starting
    <3>3. call'[c].pc \in {"lease", "create", "job"} => job'[r] = "none" /\ runner'[r] = "none"
      BY <1>0, <1>2, <1>5, <2>2 DEF RequestOK, Moves
    <3>4. call'[c].pc # "stopping"
      BY <2>2 DEF Moves
    <3>5. call'[c].pc = "delete" => record'[r].named
      BY <1>0, <1>2, <1>6, <1>7, <2>2 DEF RequestOK, Moves
    <3>6. call'[c].pc \in {"delete", "stopped"} => record'[r].stop
      BY <1>0, <1>2, <1>6, <2>2 DEF RequestOK, Moves
    <3>7. call'[c].pc = "settle" => job'[r] \notin {"none", "active"}
      BY <1>5, <1>7, <2>2 DEF Moves
    <3>8. ASSUME call'[c].pc = "release" PROVE Reason(r)'
      <4>1. call[c].pc \in {"fail", "stopped", "settle"} /\ job' = job
        BY <1>5, <2>2, <3>8 DEF Moves
      <4>2. CASE call[c].pc = "stopped"
        BY <1>0, <1>2, <1>6, <4>2 DEF RequestOK, Reason
      <4>3. CASE call[c].pc = "settle"
        BY <1>0, <1>2, <4>1, <4>3 DEF RequestOK, Reason
      <4>4. CASE call[c].pc = "fail"
        <5>1. ~record'[r].named
          BY <1>0, <1>2, <1>6, <4>4 DEF RequestOK, Starting
        <5>2. ASSUME NEW d \in Calls, call'[d].run = r
              PROVE  call'[d].pc \notin {"lease", "create", "job", "name"}
          <6>1. CASE d = c
            BY <3>8, <6>1
          <6>2. CASE d # c
            BY <1>0, <1>1, <1>2, <4>4, <5>2, <6>2 DEF RequestOK, Starting
          <6> QED BY <6>1, <6>2
        <5> QED BY <5>1, <5>2 DEF Reason
      <4> QED BY <4>1, <4>2, <4>3, <4>4
    <3> QED BY <2>2, <3>2, <3>3, <3>4, <3>5, <3>6, <3>7, <3>8 DEF RequestOK
  <2> QED BY <1>7, <2>1, <2>2
<1>11. ASSUME NEW d \in Calls \ {c} PROVE RequestOK(d)'
  <2> DEFINE q == call[d].run
  <2>1. call'[d] = call[d] /\ RequestOK(d) /\ (call[d].pc # "idle" => q \in Runs)
    BY <1>1, <1>2
  <2>2. CASE call[d].pc = "idle"
    BY <2>1, <2>2 DEF RequestOK, Starting
  <2>3. CASE q \in Runs /\ call[d].pc # "idle"
    <3>1. call[d].pc \in Starting => ~record'[q].named
      <4>1. CASE q # r
        BY <1>1, <2>1, <2>3, <4>1 DEF RequestOK
      <4>2. CASE q = r
        <5>1. call[d].pc \in Starting => call[c].pc # "name"
          BY <1>0, <1>2, <4>2 DEF RequestOK, Starting
        <5> QED BY <1>6, <2>1, <4>2, <5>1 DEF RequestOK
      <4> QED BY <4>1, <4>2
    <3>2. call[d].pc \in Starting =>
            \A e \in Calls \ {d} : call'[e].pc \in Starting => call'[e].run # q
      <4>1. ASSUME call[d].pc \in Starting, NEW e \in Calls \ {d}, call'[e].pc \in Starting
            PROVE  call'[e].run # q
        <5>1. CASE e # c
          BY <1>1, <2>1, <4>1, <5>1 DEF RequestOK
        <5>2. CASE e = c
          BY <1>0, <1>1, <1>7, <2>1, <2>3, <4>1, <5>2 DEF RequestOK, Starting, Moves
        <5> QED BY <5>1, <5>2
      <4> QED BY <4>1
    <3>3. call[d].pc \in {"lease", "create", "job"} => job'[q] = "none" /\ runner'[q] = "none"
      <4>1. CASE q # r
        BY <1>1, <2>1, <2>3, <4>1 DEF RequestOK
      <4>2. CASE q = r /\ call[d].pc \in {"lease", "create", "job"}
        <5>1. ~record[r].named /\ call[c].pc # "job"
          BY <1>0, <1>2, <2>1, <4>2 DEF RequestOK, Starting
        <5>2. call[c].pc # "delete"
          BY <1>0, <1>2, <5>1 DEF RequestOK
        <5> QED BY <1>5, <2>1, <4>2, <5>1, <5>2 DEF RequestOK
      <4> QED BY <4>1, <4>2
    <3>4. record[q].named => record'[q].named
      BY <1>0, <1>1, <1>2, <1>6, <2>3 DEF RequestOK, Starting
    <3>5. record[q].stop => record'[q].stop
      BY <1>1, <1>6, <2>3
    <3>6. job[q] \notin {"none", "active"} => job'[q] \notin {"none", "active"}
      BY <1>0, <1>1, <1>2, <1>5, <2>3 DEF RequestOK
    <3> QED BY <1>4, <2>1, <2>3, <3>1, <3>2, <3>3, <3>4, <3>5, <3>6 DEF RequestOK
  <2> QED BY <2>1, <2>2, <2>3
<1>12. ASSUME NEW q \in Runs PROVE PodOK(q)'
  <2>1. CASE runner'[q] = runner[q]
    <3>1. runner[q] \in {"release", "releaseError"} =>
            record'[q].state \in TerminalStates \/ Reason(q)'
      <4>1. CASE q # r
        BY <1>1, <1>3, <1>4, <4>1 DEF PodOK
      <4>2. CASE q = r /\ record'[r].stop
        BY <4>2 DEF Reason
      <4>3. CASE q = r /\ ~record'[r].stop
        <5>1. call[c].pc = "create" => runner[r] = "none"
          BY <1>0, <1>2 DEF RequestOK
        <5> QED BY <1>3, <1>4, <1>6, <4>3, <5>1 DEF PodOK
      <4> QED BY <4>1, <4>2, <4>3
    <3> QED BY <1>1, <1>3, <2>1, <3>1 DEF PodOK
  <2>2. CASE runner'[q] # runner[q]
    <3>1. q = r /\ call[c].pc = "job" /\ runner'[q] = "boot" /\ runner[q] = "none"
      BY <1>0, <1>1, <1>2, <1>5, <2>2 DEF RequestOK
    <3>2. ~beat[q] /\ ~locust[q]
      BY <1>3, <3>1 DEF PodOK, Waiting
    <3> QED BY <1>1, <3>1, <3>2 DEF PodOK, Waiting
  <2> QED BY <2>1, <2>2
<1>13. ASSUME NEW q \in Runs PROVE HolderOK(q)'
  <2> SUFFICES ASSUME q \notin disowned', beat'[q] \/ runner'[q] = "mark"
               PROVE  lease'.run = q /\ lease'.live /\ ~lease'.released
    BY DEF HolderOK
  <2>1. beat[q] \/ runner[q] = "mark"
    BY <1>1, <1>5
  <2>2. q \notin disowned /\ runner[q] \in Alive
    BY <1>3, <2>1 DEF CallEffect, PodOK, Alive, Waiting
  <2>3. lease.run = q /\ lease.live /\ ~lease.released
    BY <1>3, <2>1, <2>2 DEF HolderOK
  <2> QED BY <2>2, <2>3 DEF CallEffect
<1>14. ASSUME NEW q \in disowned' PROVE runner'[q] # "none" /\ Reason(q)'
  <2>1. CASE q \in disowned
    <3>1. q \in Runs /\ runner[q] # "none" /\ Reason(q)
      BY <2>1, TypeParts DEF ControlInv, RunsInv
    <3> QED BY <1>1, <1>4, <1>5, <3>1
  <2>2. CASE q \notin disowned
    <3>1. call[c].pc = "release" /\ q = r /\ runner[q] \in Alive /\ runner' = runner
      BY <1>0, <1>5, <2>2 DEF CallEffect
    <3>2. Reason(q)
      BY <1>0, <1>2, <3>1 DEF RequestOK
    <3> QED BY <1>1, <1>4, <3>1, <3>2 DEF Alive, Waiting
  <2> QED BY <2>1, <2>2
<1>15. ReleasesRight
  <2> SUFFICES ASSUME lease.live, lease'.released PROVE Reason(lease.run)
    BY DEF ReleasesRight
  <2>1. ~lease.released
    BY DEF ControlInv, RunsInv, ReleasedOK
  <2>2. call[c].pc = "release" /\ lease.run = r
    BY <1>0, <2>1 DEF CallEffect
  <2> QED BY <1>0, <1>2, <2>2 DEF RequestOK
<1>16. \A d \in Calls : RequestOK(d)'
  BY <1>10, <1>11
<1> QED BY <1>12, <1>13, <1>14, <1>15, <1>16 DEF ControlInv

\* A new request.
LEMMA NewControl ==
  ASSUME RunsAssumption, ControlInv, NEW c \in Calls, NEW r \in Runs,
         Start(c, r) \/ Stop(c, r) \/ Details(c, r), RunsInv'
  PROVE  ControlInv' /\ ReleasesRight
<1>1. /\ UNCHANGED <<lease, record, job, runner, locust, signalled, beat, disowned>>
      /\ call[c].pc = "idle" /\ call'[c].run = r
      /\ \A d \in Calls \ {c} : call'[d] = call[d]
      /\ \/ Start(c, r) /\ call'[c].pc = "lease"
         \/ call'[c].pc = "stopping" /\ call'[c].named = record[r].named
         \/ call'[c].pc = "query"
  BY NewCall DEF ControlInv
<1>2. RunsInv /\ \A d \in Calls : RequestOK(d) /\ (call[d].pc # "idle" => call[d].run \in Runs)
  BY DEF ControlInv, RunsInv, FreshOK
<1>3. ASSUME NEW q \in Runs, Reason(q), record[q] # NoRecord \/ \E d \in Calls : call[d].run = q
      PROVE  Reason(q)'
  BY <1>3, NewReasons
<1>4. ASSUME Start(c, r)
      PROVE  /\ record[r] = NoRecord /\ ~record[r].named
             /\ job[r] = "none" /\ runner[r] = "none"
             /\ \A d \in Calls : call[d].run # r
  BY <1>2, <1>4 DEF Start, RunsInv, FreshOK, NoRecord
<1>5. RequestOK(c)'
  BY <1>1, <1>4 DEF RequestOK, Starting
<1>6. ASSUME NEW d \in Calls \ {c} PROVE RequestOK(d)'
  <2>1. call'[d] = call[d] /\ RequestOK(d)
    BY <1>1, <1>2
  <2>2. call[d].pc = "release" => Reason(call[d].run)'
    <3>1. ASSUME NEW q \in Runs, call[d].pc = "release", call[d].run = q PROVE Reason(q)'
      BY <1>2, <1>3, <3>1 DEF RequestOK
    <3> QED BY <1>2, <2>1, <3>1 DEF Reason
  <2>3. ASSUME call[d].pc \in Starting, NEW e \in Calls \ {d}, call'[e].pc \in Starting
        PROVE  call'[e].run # call[d].run
    <3>1. CASE e # c
      BY <1>1, <2>1, <2>3, <3>1 DEF RequestOK
    <3>2. CASE e = c
      BY <1>1, <1>4, <2>3, <3>2 DEF Starting
    <3> QED BY <3>1, <3>2
  <2> QED BY <1>1, <2>1, <2>2, <2>3 DEF RequestOK
<1>7. ASSUME NEW q \in Runs PROVE PodOK(q)' /\ HolderOK(q)'
  <2>1. PodOK(q) /\ HolderOK(q)
    BY DEF ControlInv
  <2>2. runner[q] # "none" => record[q] # NoRecord
    BY <1>2 DEF RunsInv, FreshOK, NoRecord
  <2>3. runner[q] \in {"release", "releaseError"} => record[q].state \in TerminalStates \/ Reason(q)'
    BY <1>3, <2>1, <2>2 DEF PodOK
  <2> QED BY <1>1, <2>1, <2>3 DEF PodOK, HolderOK
<1>8. ASSUME NEW q \in disowned PROVE runner'[q] # "none" /\ Reason(q)'
  <2>1. q \in Runs /\ runner[q] # "none" /\ Reason(q)
    BY TypeParts DEF ControlInv, RunsInv
  <2>2. record[q] # NoRecord
    BY <1>2, <2>1 DEF RunsInv, FreshOK, NoRecord
  <2> QED BY <1>1, <1>3, <2>1, <2>2
<1>9. ReleasesRight
  BY <1>1, <1>2 DEF ReleasesRight, RunsInv, ReleasedOK
<1>10. \A d \in Calls : RequestOK(d)'
  BY <1>5, <1>6
<1> QED BY <1>1, <1>7, <1>8, <1>9, <1>10 DEF ControlInv

\* The pod of a run, step by step.
LEMMA PodStep ==
  ASSUME RunsAssumption, ControlInv, NEW r \in Runs, RunnerAct(r), Reason(r) => Reason(r)'
  PROVE  PodOK(r)' /\ HolderOK(r)'
<1>1. /\ RunsTypeOK /\ lease \in LeaseRec /\ record \in [Runs -> RecordRec]
      /\ runner \in [Runs -> Alive \cup {"none", "dead"}] /\ locust \in [Runs -> BOOLEAN]
      /\ signalled \in [Runs -> BOOLEAN] /\ beat \in [Runs -> BOOLEAN]
  BY TypeParts DEF ControlInv, RunsInv
<1>2. PodOK(r) /\ HolderOK(r)
  BY DEF ControlInv
<1>3. lease.released => ~lease.live
  BY DEF ControlInv, RunsInv, ReleasedOK
<1>4. CASE RunnerRenews(r)
  <2>1. CASE Renewable(r)
    <3>1. /\ runner'[r] = "mark" /\ UNCHANGED <<beat, locust, disowned>>
          /\ lease' = [lease EXCEPT !.live = TRUE] /\ runner[r] = "boot"
      BY <1>1, <1>4, <2>1 DEF RunnerRenews, Goto
    <3>2. lease'.run = r /\ lease'.live /\ ~lease'.released
      BY <1>1, <2>1, <3>1, RenewSet DEF Renewable
    <3> QED BY <1>2, <3>1, <3>2 DEF PodOK, HolderOK, Waiting
  <2>2. CASE ~Renewable(r)
    <3>1. runner'[r] = "error" /\ UNCHANGED <<beat, locust, disowned>> /\ runner[r] = "boot"
      BY <1>1, <1>4, <2>2 DEF RunnerRenews, Goto
    <3> QED BY <1>2, <3>1 DEF PodOK, HolderOK, Waiting
  <2> QED BY <2>1, <2>2
<1>5. CASE RunnerMarks(r)
  <2>1. /\ runner[r] = "mark" /\ runner'[r] = "launch" /\ beat'[r] /\ UNCHANGED <<lease, locust, disowned>>
    BY <1>1, <1>5 DEF RunnerMarks, Goto
  <2> QED BY <1>2, <2>1 DEF PodOK, HolderOK, Waiting
<1>6. CASE RunnerLaunches(r)
  <2>1. /\ runner[r] = "launch" /\ runner'[r] = "announce" /\ UNCHANGED <<lease, signalled, beat, disowned>>
    BY <1>1, <1>6 DEF RunnerLaunches, Goto
  <2> QED BY <1>2, <2>1 DEF PodOK, HolderOK, Waiting
<1>7. CASE RunnerAnnounces(r)
  <2>1. runner[r] = "announce" /\ runner'[r] = "run" /\ UNCHANGED <<lease, locust, signalled, beat, disowned>>
    BY <1>1, <1>7 DEF RunnerAnnounces, Goto
  <2> QED BY <1>2, <2>1 DEF PodOK, HolderOK, Waiting
<1>8. CASE LocustEnds(r)
  <2>1. /\ runner[r] = "run" /\ runner'[r] = "finish" /\ ~locust'[r]
        /\ UNCHANGED <<lease, signalled, beat, disowned>>
    BY <1>1, <1>8 DEF LocustEnds, Goto
  <2> QED BY <1>2, <2>1 DEF PodOK, HolderOK, Waiting
<1>9. CASE RunnerFinishes(r)
  <2>1. /\ runner[r] = "finish" /\ runner'[r] \in {"releaseError", "release"}
        /\ ~beat'[r] /\ UNCHANGED <<locust>>
    BY <1>1, <1>9 DEF RunnerFinishes, Goto
  <2>2. \E s \in TerminalStates : SetState(r, s)
    BY <1>9 DEF RunnerFinishes, TerminalStates
  <2>3. record'[r].state \in TerminalStates
    BY <1>1, <2>2, StateSet
  <2> QED BY <1>2, <2>1, <2>3 DEF PodOK, HolderOK, Waiting
<1>10. CASE RunnerCallFails(r)
  <2>1. /\ runner'[r] = "error" /\ ~beat'[r] /\ UNCHANGED <<locust>>
    BY <1>1, <1>10 DEF RunnerCallFails, Goto
  <2> QED BY <1>2, <2>1 DEF PodOK, HolderOK, Waiting
<1>11. CASE RunnerErrs(r)
  <2>1. /\ runner[r] = "error" /\ runner'[r] = "releaseError" /\ UNCHANGED <<locust, beat>>
    BY <1>1, <1>11 DEF RunnerErrs, Goto
  <2>2. record'[r].state \in TerminalStates
    BY <1>1, <1>11, StateSet DEF RunnerErrs, TerminalStates
  <2> QED BY <1>2, <2>1, <2>2 DEF PodOK, HolderOK, Waiting
<1>12. CASE RunnerReleases(r)
  <2>1. /\ runner[r] \in {"release", "releaseError"} /\ UNCHANGED <<locust, beat>>
        /\ runner'[r] = IF runner[r] = "release" THEN "exit" ELSE "exitError"
    BY <1>1, <1>12 DEF RunnerReleases, Goto
  <2> QED BY <1>2, <2>1 DEF PodOK, HolderOK, Waiting
<1>13. CASE RunnerExits(r) \/ PodEnds(r)
  <2>1. runner'[r] = "dead" /\ ~locust'[r]
    BY <1>1, <1>13 DEF RunnerExits, PodEnds, Goto
  <2>2. ~beat'[r]
    BY <1>1, <1>2, <1>13 DEF RunnerExits, PodEnds, PodOK, Waiting
  <2> QED BY <2>1, <2>2 DEF PodOK, HolderOK, Waiting
<1>14. CASE HeartbeatFails(r)
  <2>1. /\ UNCHANGED <<lease, record, runner, locust, disowned>> /\ signalled'[r] /\ ~beat'[r] /\ beat[r]
    BY <1>1, <1>14 DEF HeartbeatFails
  <2> QED BY <1>2, <2>1 DEF PodOK, HolderOK, Waiting
<1>15. CASE Heartbeat(r)
  <2>1. CASE Renewable(r)
    <3>1. /\ UNCHANGED <<record, runner, locust, signalled, beat, disowned>>
          /\ lease' = [lease EXCEPT !.live = TRUE]
      BY <1>15, <2>1 DEF Heartbeat
    <3>2. lease'.run = r /\ lease'.live /\ ~lease'.released
      BY <1>1, <2>1, <3>1, RenewSet DEF Renewable
    <3> QED BY <1>2, <3>1, <3>2 DEF PodOK, HolderOK, Waiting
  <2>2. CASE ~Renewable(r)
    <3>1. /\ UNCHANGED <<lease, record, runner, locust, disowned>> /\ signalled'[r] /\ ~beat'[r] /\ beat[r]
      BY <1>1, <1>15, <2>2 DEF Heartbeat
    <3> QED BY <1>2, <3>1 DEF PodOK, HolderOK, Waiting
  <2> QED BY <2>1, <2>2
<1>16. CASE SigTerm(r)
  <2>1. UNCHANGED <<lease, record, runner, locust, beat, disowned>> /\ signalled'[r]
    BY <1>1, <1>16 DEF SigTerm
  <2> QED BY <1>2, <2>1 DEF PodOK, HolderOK, Waiting
<1>17. CASE SiblingFails(r) \/ JobExpires(r)
  <2>1. UNCHANGED <<lease, record, runner, locust, signalled, beat, disowned>>
    BY <1>17 DEF SiblingFails, JobExpires, pod
  <2> QED BY <1>2, <2>1 DEF PodOK, HolderOK, Waiting
<1> QED
  BY <1>4, <1>5, <1>6, <1>7, <1>8, <1>9, <1>10, <1>11, <1>12, <1>13, <1>14, <1>15, <1>16, <1>17
  DEF RunnerAct, RunnerStep, RunnerFault

\* A step of a coordinator, its heartbeat or Kubernetes.
LEMMA RunnerControl ==
  ASSUME RunsAssumption, ControlInv, NEW r \in Runs, RunnerAct(r), RunsInv'
  PROVE  ControlInv' /\ ReleasesRight
<1>1. RunnerEffect(r)
  BY RunnerEffects DEF ControlInv
<1>2. \A q \in Runs : Reason(q) => Reason(q)'
  BY <1>1, RunnerReasons
<1>3. /\ call' = call /\ disowned' = disowned
      /\ \A q \in Runs : record'[q].named = record[q].named /\ record'[q].stop = record[q].stop
  BY <1>1 DEF RunnerEffect
<1>4. ASSUME NEW d \in Calls PROVE RequestOK(d)'
  <2>1. RequestOK(d) /\ (call[d].pc # "idle" => call[d].run \in Runs)
    BY DEF ControlInv, RunsInv, FreshOK
  <2>2. CASE call[d].pc = "idle"
    BY <1>3, <2>2 DEF RequestOK, Starting
  <2>3. CASE call[d].run \in Runs
    <3>1. call[d].pc \in {"lease", "create", "job"} =>
            job'[call[d].run] = "none" /\ runner'[call[d].run] = "none"
      BY <1>1, <2>1, <2>3 DEF RequestOK, RunnerEffect, PodEffect
    <3>2. call[d].pc = "settle" => job'[call[d].run] \notin {"none", "active"}
      BY <1>1, <2>1, <2>3 DEF RequestOK, RunnerEffect, PodEffect
    <3> QED BY <1>2, <1>3, <2>1, <2>3, <3>1, <3>2 DEF RequestOK
  <2> QED BY <2>1, <2>2, <2>3
<1>5. ASSUME NEW q \in Runs PROVE PodOK(q)' /\ HolderOK(q)'
  <2>1. PodOK(q) /\ HolderOK(q)
    BY DEF ControlInv
  <2>2. CASE q = r
    BY <1>2, <2>2, PodStep
  <2>3. CASE q # r
    <3>1. /\ record'[q] = record[q] /\ runner'[q] = runner[q] /\ locust'[q] = locust[q]
          /\ signalled'[q] = signalled[q] /\ beat'[q] = beat[q]
      BY <1>1, <2>3 DEF RunnerEffect, PodEffect
    <3>2. lease.run = q => lease' = lease
      BY <1>1, <2>3 DEF RunnerEffect
    <3> QED BY <1>2, <1>3, <2>1, <3>1, <3>2 DEF PodOK, HolderOK
  <2> QED BY <2>2, <2>3
<1>6. ASSUME NEW q \in disowned PROVE runner'[q] # "none" /\ Reason(q)'
  <2>1. q \in Runs /\ runner[q] # "none" /\ Reason(q)
    BY TypeParts DEF ControlInv, RunsInv
  <2> QED BY <1>1, <1>2, <2>1 DEF RunnerEffect, PodEffect
<1>7. ReleasesRight
  <2> SUFFICES ASSUME lease.live, lease'.released
               PROVE  record[lease.run].state \in TerminalStates \/ Reason(lease.run)
    BY DEF ReleasesRight
  <2>1. ~lease.released
    BY DEF ControlInv, RunsInv, ReleasedOK
  <2>2. runner[r] \in {"release", "releaseError"} /\ lease.run = r
    BY <1>1, <2>1 DEF RunnerEffect
  <2>3. PodOK(r)
    BY DEF ControlInv
  <2> QED BY <2>2, <2>3 DEF PodOK
<1> QED BY <1>3, <1>4, <1>5, <1>6, <1>7 DEF ControlInv

LEMMA ControlStep ==
  ASSUME RunsAssumption, ControlInv, [RunsNext]_runVars
  PROVE  ControlInv' /\ [ReleasesRight]_runVars
<1>1. RunsInv /\ RunsInv'
  BY RunsStep DEF ControlInv
<1>2. CASE UNCHANGED runVars
  <2>1. UNCHANGED <<lease, record, job, runner, locust, signalled, beat, call, disowned>>
    BY <1>2 DEF runVars, kube, pod
  <2>2. \A q \in Runs : Reason(q) => Reason(q)'
    BY <2>1 DEF Reason
  <2>3. disowned \subseteq Runs
    BY <1>1, TypeParts DEF RunsInv
  <2>4. \A d \in Calls : RequestOK(d)'
    BY <2>1 DEF ControlInv, RequestOK, Reason
  <2>5. \A q \in Runs : PodOK(q)' /\ HolderOK(q)'
    BY <2>1, <2>2 DEF ControlInv, PodOK, HolderOK
  <2>6. \A q \in disowned : runner'[q] # "none" /\ Reason(q)'
    BY <2>1, <2>2, <2>3 DEF ControlInv
  <2> QED BY <1>1, <1>2, <2>1, <2>4, <2>5, <2>6 DEF ControlInv
<1>3. ASSUME NEW c \in Calls, CallStep(c) \/ CallFault(c)
      PROVE  ControlInv' /\ ReleasesRight
  BY <1>1, <1>3, CallEffects, CallControl
<1>4. ASSUME NEW c \in Calls, NEW r \in Runs, Start(c, r) \/ Stop(c, r) \/ Details(c, r)
      PROVE  ControlInv' /\ ReleasesRight
  BY <1>1, <1>4, NewControl
<1>5. ASSUME NEW r \in Runs, RunnerAct(r)
      PROVE  ControlInv' /\ ReleasesRight
  BY <1>1, <1>5, RunnerControl
<1>6. CASE LeaseExpires
  <2>1. /\ UNCHANGED <<record, job, runner, locust, signalled, beat, call, disowned>>
        /\ lease'.run = lease.run /\ lease'.released = lease.released
    BY <1>1, <1>6, ExpiryEffect
  <2>2. lease.live => ~lease.released
    BY <1>1 DEF RunsInv, ReleasedOK
  <2>3. \A q \in Runs : Reason(q) => Reason(q)'
    BY <2>1 DEF Reason
  <2>4. \A d \in Calls : RequestOK(d)'
    BY <2>1 DEF ControlInv, RequestOK, Reason
  <2>5. ASSUME NEW q \in Runs PROVE PodOK(q)' /\ HolderOK(q)'
    <3>1. PodOK(q) /\ HolderOK(q)
      BY DEF ControlInv
    <3>2. lease.run = q => ~beat[q] /\ runner[q] # "mark"
      BY <1>6 DEF LeaseExpires
    <3> QED BY <2>1, <2>3, <3>1, <3>2 DEF PodOK, HolderOK
  <2>6. disowned \subseteq Runs
    BY <1>1, TypeParts DEF RunsInv
  <2>7. \A q \in disowned : runner'[q] # "none" /\ Reason(q)'
    BY <2>1, <2>3, <2>6 DEF ControlInv
  <2>8. ReleasesRight
    BY <2>1, <2>2 DEF ReleasesRight
  <2> QED BY <1>1, <2>1, <2>4, <2>5, <2>7, <2>8 DEF ControlInv
<1> QED BY <1>2, <1>3, <1>4, <1>5, <1>6 DEF RunsNext, RunnerAct

\* Requests, coordinators and the lease in every behaviour: who starts a run, who
\* may delete its Job, why its lease is released, and which coordinator has it.
THEOREM RunsControl ==
  ASSUME RunsAssumption
  PROVE  RunsSpec => []ControlInv
<1>1. RunsInit => ControlInv
  <2> SUFFICES ASSUME RunsInit PROVE ControlInv
    OBVIOUS
  <2>1. RunsInv
    BY RunsStart
  <2>2. /\ \A c \in Calls : call[c].pc = "idle"
        /\ disowned = {}
        /\ \A r \in Runs : runner[r] = "none" /\ ~beat[r] /\ ~locust[r]
    BY DEF RunsInit, IdleCall
  <2>3. \A c \in Calls : RequestOK(c)
    BY <2>2 DEF RequestOK, Starting
  <2>4. \A r \in Runs : PodOK(r) /\ HolderOK(r)
    BY <2>2 DEF PodOK, HolderOK, Waiting
  <2> QED BY <2>1, <2>2, <2>3, <2>4 DEF ControlInv
<1>2. ControlInv /\ [RunsNext]_runVars => ControlInv'
  BY ControlStep
<1> QED BY <1>1, <1>2, PTL DEF RunsSpec

\* However many replicas start, stop, fail and crash, and though leases run out
\* under coordinators that drain: two runs have a workload at once only when a
\* request released the lease of one of them while its coordinator lived, and that
\* request had a reason.
THEOREM RunsOneWorkload ==
  ASSUME RunsAssumption
  PROVE  RunsSpec => []OneWorkload
<1>1. ASSUME ControlInv PROVE OneWorkload
  <2>1. ASSUME NEW r \in Runs \ disowned, Running(r)
        PROVE  lease.run = r
    <3>1. PodOK(r) /\ HolderOK(r)
      BY <1>1 DEF ControlInv
    <3> QED BY <2>1, <3>1 DEF PodOK, HolderOK, Running
  <2>2. \A r, s \in Runs \ disowned : Running(r) /\ Running(s) => r = s
    BY <2>1
  <2> QED BY <1>1, <2>2 DEF OneWorkload, ControlInv
<1> QED BY <1>1, RunsControl, PTL

\* A Locust process that runs without the lease of its run has been told to stop,
\* or is watched by a heartbeat, or its coordinator has failed and ends.
THEOREM RunsWatched ==
  ASSUME RunsAssumption
  PROVE  RunsSpec => []Watched
<1>1. ASSUME ControlInv PROVE Watched
  <2>1. ASSUME NEW r \in Runs, locust[r]
        PROVE  signalled[r] \/ beat[r] \/ runner[r] \in {"error", "releaseError", "exitError"}
    <3>1. PodOK(r)
      BY <1>1 DEF ControlInv
    <3> QED BY <2>1, <3>1 DEF PodOK
  <2> QED BY <2>1 DEF Watched
<1> QED BY <1>1, RunsControl, PTL

\* The lease is released when its run is over or a request has a reason to end it,
\* and never comes back to it: stops, crashes, failed calls and late pods included.
THEOREM RunsLeaseReleases ==
  ASSUME RunsAssumption
  PROVE  RunsSpec => LeaseReleases
<1>1. ControlInv /\ [RunsNext]_runVars => [ReleasesRight]_runVars
  BY ControlStep
<1>2. RunsSpec => ReleasedWhenOver
  BY <1>1, RunsControl, PTL DEF RunsSpec, ReleasedWhenOver
<1> QED BY <1>2, RunsReleaseIsFinal DEF LeaseReleases

=============================================================================
