---------------------------- MODULE RunSequence ----------------------------
(***************************************************************************)
(* The benchmark page (app.py): one browser tab submits a sequence of runs *)
(* through the API, refreshes its list and lets the user stop a sequence.  *)
(* The script runs to the next await without interruption; requests and    *)
(* their answers may be arbitrarily late and may be lost.  The API is      *)
(* abstracted to the runs it has (module BenchmarkRuns).                   *)
(***************************************************************************)
EXTENDS Naturals, Sequences, FiniteSets, FiniteSetsExt

CONSTANTS
    Total,         \* plan.totalRuns
    MaxPlans,      \* bound on sequences the user starts
    MaxOthers,     \* bound on runs of other users
    MaxSequenceFaults      \* bound on failed calls and on leases that run out early

SequenceAssumption ==
    /\ {Total, MaxPlans, MaxOthers, MaxSequenceFaults} \subseteq Nat /\ Total > 0

VARIABLES
    runs,          \* the server's runs, in order: [plan, state]
    plan,          \* repeatPlan (0: null); plans are numbered
    plans,         \* fields of every plan object: [current, submitted, waiting]
    active,        \* activeRun (0: null)
    inFlight,      \* sequenceRequestInFlight
    post,          \* the coroutine in submitSequenceRun: [pc, plan, from, run]
    refresh,       \* refreshPage: [pc, list]
    stopping,      \* the run the stop handler is stopping (0: none)
    excused,       \* plans for which a call failed and the user was told, or an answer was lost
    others, sequenceFaults

sequenceVars == <<runs, plan, plans, active, inFlight, post, refresh, stopping, excused, others, sequenceFaults>>
page == <<plan, plans, active, inFlight>>

Plans == 1..Len(plans)
Ids == 1..Len(runs)
NoPost == [pc |-> "none", plan |-> 0, from |-> "form", run |-> 0]
NoRefresh == [pc |-> "idle", list |-> << >>]
NewPlan == [current |-> 0, submitted |-> 0, waiting |-> FALSE]
ActiveRuns(list) == {i \in 1..Len(list) : list[i].state = "active"}
RunsOf(p) == {i \in Ids : runs[i].plan = p}
SequenceFault == sequenceFaults < MaxSequenceFaults /\ sequenceFaults' = sequenceFaults + 1

RunRec == [plan : Nat, state : {"active", "ended", "stopped"}]
PlanRec == [current : Nat, submitted : 0..Total, waiting : BOOLEAN]
PostRec == [pc : {"none", "sent", "created", "refused", "failed", "undo"},
            plan : Nat, from : {"form", "refresh"}, run : Nat]
RefreshRec == [pc : {"idle", "asked", "listed", "submitting"}, list : Seq(RunRec)]

SequenceTypeOK ==
    /\ runs \in Seq(RunRec) /\ \A i \in Ids : runs[i].plan <= Len(plans)
    /\ plans \in Seq(PlanRec) /\ Len(plans) <= MaxPlans /\ plan \in 0..Len(plans)
    /\ \A p \in Plans : plans[p].current <= Len(runs)
    /\ active \in 0..Len(runs) /\ stopping \in 0..Len(runs)
    /\ inFlight \in BOOLEAN
    /\ post \in PostRec /\ refresh \in RefreshRec
    /\ refresh.pc = "submitting" => post.from = "refresh"
    /\ excused \subseteq Plans
    /\ others \in 0..MaxOthers /\ sequenceFaults \in 0..MaxSequenceFaults

SequenceInit ==
    /\ runs = << >> /\ plan = 0 /\ plans = << >> /\ active = 0 /\ inFlight = FALSE
    /\ post = NoPost /\ refresh = NoRefresh /\ stopping = 0 /\ excused = {}
    /\ others = 0 /\ sequenceFaults = 0

----------------------------------------------------------------------------
(* Submitting                                                              *)

\* The form's submit handler; the button is disabled while a run, a sequence
\* or a request is active (updateControls).
PressStart ==
    /\ active = 0 /\ plan = 0 /\ ~inFlight
    /\ Len(plans) < MaxPlans
    /\ plans' = Append(plans, NewPlan)
    /\ plan' = Len(plans) + 1
    /\ inFlight' = TRUE
    /\ post' = [pc |-> "sent", plan |-> Len(plans) + 1, from |-> "form", run |-> 0]
    /\ UNCHANGED <<runs, active, refresh, stopping, excused, others, sequenceFaults>>

\* POST /api/runs: a run is created, unless another one holds the lease; a
\* lease may have run out although its run is active.
ServerCreates ==
    /\ post.pc = "sent"
    /\ \/ ActiveRuns(runs) = {} /\ UNCHANGED sequenceFaults
       \/ ActiveRuns(runs) # {} /\ SequenceFault
    /\ runs' = Append(runs, [plan |-> post.plan, state |-> "active"])
    /\ post' = [post EXCEPT !.pc = "created", !.run = Len(runs) + 1]
    /\ UNCHANGED <<page, refresh, stopping, excused, others>>

\* 409: RunConflict
ServerRefuses ==
    /\ post.pc = "sent" /\ ActiveRuns(runs) # {}
    /\ post' = [post EXCEPT !.pc = "refused"]
    /\ UNCHANGED <<runs, page, refresh, stopping, excused, others, sequenceFaults>>

\* Any other error, or no answer: the run may exist.
PostFails ==
    /\ post.pc = "sent" /\ SequenceFault
    /\ \/ UNCHANGED runs
       \/ /\ ActiveRuns(runs) = {}
          /\ runs' = Append(runs, [plan |-> post.plan, state |-> "active"])
    /\ post' = [post EXCEPT !.pc = "failed"]
    /\ excused' = excused \cup {post.plan}
    /\ UNCHANGED <<page, refresh, stopping, others>>

\* The end of submitSequenceRun; a refresh that waits for it goes on.
Submitted ==
    /\ inFlight' = FALSE /\ post' = NoPost
    /\ refresh' = IF post.from = "refresh" THEN NoRefresh ELSE refresh

\* Mutant of Cancelled: the plan is not looked at again.
CancelledNever == FALSE

\* The sequence was stopped, or replaced, while the request was under way.
Cancelled == plan # post.plan

\* The answer to the POST arrives.
Created ==
    /\ post.pc = "created"
    /\ active' = post.run
    /\ IF Cancelled
       THEN /\ post' = [post EXCEPT !.pc = "undo"]
            /\ UNCHANGED <<plans, inFlight, refresh>>
       ELSE /\ plans' = [plans EXCEPT ![post.plan] =
                           [current |-> post.run, submitted |-> @.submitted + 1, waiting |-> FALSE]]
            /\ Submitted
    /\ UNCHANGED <<runs, plan, stopping, excused, others, sequenceFaults>>

\* The run of a sequence that was stopped meanwhile is stopped, too.
Undo ==
    /\ post.pc = "undo"
    /\ \/ /\ runs' = [runs EXCEPT ![post.run].state = IF @ = "active" THEN "stopped" ELSE @]
          /\ active' = 0
          /\ UNCHANGED <<excused, sequenceFaults>>
       \/ /\ SequenceFault
          /\ excused' = excused \cup {post.plan}
          /\ UNCHANGED <<runs, active>>
    /\ Submitted
    /\ UNCHANGED <<plan, plans, stopping, others>>

\* Mutant of Refused: the flag is reset only after a run was created.
RefusedBusy ==
    /\ post.pc = "refused" /\ post' = [post EXCEPT !.pc = "refused"]
    /\ refresh' = IF post.from = "refresh" THEN NoRefresh ELSE refresh
    /\ plan' = IF post.from = "form" /\ plan = post.plan THEN 0 ELSE plan
    /\ UNCHANGED <<runs, plans, active, inFlight, stopping, excused, others, sequenceFaults>>

\* 409: the first run of a sequence gives up, a re-run tries again later.
Refused ==
    /\ post.pc = "refused"
    /\ Submitted
    /\ plan' = IF post.from = "form" /\ plan = post.plan THEN 0 ELSE plan
    /\ UNCHANGED <<runs, plans, active, stopping, excused, others, sequenceFaults>>

\* Every other error ends the sequence.
Failed ==
    /\ post.pc = "failed"
    /\ Submitted
    /\ plan' = IF plan = post.plan THEN 0 ELSE plan
    /\ UNCHANGED <<runs, plans, active, stopping, excused, others, sequenceFaults>>

----------------------------------------------------------------------------
(* Refreshing                                                              *)

\* Every three seconds and after a click, one at a time.
Refresh ==
    /\ refresh.pc = "idle"
    /\ refresh' = [refresh EXCEPT !.pc = "asked"]
    /\ UNCHANGED <<runs, page, post, stopping, excused, others, sequenceFaults>>

\* GET /api/runs
List ==
    /\ refresh.pc = "asked"
    /\ refresh' = [pc |-> "listed", list |-> runs]
    /\ UNCHANGED <<runs, page, post, stopping, excused, others, sequenceFaults>>

RefreshFails ==
    /\ refresh.pc = "asked" /\ SequenceFault
    /\ refresh' = NoRefresh
    /\ UNCHANGED <<runs, page, post, stopping, excused, others>>

\* The plan's run is in the list and no longer active.
Over(list, run) == run <= Len(list) /\ list[run].state # "active"

\* Mutant of AllSubmitted: one run too many.
AllSubmittedLate(p) == plans[p].submitted > Total

AllSubmitted(p) == plans[p].submitted >= Total

\* The list arrives and advanceRepeatPlan looks at the plan's run: it is not
\* over, or it ended the sequence, or the next run waits for its delay, for
\* another run, or is submitted.
Listed ==
    LET list == refresh.list
        current == plans[plan].current
        over == current # 0 /\ Over(list, current)
        last == \/ current <= Len(list) /\ list[current].state = "stopped"
                \/ AllSubmitted(plan)
        waits == over \/ (current = 0 /\ plans[plan].waiting)
    IN  /\ refresh.pc = "listed"
        /\ active' = IF ActiveRuns(list) = {} THEN 0 ELSE Max(ActiveRuns(list))
        /\ IF plan = 0 \/ inFlight
           THEN refresh' = NoRefresh /\ UNCHANGED <<plan, plans, inFlight, post>>
           ELSE IF over /\ last
           THEN /\ plan' = 0
                /\ plans' = [plans EXCEPT ![plan].current = 0]
                /\ refresh' = NoRefresh /\ UNCHANGED <<inFlight, post>>
           ELSE /\ plans' = IF waits THEN [plans EXCEPT ![plan].current = 0, ![plan].waiting = TRUE]
                            ELSE plans
                /\ \/ /\ waits /\ active' = 0
                      /\ inFlight' = TRUE
                      /\ post' = [pc |-> "sent", plan |-> plan, from |-> "refresh", run |-> 0]
                      /\ refresh' = [NoRefresh EXCEPT !.pc = "submitting"]
                   \/ refresh' = NoRefresh /\ UNCHANGED <<inFlight, post>>
                /\ UNCHANGED plan
        /\ UNCHANGED <<runs, stopping, excused, others, sequenceFaults>>

----------------------------------------------------------------------------
(* Stopping                                                                *)

\* The stop button: the plan's run, or without a plan the active run.
PressStop ==
    /\ stopping = 0
    /\ active # 0 \/ plan # 0 \/ inFlight
    /\ stopping' = IF plan # 0 THEN plans[plan].current ELSE active
    /\ plan' = 0
    /\ UNCHANGED <<runs, plans, active, inFlight, post, refresh, excused, others, sequenceFaults>>

\* POST /api/runs/<id>/stop
StopAnswered ==
    /\ stopping # 0
    /\ \/ /\ runs' = [runs EXCEPT ![stopping].state = IF @ = "active" THEN "stopped" ELSE @]
          /\ active' = IF active = stopping THEN 0 ELSE active
          /\ UNCHANGED <<excused, sequenceFaults>>
       \/ /\ SequenceFault
          /\ excused' = excused \cup ({runs[stopping].plan} \ {0})
          /\ UNCHANGED <<runs, active>>
    /\ stopping' = 0
    /\ UNCHANGED <<plan, plans, inFlight, post, refresh, others>>

----------------------------------------------------------------------------
(* The server                                                              *)

RunEnds(i) ==
    /\ i \in Ids /\ runs[i].state = "active"
    /\ runs' = [runs EXCEPT ![i].state = "ended"]
    /\ UNCHANGED <<page, post, refresh, stopping, excused, others, sequenceFaults>>

OtherStarts ==
    /\ others < MaxOthers /\ ActiveRuns(runs) = {}
    /\ others' = others + 1
    /\ runs' = Append(runs, [plan |-> 0, state |-> "active"])
    /\ UNCHANGED <<page, post, refresh, stopping, excused, sequenceFaults>>

----------------------------------------------------------------------------

Answers == ServerCreates \/ ServerRefuses \/ PostFails \/ Created \/ Undo \/ Refused \/ Failed
Refreshing == Refresh \/ List \/ RefreshFails \/ Listed
Submitting == Listed /\ post'.pc = "sent" /\ post.pc = "none"

SequenceNext ==
    \/ PressStart \/ PressStop \/ StopAnswered \/ OtherStarts
    \/ Answers \/ Refreshing
    \/ \E i \in Ids : RunEnds(i)

\* Requests are answered, the page keeps refreshing, delays pass (a re-run that
\* could be submitted again and again is), and runs end.
SequenceFairness ==
    /\ WF_sequenceVars(Answers) /\ WF_sequenceVars(StopAnswered)
    /\ WF_sequenceVars(Refreshing) /\ SF_sequenceVars(Submitting)
    /\ \A i \in 1..(Total * MaxPlans + MaxOthers) : WF_sequenceVars(RunEnds(i))

SequenceSpec == SequenceInit /\ [][SequenceNext]_sequenceVars /\ SequenceFairness

----------------------------------------------------------------------------

\* A sequence never has two runs at work at the same time and never more than
\* were asked for, although lists are stale and leases may run out.
OneAtATime ==
    \A p \in Plans :
        /\ Cardinality(RunsOf(p) \cap ActiveRuns(runs)) <= 1
        /\ Cardinality(RunsOf(p)) <= Total

\* Once a sequence is stopped and nothing is under way, none of its runs is
\* left at work, also the one whose submission was under way, unless a call
\* failed.
StopSticks ==
    \A p \in Plans :
        plan # p /\ post.plan # p /\ p \notin excused /\ stopping \notin RunsOf(p)
            => RunsOf(p) \cap ActiveRuns(runs) = {}

\* A sequence is what the user asked for: one run after the other, no more than
\* that, and none after the stop.
SequenceObeys == OneAtATime /\ StopSticks

----------------------------------------------------------------------------
(* The inductive invariant of SequenceObeys                                *)

ActiveOf(p) == RunsOf(p) \cap ActiveRuns(runs)

\* A list may be old, but what is over in it is over.
ListOK ==
    refresh.pc = "listed" =>
        /\ Len(refresh.list) <= Len(runs)
        /\ \A i \in 1..Len(refresh.list) :
              refresh.list[i].state # "active" => runs[i].state # "active"

\* While a submission is under way no other sequence can be started, and it
\* stays known as long as a run may come of it.
PostOK ==
    /\ inFlight <=> post.pc # "none"
    /\ post.pc = "none" => post = NoPost
    /\ post.pc # "none" => post.plan \in Plans /\ plan \in {0, post.plan}
    /\ post.pc \in {"created", "undo"} => post.run \in RunsOf(post.plan)
    /\ post.pc = "undo" => plan = 0
    /\ post.pc = "failed" => post.plan \in excused

\* Whose an active run of a sequence is: of the submission, of the plan on the
\* page, or of the stop button, unless a call failed.
ActiveOK ==
    \A p \in Plans : \A i \in ActiveOf(p) :
        /\ post.plan = p => \/ post.pc \in {"created", "undo"} /\ i = post.run
                            \/ post.pc = "failed"
        /\ post.plan # p /\ plan = p => i = plans[p].current
        /\ p \in excused \/ plan = p \/ post.plan = p \/ stopping = i
        /\ \A j \in ActiveOf(p) : i = j

\* submitted counts the runs of the sequence, except one whose submission is
\* still under way or that nobody follows any more.
CountOK ==
    \A p \in Plans :
        /\ Cardinality(RunsOf(p)) <= Total
        /\ plan = p /\ post.plan # p => Cardinality(RunsOf(p)) = plans[p].submitted
        /\ post.plan = p /\ post.pc \in {"sent", "refused"} =>
              Cardinality(RunsOf(p)) = plans[p].submitted /\ plans[p].submitted < Total
        /\ post.plan = p /\ post.pc = "created" => Cardinality(RunsOf(p)) = plans[p].submitted + 1
        /\ plans[p].waiting => plans[p].submitted < Total

SequenceInv == SequenceTypeOK /\ ListOK /\ PostOK /\ ActiveOK /\ CountOK

----------------------------------------------------------------------------

\* A sequence ends: with its last run, with the user's stop or with an error.
SequenceEnds == \A p \in 1..MaxPlans : (plan = p) ~> (plan # p)

=============================================================================
