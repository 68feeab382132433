----------------------------- MODULE WorkerPlan -----------------------------
(***************************************************************************)
(* A benchmark request from validation to the requests its workers send:   *)
(* the control service or the standalone script accepts it, every worker   *)
(* process reads its share back from worker-config.json and follows its    *)
(* schedule.                                                               *)
(***************************************************************************)
EXTENDS WorkerSplit

CONSTANTS
    Rates, Users, Durations,   \* the requests that are considered
    DriverLimit                \* of a driver: checkouts it has under way at most

Requests ==
    [workload : Workloads, rate : Rates, users : Users, spawn : {MinRate}, start : {MinRate, MaxOpen},
     max : Rates, seconds : Durations, collect : BOOLEAN, metrics : BOOLEAN]

\* Fields a workload does not use keep one value.
Relevant(c) ==
    /\ c.workload = "saturation" => c.rate = MinRate /\ c.users = 1
    /\ c.workload = "closed" => c.rate = MinRate /\ c.max = c.start
    /\ c.workload \in {"open", "fault_tolerance"} => c.users = 1 /\ c.max = c.start
    /\ c.workload # "saturation" => c.start = MinRate

\* The smallest open-loop request.
Smallest ==
    [workload |-> "open", rate |-> MinRate, users |-> 1, spawn |-> MinRate, start |-> MinRate,
     max |-> MinRate, seconds |-> 1, collect |-> FALSE, metrics |-> FALSE]

VARIABLES
    config,        \* the request
    phase,         \* "request", "refused", "split"
    status,        \* of each worker
    scheduled,     \* the requests each worker has gone through: <<rung, ordinal>>
    saturated      \* those of them that it recorded as GENERATOR_SATURATED and did not send

planVars == <<config, phase, status, scheduled, saturated>>

Indexes == IF phase = "split" THEN 0..(WorkerCount(config) - 1) ELSE {}
Share(w) == ForWorker(config, w)

PlanTypeOK ==
    /\ config \in Requests
    /\ phase \in {"request", "refused", "split"}
    /\ DOMAIN status = Indexes /\ DOMAIN scheduled = Indexes /\ DOMAIN saturated = Indexes
    /\ \A w \in Indexes : status[w] \in {"none", "failed", "running", "ended"} /\ saturated[w] \subseteq scheduled[w]
    /\ phase = "split" => \A w \in Indexes :
          /\ Share(w).rate \in 1..Max({MaxOpen, MinRate})
          /\ config.workload = "closed" => Share(w).users \in 1..MaxClosed

PlanInit ==
    /\ config \in {c \in Requests : Relevant(c)}
    /\ phase = "request"
    /\ status = << >> /\ scheduled = << >> /\ saturated = << >>

\* from_request, then one worker process per share.
Submit ==
    /\ phase = "request"
    /\ phase' = IF Valid(config) THEN "split" ELSE "refused"
    /\ LET indexes == IF Valid(config) THEN 0..(WorkerCount(config) - 1) ELSE {}
       IN  /\ status' = [w \in indexes |-> "none"]
           /\ scheduled' = [w \in indexes |-> {}] /\ saturated' = [w \in indexes |-> {}]
    /\ UNCHANGED config

\* The worker imports runtime.py, which reads the share.
Load(w) ==
    /\ w \in Indexes /\ status[w] = "none"
    /\ status' = [status EXCEPT ![w] =
                     IF Loads(Share(w), WorkerCount(config)) THEN "running" ELSE "failed"]
    /\ UNCHANGED <<config, phase, scheduled, saturated>>

\* The requests (closed loop: the users) of a share, rung by rung.
PlannedRungs == IF config.workload = "saturation" THEN 0..(StepCount(config) - 1) ELSE {0}
Requested(w, rung) ==
    CASE config.workload \in {"open", "fault_tolerance"} ->
           0..(Arrivals(Share(w).rate, config.seconds) - 1)
      [] config.workload = "saturation" ->
           Ordinals(Scheduled(config, rung), w, WorkerCount(config))
      [] OTHER -> 0..(Share(w).users - 1)

\* What a worker has sent.
Sent(w) == scheduled[w] \ saturated[w]

\* Mutant of AtLimit: the limit is a request too low.
AtLimitEarly(w, before) == Cardinality(Sent(w)) + Cardinality(before) >= DriverLimit - 1

\* Checkouts that were sent may be under way as long as they like: at the limit
\* a request that is due need not be sent, below it is.
AtLimit(w, before) == Cardinality(Sent(w)) + Cardinality(before) >= DriverLimit

\* A worker goes through a rung; rungs are taken in order. In a closed loop
\* the users wait for their own checkouts.
Send(w, rung) ==
    /\ w \in Indexes /\ status[w] = "running"
    /\ {r[1] : r \in scheduled[w]} = {r \in PlannedRungs : r < rung /\ Requested(w, r) # {}}
    /\ Requested(w, rung) # {}
    /\ \E busy \in SUBSET Requested(w, rung) :
          /\ \A k \in busy :
                config.workload # "closed" /\ AtLimit(w, {i \in Requested(w, rung) \ busy : i < k})
          /\ saturated' = [saturated EXCEPT ![w] = @ \cup ({rung} \X busy)]
    /\ scheduled' = [scheduled EXCEPT ![w] = @ \cup ({rung} \X Requested(w, rung))]
    /\ UNCHANGED <<config, phase, status>>

Finish(w) ==
    /\ w \in Indexes /\ status[w] = "running"
    /\ {r[1] : r \in scheduled[w]} = {r \in PlannedRungs : Requested(w, r) # {}}
    /\ status' = [status EXCEPT ![w] = "ended"]
    /\ UNCHANGED <<config, phase, scheduled, saturated>>

PlanNext ==
    \/ Submit
    \/ \E w \in Indexes : Load(w) \/ Finish(w) \/ \E rung \in PlannedRungs : Send(w, rung)

PlanSpec == PlanInit /\ [][PlanNext]_planVars

----------------------------------------------------------------------------

AllEnded == phase = "split" /\ \A w \in Indexes : status[w] = "ended"

\* Every request of a saturation rung is scheduled by one worker and no other.
RungsShared ==
    AllEnded /\ config.workload = "saturation" =>
        /\ UNION {scheduled[w] : w \in Indexes} =
              UNION {{r} \X (0..(Scheduled(config, r) - 1)) : r \in PlannedRungs}
        /\ \A v, w \in Indexes : v # w => scheduled[v] \cap scheduled[w] = {}

ScheduledCount == MapThenSumSet(LAMBDA w : Cardinality(scheduled[w]), Indexes)

\* Together the workers schedule exactly the requested load: every request of a
\* saturation rung, all users, and an arrival rate to within one request per
\* worker. A worker sends all of its schedule that its concurrency allows.
LoadIsWhole ==
    /\ RungsShared
    /\ AllEnded /\ config.workload = "closed" => ScheduledCount = config.users
    /\ AllEnded /\ config.workload \in {"open", "fault_tolerance"} =>
          /\ ScheduledCount * Unit >= config.rate * config.seconds
          /\ (ScheduledCount - WorkerCount(config)) * Unit < config.rate * config.seconds
    /\ \A w \in Indexes : saturated[w] # {} =>
          config.workload # "closed" /\ Cardinality(Sent(w)) >= DriverLimit

\* The shared target is sampled by exactly one worker if metrics are wanted.
OneSampler ==
    phase = "split" =>
        Cardinality({w \in Indexes : Share(w).collect}) = (IF config.collect THEN 1 ELSE 0)

----------------------------------------------------------------------------
(* The inductive invariant of RungsShared and OneSampler (LoadProofs)      *)

PlanAssumption == SplitAssumption /\ Rates \cup Users \cup Durations \cup {DriverLimit} \subseteq Nat

\* A worker schedules what it is to schedule, one whole rung after the other.
ScheduledOK ==
    \A w \in Indexes :
        /\ \A x \in scheduled[w] : \E r \in PlannedRungs : \E k \in Requested(w, r) : x = <<r, k>>
        /\ \A x \in scheduled[w] : \A k \in Requested(w, x[1]) : <<x[1], k>> \in scheduled[w]
        /\ status[w] = "ended" => \A r \in PlannedRungs : Requested(w, r) # {} => \E x \in scheduled[w] : x[1] = r

PlanInv ==
    /\ config \in Requests
    /\ phase \in {"request", "refused", "split"}
    /\ DOMAIN status = Indexes /\ DOMAIN scheduled = Indexes
    /\ status = [w \in Indexes |-> status[w]] /\ scheduled = [w \in Indexes |-> scheduled[w]]
    /\ ScheduledOK

----------------------------------------------------------------------------

\* A worker of an accepted request can read its share.
WorkersLoad == \A w \in Indexes : status[w] # "failed"

=============================================================================
