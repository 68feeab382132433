--------------------------- MODULE ResourceUsage ---------------------------
(***************************************************************************)
(* Resource measurement of a benchmark run: worker zero's ResourceSampler  *)
(* (runtime.py) reads the metrics gateway's cache at a fixed rate, and the *)
(* report (reporting.py) adds up the pods' counters over the steady phase. *)
(* Pods restart, nodes do not answer, requests fail or are slow, and the   *)
(* event observer may lose its place.  What a pod uses is read in two      *)
(* ways: by the kubelet (CPU, network), with every answer, and by cAdvisor *)
(* (throttling, disk), which the gateway asks every half minute and keeps. *)
(***************************************************************************)
EXTENDS Integers, Sequences, FiniteSets, FiniteSetsExt, Functions

CONSTANTS
    Pods,              \* pods of the target
    Interval,          \* resource_sample_interval_seconds
    WarmUp, End,       \* the steady phase is WarmUp..(End - 1)
    MaxTime,           \* bound on the clock
    MaxWork,           \* bound on what a pod uses
    MaxWorkflowEvents, \* bound on workflow events
    MaxFaults          \* bound on restarts, failed calls and lost places

UsageAssumption ==
    /\ {Interval, WarmUp, End, MaxTime, MaxWork, MaxWorkflowEvents, MaxFaults} \subseteq Nat
    /\ Interval > 0 /\ WarmUp < End /\ End <= MaxTime

VARIABLES
    now,
    counter,           \* each pod's counter
    used,              \* what each pod has used since the beginning
    cadvisor,          \* _cadvisor_cache: the last reading of the pods cAdvisor has shown
    cache,             \* the gateway's pods: the readings of those that answered
    samplerPc,         \* the sampler: "new", "sampling", "waiting", "ended"
    begun,             \* when the sample under way was begun
    next,              \* next_sample
    skipped,           \* skipped_ticks
    stop,              \* _stop
    records,           \* resources.jsonl: [at, pods]
    workflowEvents,    \* workflow events since the beginning
    workflowObserver,  \* the observer's [id, count]
    marks,             \* workflow-events.json: what was read at start and at stop
    faults

usageVars == <<now, counter, used, cadvisor, cache, samplerPc, begun, next, skipped, stop, records,
               workflowEvents, workflowObserver, marks, faults>>
target == <<counter, used, cadvisor, cache>>
workflow == <<workflowEvents, workflowObserver>>
sampler == <<samplerPc, begun, next, skipped, stop, records, marks>>

None == [id |-> 0, count |-> 0, events |-> 0]
Fault == faults < MaxFaults /\ faults' = faults + 1
Empty == [p \in {} |-> 0]

\* A counter in an answer, with what was used when it was read; or none.
Reading == [shown : BOOLEAN, counter : 0..MaxWork, used : 0..MaxWork]
Absent == [shown |-> FALSE, counter |-> 0, used |-> 0]
Meters == {"kubelet", "cadvisor"}

\* The pods of one answer of the gateway.
Answers == UNION {[known -> [Meters -> Reading]] : known \in SUBSET Pods}
MarkRec == [id : Nat, count : Nat, events : Nat]

UsageTypeOK ==
    /\ now \in 0..MaxTime
    /\ counter \in [Pods -> 0..MaxWork] /\ used \in [Pods -> 0..MaxWork]
    /\ \A p \in Pods : counter[p] <= used[p]
    /\ cadvisor \in [Pods -> Reading]
    /\ cache \in Answers
    /\ samplerPc \in {"new", "sampling", "waiting", "ended"}
    /\ begun \in 0..now /\ skipped \in Nat /\ stop \in BOOLEAN
    /\ next \in 0..(MaxTime + Interval) /\ (samplerPc = "waiting" => next > begun)
    /\ records \in Seq([at : 0..MaxTime, pods : Answers])
    /\ \A i \in 1..Len(records) : records[i].at <= now
    /\ workflowEvents \in 0..MaxWorkflowEvents
    /\ workflowObserver \in [id : Nat \ {0}, count : 0..workflowEvents]
    /\ marks \in [started : MarkRec, ended : MarkRec]
    /\ faults \in 0..MaxFaults

UsageInit ==
    /\ now = 0
    /\ counter = [p \in Pods |-> 0] /\ used = [p \in Pods |-> 0]
    /\ cadvisor = [p \in Pods |-> Absent] /\ cache = Empty
    /\ samplerPc = "new" /\ begun = 0 /\ next = 0 /\ skipped = 0 /\ stop = FALSE /\ records = << >>
    /\ workflowEvents = 0 /\ workflowObserver = [id |-> 1, count |-> 0]
    /\ marks = [started |-> None, ended |-> None]
    /\ faults = 0

----------------------------------------------------------------------------
(* The target                                                              *)

Read(p) == [shown |-> TRUE, counter |-> counter[p], used |-> used[p]]

Work(p) ==
    /\ used[p] < MaxWork
    /\ used' = [used EXCEPT ![p] = @ + 1] /\ counter' = [counter EXCEPT ![p] = @ + 1]
    /\ UNCHANGED <<now, cadvisor, cache, sampler, workflow, faults>>

Restart(p) ==
    /\ Fault /\ counter' = [counter EXCEPT ![p] = 0]
    /\ UNCHANGED <<now, used, cadvisor, cache, sampler, workflow>>

\* The gateway's refresh, with the nodes that answer, the pods whose summary has the
\* counter, and the pods cAdvisor shows, if it is asked this time.
Refresh ==
    /\ \E known \in SUBSET Pods : \E summary, asked \in SUBSET known :
          /\ IF summary = Pods THEN UNCHANGED faults ELSE Fault
          /\ cadvisor' = [p \in Pods |-> IF p \in asked THEN Read(p) ELSE cadvisor[p]]
          /\ cache' = [p \in known |-> [s \in Meters |->
                          CASE s = "cadvisor" -> cadvisor'[p]
                            [] p \in summary -> Read(p)
                            [] OTHER -> Absent]]
    /\ UNCHANGED <<now, counter, used, sampler, workflow>>

WorkflowEvent ==
    /\ workflowEvents < MaxWorkflowEvents /\ workflowEvents' = workflowEvents + 1
    /\ workflowObserver' = [workflowObserver EXCEPT !.count = @ + 1]
    /\ UNCHANGED <<now, target, sampler, faults>>

\* The observer restarts or loses its connection: events pass unseen.
ObserverLoses ==
    /\ Fault
    /\ \E missed \in 0..(MaxWorkflowEvents - workflowEvents) : workflowEvents' = workflowEvents + missed
    /\ workflowObserver' = [id |-> workflowObserver.id + 1, count |-> 0]
    /\ UNCHANGED <<now, target, sampler>>

Tick ==
    /\ now < MaxTime /\ now' = now + 1
    /\ UNCHANGED <<target, sampler, workflow, faults>>

----------------------------------------------------------------------------
(* The sampler                                                             *)

\* _sample_workflow_events, which may fail.
Mark(field) ==
    \/ /\ marks' = [marks EXCEPT ![field] =
                       [id |-> workflowObserver.id, count |-> workflowObserver.count, events |-> workflowEvents]]
       /\ UNCHANGED faults
    \/ Fault /\ UNCHANGED marks

Start ==
    /\ samplerPc = "new" /\ Mark("started")
    /\ samplerPc' = "sampling" /\ begun' = now /\ next' = now
    /\ UNCHANGED <<now, target, workflow, skipped, stop, records>>

\* Mutant of Skipped: a deadline that has just passed is not skipped.
SkippedShort(deadline) == IF deadline > now THEN 0 ELSE (now - deadline) \div Interval

\* advance_sample_deadline
Skipped(deadline) == IF deadline > now THEN 0 ELSE (now - deadline) \div Interval + 1

\* The answer arrives and is written; a failed request leaves a record
\* without pods.
SampleEnds ==
    LET deadline == next + Interval
    IN  /\ samplerPc = "sampling" /\ samplerPc' = "waiting"
        /\ \/ records' = Append(records, [at |-> begun, pods |-> cache]) /\ UNCHANGED faults
           \/ Fault /\ records' = Append(records, [at |-> begun, pods |-> Empty])
        /\ next' = deadline + Skipped(deadline) * Interval
        /\ skipped' = skipped + Skipped(deadline)
        /\ UNCHANGED <<now, target, workflow, begun, stop, marks>>

\* _stop.wait() times out: the next sample, on time or late.
SampleBegins ==
    /\ samplerPc = "waiting" /\ ~stop /\ now >= next
    /\ samplerPc' = "sampling" /\ begun' = now
    /\ UNCHANGED <<now, target, workflow, next, skipped, stop, records, marks, faults>>

Stop ==
    /\ samplerPc # "new" /\ ~stop /\ now >= End
    /\ stop' = TRUE
    /\ UNCHANGED <<now, target, workflow, samplerPc, begun, next, skipped, records, marks, faults>>

\* Mutant of Joined: a sample under way is waited for.
JoinedOnly == samplerPc = "waiting"

\* The greenlet has ended, or is killed five seconds later.
Joined == samplerPc \in {"waiting", "sampling"}

\* The rest of stop(): the file is closed and workflow-events.json written.
Stopped ==
    /\ stop /\ Joined /\ samplerPc' = "ended"
    /\ Mark("ended")
    /\ UNCHANGED <<now, target, workflow, begun, next, skipped, stop, records>>

----------------------------------------------------------------------------

UsageNext ==
    \/ \E p \in Pods : Work(p) \/ Restart(p)
    \/ Refresh \/ WorkflowEvent \/ ObserverLoses \/ Tick
    \/ Start \/ SampleEnds \/ SampleBegins \/ Stop \/ Stopped

\* Time passes and the sampler is scheduled; requests may hang.
UsageFairness ==
    /\ WF_usageVars(Tick) /\ WF_usageVars(Start) /\ WF_usageVars(Stop) /\ WF_usageVars(Stopped)

UsageSpec == UsageInit /\ [][UsageNext]_usageVars /\ UsageFairness

----------------------------------------------------------------------------
(* The report                                                              *)

\* Records of the steady phase (phase_now when the sample is begun).
IsSteady(r) == WarmUp <= r.at /\ r.at < End
Steady == SelectSeq(records, IsSteady)

\* Mutant of Paired: a pod without a previous sample counts from zero.
PairedAny(p, i) == p \in DOMAIN Steady[i + 1].pods

\* resource_summary: a pod of two successive records, which lie apart in time.
Paired(p, i) ==
    /\ Steady[i].at < Steady[i + 1].at
    /\ p \in DOMAIN Steady[i].pods \cap DOMAIN Steady[i + 1].pods

Delta(before, after) == Max({0, after - before})

\* The records that show a pod's counter; one that is missing is taken for zero.
Holding(p, s) == {i \in 1..Len(Steady) : p \in DOMAIN Steady[i].pods /\ Steady[i].pods[p][s].shown}
CounterAt(p, s, i) == IF i \in Holding(p, s) THEN Steady[i].pods[p][s].counter ELSE 0
DeltaAt(p, s, i) == Delta(CounterAt(p, s, i), CounterAt(p, s, i + 1))
Pairs == 1..(Len(Steady) - 1)
Reported(p, s) == MapThenSumSet(LAMBDA i : IF Paired(p, i) THEN DeltaAt(p, s, i) ELSE 0, Pairs)

\* Mutant of HasLatency: the operations count, whether or not both samples show them.
HasLatencyAny(p, i) == TRUE

\* has_disk_latency, and the operations the average latency is made of.
HasLatency(p, i) == {i, i + 1} \subseteq Holding(p, "cadvisor")
LatencyOperations(p) ==
    MapThenSumSet(LAMBDA i : IF Paired(p, i) /\ HasLatency(p, i) THEN DeltaAt(p, "cadvisor", i) ELSE 0, Pairs)

\* Mutant of WorkflowAvailable: only the presence of both samples is checked.
WorkflowAvailableAny == marks.started # None /\ marks.ended # None

\* workflow_event_summary
WorkflowAvailable ==
    /\ marks.started # None /\ marks.ended # None
    /\ marks.started.id = marks.ended.id
    /\ marks.ended.count >= marks.started.count

----------------------------------------------------------------------------

UsedBetween(p, s) ==
    IF Holding(p, s) = {} THEN 0
    ELSE Steady[Max(Holding(p, s))].pods[p][s].used - Steady[Min(Holding(p, s))].pods[p][s].used

\* What a counter stood at in the samples that show it after one without it.
Assumed(p, s) ==
    MapThenSumSet(LAMBDA i : IF p \in DOMAIN Steady[i].pods /\ i \notin Holding(p, s)
                             THEN CounterAt(p, s, i + 1) ELSE 0, Pairs)

\* The report never says that a pod has used more than it did between the first and
\* the last steady sample that showed its counter, whatever restarts, failed requests
\* and silent nodes lie between, except for what a counter stood at when it appeared
\* in a pod that was seen without it; the operations of the disk latency do without
\* that exception. It is exactly what was used if every sample showed the counter and
\* nothing failed.
NothingInvented ==
    \A p \in Pods : \A s \in Meters :
        /\ Reported(p, s) <= UsedBetween(p, s) + Assumed(p, s)
        /\ s = "cadvisor" => LatencyOperations(p) <= UsedBetween(p, s)
        /\ faults = 0 /\ Holding(p, s) = 1..Len(Steady) => Reported(p, s) = UsedBetween(p, s)

\* Every tick of the schedule is sampled once or counted as skipped, however
\* slow or late samples are: no two samples belong to the same tick.
TicksAccounted ==
    /\ \A i, j \in 1..Len(records) :
          i < j => (records[i].at - records[1].at) \div Interval < (records[j].at - records[1].at) \div Interval
    /\ samplerPc = "waiting" => Len(records) + skipped = (next - records[1].at) \div Interval

\* Workflow counts that are reported as available are the events between the
\* two readings, none of which passed unseen.
WorkflowCountsReal ==
    WorkflowAvailable =>
        marks.ended.count - marks.started.count = marks.ended.events - marks.started.events

\* The samples of a run are accounted for, and its counts are real.
SamplesAccounted == UsageTypeOK /\ TicksAccounted /\ WorkflowCountsReal

----------------------------------------------------------------------------
(* The inductive invariant of SamplesAccounted (proved in LoadProofs)      *)

\* The schedule begins with the first sample, and is always a whole number of
\* intervals ahead of it; what was sampled lies before the next tick.
Origin == IF records = << >> THEN next ELSE records[1].at
ScheduleOK ==
    /\ samplerPc = "new" => records = << >> /\ skipped = 0
    /\ samplerPc = "sampling" => begun >= next /\ (records = << >> => begun = next)
    /\ samplerPc = "waiting" => records # << >>
    /\ records = << >> => skipped = 0
    /\ samplerPc \in {"sampling", "waiting"} =>
          /\ next = Origin + (Len(records) + skipped) * Interval
          /\ \A i \in 1..Len(records) : records[i].at < next
    /\ \A i \in 1..Len(records) : records[1].at <= records[i].at

\* A reading with the observer's present identity has seen all events since.
MarksOK ==
    /\ marks.started.id <= workflowObserver.id
    /\ marks.started.id = workflowObserver.id =>
          workflowObserver.count - marks.started.count = workflowEvents - marks.started.events
    /\ samplerPc # "ended" => marks.ended = None

UsageInv == UsageTypeOK /\ ScheduleOK /\ TicksAccounted /\ MarksOK /\ WorkflowCountsReal

----------------------------------------------------------------------------

\* The sampler ends when it is stopped, also while a request hangs.
SamplerEnds == [](stop => <>(samplerPc = "ended"))

=============================================================================
