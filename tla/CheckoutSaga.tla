---------------------------- MODULE CheckoutSaga ----------------------------
(***************************************************************************)
(* The order saga of src/checkoutservice for ONE order, run by any number  *)
(* of workers (processing lanes and deadline scanners of all replicas)     *)
(* against one Redis workspace, JetStream consumers that redeliver, and    *)
(* the stateless payment and shipping participants.                        *)
(*                                                                         *)
(* Redis keys of the order (redis_store.go):                               *)
(*   saga                  :saga and :version, always written together     *)
(*   processed, journal    the :results hash, input id -> stored results   *)
(*   dueIndex              the order's membership in the :deadlines zset   *)
(*   deadline              the :deadline record, named by the saga version *)
(*                         that armed it (0 = key absent)                  *)
(*   lease                 the fencing lease of each deadline work item    *)
(* JetStream:                                                              *)
(*   stream, queued, dropped      inputs stored / deliverable / given up   *)
(*   published                    results stored in the streams            *)
(*                                                                         *)
(* Every Redis command and script is one step, and nothing else is atomic. *)
(* Wall-clock time is not modelled: a deadline may be due and a lease may  *)
(* expire at any moment, which a paused worker makes possible in the code. *)
(***************************************************************************)
EXTENDS SagaTransitions

CONSTANTS
    Lanes,        \* processing lanes of all consumers and replicas
    Scanners,     \* deadline scanners, one per replica
    NoWorker,     \* holder of a lease that is free or expired
    Answers,      \* the answers the participants give in this deployment
    RetryLimit,   \* redisTransactionRetries (16 in the code)
    MaxFaults     \* bound on crashes, lost replies and spurious redeliveries

Workers == Lanes \cup Scanners

ASSUME WorkersAssumption == NoWorker \notin Workers /\ Lanes \cap Scanners = {}
ASSUME AnswersAssumption == Answers \subseteq EventNames
ASSUME BoundsAssumption ==
    /\ RetryLimit \in Nat \ {0}
    /\ MaxFaults \in Nat

VARIABLES saga, processed, journal, dueIndex, deadline, lease,
          stream, queued, dropped, published, worker,
          projected,   \* the order's cart, catalog and rates are projected
          faults

vars == <<saga, processed, journal, dueIndex, deadline, lease, stream, queued,
          dropped, published, worker, projected, faults>>

----------------------------------------------------------------------------
(* Workers                                                                 *)

\* idle -> load -> commit -> publish for a delivered message; a deadline scan
\* takes idle -> due -> (orphan | claim -> load -> commit -> publish -> finish).
Pcs == {"idle", "due", "orphan", "claim", "load", "commit", "publish", "finish"}

Idle == [pc |-> "idle", input |-> Msg("submit"), loaded |-> NoSaga,
         todo |-> {}, attempts |-> 0]

Loading(i, attempts) ==
    [Idle EXCEPT !.pc = "load", !.input = i, !.attempts = attempts]
Publishing(i, results) ==
    [Idle EXCEPT !.pc = "publish", !.input = i, !.todo = results]

WorkerStates == [pc : Pcs, input : Inputs, loaded : Sagas,
                 todo : SUBSET Results, attempts : 0..RetryLimit]

Leases == [holder : Workers \cup {NoWorker}, done : BOOLEAN]

TypeOK ==
    /\ saga \in Sagas
    /\ processed \in SUBSET Inputs
    /\ journal \in [Inputs -> SUBSET Results]
    /\ dueIndex \in BOOLEAN
    /\ deadline \in Versions
    /\ lease \in [Versions -> Leases]
    /\ stream \in SUBSET MessageNames
    /\ queued \in SUBSET stream
    /\ dropped \in SUBSET stream
    /\ published \in SUBSET Results
    /\ worker \in [Workers -> WorkerStates]
    /\ projected \in BOOLEAN
    /\ faults \in 0..MaxFaults

\* The frontend's order command is stored in the commands stream.
Init ==
    /\ saga = NoSaga
    /\ processed = {}
    /\ journal = [i \in Inputs |-> {}]
    /\ dueIndex = FALSE
    /\ deadline = 0
    /\ lease = [v \in Versions |-> [holder |-> NoWorker, done |-> FALSE]]
    /\ stream = {"submit"}
    /\ queued = {"submit"}
    /\ dropped = {}
    /\ published = {}
    /\ worker = [w \in Workers |-> Idle]
    /\ projected = FALSE
    /\ faults = 0

redis == <<saga, processed, journal, dueIndex, deadline>>
broker == <<stream, queued, dropped>>

IsDeadline(i) == i.kind = "deadline"
Goto(w, pc) == worker' = [worker EXCEPT ![w].pc = pc]

\* A message that is not acknowledged is delivered again, unless this was its
\* last delivery (MaxDeliver); which delivery is the last one is left open.
Requeue(i) ==
    IF IsDeadline(i) THEN UNCHANGED <<queued, dropped>>
    ELSE \/ queued' = queued \cup {i.kind} /\ UNCHANGED dropped
         \/ dropped' = dropped \cup {i.kind} /\ UNCHANGED queued

----------------------------------------------------------------------------
(* Message consumption                                                     *)

\* FetchBatch hands the message to a lane.
Deliver(w, m) ==
    /\ w \in Lanes
    /\ worker[w].pc = "idle"
    /\ m \in queued
    /\ worker' = [worker EXCEPT ![w] = Loading(Msg(m), 0)]
    /\ queued' = queued \ {m}
    /\ UNCHANGED <<redis, lease, stream, dropped, published, projected, faults>>

\* The broker delivers a message again although a worker has it or had it:
\* AckWait ran out, the acknowledgement was lost, or a producer republished it
\* after the duplicate window.
Redeliver(m) ==
    /\ faults < MaxFaults
    /\ m \in stream \ (queued \cup dropped)
    /\ queued' = queued \cup {m}
    /\ faults' = faults + 1
    /\ UNCHANGED <<redis, lease, stream, dropped, published, worker, projected>>

\* A projection event made the cart, catalog and rates the command names visible.
Project ==
    /\ ~projected
    /\ projected' = TRUE
    /\ UNCHANGED <<redis, lease, broker, published, worker, faults>>

----------------------------------------------------------------------------
(* ApplyOrder: read the workspace, compute, commit with the Lua script     *)

\* loadOrderWorkspace: one MGET of :version, :saga and :accepted.
Load(w) ==
    /\ worker[w].pc = "load"
    /\ \/ worker[w].input.kind # "submit"
       \/ saga.stage # "NONE"
       \/ projected
    /\ worker' = [worker EXCEPT ![w].pc = "commit", ![w].loaded = saga]
    /\ UNCHANGED <<redis, lease, broker, published, projected, faults>>

\* errCheckoutProjectionLag: the command is negatively acknowledged.
NakLag(w) ==
    /\ worker[w].pc = "load"
    /\ worker[w].input.kind = "submit"
    /\ saga.stage = "NONE"
    /\ ~projected
    /\ worker' = [worker EXCEPT ![w] = Idle]
    /\ Requeue(worker[w].input)
    /\ UNCHANGED <<redis, lease, stream, published, projected, faults>>

\* Mutant of CommitDuplicate: a duplicate is acknowledged without publishing.
CommitDuplicateSilent(w) ==
    LET i == worker[w].input IN
    /\ worker[w].pc = "commit"
    /\ i \in processed
    /\ worker' = [worker EXCEPT ![w] = Publishing(i, {})]
    /\ UNCHANGED <<redis, lease, broker, published, projected, faults>>

\* commitOrderScript, first branch: the input is in the results hash, so the
\* stored results are returned and nothing is written.
CommitDuplicate(w) ==
    LET i == worker[w].input IN
    /\ worker[w].pc = "commit"
    /\ i \in processed
    /\ worker' = [worker EXCEPT ![w] = Publishing(i, journal[i])]
    /\ UNCHANGED <<redis, lease, broker, published, projected, faults>>

\* Second branch: another commit moved the version; load again.
CommitConflict(w) ==
    LET a == worker[w].attempts + 1 IN
    /\ worker[w].pc = "commit"
    /\ worker[w].input \notin processed
    /\ saga.version # worker[w].loaded.version
    /\ IF a < RetryLimit
       THEN /\ worker' = [worker EXCEPT ![w] = Loading(worker[w].input, a)]
            /\ UNCHANGED <<queued, dropped>>
       ELSE /\ worker' = [worker EXCEPT ![w] = Idle]
            /\ Requeue(worker[w].input)
    /\ UNCHANGED <<redis, lease, stream, published, projected, faults>>

\* Mutant of WriteOutcome: a stage change does not arm the deadline again.
WriteOutcomeKeepDeadline(i, o) ==
    /\ saga' = o.saga
    /\ processed' = processed \cup {i}
    /\ journal' = [journal EXCEPT ![i] = o.out]
    /\ IF IsDeadline(i) \/ deadline # 0 THEN UNCHANGED <<dueIndex, deadline>>
       ELSE /\ dueIndex' = HasDeadline(o.saga.stage)
            /\ deadline' = IF HasDeadline(o.saga.stage) THEN o.saga.version ELSE 0

\* What the script writes for outcome o of input i: the whole saga as loaded and
\* updated, the results under the input, and the deadline index: set while the
\* saga has a deadline, removed otherwise, kept for a deadline input.
WriteOutcome(i, o) ==
    /\ saga' = o.saga
    /\ processed' = processed \cup {i}
    /\ journal' = [journal EXCEPT ![i] = o.out]
    /\ IF IsDeadline(i) THEN UNCHANGED <<dueIndex, deadline>>
       ELSE /\ dueIndex' = HasDeadline(o.saga.stage)
            /\ deadline' = IF HasDeadline(o.saga.stage) THEN o.saga.version ELSE 0

\* Mutants of CommitGuard: the script does not compare the version, or does not
\* look the input up in the results hash.
CommitGuardNoVersion(w) ==
    /\ worker[w].pc = "commit"
    /\ worker[w].input \notin processed

CommitGuardNoInbox(w) ==
    /\ worker[w].pc = "commit"
    /\ saga.version = worker[w].loaded.version

CommitGuard(w) ==
    /\ worker[w].pc = "commit"
    /\ worker[w].input \notin processed
    /\ saga.version = worker[w].loaded.version

\* Third branch: the transition is written.
Commit(w) ==
    /\ CommitGuard(w)
    /\ \E o \in Update(worker[w].loaded, worker[w].input) :
         /\ WriteOutcome(worker[w].input, o)
         /\ worker' = [worker EXCEPT ![w] = Publishing(worker[w].input, o.out)]
    /\ UNCHANGED <<lease, broker, published, projected, faults>>

\* The script ran but its reply was lost: ApplyOrder retries from the load.
CommitReplyLost(w) ==
    /\ CommitGuard(w)
    /\ faults < MaxFaults
    /\ worker[w].attempts + 1 < RetryLimit
    /\ \E o \in Update(worker[w].loaded, worker[w].input) :
         WriteOutcome(worker[w].input, o)
    /\ worker' = [worker EXCEPT ![w] = Loading(worker[w].input, worker[w].attempts + 1)]
    /\ faults' = faults + 1
    /\ UNCHANGED <<lease, broker, published, projected>>

----------------------------------------------------------------------------
(* finishTransition: publish every stored result, then finish the input    *)

\* One JetStream acknowledgement of publishResults; the message id is derived
\* from the input and the slot, so a repeated publication is stored once.
Publish(w, r) ==
    /\ worker[w].pc = "publish"
    /\ r \in worker[w].todo
    /\ published' = published \cup {r}
    /\ worker' = [worker EXCEPT ![w].todo = worker[w].todo \ {r}]
    /\ UNCHANGED <<redis, lease, broker, projected, faults>>

\* processMessage acknowledges only after every publication was acknowledged.
Ack(w) ==
    /\ worker[w].pc = "publish"
    /\ worker[w].todo = {}
    /\ ~IsDeadline(worker[w].input)
    /\ worker' = [worker EXCEPT ![w] = Idle]
    /\ UNCHANGED <<redis, lease, broker, published, projected, faults>>

\* The handler returns an error (NakWithDelay) or its process stops: the work
\* in memory is gone and the broker delivers a message again.
Abandon(w) ==
    /\ faults < MaxFaults
    /\ worker[w].pc # "idle"
    /\ ~(worker[w].pc = "publish" /\ worker[w].todo = {} /\ ~IsDeadline(worker[w].input))
    /\ worker' = [worker EXCEPT ![w] = Idle]
    /\ Requeue(worker[w].input)
    /\ faults' = faults + 1
    /\ UNCHANGED <<redis, lease, stream, published, projected>>

----------------------------------------------------------------------------
(* claimDeadline                                                           *)

\* DueDeadlines lists the order.
ScanDue(w) ==
    /\ w \in Scanners
    /\ worker[w].pc = "idle"
    /\ dueIndex
    /\ worker' = [worker EXCEPT ![w] = [Idle EXCEPT !.pc = "due", !.input = Deadline(0)]]
    /\ UNCHANGED <<redis, lease, broker, published, projected, faults>>

\* LoadDeadline reads the record, which may be gone or newer by now.
LoadDeadline(w) ==
    /\ worker[w].pc = "due"
    /\ worker' = [worker EXCEPT ![w].pc = IF deadline = 0 THEN "orphan" ELSE "claim",
                                ![w].input = Deadline(deadline)]
    /\ UNCHANGED <<redis, lease, broker, published, projected, faults>>

\* removeOrphanDeadlineScript
RemoveOrphanDeadline(w) ==
    /\ worker[w].pc = "orphan"
    /\ dueIndex' = (dueIndex /\ deadline # 0)
    /\ worker' = [worker EXCEPT ![w] = Idle]
    /\ UNCHANGED <<saga, processed, journal, deadline, lease, broker, published,
                   projected, faults>>

\* leaseStore.Acquire: granted when free or expired, refused while held, and
\* a completed work item only has its index entry left to remove.
Acquire(w) ==
    LET v == worker[w].input.version IN
    /\ worker[w].pc = "claim"
    /\ \/ /\ lease[v] = [holder |-> NoWorker, done |-> FALSE]
          /\ lease' = [lease EXCEPT ![v].holder = w]
          /\ Goto(w, "load")
       \/ /\ lease[v].holder # NoWorker
          /\ worker' = [worker EXCEPT ![w] = Idle]
          /\ UNCHANGED lease
       \/ /\ lease[v].done
          /\ Goto(w, "finish")
          /\ UNCHANGED lease
    /\ UNCHANGED <<redis, broker, published, projected, faults>>

\* lease_until passes
LeaseExpire(v) ==
    /\ lease[v].holder # NoWorker
    /\ lease' = [lease EXCEPT ![v].holder = NoWorker]
    /\ UNCHANGED <<redis, broker, published, worker, projected, faults>>

\* leaseStore.Complete after publication: a lost lease ends this claim and
\* leaves the deadline to the next scan.
CompleteLease(w) ==
    LET v == worker[w].input.version IN
    /\ worker[w].pc = "publish"
    /\ worker[w].todo = {}
    /\ IsDeadline(worker[w].input)
    /\ \/ /\ lease[v].holder = w
          /\ lease' = [lease EXCEPT ![v] = [holder |-> NoWorker, done |-> TRUE]]
          /\ Goto(w, "finish")
       \/ /\ lease[v].done
          /\ Goto(w, "finish")
          /\ UNCHANGED lease
       \/ /\ lease[v].holder # w
          /\ ~lease[v].done
          /\ worker' = [worker EXCEPT ![w] = Idle]
          /\ UNCHANGED lease
    /\ UNCHANGED <<redis, broker, published, projected, faults>>

\* completeDeadlineScript removes the entry only if the record is the one read.
CompleteDeadline(w) ==
    LET same == deadline = worker[w].input.version IN
    /\ worker[w].pc = "finish"
    /\ dueIndex' = IF same THEN FALSE ELSE dueIndex
    /\ deadline' = IF same THEN 0 ELSE deadline
    /\ worker' = [worker EXCEPT ![w] = Idle]
    /\ UNCHANGED <<saga, processed, journal, lease, broker, published, projected, faults>>

----------------------------------------------------------------------------
(* The participants: stateless, one derived answer per command             *)

Answer(c) ==
    /\ c \in published
    /\ Responses[c] \cap stream = {}
    /\ \E m \in Responses[c] \cap Answers :
         /\ stream' = stream \cup {m}
         /\ queued' = queued \cup {m}
    /\ UNCHANGED <<redis, lease, dropped, published, worker, projected, faults>>

\* buildShippingOutcome and its publication (shipping_commands.go)
ShippingAnswer(c) == c \in ShippingCommands /\ Answer(c)

\* processCommand and its publication (paymentservice/nats_worker.js)
PaymentAnswer(c) == c \in PaymentCommands /\ Answer(c)

----------------------------------------------------------------------------

WorkerStep(w) ==
    \/ Load(w) \/ NakLag(w)
    \/ CommitDuplicate(w) \/ CommitConflict(w) \/ Commit(w)
    \/ \E r \in Results : Publish(w, r)
    \/ Ack(w)
    \/ LoadDeadline(w) \/ RemoveOrphanDeadline(w) \/ Acquire(w)
    \/ CompleteLease(w) \/ CompleteDeadline(w)

Next ==
    \/ \E w \in Workers :
         \/ WorkerStep(w) \/ ScanDue(w) \/ CommitReplyLost(w) \/ Abandon(w)
         \/ \E m \in MessageNames : Deliver(w, m)
    \/ \E m \in MessageNames : Redeliver(m)
    \/ \E c \in Commands : ShippingAnswer(c) \/ PaymentAnswer(c)
    \/ \E v \in Versions : LeaseExpire(v)
    \/ Project

Spec == Init /\ [][Next]_vars

\* Every goroutine keeps running its current step, the consumers keep fetching,
\* the scan ticker keeps firing, projections catch up and time passes.  Nothing
\* is assumed of the participants: they may never answer.
Fairness ==
    /\ \A w \in Workers : WF_vars(WorkerStep(w))
    /\ \A s \in Scanners : WF_vars(ScanDue(s))
    /\ WF_vars(\E w \in Lanes, m \in MessageNames : Deliver(w, m))
    /\ WF_vars(\E v \in Versions : LeaseExpire(v))
    /\ WF_vars(Project)

FairSpec == Spec /\ Fairness

----------------------------------------------------------------------------
(* Properties                                                              *)

\* No two inputs ever emit the same result: the commands that move money or
\* goods and the order's events each have one cause, whatever the deliveries,
\* retries and concurrent commits (saga.go: every queueEnvelope is guarded by
\* the stage; redis_store.go: the version check of commitOrderScript).
ResultsOnce ==
    \A i, j \in processed : i # j => journal[i] \cap journal[j] = {}

Verdict == [ r \in {"order.rejected", "order.completed", "order.cancelled",
                    "order.manual-review"} |->
             CASE r = "order.rejected"  -> "REJECTED"
               [] r = "order.completed" -> "COMPLETED"
               [] r = "order.cancelled" -> "CANCELLED"
               [] OTHER                 -> "MANUAL_REVIEW" ]

\* A verdict that was announced is the stage the order is in, so no order is
\* ever announced with two verdicts (completed and cancelled, say), although
\* lanes and scanners publish long after they committed.
VerdictHolds ==
    \A r \in published \cap DOMAIN Verdict : saga.stage = Verdict[r]

\* When order.cancelled is announced the payment was not captured, an
\* authorization that was granted has been released and a shipment that was
\* created has been cancelled (cancel and finishCompensation).
CancelledMeansUndone ==
    "order.cancelled" \in published =>
        /\ "captured" \notin stream
        /\ "authorized" \in stream => "authorization-released" \in stream
        /\ "shipment-created" \in stream => "shipment-cancelled" \in stream

\* The cart is cleared and order.completed announced only for an order whose
\* payment was captured for a created shipment, and nothing of it was undone.
CompletedMeansPaidAndShipped ==
    published \cap {"order.completed", "cartClear"} # {} =>
        /\ {"authorized", "shipment-created", "captured"} \subseteq stream
        /\ published \cap {"release", "cancelShipment"} = {}

\* An order that waits for a participant is always in the deadline index under
\* a record of its current version, so that some scanner will find it: nothing
\* removes or outdates the entry (the deadline modes of ApplyOrder,
\* completeDeadlineScript and removeOrphanDeadlineScript).
DeadlineDiscoverable ==
    HasDeadline(saga.stage) => dueIndex /\ deadline = saga.version

\* A stage change always raises the version, the version never falls, and a
\* terminal order never changes again: a worker that computed its transition on
\* an old workspace cannot move the order back.
SagaNeverRewinds ==
    [][/\ saga'.version >= saga.version
       /\ saga'.stage # saga.stage => saga'.version > saga.version
       /\ saga.stage \in TerminalStages => saga' = saga]_vars

\* The results stored for an input are never replaced, so a redelivery
\* republishes exactly what the first delivery decided.
JournalStable ==
    [][\A i \in processed : i \in processed' /\ journal'[i] = journal[i]]_vars

\* The results of all journal entries
Decided == UNION {journal[i] : i \in processed}

Lifecycle == INSTANCE OrderLifecycle
                 WITH stage <- saga.stage, decided <- Decided, announced <- published

\* The concurrent, redelivering, crashing implementation is the lifecycle: each
\* stage change is one edge with all its results, taken once, and nothing is
\* published that is not decided.
RefinesLifecycle == Lifecycle!LifecycleSpec

\* Every accepted order reaches a verdict, even if the participants never
\* answer, messages are dropped after MaxDeliver and scanners stop while they
\* hold a lease.
OrderSettles == HasDeadline(saga.stage) ~> saga.stage \in TerminalStages

\* What was committed for a message is published, unless the broker gave the
\* message up.
StoredResultsPublished ==
    <>[](\A m \in MessageNames \ dropped :
            Msg(m) \in processed => journal[Msg(m)] \subseteq published)

\* Nothing the saga began is left open: the order gets its verdict, and what
\* was decided on the way is told to everyone.
SagaProgress == OrderSettles /\ StoredResultsPublished

\* The timeout results of a deadline are published as well: "The due member
\* remains discoverable until its stored results are published and the fencing
\* lease is completed" (redis_store.go).
TimeoutResultsPublished ==
    <>[](\A v \in Versions :
            Deadline(v) \in processed => journal[Deadline(v)] \subseteq published)

\* When both compensations have been applied the order is no longer
\* compensating (saga_test.go: both released and cancelled means CANCELLED).
CompensationsNotLost ==
    {Msg("authorization-released"), Msg("shipment-cancelled")} \subseteq processed
        => saga.stage # "COMPENSATING"

----------------------------------------------------------------------------
(* The inductive invariant (proved in CheckoutSagaProofs)                  *)

\* The version an order can have in each stage
SagaOK(s) ==
    /\ s \in Sagas
    /\ s.stage = "NONE" => s.version = 0
    /\ s.stage = "WAITING_FOR_QUOTE" => s.version = 1
    /\ s.stage = "WAITING_FOR_AUTHORIZATION" => s.version = 2
    /\ s.stage = "WAITING_FOR_SHIPMENT" => s.version = 3
    /\ s.stage = "WAITING_FOR_CAPTURE" => s.version = 4
    /\ s.stage = "COMPENSATING" => s.version \in {4, 5}

\* Stages in order of progress
FromCompensating == TerminalStages \cup {"COMPENSATING"}
FromCapture  == FromCompensating \cup {"WAITING_FOR_CAPTURE"}
FromShipment == FromCapture \cup {"WAITING_FOR_SHIPMENT"}
FromAuthorization == FromShipment \cup {"WAITING_FOR_AUTHORIZATION"}
FromQuote == FromAuthorization \cup {"WAITING_FOR_QUOTE"}

\* The stages an order can be in once a result has been decided.  No transition
\* leaves such a set, and the transition that decides the result enters it.
Reached(r) ==
    CASE r \in {"order.submitted", "calculateQuote"} -> FromQuote
      [] r = "authorize" -> FromAuthorization
      [] r = "createShipment" -> FromShipment
      [] r = "capture" -> FromCapture
      [] r \in {"release", "cancelShipment", "order.stage-changed"} -> FromCompensating
      [] r = "order.rejected" -> {"REJECTED"}
      [] r \in {"order.completed", "cartClear"} -> {"COMPLETED"}
      [] r = "order.cancelled" -> {"CANCELLED"}
      [] OTHER -> {"MANUAL_REVIEW"}

JournalOK == \A i \in processed : \A r \in journal[i] : saga.stage \in Reached(r)

PublishedOK == \A r \in published : \E i \in processed : r \in journal[i]

\* Two workspaces of one version: only compensations are recorded without a new
\* version.
SameSaga(s, t) == s.stage = t.stage /\ (s.stage # "COMPENSATING" => s = t)

\* What a worker has in memory: a workspace no newer than the stored one, and
\* the same one if of the same version; only stored results to publish;
\* a deadline that is not ahead of the order.
WorkerOK(w) ==
    LET x == worker[w] IN
    /\ x.pc = "commit" => /\ SagaOK(x.loaded)
                          /\ x.loaded.version <= saga.version
                          /\ x.loaded.version = saga.version => SameSaga(x.loaded, saga)
    /\ x.pc = "publish" => x.input \in processed /\ x.todo \subseteq journal[x.input]
    /\ x.pc = "finish" => x.input \in processed
    /\ x.pc \in {"due", "orphan", "claim", "finish"} => IsDeadline(x.input)
    /\ IsDeadline(x.input) => x.input.version <= saga.version
    /\ x.pc # "idle" /\ ~IsDeadline(x.input) => x.input.kind \in stream

\* A deadline that was processed is not the one an order waits under.
DeadlinesOK ==
    /\ deadline <= saga.version
    /\ \A v \in Versions :
         /\ lease[v].done => Deadline(v) \in processed
         /\ Deadline(v) \in processed =>
              v <= saga.version /\ (HasDeadline(saga.stage) => v # saga.version)

SagaInv ==
    /\ TypeOK
    /\ SagaOK(saga)
    /\ JournalOK
    /\ PublishedOK
    /\ \A w \in Workers : WorkerOK(w)
    /\ DeadlinesOK
    /\ DeadlineDiscoverable
    /\ ResultsOnce

\* A participant answers a command that was published, and with one answer.
AnswersOK ==
    \A c \in Commands :
        /\ Responses[c] \cap stream # {} => c \in published
        /\ \A m, n \in Responses[c] \cap stream : m = n

\* A command that was decided has one of these answers.
Settled(c, answers, decided, S) == c \in decided => answers \cap S # {}

\* The answers in S that brought a workspace to its stage.  They are what the
\* stage alone no longer tells: a cancelled order may have been cancelled
\* anywhere on the way, and each place has its own reason why nothing is left
\* to undo.
Evidence(s, decided, S) ==
    /\ s.stage \in {"WAITING_FOR_SHIPMENT", "WAITING_FOR_CAPTURE", "COMPLETED"} =>
         "authorized" \in S
    /\ s.stage \in {"WAITING_FOR_CAPTURE", "COMPLETED"} => "shipment-created" \in S
    /\ s.stage = "COMPLETED" =>
         "captured" \in S /\ decided \cap {"release", "cancelShipment"} = {}
    /\ s.stage = "COMPENSATING" =>
         /\ s.needRelease
         /\ Settled("capture", {"capture-failed"}, decided, S)
         /\ s.needCancel \/ Settled("createShipment", {"shipment-creation-failed"}, decided, S)
    /\ s.stage = "CANCELLED" =>
         /\ Settled("capture", {"capture-failed"}, decided, S)
         /\ Settled("authorize", {"authorization-declined", "authorization-released"},
                    decided, S)
         /\ Settled("createShipment", {"shipment-creation-failed", "shipment-cancelled"},
                    decided, S)
    /\ s.released => "authorization-released" \in S
    /\ s.shipCancelled => "shipment-cancelled" \in S

\* A workspace that may still be written rests on the same evidence.
WorkerEvidenceOK(w) ==
    /\ worker[w].pc = "commit"
    /\ worker[w].loaded.version = saga.version
    => Evidence(worker[w].loaded, Decided, stream)

EvidenceInv ==
    /\ SagaInv
    /\ AnswersOK
    /\ Evidence(saga, Decided, stream)
    /\ \A w \in Workers : WorkerEvidenceOK(w)

============================================================================
