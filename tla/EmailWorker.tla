----------------------------- MODULE EmailWorker -----------------------------
(***************************************************************************)
(* emailservice: replicas that consume the completed orders of one durable *)
(* in batches, a few messages at a time, publish the outcome of the order  *)
(* confirmation under an id derived from the input, and acknowledge.       *)
(*                                                                         *)
(* When the nak of one message fails, gather raises: the replica drains    *)
(* its connection while the other workers of the batch (the orphans) go    *)
(* on until the connection is closed.  The ready flag is set exactly while *)
(* a replica fetches or processes and is left out.                         *)
(***************************************************************************)
EXTENDS Naturals, FiniteSets

CONSTANTS
    Orders,        \* completed orders, one order-completed event each
    Invalid,       \* those whose envelope or payload is rejected
    EmailReplicas,
    FailureMode,   \* per replica: EMAIL_FAILURE_MODE = failed
    Concurrency,   \* NATS_CONSUMER_CONCURRENCY
    MaxDeliver,    \* 10 in the code
    MaxWindows,    \* bound on the duplicate windows that pass for one id
    MaxEmailFaults \* bound on failed calls and restarts

EmailAssumption ==
    /\ IsFiniteSet(Orders) /\ Invalid \subseteq Orders
    /\ FailureMode \in [EmailReplicas -> BOOLEAN]
    /\ Concurrency \in Nat \ {0} /\ MaxDeliver \in Nat \ {0}
    /\ MaxWindows \in Nat /\ MaxEmailFaults \in Nat

VARIABLES
    completed,     \* orders whose event is in the stream
    emailQueued, emailGiven, acked,
    deliveries,    \* per order, deliveries so far
    window,        \* per order, duplicate windows of its id that have passed
    events,        \* notification events in the stream, each with its window
    replica,       \* pc and the number of live workers of the batch and of the orphans
    emailHand,     \* per replica: the messages it has fetched
    emailFaults

emailBroker == <<completed, emailQueued, emailGiven, acked, deliveries, window>>
emailVars == <<emailBroker, events, replica, emailHand, emailFaults>>

Outcomes == {"sent", "failed"}
Fresh == [pc |-> "connect", current |-> 0, orphan |-> 0]

EmailTypeOK ==
    /\ completed \in SUBSET Orders
    /\ emailQueued \in SUBSET completed /\ emailGiven \in SUBSET completed /\ acked \in SUBSET completed
    /\ deliveries \in [Orders -> 0..MaxDeliver]
    /\ window \in [Orders -> 0..MaxWindows]
    /\ events \in SUBSET [id : Orders \X (Outcomes \cup {"confirmation"}), outcome : Outcomes,
                          window : 0..MaxWindows]
    /\ replica \in [EmailReplicas -> [pc : {"connect", "fetch", "process", "drain"},
                                 current : 0..Concurrency, orphan : 0..Concurrency]]
    /\ emailHand \in [EmailReplicas -> SUBSET [order : Orders, pool : {"current", "orphan"},
                                     pc : {"wait", "publish", "ack", "nak"}]]
    /\ emailFaults \in 0..MaxEmailFaults

EmailInit ==
    /\ completed = {} /\ emailQueued = {} /\ emailGiven = {} /\ acked = {}
    /\ deliveries = [o \in Orders |-> 0]
    /\ window = [o \in Orders |-> 0]
    /\ events = {}
    /\ replica = [r \in EmailReplicas |-> Fresh]
    /\ emailHand = [r \in EmailReplicas |-> {}]
    /\ emailFaults = 0

Fault == emailFaults < MaxEmailFaults /\ emailFaults' = emailFaults + 1
ReplaceMessage(r, m, new) == emailHand' = [emailHand EXCEPT ![r] = (@ \ {m}) \cup new]

----------------------------------------------------------------------------
(* The stream and its durable consumer                                     *)

Complete(o) ==
    /\ o \notin completed
    /\ completed' = completed \cup {o} /\ emailQueued' = emailQueued \cup {o}
    /\ UNCHANGED <<emailGiven, acked, deliveries, window, events, replica, emailHand, emailFaults>>

\* Delivered again, or given up after the last delivery.
Return(o) ==
    IF deliveries[o] < MaxDeliver
    THEN emailQueued' = emailQueued \cup {o} /\ UNCHANGED emailGiven
    ELSE emailGiven' = emailGiven \cup {o} /\ UNCHANGED emailQueued

\* AckWait runs out, although a worker may still have the message.
AckWait(o) ==
    /\ o \in completed \ (emailQueued \cup emailGiven \cup acked)
    /\ Return(o)
    /\ UNCHANGED <<completed, acked, deliveries, window, events, replica, emailHand, emailFaults>>

\* The stream forgets the id of an outcome it has stored, duplicate_window after
\* it: two minutes, while a message is delivered again for five and more.
WindowPasses(o) ==
    /\ \E e \in events : e.id[1] = o /\ e.window = window[o]
    /\ window[o] < MaxWindows
    /\ window' = [window EXCEPT ![o] = @ + 1]
    /\ UNCHANGED <<completed, emailQueued, emailGiven, acked, deliveries, events, replica,
                   emailHand, emailFaults>>

----------------------------------------------------------------------------
(* _run, _consume_connection, _fetch_messages                              *)

ConsumeConnection(r) ==
    /\ replica[r].pc = "connect"
    /\ replica' = [replica EXCEPT ![r].pc = "fetch"]
    /\ UNCHANGED <<emailBroker, events, emailHand, emailFaults>>

\* _process_messages starts min(concurrency, len(messages)) workers.
PoolSize(batch) == IF Cardinality(batch) < Concurrency THEN Cardinality(batch) ELSE Concurrency

FetchMessages(r, batch) ==
    /\ replica[r].pc = "fetch"
    /\ batch # {} /\ batch \subseteq emailQueued
    /\ emailQueued' = emailQueued \ batch
    /\ deliveries' = [o \in Orders |-> deliveries[o] + IF o \in batch THEN 1 ELSE 0]
    /\ replica' = [replica EXCEPT ![r].pc = "process", ![r].current = PoolSize(batch)]
    /\ emailHand' = [emailHand EXCEPT ![r] = @ \cup [order : batch, pool : {"current"}, pc : {"wait"}]]
    /\ UNCHANGED <<completed, emailGiven, acked, window, events, emailFaults>>

FetchFails(r) ==
    /\ replica[r].pc = "fetch" /\ Fault
    /\ replica' = [replica EXCEPT ![r].pc = "drain"]
    /\ UNCHANGED <<emailBroker, events, emailHand>>

BatchDone(r) ==
    /\ replica[r].pc = "process"
    /\ ~\E m \in emailHand[r] : m.pool = "current"
    /\ replica' = [replica EXCEPT ![r].pc = "fetch", ![r].current = 0]
    /\ UNCHANGED <<emailBroker, events, emailHand, emailFaults>>

\* Mutant of Drained: the worker ends with its connection.
DrainedForGood(r) ==
    /\ replica[r].pc = "drain"
    /\ emailHand' = [emailHand EXCEPT ![r] = {}]
    /\ replica' = [replica EXCEPT ![r].orphan = 0]
    /\ UNCHANGED <<emailBroker, events, emailFaults>>

\* The drained connection is closed, which ends the orphans; _run tries again.
Drained(r) ==
    /\ replica[r].pc = "drain"
    /\ emailHand' = [emailHand EXCEPT ![r] = {}]
    /\ replica' = [replica EXCEPT ![r] = Fresh]
    /\ UNCHANGED <<emailBroker, events, emailFaults>>

\* The pod is stopped and started again.
RestartWorker(r) ==
    /\ replica[r].pc # "connect" /\ Fault
    /\ emailHand' = [emailHand EXCEPT ![r] = {}]
    /\ replica' = [replica EXCEPT ![r] = Fresh]
    /\ UNCHANGED <<emailBroker, events>>

----------------------------------------------------------------------------
(* _process_message                                                        *)

Active(r, pool) == {m \in emailHand[r] : m.pool = pool /\ m.pc # "wait"}

\* A free worker takes the next message; an invalid one raises at once.
Begin(r, m) ==
    /\ m.pc = "wait"
    /\ Cardinality(Active(r, m.pool)) < replica[r][m.pool]
    /\ ReplaceMessage(r, m, {[m EXCEPT !.pc = IF m.order \in Invalid THEN "nak" ELSE "publish"]})
    /\ UNCHANGED <<emailBroker, events, replica, emailFaults>>

\* Mutant of MessageId: the id names the outcome.
OutcomeId(order, outcome) == <<order, outcome>>

\* _result_message_id: the input and one result slot for both outcomes.
MessageId(order, outcome) == <<order, "confirmation">>

\* The outcome reaches the stream, which drops an id it remembers.
Stored(r, m) ==
    LET outcome == IF FailureMode[r] THEN "failed" ELSE "sent"
        id == MessageId(m.order, outcome)
    IN IF \E e \in events : e.id = id /\ e.window = window[m.order] THEN events
       ELSE events \cup {[id |-> id, outcome |-> outcome, window |-> window[m.order]]}

PublishOutcome(r, m) ==
    /\ m.pc = "publish"
    /\ events' = Stored(r, m)
    /\ ReplaceMessage(r, m, {[m EXCEPT !.pc = "ack"]})
    /\ UNCHANGED <<emailBroker, replica, emailFaults>>

\* publish raises, and the event may or may not be in the stream.
PublishFails(r, m) ==
    /\ m.pc = "publish" /\ Fault
    /\ events' \in {events, Stored(r, m)}
    /\ ReplaceMessage(r, m, {[m EXCEPT !.pc = "nak"]})
    /\ UNCHANGED <<emailBroker, replica>>

\* Mutant of AckMessage: the message is acknowledged when it is taken.
AckEarly(r, m) ==
    /\ m.pc \in {"publish", "ack"}
    /\ acked' = acked \cup {m.order}
    /\ IF m.pc = "ack" THEN ReplaceMessage(r, m, {}) ELSE UNCHANGED emailHand
    /\ UNCHANGED <<completed, emailQueued, emailGiven, deliveries, window, events, replica, emailFaults>>

AckMessage(r, m) ==
    /\ m.pc = "ack"
    /\ acked' = acked \cup {m.order}
    /\ ReplaceMessage(r, m, {})
    /\ UNCHANGED <<completed, emailQueued, emailGiven, deliveries, window, events, replica, emailFaults>>

\* ack raises inside the same try.
AckFails(r, m) ==
    /\ m.pc = "ack" /\ Fault
    /\ ReplaceMessage(r, m, {[m EXCEPT !.pc = "nak"]})
    /\ UNCHANGED <<emailBroker, events, replica>>

Nak(r, m) ==
    /\ m.pc = "nak"
    /\ ReplaceMessage(r, m, {})
    /\ IF m.order \in emailQueued \cup emailGiven \cup acked THEN UNCHANGED <<emailQueued, emailGiven>>
       ELSE Return(m.order)
    /\ UNCHANGED <<completed, acked, deliveries, window, events, replica, emailFaults>>

\* nak raises: the worker ends, and with it gather; the others are orphans now.
NakFails(r, m) ==
    /\ m.pc = "nak" /\ Fault
    /\ replica' = [replica EXCEPT ![r] =
         [pc |-> "drain", current |-> 0, orphan |-> @.current + @.orphan - 1]]
    /\ emailHand' = [emailHand EXCEPT ![r] = {[n EXCEPT !.pool = "orphan"] : n \in @ \ {m}}]
    /\ UNCHANGED <<emailBroker, events>>

----------------------------------------------------------------------------

Process(r) == \E m \in emailHand[r] : Begin(r, m) \/ PublishOutcome(r, m) \/ AckMessage(r, m) \/ Nak(r, m)
Loop(r) ==
    \/ ConsumeConnection(r) \/ BatchDone(r) \/ Drained(r)
    \/ \E batch \in SUBSET emailQueued : FetchMessages(r, batch)
MessageFails(r) == \E m \in emailHand[r] : PublishFails(r, m) \/ AckFails(r, m) \/ NakFails(r, m)

EmailNext ==
    \/ \E o \in Orders : Complete(o) \/ AckWait(o) \/ WindowPasses(o)
    \/ \E r \in EmailReplicas : Loop(r) \/ Process(r) \/ MessageFails(r) \/ FetchFails(r) \/ RestartWorker(r)

EmailSpec == EmailInit /\ [][EmailNext]_emailVars

\* Calls have timeouts, so every loop goes on; JetStream delivers again.
EmailFairness ==
    /\ \A r \in EmailReplicas : WF_emailVars(Loop(r)) /\ WF_emailVars(Process(r))
    /\ \A o \in Orders : WF_emailVars(AckWait(o))

FairEmailSpec == EmailSpec /\ EmailFairness

----------------------------------------------------------------------------

Notified(o) == \E e \in events : e.id[1] = o

\* An order is only acknowledged when its outcome is in the stream, whichever
\* replica, orphan or redelivery acknowledges it.
AckedMeansNotified == \A o \in acked : Notified(o)

\* Within one duplicate window an order is announced once: redeliveries, orphans
\* and replicas with different failure modes never add a second event or the other
\* outcome.  The handler keeps no inbox of its own, so a redelivery after the
\* window is announced again.
OncePerWindow ==
    \A e, f \in events : e.id[1] = f.id[1] /\ e.window = f.window => e = f

\* A customer is told an outcome of an order before the order is acknowledged, and
\* not twice while the stream remembers the first time.
ToldBeforeAck == AckedMeansNotified /\ OncePerWindow

\* Every completed order is answered or, after all deliveries, given up.
OrderNotified == \A o \in Orders : o \in completed ~> Notified(o) \/ o \in emailGiven

\* What docs/nats-event-driven-upgrade-plan.md says of failure events: they are
\* emitted only when the deliveries are exhausted.
FailureIsTerminal ==
    \A e \in events : e.outcome = "failed" => deliveries[e.id[1]] = MaxDeliver

----------------------------------------------------------------------------
(* The inductive invariant (proved in EventServicesProofs)                 *)

\* A message that is delivered again has a delivery left.
DeliveriesOK ==
    /\ \A o \in Orders : o \notin completed => deliveries[o] = 0
    /\ \A o \in emailQueued : deliveries[o] < MaxDeliver

\* Both outcomes of an order have the same id.
EventsOK == \A e \in events : e.id[2] = "confirmation"

\* A message is only to be acknowledged when its outcome is in the stream.
MessagesOK ==
    \A r \in EmailReplicas : \A m \in emailHand[r] :
        /\ m.order \in completed
        /\ m.pc = "ack" => Notified(m.order)

\* A replica has one pool of workers at a time, with no more messages in work
\* than workers.
Fits(messages, state) ==
    /\ IsFiniteSet(messages)
    /\ Cardinality({m \in messages : m.pc # "wait"}) <= state.current + state.orphan
    /\ state.pc \in {"connect", "fetch"} => messages = {} /\ state.current = 0
    /\ state.pc = "process" => \A m \in messages : m.pool = "current"
    /\ state.pc = "drain" => state.current = 0 /\ \A m \in messages : m.pool = "orphan"
    /\ state.pc # "drain" => state.orphan = 0

PoolOK == \A r \in EmailReplicas : Fits(emailHand[r], replica[r])

EmailInv ==
    /\ EmailTypeOK /\ DeliveriesOK /\ EventsOK /\ MessagesOK /\ PoolOK
    /\ AckedMeansNotified /\ OncePerWindow

=============================================================================
