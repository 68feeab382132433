------------------------ MODULE CheckoutTransactions ------------------------
(***************************************************************************)
(* The checkout transactions of one Locust process (locustfile.py): an     *)
(* open-loop driver or closed-loop users start them, each prepares a cart, *)
(* submits a checkout and follows its order over SSE to the outcome and to *)
(* its settlement, and everything is written to business.jsonl and         *)
(* outstanding.jsonl before the recorder closes.  Deadlines are moments    *)
(* that may come; the storefront is the environment.                       *)
(***************************************************************************)
EXTENDS Naturals, Sequences, FiniteSets

CONSTANTS
    Count,         \* number of transactions the schedule holds
    Concurrency,   \* the driver's limit on transactions in flight
    Slots,         \* SSE_RECONNECT_SLOTS
    Inline,        \* open loop: settlement is followed by the transaction itself
    Application,   \* "NATS" or "GRPC"
    MaxBreaks      \* bound on streams that break off

TransactionsAssumption ==
    /\ {Count, Concurrency, Slots, MaxBreaks} \subseteq Nat /\ Slots > 0
    /\ Inline \in BOOLEAN
    /\ Application \in {"NATS", "GRPC"}

Transactions == 1..Count

VARIABLES
    pc,            \* per transaction
    order,         \* the storefront's order of each transaction
    business,      \* business.jsonl: the records of each transaction
    accepted,      \* transactions with an "accepted" line in outstanding.jsonl
    outstanding,   \* _outstanding_count
    index,         \* the driver's next transaction
    driver,        \* "schedule", "join", "kill", "stopped", "closed"
    drained,       \* the drain deadline has passed
    breaks

transactionVars ==
    <<pc, order, business, accepted, outstanding, index, driver, drained, breaks>>
logs == <<business, accepted, outstanding>>
control == <<index, driver, drained>>

Preparing == {"product", "cart", "poll", "submit"}
Following == {"connect", "opening", "stream"}
Settling == {"settle", "settle-connect", "settle-opening", "settle-stream"}
Pcs == {"waiting", "killed", "done"} \cup Preparing \cup Following \cup Settling

\* Every field of an order changes once, from its first value to a final one;
\* SENT stands for FAILED, SUCCEEDED for REJECTED and CANCELLED for REJECTED
\* and MANUAL_REVIEW too, which the transactions treat alike.
NewOrder == [status |-> "PENDING", note |-> "PENDING", clear |-> "PENDING"]
NoOrder == [status |-> "NONE", note |-> "NONE", clear |-> "NONE"]
Active == {t \in Transactions : pc[t] \notin {"waiting", "killed", "done"}}
\* Greenlets of the driver; a closed-loop tracker is a greenlet of its own.
InFlight == {t \in Active : Inline \/ pc[t] \notin Settling}
Opening == {t \in Transactions : pc[t] \in {"opening", "settle-opening"}}

RecordLabels ==
    {"ACCEPTED", "UNKNOWN", "ERROR", "GENERATOR_SATURATED", "TIMEOUT", "INCOMPLETE", "COMPLETED", "CANCELLED",
     "ORDER_NOT_COMPLETED", "SETTLED", "SETTLEMENT_TIMEOUT"}
Records == [name : {"acceptance", "outcome", "settled"}, label : RecordLabels, success : BOOLEAN]
OrderStates ==
    [status : {"NONE", "PENDING", "COMPLETED", "CANCELLED"}, note : {"NONE", "PENDING", "SENT"},
     clear : {"NONE", "PENDING", "SUCCEEDED"}]

TransactionsTypeOK ==
    /\ pc \in [Transactions -> Pcs]
    /\ order \in [Transactions -> OrderStates]
    /\ business \in [Transactions -> Seq(Records)]
    /\ accepted \in SUBSET Transactions
    /\ outstanding \in 0..Count
    /\ index \in 1..(Count + 1)
    /\ driver \in {"schedule", "join", "kill", "stopped", "closed"}
    /\ drained \in BOOLEAN
    /\ breaks \in 0..MaxBreaks
    /\ Inline => Cardinality(InFlight) <= Concurrency
    /\ Cardinality(Opening) <= Slots

TransactionsInit ==
    /\ pc = [t \in Transactions |-> "waiting"]
    /\ order = [t \in Transactions |-> NoOrder]
    /\ business = [t \in Transactions |-> << >>]
    /\ accepted = {} /\ outstanding = 0
    /\ index = 1 /\ driver = "schedule" /\ drained = FALSE
    /\ breaks = 0

----------------------------------------------------------------------------
(* The artifact recorder and small helpers                                 *)

Goto(t, state) == pc' = [pc EXCEPT ![t] = state]
\* "ERROR" stands for HTTP_FAILURE, STATUS_ERROR, INVALID_RESPONSE,
\* PRECONDITION_FAILED and a request's TIMEOUT.
Line(name, label, success) == [name |-> name, label |-> label, success |-> success]

\* ArtifactRecorder.request: a closed recorder drops the record.
Record(t, lines) ==
    business' = IF driver = "closed" THEN business
                ELSE [business EXCEPT ![t] = @ \o lines]

\* Mutant of Terminal: the count goes down only for orders that completed.
TerminalCompleted(t, label) ==
    outstanding' = IF label = "COMPLETED" /\ outstanding > 0 THEN outstanding - 1
                   ELSE outstanding

\* ArtifactRecorder.terminal
Terminal(t, label) == outstanding' = IF outstanding > 0 THEN outstanding - 1 ELSE 0

\* The transaction ends with one failed outcome; an order that was accepted is
\* terminal, and (NATS) checkout records the settlement as not reached.
Fail(t, label) ==
    /\ Record(t, <<Line("outcome", label, FALSE), Line("settled", "ORDER_NOT_COMPLETED", FALSE)>>)
    /\ Terminal(t, label)
    /\ Goto(t, "done")
    /\ UNCHANGED <<accepted, control>>

----------------------------------------------------------------------------
(* Scheduling                                                              *)

Saturated == Cardinality(InFlight) >= Concurrency

\* OpenLoopDriver.schedule: the next transaction, or a record that none could
\* be started.
Schedule ==
    /\ Inline /\ driver = "schedule" /\ index <= Count
    /\ IF Saturated
       THEN /\ Record(index, <<Line("outcome", "GENERATOR_SATURATED", FALSE)>>)
            /\ Goto(index, "done")
       ELSE Goto(index, "product") /\ UNCHANGED business
    /\ index' = index + 1
    /\ UNCHANGED <<order, accepted, outstanding, driver, drained, breaks>>

\* ClosedLoopUser.checkout: a user's task, within the submission window.
UserCheckout(t) ==
    /\ ~Inline /\ driver = "schedule" /\ pc[t] = "waiting"
    /\ Goto(t, "product")
    /\ UNCHANGED <<order, logs, control, breaks>>

\* The submission window ends.
SubmissionEnds ==
    /\ driver = "schedule" /\ (Inline => index > Count)
    /\ driver' = "join"
    /\ UNCHANGED <<pc, order, logs, index, drained, breaks>>

DrainPasses ==
    /\ driver = "join" /\ ~drained
    /\ drained' = TRUE
    /\ UNCHANGED <<pc, order, logs, index, driver, breaks>>

\* Mutant of JoinReturns: joinall without a time-out.
JoinReturnsAll ==
    /\ driver = "join" /\ InFlight = {}
    /\ driver' = "kill"
    /\ UNCHANGED <<pc, order, logs, index, drained, breaks>>

\* joinall returns when all transactions are over or at the drain deadline.
JoinReturns ==
    /\ driver = "join" /\ (InFlight = {} \/ drained)
    /\ driver' = "kill"
    /\ UNCHANGED <<pc, order, logs, index, drained, breaks>>

\* What a killed greenlet still writes: GreenletExit is no Exception, so the
\* measurements end without one; a tracker's finally clause has its error.
LastWords(t) ==
    CASE pc[t] \in {"product", "cart", "poll"} -> << >>
      [] pc[t] = "submit" /\ Application = "NATS" ->
            <<Line("acceptance", "UNKNOWN", TRUE), Line("outcome", "UNKNOWN", TRUE)>>
      [] pc[t] = "submit" /\ Application = "GRPC" -> <<Line("outcome", "UNKNOWN", TRUE)>>
      [] pc[t] \in Following -> <<Line("outcome", "UNKNOWN", TRUE)>>
      [] pc[t] \in Settling -> <<Line("settled", "INCOMPLETE", FALSE)>>

\* The driver (or Locust, for a user) kills what is still in flight.
Kill(t) ==
    /\ driver = "kill" /\ t \in InFlight
    /\ Record(t, LastWords(t))
    /\ Goto(t, IF pc[t] \in Settling THEN "done" ELSE "killed")
    /\ UNCHANGED <<order, accepted, outstanding, control, breaks>>

DriverStops ==
    /\ driver = "kill" /\ InFlight = {}
    /\ driver' = "stopped"
    /\ UNCHANGED <<pc, order, logs, index, drained, breaks>>

\* on_test_stop waits three seconds for the trackers and kills the others.
KillTracker(t) ==
    /\ driver = "stopped" /\ t \in Active /\ pc[t] # "settle"
    /\ Record(t, LastWords(t))
    /\ Goto(t, "done")
    /\ UNCHANGED <<order, accepted, outstanding, control, breaks>>

\* Mutant of TestStops: the recorder closes at once.
TestStopsAtOnce ==
    /\ driver = "stopped"
    /\ driver' = "closed"
    /\ UNCHANGED <<pc, order, logs, index, drained, breaks>>

TestStops ==
    /\ driver = "stopped" /\ Active = {}
    /\ driver' = "closed"
    /\ UNCHANGED <<pc, order, logs, index, drained, breaks>>

----------------------------------------------------------------------------
(* Preparing the cart                                                      *)

\* record_precondition_failure; nothing was accepted.
Unprepared(t) ==
    /\ Record(t, <<Line("outcome", "ERROR", FALSE)>>)
    /\ Goto(t, "done")
    /\ UNCHANGED <<order, accepted, outstanding, control, breaks>>

\* add_item: the product page, then the cart request.
GetProduct(t) ==
    /\ pc[t] = "product"
    /\ \/ Goto(t, "cart") /\ UNCHANGED <<order, logs, control, breaks>>
       \/ Unprepared(t)

\* _submit_cart_add: a redirect is final; over NATS 202 names an operation.
AddToCart(t) ==
    /\ pc[t] = "cart"
    /\ \/ /\ Goto(t, "submit")
          /\ UNCHANGED <<order, logs, control, breaks>>
       \/ /\ Application = "NATS"
          /\ Goto(t, "poll")
          /\ UNCHANGED <<order, logs, control, breaks>>
       \/ Unprepared(t)

\* The operation is polled until it is settled, fails or the deadline passes.
PollOperation(t) ==
    /\ pc[t] = "poll"
    /\ \/ Goto(t, "submit") /\ UNCHANGED <<order, logs, control, breaks>>
       \/ Unprepared(t)

----------------------------------------------------------------------------
(* Submitting the checkout                                                 *)

\* POST /cart/checkout fails or has no Location; the order may exist anyway.
Refused(t) ==
    /\ pc[t] = "submit" /\ Application = "NATS"
    /\ Record(t, <<Line("acceptance", "ERROR", FALSE), Line("outcome", "ERROR", FALSE),
                   Line("settled", "ORDER_NOT_COMPLETED", FALSE)>>)
    /\ order' \in {order, [order EXCEPT ![t] = NewOrder]}
    /\ Goto(t, "done")
    /\ UNCHANGED <<accepted, outstanding, control, breaks>>

\* 202 with a Location: the order is accepted and followed.
Accepted(t) ==
    /\ pc[t] = "submit" /\ Application = "NATS"
    /\ order' = [order EXCEPT ![t] = NewOrder]
    /\ Record(t, <<Line("acceptance", "ACCEPTED", TRUE)>>)
    /\ accepted' = accepted \cup {t}
    /\ outstanding' = outstanding + 1
    /\ Goto(t, "connect")
    /\ UNCHANGED <<control, breaks>>

\* 202 with a Location that has no path: accepted, and over.
BadLocation(t) ==
    /\ pc[t] = "submit" /\ Application = "NATS"
    /\ order' = [order EXCEPT ![t] = NewOrder]
    /\ Record(t, <<Line("acceptance", "ACCEPTED", TRUE), Line("outcome", "ERROR", FALSE),
                   Line("settled", "ORDER_NOT_COMPLETED", FALSE)>>)
    /\ accepted' = accepted \cup {t}
    /\ Goto(t, "done")
    /\ UNCHANGED <<outstanding, control, breaks>>

\* GrpcAdapter.checkout: the page of the answer is the outcome.
GrpcCheckout(t) ==
    /\ pc[t] = "submit" /\ Application = "GRPC"
    /\ \/ /\ order' = [order EXCEPT ![t] = [NewOrder EXCEPT !.status = "COMPLETED"]]
          /\ Record(t, <<Line("outcome", "COMPLETED", TRUE)>>)
       \/ /\ Record(t, <<Line("outcome", "ERROR", FALSE)>>)
          /\ UNCHANGED order
    /\ Goto(t, "done")
    /\ UNCHANGED <<accepted, outstanding, control, breaks>>

----------------------------------------------------------------------------
(* Following the order                                                     *)

\* _open_order_event_stream waits for a slot and sends the request.
Connect(t) ==
    /\ pc[t] \in {"connect", "settle-connect"}
    /\ Cardinality(Opening) < Slots
    /\ Goto(t, IF pc[t] = "connect" THEN "opening" ELSE "settle-opening")
    /\ UNCHANGED <<order, logs, control, breaks>>

Opened(t) ==
    /\ t \in Opening
    /\ Goto(t, IF pc[t] = "opening" THEN "stream" ELSE "settle-stream")
    /\ UNCHANGED <<order, logs, control, breaks>>

\* 404 or 503: try again after a delay.
NotYet(t) ==
    /\ t \in Opening /\ breaks < MaxBreaks
    /\ breaks' = breaks + 1
    /\ Goto(t, IF pc[t] = "opening" THEN "connect" ELSE "settle-connect")
    /\ UNCHANGED <<order, logs, control>>

\* Any other status, a time-out or a wrong content type is final.
OpenFails(t) ==
    /\ pc[t] = "opening"
    /\ Fail(t, "ERROR")
    /\ UNCHANGED <<order, breaks>>

\* The stream ends, times out or raises: reconnect after a delay.
StreamBreaks(t) ==
    /\ pc[t] \in {"stream", "settle-stream"} /\ breaks < MaxBreaks
    /\ breaks' = breaks + 1
    /\ Goto(t, IF pc[t] = "stream" THEN "connect" ELSE "settle-connect")
    /\ UNCHANGED <<order, logs, control>>

\* A frame that is no order event, or one of another order.
BadEvent(t) ==
    /\ pc[t] = "stream"
    /\ Fail(t, "ERROR")
    /\ UNCHANGED <<order, breaks>>

\* Events are snapshots; a replica that lags shows a field's first value.
Snapshots(t) ==
    [status : {"PENDING", order[t].status}, note : {"PENDING", order[t].note},
     clear : {"PENDING", order[t].clear}]

IsTerminal(status) == status \in {"COMPLETED", "CANCELLED"}

\* Mutant of IsSettled: the notification alone settles the order.
IsNotified(seen) == seen.note = "SENT"

IsSettled(seen) ==
    seen.note = "SENT" /\ seen.clear = "SUCCEEDED"

\* The terminal order event: COMPLETED goes on to the settlement, which looks
\* at this event first; a closed-loop user spawns a tracker for it.
OrderEvent(t) ==
    /\ pc[t] = "stream"
    /\ \E seen \in Snapshots(t) :
          /\ IsTerminal(seen.status)
          /\ Terminal(t, seen.status)
          /\ IF seen.status # "COMPLETED"
             THEN /\ Record(t, <<Line("outcome", seen.status, FALSE),
                                 Line("settled", "ORDER_NOT_COMPLETED", FALSE)>>)
                  /\ Goto(t, "done")
             ELSE IF Inline /\ IsSettled(seen)
             THEN /\ Record(t, <<Line("outcome", "COMPLETED", TRUE),
                                 Line("settled", "SETTLED", TRUE)>>)
                  /\ Goto(t, "done")
             ELSE /\ Record(t, <<Line("outcome", "COMPLETED", TRUE)>>)
                  /\ Goto(t, IF IsSettled(seen) THEN "settle" ELSE "settle-stream")
    /\ UNCHANGED <<order, accepted, control, breaks>>

\* The deadline of the order, or the drain deadline, passes.
OutcomeDeadline(t) ==
    /\ pc[t] \in {"connect", "stream"}
    /\ \/ Fail(t, "TIMEOUT")
       \/ drained /\ Fail(t, "INCOMPLETE")
    /\ UNCHANGED <<order, breaks>>

----------------------------------------------------------------------------
(* Settlement                                                              *)

\* _record_settlement_event: one event shows both; the tracker's first event
\* is the outcome.
SettlementEvent(t) ==
    /\ \/ pc[t] = "settle"
       \/ pc[t] = "settle-stream" /\ \E seen \in Snapshots(t) : IsSettled(seen)
    /\ Record(t, <<Line("settled", "SETTLED", TRUE)>>)
    /\ Goto(t, "done")
    /\ UNCHANGED <<order, accepted, outstanding, control, breaks>>

\* A deadline, a failed reconnection or a frame that is no order event ends the
\* wait. Whose order an event shows is not asked here, as it is before the
\* outcome: that a stream shows its own order is left to the storefront.
SettlementFails(t) ==
    /\ pc[t] \in Settling \ {"settle"}
    /\ \E label \in {"ERROR", "SETTLEMENT_TIMEOUT", "INCOMPLETE"} :
          /\ label = "INCOMPLETE" => drained
          /\ (label = "ERROR") => pc[t] # "settle-connect"
          /\ pc[t] = "settle-opening" => label = "ERROR"
          /\ Record(t, <<Line("settled", label, FALSE)>>)
    /\ Goto(t, "done")
    /\ UNCHANGED <<order, accepted, outstanding, control, breaks>>

----------------------------------------------------------------------------
(* The storefront (environment)                                            *)

OrderProgress(t) ==
    /\ order[t] # NoOrder
    /\ \/ /\ order[t].status = "PENDING"
          /\ \E s \in {"COMPLETED", "CANCELLED"} : order' = [order EXCEPT ![t].status = s]
       \/ /\ order[t].status = "COMPLETED" /\ order[t].note = "PENDING"
          /\ order' = [order EXCEPT ![t].note = "SENT"]
       \/ /\ order[t].status = "COMPLETED" /\ order[t].clear = "PENDING"
          /\ order' = [order EXCEPT ![t].clear = "SUCCEEDED"]
    /\ UNCHANGED <<pc, logs, control, breaks>>

----------------------------------------------------------------------------

TransactionStep(t) ==
    \/ GetProduct(t) \/ AddToCart(t) \/ PollOperation(t)
    \/ Refused(t) \/ Accepted(t) \/ GrpcCheckout(t) \/ BadLocation(t)
    \/ Connect(t) \/ Opened(t) \/ NotYet(t) \/ OpenFails(t)
    \/ StreamBreaks(t) \/ BadEvent(t) \/ OrderEvent(t) \/ OutcomeDeadline(t)
    \/ SettlementEvent(t) \/ SettlementFails(t)

DriverStep ==
    \/ Schedule \/ SubmissionEnds \/ DrainPasses \/ JoinReturns \/ DriverStops \/ TestStops
    \/ \E t \in Transactions : Kill(t) \/ KillTracker(t)

TransactionsNext ==
    \/ DriverStep
    \/ \E t \in Transactions : UserCheckout(t) \/ TransactionStep(t) \/ OrderProgress(t)

\* The driver goes on, and the event loop starts a spawned tracker; a
\* transaction may hang in a request.
TransactionsFairness ==
    /\ WF_transactionVars(DriverStep)
    /\ \A t \in Transactions : WF_transactionVars(SettlementEvent(t))

TransactionsSpec == TransactionsInit /\ [][TransactionsNext]_transactionVars /\ TransactionsFairness

----------------------------------------------------------------------------

Lines(t, name) == {i \in 1..Len(business[t]) : business[t][i].name = name}
Labels(t, name) == {business[t][i].label : i \in Lines(t, name)}

\* A transaction that is over has exactly one outcome, and one settlement if
\* its checkout was sent over NATS: nothing is counted twice, and no record
\* comes too late for the recorder.  Only killed transactions may lack one.
EveryTransactionRecorded ==
    \A t \in Transactions :
        /\ \A name \in {"outcome", "settled"} : \A i, j \in Lines(t, name) : i = j
        /\ pc[t] = "done" =>
              /\ Lines(t, "outcome") # {}
              /\ Lines(t, "acceptance") # {} => Lines(t, "settled") # {}

\* The outstanding counter is the number of accepted orders whose outcome is
\* not recorded: those still followed, and those whose transaction was killed.
OutstandingExact ==
    outstanding = Cardinality({t \in accepted : Labels(t, "outcome") \subseteq {"UNKNOWN"}})

\* The records tell the truth about the order: COMPLETED and SETTLED are
\* recorded only when the storefront got there, over broken streams and
\* lagging replicas too.
RecordsAreTrue ==
    \A t \in Transactions :
        /\ "COMPLETED" \in Labels(t, "outcome") => order[t].status = "COMPLETED"
        /\ "SETTLED" \in Labels(t, "settled") =>
              /\ order[t].note = "SENT"
              /\ order[t].clear = "SUCCEEDED"

\* The files tell of every transaction, exactly once and truly.
TransactionsAreTrue ==
    TransactionsTypeOK /\ EveryTransactionRecorded /\ OutstandingExact /\ RecordsAreTrue

----------------------------------------------------------------------------
(* The inductive invariant of TransactionsAreTrue                          *)

\* The records of a transaction, by how far it has come.
Shape(state, lines, isAccepted) ==
    /\ state \in {"waiting"} \cup Preparing => Len(lines) = 0 /\ ~isAccepted
    /\ state \in Following => Len(lines) = 1 /\ lines[1].name = "acceptance" /\ isAccepted
    /\ state \in Settling =>
          /\ Len(lines) = 2 /\ lines[1].name = "acceptance"
          /\ lines[2].name = "outcome" /\ lines[2].label = "COMPLETED"
    /\ state = "killed" =>
          \/ Len(lines) = 0 /\ ~isAccepted
          \/ Len(lines) = 1 /\ lines[1].name = "outcome" /\ lines[1].label = "UNKNOWN" /\ ~isAccepted
          \/ /\ Len(lines) = 2 /\ lines[1].name = "acceptance"
             /\ lines[2].name = "outcome" /\ lines[2].label = "UNKNOWN"
    /\ state = "done" =>
          \/ Len(lines) = 1 /\ lines[1].name = "outcome" /\ ~isAccepted
          \/ /\ Len(lines) = 3 /\ lines[1].name = "acceptance"
             /\ lines[2].name = "outcome" /\ lines[2].label # "UNKNOWN"
             /\ lines[3].name = "settled"

\* They agree with the order, which a settlement under way has seen completed.
Truthful(state, lines, o) ==
    /\ \A i \in 1..Len(lines) :
          /\ lines[i].name = "outcome" /\ lines[i].label = "COMPLETED" => o.status = "COMPLETED"
          /\ lines[i].name = "settled" /\ lines[i].label = "SETTLED" => IsSettled(o)
    /\ state = "settle" => IsSettled(o)

Owed == {t \in accepted : pc[t] \in Following \cup {"killed"}}

TransactionsInv ==
    /\ TransactionsTypeOK
    /\ \A t \in Transactions :
          Shape(pc[t], business[t], t \in accepted) /\ Truthful(pc[t], business[t], order[t])
    /\ outstanding = Cardinality(Owed)
    /\ Inline => \A t \in Transactions : t >= index => pc[t] = "waiting"
    /\ driver \in {"stopped", "closed"} => InFlight = {}
    /\ driver = "closed" => Active = {}

----------------------------------------------------------------------------

\* The run ends even if every transaction hangs: the driver joins or kills what
\* it started and the recorder closes.
RunEnds == <>(driver = "closed")

=============================================================================
