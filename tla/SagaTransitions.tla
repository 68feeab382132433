--------------------------- MODULE SagaTransitions ---------------------------
(***************************************************************************)
(* The vocabulary and the pure transition functions of the order saga      *)
(* (src/checkoutservice/saga.go and processDeadline of messaging.go): what *)
(* one input does to a loaded saga and which results it queues.  Amounts,  *)
(* addresses and identifiers are left out; where they decide the control   *)
(* flow (validation, currency conversion) every decision is an outcome.    *)
(***************************************************************************)
EXTENDS Naturals

----------------------------------------------------------------------------
(* Stages, inputs and results                                              *)

WaitingStages == {"WAITING_FOR_QUOTE", "WAITING_FOR_AUTHORIZATION",
                  "WAITING_FOR_SHIPMENT", "WAITING_FOR_CAPTURE"}
TerminalStages == {"COMPLETED", "CANCELLED", "REJECTED", "MANUAL_REVIEW"}
Stages == {"NONE", "COMPENSATING"} \cup WaitingStages \cup TerminalStages

\* saga.Deadline is non-zero exactly in these stages
HasDeadline(stage) == stage \in WaitingStages \cup {"COMPENSATING"}

\* The longest path is quote, authorize, shipment, capture, compensate and a
\* timeout, which adds two.
MaxVersion == 7
Versions == 0..MaxVersion

Responses ==
    [ calculateQuote |-> {"quote-calculated", "quote-failed"},
      authorize      |-> {"authorized", "authorization-declined"},
      createShipment |-> {"shipment-created", "shipment-creation-failed"},
      capture        |-> {"captured", "capture-failed"},
      release        |-> {"authorization-released", "authorization-release-failed"},
      cancelShipment |-> {"shipment-cancelled", "shipment-cancellation-failed"} ]

ShippingCommands == {"calculateQuote", "createShipment", "cancelShipment"}
PaymentCommands  == {"authorize", "capture", "release"}
Commands == ShippingCommands \cup PaymentCommands
OrderEvents == {"order.submitted", "order.rejected", "order.completed",
                "order.cancelled", "order.stage-changed",
                "order.step-timed-out", "order.manual-review"}
Results == Commands \cup OrderEvents \cup {"cartClear"}

EventNames == {"quote-calculated", "quote-failed", "authorized",
               "authorization-declined", "shipment-created",
               "shipment-creation-failed", "captured", "capture-failed",
               "authorization-released", "authorization-release-failed",
               "shipment-cancelled", "shipment-cancellation-failed"}
MessageNames == EventNames \cup {"submit"}

\* Inputs of ApplyOrder: a delivered message, or the synthetic deadline input
\* whose id is derived from the version that armed the deadline.
Msg(m)      == [kind |-> m, version |-> 0]
Deadline(v) == [kind |-> "deadline", version |-> v]
Inputs == {Msg(m) : m \in MessageNames} \cup {Deadline(v) : v \in Versions}

NoSaga == [stage |-> "NONE", version |-> 0, needRelease |-> FALSE,
           needCancel |-> FALSE, released |-> FALSE, shipCancelled |-> FALSE]

Sagas == [stage : Stages, version : Versions, needRelease : BOOLEAN,
          needCancel : BOOLEAN, released : BOOLEAN, shipCancelled : BOOLEAN]

----------------------------------------------------------------------------
(* The pure transition functions of saga.go: the set of possible outcomes  *)
(* of one input on the loaded saga, each a next saga and its results.      *)

Outcome(s, out) == [saga |-> s, out |-> out]
Ignored(s) == {Outcome(s, {})}

\* Mutant of Advance: caller and helper both raise the version.
AdvanceTwice(s, stage, out) ==
    Outcome([s EXCEPT !.version = s.version + 2, !.stage = stage], out)

Advance(s, stage, out) ==
    Outcome([s EXCEPT !.version = s.version + 1, !.stage = stage], out)

Cancel(s) == Advance(s, "CANCELLED", {"order.cancelled"})

\* Mutant of ManualReview: the stage changes without a new version.
ManualReviewSameVersion(s, out) ==
    Outcome([s EXCEPT !.stage = "MANUAL_REVIEW"], out \cup {"order.manual-review"})

ManualReview(s, out) ==
    Outcome([s EXCEPT !.version = s.version + 1, !.stage = "MANUAL_REVIEW"],
            out \cup {"order.manual-review"})

\* Mutant of StartCompensation: the shipment is left alone.
StartReleaseOnly(s, cancelShipment) ==
    Outcome([s EXCEPT !.version = s.version + 1, !.stage = "COMPENSATING",
                      !.needRelease = TRUE, !.needCancel = cancelShipment],
            {"release", "order.stage-changed"})

StartCompensation(s, cancelShipment) ==
    Outcome([s EXCEPT !.version = s.version + 1, !.stage = "COMPENSATING",
                      !.needRelease = TRUE, !.needCancel = cancelShipment],
            {"release", "order.stage-changed"}
              \cup (IF cancelShipment THEN {"cancelShipment"} ELSE {}))

\* Mutant of FinishCompensation: one compensation is enough.
FinishFirstCompensation(s) ==
    IF /\ s.needRelease /\ ~s.released
       /\ s.needCancel /\ ~s.shipCancelled
    THEN Outcome(s, {})
    ELSE Cancel(s)

\* A compensation that is not the last one only records its flag: the saga
\* keeps its version.
FinishCompensation(s) ==
    IF \/ s.needRelease /\ ~s.released
       \/ s.needCancel /\ ~s.shipCancelled
    THEN Outcome(s, {})
    ELSE Cancel(s)

\* The command is accepted or rejected by what the loaded projections hold.
ApplyOrderCommand(s) ==
    IF s.stage # "NONE" THEN Ignored(s)
    ELSE { Advance(s, "REJECTED", {"order.rejected"}),
           Advance(s, "WAITING_FOR_QUOTE", {"order.submitted", "calculateQuote"}) }

ApplyCompensation(s, e) ==
    CASE e = "authorization-released" ->
            {FinishCompensation([s EXCEPT !.released = TRUE])}
      [] e = "shipment-cancelled" ->
            {FinishCompensation([s EXCEPT !.shipCancelled = TRUE])}
      [] e \in {"authorization-release-failed", "shipment-cancellation-failed"} ->
            {ManualReview(s, {})}
      [] OTHER -> Ignored(s)

\* Mutant of ApplySagaEvent: a captured order completes in any waiting stage,
\* and the capture is requested before there is a shipment.
ApplySagaEventSkipShipment(s, e) ==
    CASE s.stage = "WAITING_FOR_QUOTE" /\ e = "quote-calculated" ->
            {Advance(s, "WAITING_FOR_AUTHORIZATION", {"authorize"})}
      [] s.stage = "WAITING_FOR_AUTHORIZATION" /\ e = "authorized" ->
            {Advance(s, "WAITING_FOR_CAPTURE", {"createShipment", "capture"})}
      [] s.stage \in WaitingStages /\ e = "captured" ->
            {Advance(s, "COMPLETED", {"order.completed", "cartClear"})}
      [] OTHER -> Ignored(s)

\* Terminal orders and events that do not belong to the stage are ignored;
\* a quote that cannot be converted to the order's currency cancels.
ApplySagaEvent(s, e) ==
    CASE s.stage = "WAITING_FOR_QUOTE" /\ e = "quote-calculated" ->
            {Advance(s, "WAITING_FOR_AUTHORIZATION", {"authorize"}), Cancel(s)}
      [] s.stage = "WAITING_FOR_QUOTE" /\ e = "quote-failed" -> {Cancel(s)}
      [] s.stage = "WAITING_FOR_AUTHORIZATION" /\ e = "authorized" ->
            {Advance(s, "WAITING_FOR_SHIPMENT", {"createShipment"})}
      [] s.stage = "WAITING_FOR_AUTHORIZATION" /\ e = "authorization-declined" ->
            {Cancel(s)}
      [] s.stage = "WAITING_FOR_SHIPMENT" /\ e = "shipment-created" ->
            {Advance(s, "WAITING_FOR_CAPTURE", {"capture"})}
      [] s.stage = "WAITING_FOR_SHIPMENT" /\ e = "shipment-creation-failed" ->
            {StartCompensation(s, FALSE)}
      [] s.stage = "WAITING_FOR_CAPTURE" /\ e = "captured" ->
            {Advance(s, "COMPLETED", {"order.completed", "cartClear"})}
      [] s.stage = "WAITING_FOR_CAPTURE" /\ e = "capture-failed" ->
            {StartCompensation(s, TRUE)}
      [] s.stage = "COMPENSATING" -> ApplyCompensation(s, e)
      [] OTHER -> Ignored(s)

\* Mutant of ProcessDeadline: the version is compared with the one after the
\* deadline's.
ProcessDeadlineOffByOne(s, v) ==
    IF HasDeadline(s.stage) /\ s.version = v + 1
    THEN {ManualReview([s EXCEPT !.version = s.version + 1],
                       {"order.step-timed-out"})}
    ELSE Ignored(s)

\* A deadline applies only to the version that armed it: two versions at once,
\* step-timed-out and then manual review.
ProcessDeadline(s, v) ==
    IF HasDeadline(s.stage) /\ s.version = v
    THEN {ManualReview([s EXCEPT !.version = s.version + 1],
                       {"order.step-timed-out"})}
    ELSE Ignored(s)

Update(s, i) ==
    CASE i.kind = "deadline" -> ProcessDeadline(s, i.version)
      [] i.kind = "submit"   -> ApplyOrderCommand(s)
      [] OTHER               -> ApplySagaEvent(s, i.kind)

============================================================================
