------------------------- MODULE CheckoutSagaProofs -------------------------
(***************************************************************************)
(* Proofs about CheckoutSaga, for any number of lanes and scanners, any    *)
(* answers of the participants, any retry limit and any number of faults.  *)
(***************************************************************************)
EXTENDS CheckoutSaga, TLAPS

----------------------------------------------------------------------------
(* The pure transitions                                                    *)

\* What every outcome o of an input on a well-formed workspace s guarantees:
\* progress is recorded in the version, a result is decided when its set of
\* stages is entered, and such a set is never left.
StepOK(s, o) ==
    /\ SagaOK(o.saga)
    /\ o.out \in SUBSET Results
    /\ s.version <= o.saga.version
    /\ s.version = o.saga.version => SameSaga(s, o.saga) /\ o.out = {}
    /\ \A r \in o.out : s.stage \notin Reached(r) /\ o.saga.stage \in Reached(r)
    /\ \A r \in Results : s.stage \in Reached(r) => o.saga.stage \in Reached(r)

\* An input that is ignored keeps the workspace.
LEMMA IgnoredOK == ASSUME NEW s, SagaOK(s), NEW o \in Ignored(s) PROVE StepOK(s, o)
  BY DEF StepOK, Ignored, Outcome, SagaOK, Sagas, Versions, SameSaga, MaxVersion

\* Reached, result by result.
LEMMA ReachedValues ==
    /\ Reached("order.submitted") = FromQuote
    /\ Reached("calculateQuote") = FromQuote
    /\ Reached("authorize") = FromAuthorization
    /\ Reached("createShipment") = FromShipment
    /\ Reached("capture") = FromCapture
    /\ Reached("release") = FromCompensating
    /\ Reached("cancelShipment") = FromCompensating
    /\ Reached("order.stage-changed") = FromCompensating
    /\ Reached("order.rejected") = {"REJECTED"}
    /\ Reached("order.completed") = {"COMPLETED"}
    /\ Reached("cartClear") = {"COMPLETED"}
    /\ Reached("order.cancelled") = {"CANCELLED"}
    /\ Reached("order.manual-review") = {"MANUAL_REVIEW"}
    /\ Reached("order.step-timed-out") = {"MANUAL_REVIEW"}
  BY DEF Reached

Later(a, b) ==
    \/ a = "NONE" /\ b \in FromQuote
    \/ a = "WAITING_FOR_QUOTE" /\ b \in FromAuthorization
    \/ a = "WAITING_FOR_AUTHORIZATION" /\ b \in FromShipment
    \/ a = "WAITING_FOR_SHIPMENT" /\ b \in FromCapture
    \/ a = "WAITING_FOR_CAPTURE" /\ b \in FromCompensating
    \/ a = "COMPENSATING" /\ b \in TerminalStages

\* A later stage stays in every set of stages that was reached.
LEMMA ReachedMonotone ==
  ASSUME NEW a, NEW b, Later(a, b), NEW r \in Results, a \in Reached(r)
  PROVE  b \in Reached(r)
  BY ReachedValues DEF Later, Results, Commands, ShippingCommands, PaymentCommands,
     OrderEvents, FromQuote, FromAuthorization, FromShipment, FromCapture,
     FromCompensating, TerminalStages

\* A transition to a later stage that decides results of that stage.
LEMMA MoveOK ==
  ASSUME NEW s, SagaOK(s), NEW o, SagaOK(o.saga), Later(s.stage, o.saga.stage),
         s.version < o.saga.version, o.out \in SUBSET Results,
         \A r \in o.out : s.stage \notin Reached(r) /\ o.saga.stage \in Reached(r)
  PROVE  StepOK(s, o)
<1>1. s.version \in Nat /\ o.saga.version \in Nat
  BY DEF SagaOK, Sagas, Versions, MaxVersion
<1>2. s.version <= o.saga.version /\ s.version # o.saga.version
  BY <1>1
<1>3. \A r \in Results : s.stage \in Reached(r) => o.saga.stage \in Reached(r)
  BY ReachedMonotone
<1> QED BY <1>2, <1>3 DEF StepOK

\* The record updates of the transitions keep the workspace well-formed.
LEMMA BumpOK ==
  ASSUME NEW s, SagaOK(s), NEW t \in Stages,
         \/ s.stage = "NONE" /\ t \in {"WAITING_FOR_QUOTE", "REJECTED"}
         \/ s.stage = "WAITING_FOR_QUOTE" /\ t = "WAITING_FOR_AUTHORIZATION"
         \/ s.stage = "WAITING_FOR_AUTHORIZATION" /\ t = "WAITING_FOR_SHIPMENT"
         \/ s.stage = "WAITING_FOR_SHIPMENT" /\ t = "WAITING_FOR_CAPTURE"
         \/ HasDeadline(s.stage) /\ t \in TerminalStages,
         NEW out
  PROVE  /\ SagaOK(Advance(s, t, out).saga)
         /\ Advance(s, t, out).saga.stage = t
         /\ Advance(s, t, out).saga.version = s.version + 1
         /\ Advance(s, t, out).out = out
<1> DEFINE o == Advance(s, t, out)
<1>1. s \in Sagas /\ s.version \in 0..5
  BY DEF SagaOK, Sagas, Versions, MaxVersion, HasDeadline, WaitingStages
<1>2. s.version + 1 \in Versions
  BY <1>1 DEF Versions, MaxVersion
<1>3. /\ o.out = out
      /\ o.saga = [s EXCEPT !.version = s.version + 1, !.stage = t]
  BY DEF Advance, Outcome
<1>4. o.saga \in Sagas /\ o.saga.stage = t /\ o.saga.version = s.version + 1
  BY <1>1, <1>2, <1>3 DEF Sagas
<1> HIDE DEF o
<1>5. SagaOK(o.saga)
  BY <1>1, <1>4 DEF SagaOK, HasDeadline, TerminalStages, WaitingStages
<1> QED BY <1>3, <1>4, <1>5 DEF o

\* A transition by one version that decides results of the new stage.
LEMMA AdvanceOK ==
  ASSUME NEW s, SagaOK(s), NEW t \in Stages,
         \/ s.stage = "NONE" /\ t \in {"WAITING_FOR_QUOTE", "REJECTED"}
         \/ s.stage = "WAITING_FOR_QUOTE" /\ t = "WAITING_FOR_AUTHORIZATION"
         \/ s.stage = "WAITING_FOR_AUTHORIZATION" /\ t = "WAITING_FOR_SHIPMENT"
         \/ s.stage = "WAITING_FOR_SHIPMENT" /\ t = "WAITING_FOR_CAPTURE"
         \/ HasDeadline(s.stage) /\ t \in TerminalStages,
         NEW out \in SUBSET Results,
         \A r \in out : s.stage \notin Reached(r) /\ t \in Reached(r)
  PROVE  StepOK(s, Advance(s, t, out))
<1>1. /\ SagaOK(Advance(s, t, out).saga)
      /\ Advance(s, t, out).saga.stage = t
      /\ Advance(s, t, out).saga.version = s.version + 1
      /\ Advance(s, t, out).out = out
  BY BumpOK
<1>2. Later(s.stage, t)
  BY DEF Later, HasDeadline, FromQuote, FromAuthorization, FromShipment, FromCapture,
     FromCompensating, TerminalStages, WaitingStages
<1>3. s.version < s.version + 1
  BY DEF SagaOK, Sagas, Versions
<1> QED BY <1>1, <1>2, <1>3, MoveOK

\* processOrderCommand
LEMMA OrderCommandOK ==
  ASSUME NEW s, SagaOK(s), NEW o \in ApplyOrderCommand(s) PROVE StepOK(s, o)
<1>1. CASE s.stage # "NONE"
  BY <1>1, IgnoredOK DEF ApplyOrderCommand
<1>2. CASE s.stage = "NONE"
  BY <1>2, AdvanceOK, ReachedValues
  DEF ApplyOrderCommand, FromQuote, FromAuthorization, FromShipment, FromCapture,
      FromCompensating, Stages, WaitingStages, TerminalStages, Results, OrderEvents,
      Commands, ShippingCommands
<1> QED BY <1>1, <1>2

\* cancel
LEMMA CancelOK ==
  ASSUME NEW s, SagaOK(s), HasDeadline(s.stage) PROVE StepOK(s, Cancel(s))
  BY AdvanceOK, ReachedValues
  DEF Cancel, Stages, HasDeadline, WaitingStages, TerminalStages, Results, OrderEvents

\* manualReview, and the timeout that raises the version once more
LEMMA ManualReviewOK ==
  ASSUME NEW s, SagaOK(s), HasDeadline(s.stage)
  PROVE  /\ StepOK(s, ManualReview(s, {}))
         /\ StepOK(s, ManualReview([s EXCEPT !.version = s.version + 1],
                                   {"order.step-timed-out"}))
<1>1. ManualReview(s, {}) = Advance(s, "MANUAL_REVIEW", {"order.manual-review"})
  BY DEF ManualReview, Advance, Outcome
<1>2. StepOK(s, ManualReview(s, {}))
  BY <1>1, AdvanceOK, ReachedValues
  DEF Stages, HasDeadline, WaitingStages, TerminalStages, Results, OrderEvents
<1> DEFINE u == [s EXCEPT !.version = s.version + 1]
           o == ManualReview(u, {"order.step-timed-out"})
<1>3. s \in Sagas /\ s.version \in 0..5
  BY DEF SagaOK, Sagas, Versions, MaxVersion, HasDeadline, WaitingStages
<1>4. u \in Sagas /\ u.version = s.version + 1
  <2>1. s.version + 1 \in Versions
    BY <1>3 DEF Versions, MaxVersion
  <2> QED BY <1>3, <2>1 DEF Sagas
<1> HIDE DEF u
<1>5. /\ o.saga \in Sagas /\ o.saga.stage = "MANUAL_REVIEW"
      /\ o.saga.version = s.version + 2
      /\ o.out = {"order.step-timed-out", "order.manual-review"}
  <2>1. u.version + 1 \in Versions /\ u.version + 1 = s.version + 2 /\ "MANUAL_REVIEW" \in Stages
    BY <1>3, <1>4 DEF Versions, MaxVersion, Stages, TerminalStages
  <2> QED BY <1>4, <2>1 DEF ManualReview, Outcome, Sagas
<1> HIDE DEF o
<1>6. SagaOK(o.saga) /\ o.saga.stage = "MANUAL_REVIEW" /\ s.version < o.saga.version
  BY <1>3, <1>5 DEF SagaOK
<1>7. Later(s.stage, o.saga.stage)
  BY <1>6 DEF Later, HasDeadline, FromQuote, FromAuthorization, FromShipment, FromCapture,
     FromCompensating, TerminalStages, WaitingStages
<1>8. StepOK(s, o)
  BY <1>5, <1>6, <1>7, MoveOK, ReachedValues
  DEF HasDeadline, WaitingStages, Results, OrderEvents
<1> QED BY <1>2, <1>8 DEF o, u

\* startCompensation, before and after the shipment exists
LEMMA StartCompensationOK ==
  ASSUME NEW s, SagaOK(s), NEW b \in BOOLEAN,
         s.stage \in {"WAITING_FOR_SHIPMENT", "WAITING_FOR_CAPTURE"}
  PROVE  StepOK(s, StartCompensation(s, b))
<1> DEFINE o == StartCompensation(s, b)
<1>1. s \in Sagas /\ s.version \in {3, 4}
  BY DEF SagaOK
<1>2. /\ o.saga = [s EXCEPT !.version = s.version + 1, !.stage = "COMPENSATING",
                            !.needRelease = TRUE, !.needCancel = b]
      /\ o.out \in SUBSET {"release", "order.stage-changed", "cancelShipment"}
  BY DEF StartCompensation, Outcome
<1>3. o.saga \in Sagas /\ o.saga.stage = "COMPENSATING" /\ o.saga.version = s.version + 1
  <2>1. s.version + 1 \in Versions /\ "COMPENSATING" \in Stages
    BY <1>1 DEF Versions, MaxVersion, Stages
  <2> QED BY <1>1, <1>2, <2>1 DEF Sagas
<1> HIDE DEF o
<1>4. SagaOK(o.saga) /\ s.version < o.saga.version
  BY <1>1, <1>3 DEF SagaOK
<1>5. Later(s.stage, o.saga.stage)
  BY <1>3 DEF Later, FromCapture, FromCompensating
<1>6. StepOK(s, o)
  BY <1>2, <1>3, <1>4, <1>5, MoveOK, ReachedValues
  DEF Results, OrderEvents, Commands, PaymentCommands, ShippingCommands,
      FromCompensating, TerminalStages
<1> QED BY <1>6 DEF o

\* finishCompensation after a compensation was recorded
LEMMA FinishCompensationOK ==
  ASSUME NEW s, SagaOK(s), s.stage = "COMPENSATING", NEW t, SagaOK(t),
         t.stage = "COMPENSATING", t.version = s.version
  PROVE  StepOK(s, FinishCompensation(t))
<1>1. CASE FinishCompensation(t) = Outcome(t, {})
  BY <1>1 DEF Outcome, StepOK, SagaOK, SameSaga, Sagas, Versions
<1>2. CASE FinishCompensation(t) = Cancel(t)
  <2>1. StepOK(t, Cancel(t))
    BY CancelOK DEF HasDeadline
  <2>2. Cancel(t).saga.version = t.version + 1 /\ t.version \in Nat
    BY BumpOK DEF Cancel, HasDeadline, Stages, TerminalStages, SagaOK, Sagas, Versions
  <2>3. t.version # Cancel(t).saga.version /\ t.version <= Cancel(t).saga.version
    BY <2>2
  <2> QED BY <1>2, <2>1, <2>3 DEF StepOK
<1> QED BY <1>1, <1>2 DEF FinishCompensation

\* The compensation events
LEMMA CompensationOK ==
  ASSUME NEW s, SagaOK(s), s.stage = "COMPENSATING", NEW e, NEW o \in ApplyCompensation(s, e)
  PROVE  StepOK(s, o)
<1>1. \/ o \in Ignored(s)
      \/ o = ManualReview(s, {})
      \/ o = FinishCompensation([s EXCEPT !.released = TRUE])
      \/ o = FinishCompensation([s EXCEPT !.shipCancelled = TRUE])
  BY Zenon DEF ApplyCompensation
<1>2. ASSUME NEW t, \/ t = [s EXCEPT !.released = TRUE]
                    \/ t = [s EXCEPT !.shipCancelled = TRUE]
      PROVE  SagaOK(t) /\ t.stage = "COMPENSATING" /\ t.version = s.version
  <2>1. t \in Sagas /\ t.stage = s.stage /\ t.version = s.version
    BY <1>2 DEF SagaOK, Sagas
  <2> QED BY <2>1 DEF SagaOK
<1>3. HasDeadline(s.stage)
  BY DEF HasDeadline
<1> QED BY <1>1, <1>2, <1>3, IgnoredOK, ManualReviewOK, FinishCompensationOK

\* applySagaEvent
LEMMA SagaEventOK ==
  ASSUME NEW s, SagaOK(s), NEW e, NEW o \in ApplySagaEvent(s, e)
  PROVE  StepOK(s, o)
<1>1. \/ o \in Ignored(s)
      \/ s.stage = "COMPENSATING" /\ o \in ApplyCompensation(s, e)
      \/ s.stage \in {"WAITING_FOR_QUOTE", "WAITING_FOR_AUTHORIZATION"} /\ o = Cancel(s)
      \/ s.stage \in {"WAITING_FOR_SHIPMENT", "WAITING_FOR_CAPTURE"}
         /\ o \in {StartCompensation(s, FALSE), StartCompensation(s, TRUE)}
      \/ s.stage = "WAITING_FOR_QUOTE"
         /\ o = Advance(s, "WAITING_FOR_AUTHORIZATION", {"authorize"})
      \/ s.stage = "WAITING_FOR_AUTHORIZATION"
         /\ o = Advance(s, "WAITING_FOR_SHIPMENT", {"createShipment"})
      \/ s.stage = "WAITING_FOR_SHIPMENT"
         /\ o = Advance(s, "WAITING_FOR_CAPTURE", {"capture"})
      \/ s.stage = "WAITING_FOR_CAPTURE"
         /\ o = Advance(s, "COMPLETED", {"order.completed", "cartClear"})
  BY Zenon DEF ApplySagaEvent
<1>2. CASE s.stage = "COMPENSATING" /\ o \in ApplyCompensation(s, e)
  BY <1>2, CompensationOK
<1>3. CASE s.stage \in {"WAITING_FOR_QUOTE", "WAITING_FOR_AUTHORIZATION"} /\ o = Cancel(s)
  BY <1>3, CancelOK DEF HasDeadline, WaitingStages
<1>4. CASE s.stage \in {"WAITING_FOR_SHIPMENT", "WAITING_FOR_CAPTURE"}
           /\ o \in {StartCompensation(s, FALSE), StartCompensation(s, TRUE)}
  BY <1>4, StartCompensationOK
<1>5. CASE s.stage = "WAITING_FOR_QUOTE"
           /\ o = Advance(s, "WAITING_FOR_AUTHORIZATION", {"authorize"})
  BY <1>5, AdvanceOK, ReachedValues
  DEF FromAuthorization, FromShipment, FromCapture, FromCompensating, Stages,
      WaitingStages, TerminalStages, Results, Commands, PaymentCommands
<1>6. CASE s.stage = "WAITING_FOR_AUTHORIZATION"
           /\ o = Advance(s, "WAITING_FOR_SHIPMENT", {"createShipment"})
  BY <1>6, AdvanceOK, ReachedValues
  DEF FromShipment, FromCapture, FromCompensating, Stages,
      WaitingStages, TerminalStages, Results, Commands, ShippingCommands
<1>7. CASE s.stage = "WAITING_FOR_SHIPMENT"
           /\ o = Advance(s, "WAITING_FOR_CAPTURE", {"capture"})
  BY <1>7, AdvanceOK, ReachedValues
  DEF FromCapture, FromCompensating, Stages, WaitingStages, TerminalStages, Results,
      Commands, PaymentCommands
<1>8. CASE s.stage = "WAITING_FOR_CAPTURE"
           /\ o = Advance(s, "COMPLETED", {"order.completed", "cartClear"})
  BY <1>8, AdvanceOK, ReachedValues
  DEF HasDeadline, Stages, WaitingStages, TerminalStages, Results, OrderEvents
<1> QED BY <1>1, <1>2, <1>3, <1>4, <1>5, <1>6, <1>7, <1>8, IgnoredOK

\* Every input, a deadline included
LEMMA UpdateOK ==
  ASSUME NEW s, SagaOK(s), NEW i \in Inputs, NEW o \in Update(s, i)
  PROVE  StepOK(s, o)
<1>1. \/ o \in Ignored(s)
      \/ o \in ApplyOrderCommand(s)
      \/ o \in ApplySagaEvent(s, i.kind)
      \/ /\ HasDeadline(s.stage)
         /\ o = ManualReview([s EXCEPT !.version = s.version + 1], {"order.step-timed-out"})
  BY Zenon DEF Update, ProcessDeadline
<1> QED BY <1>1, IgnoredOK, OrderCommandOK, SagaEventOK, ManualReviewOK

\* A terminal order ignores every input.
LEMMA TerminalIgnored ==
  ASSUME NEW s, s.stage \in TerminalStages, NEW i \in Inputs, NEW o \in Update(s, i)
  PROVE  o = Outcome(s, {})
<1>1. /\ ~HasDeadline(s.stage) /\ s.stage # "NONE" /\ s.stage \notin WaitingStages
      /\ s.stage # "COMPENSATING"
  BY DEF TerminalStages, HasDeadline, WaitingStages
<1>2. \/ o \in Ignored(s) \/ o \in ApplyOrderCommand(s) \/ o \in ApplySagaEvent(s, i.kind)
  BY <1>1, Zenon DEF Update, ProcessDeadline
<1>3. o \in ApplySagaEvent(s, i.kind) => o \in Ignored(s) \/ s.stage \in WaitingStages
  <2>1. \/ o \in ApplySagaEvent(s, i.kind) => o \in Ignored(s)
        \/ s.stage = "WAITING_FOR_QUOTE" \/ s.stage = "WAITING_FOR_AUTHORIZATION"
        \/ s.stage = "WAITING_FOR_SHIPMENT" \/ s.stage = "WAITING_FOR_CAPTURE"
    BY <1>1, Zenon DEF ApplySagaEvent
  <2> QED BY <2>1 DEF WaitingStages
<1> QED BY <1>1, <1>2, <1>3 DEF ApplyOrderCommand, Ignored

\* A deadline either decides the order or finds that it is not the order's.
LEMMA DeadlineOK ==
  ASSUME NEW s, SagaOK(s), NEW i \in Inputs, IsDeadline(i), NEW o \in Update(s, i)
  PROVE  /\ i = Deadline(i.version) /\ i.version \in Versions
         /\ \/ o.saga = s /\ (HasDeadline(s.stage) => i.version # s.version)
            \/ o.saga.stage = "MANUAL_REVIEW" /\ s.version = i.version
<1>1. PICK v \in Versions : i = Deadline(v)
  BY DEF Inputs, IsDeadline, Msg, MessageNames, EventNames
<1>2. i.version = v /\ i.kind = "deadline"
  BY <1>1 DEF Deadline
<1>3. o \in ProcessDeadline(s, v)
  BY <1>2, Zenon DEF Update
<1>4. \/ o = Outcome(s, {}) /\ ~(HasDeadline(s.stage) /\ s.version = v)
      \/ /\ HasDeadline(s.stage) /\ s.version = v
         /\ o = ManualReview([s EXCEPT !.version = s.version + 1], {"order.step-timed-out"})
  BY <1>3, Zenon DEF ProcessDeadline, Ignored
<1>5. ASSUME NEW u \in Sagas PROVE ManualReview(u, {"order.step-timed-out"}).saga.stage = "MANUAL_REVIEW"
  BY DEF ManualReview, Outcome, Sagas
<1>6. ASSUME s.version = v, HasDeadline(s.stage)
      PROVE  [s EXCEPT !.version = s.version + 1] \in Sagas
  <2>1. s \in Sagas /\ s.version + 1 \in Versions
    BY <1>6 DEF SagaOK, Sagas, Versions, MaxVersion, HasDeadline, WaitingStages
  <2> QED BY <2>1 DEF Sagas
<1> QED BY <1>1, <1>2, <1>4, <1>5, <1>6 DEF Outcome

----------------------------------------------------------------------------
(* Types of the values a worker step builds                                *)

\* An input is a deadline of some version or a delivered message.
LEMMA InputForms ==
  ASSUME NEW i \in Inputs
  PROVE  /\ IsDeadline(i) => i = Deadline(i.version) /\ i.version \in Versions
         /\ ~IsDeadline(i) => i = Msg(i.kind) /\ i.kind \in MessageNames
  BY DEF Inputs, IsDeadline, Msg, Deadline, MessageNames, EventNames

\* The three worker states that the actions build from scratch are well typed.
LEMMA WorkerForms ==
  /\ Idle \in WorkerStates /\ Idle.pc = "idle" /\ ~IsDeadline(Idle.input)
  /\ \A i \in Inputs, a \in 0..RetryLimit :
       /\ Loading(i, a) \in WorkerStates
       /\ Loading(i, a).pc = "load" /\ Loading(i, a).input = i
  /\ \A i \in Inputs, R \in SUBSET Results :
       /\ Publishing(i, R) \in WorkerStates
       /\ Publishing(i, R).pc = "publish" /\ Publishing(i, R).input = i
       /\ Publishing(i, R).todo = R
<1>1. Msg("submit") \in Inputs /\ ~IsDeadline(Msg("submit"))
  BY DEF Inputs, Msg, MessageNames, IsDeadline
<1>2. NoSaga \in Sagas
  BY DEF NoSaga, Sagas, Stages, Versions, MaxVersion
<1>3. 0 \in 0..RetryLimit
  BY BoundsAssumption
<1>4. /\ Idle = [pc |-> "idle", input |-> Msg("submit"), loaded |-> NoSaga,
                 todo |-> {}, attempts |-> 0]
      /\ Idle \in WorkerStates
  BY <1>1, <1>2, <1>3 DEF Idle, WorkerStates, Pcs
<1>5. ASSUME NEW i \in Inputs, NEW a \in 0..RetryLimit
      PROVE  /\ Loading(i, a) \in WorkerStates
             /\ Loading(i, a).pc = "load" /\ Loading(i, a).input = i
  BY <1>4 DEF Loading, WorkerStates, Pcs
<1>6. ASSUME NEW i \in Inputs, NEW R \in SUBSET Results
      PROVE  /\ Publishing(i, R) \in WorkerStates
             /\ Publishing(i, R).pc = "publish" /\ Publishing(i, R).input = i
             /\ Publishing(i, R).todo = R
  BY <1>4 DEF Publishing, WorkerStates, Pcs
<1>7. Idle.pc = "idle" /\ Idle.input = Msg("submit")
  BY <1>4
<1> QED BY <1>1, <1>4, <1>5, <1>6, <1>7

\* A worker in one of these forms has nothing in memory that can go wrong.
LEMMA IdleWorkerOK ==
  ASSUME NEW w \in Workers, worker[w] = Idle PROVE WorkerOK(w)
  BY WorkerForms DEF WorkerOK

----------------------------------------------------------------------------
(* Initial state                                                           *)

\* The invariant holds before the order command is delivered.
LEMMA SagaInitInv == Init => SagaInv
<1> SUFFICES ASSUME Init PROVE SagaInv
  OBVIOUS
<1>1. NoSaga \in Sagas /\ NoSaga.stage = "NONE" /\ NoSaga.version = 0 /\ SagaOK(NoSaga)
  BY DEF NoSaga, Sagas, Stages, Versions, MaxVersion, SagaOK
<1>2. ~HasDeadline(saga.stage)
  BY <1>1 DEF Init, HasDeadline, WaitingStages
<1>3. \A v \in Versions : lease[v].done = FALSE
  BY DEF Init
<1>4. TypeOK
  <2>1. lease \in [Versions -> Leases]
    BY DEF Init, Leases
  <2>2. worker \in [Workers -> WorkerStates] /\ journal \in [Inputs -> SUBSET Results]
    BY WorkerForms DEF Init
  <2>3. /\ stream \in SUBSET MessageNames /\ queued \in SUBSET stream
        /\ deadline \in Versions /\ faults \in 0..MaxFaults
    BY BoundsAssumption DEF Init, MessageNames, Versions, MaxVersion
  <2>4. dueIndex \in BOOLEAN /\ projected \in BOOLEAN
    BY Zenon DEF Init
  <2> QED
    BY <1>1, <2>1, <2>2, <2>3, <2>4 DEF Init, TypeOK
<1>5. \A w \in Workers : WorkerOK(w)
  BY IdleWorkerOK DEF Init
<1>6. DeadlinesOK
  BY <1>1, <1>3 DEF Init, DeadlinesOK
<1> QED
  BY <1>1, <1>2, <1>4, <1>5, <1>6
  DEF Init, SagaInv, JournalOK, PublishedOK, DeadlineDiscoverable, ResultsOnce

----------------------------------------------------------------------------
(* The write of commitOrderScript                                          *)

\* A transition computed on a workspace of the stored version is written: every
\* part of the invariant but the writer's own memory is preserved.
LEMMA WriteInv ==
  ASSUME SagaInv, NEW w \in Workers, CommitGuard(w),
         NEW o \in Update(worker[w].loaded, worker[w].input),
         WriteOutcome(worker[w].input, o),
         UNCHANGED <<lease, stream, published>>
  PROVE  /\ saga' \in Sagas /\ processed' \in SUBSET Inputs
         /\ journal' \in [Inputs -> SUBSET Results]
         /\ dueIndex' \in BOOLEAN /\ deadline' \in Versions
         /\ SagaOK(saga)' /\ JournalOK' /\ PublishedOK'
         /\ DeadlinesOK' /\ DeadlineDiscoverable' /\ ResultsOnce'
         /\ saga.version <= saga'.version
         /\ saga'.stage # saga.stage => saga.version # saga'.version
         /\ saga.stage \in TerminalStages => saga' = saga
         /\ worker[w].input \in processed' /\ journal'[worker[w].input] = o.out
         /\ \A i \in processed : i \in processed' /\ journal'[i] = journal[i]
         /\ \A v \in Workers : worker'[v] = worker[v] => WorkerOK(v)'
<1> DEFINE i == worker[w].input
           s == worker[w].loaded
<1>1. i \in Inputs /\ i \notin processed /\ SagaOK(s) /\ s.version = saga.version
      /\ SameSaga(s, saga) /\ SagaOK(saga)
      /\ (IsDeadline(i) => i.version <= saga.version)
  BY DEF SagaInv, TypeOK, CommitGuard, WorkerOK, WorkerStates
<1>2. StepOK(s, o)
  BY <1>1, UpdateOK
<1>3. /\ saga' = o.saga
      /\ processed' = processed \cup {i}
      /\ journal' = [journal EXCEPT ![i] = o.out]
  BY DEF WriteOutcome
<1>4. /\ IsDeadline(i) => dueIndex' = dueIndex /\ deadline' = deadline
      /\ ~IsDeadline(i) => /\ dueIndex' = HasDeadline(o.saga.stage)
                           /\ deadline' = IF HasDeadline(o.saga.stage)
                                          THEN o.saga.version ELSE 0
  BY DEF WriteOutcome
<1>5. IsDeadline(i) =>
        /\ i = Deadline(i.version) /\ i.version \in Versions
        /\ \/ o.saga = s /\ (HasDeadline(s.stage) => i.version # s.version)
           \/ o.saga.stage = "MANUAL_REVIEW" /\ s.version = i.version
  BY <1>1, DeadlineOK
<1> HIDE DEF i, s
<1>6. /\ saga.version \in Nat /\ o.saga.version \in Nat
      /\ saga.version <= o.saga.version /\ SagaOK(o.saga) /\ s.stage = saga.stage
      /\ saga.version = o.saga.version => SameSaga(s, o.saga)
      /\ o.out \in SUBSET Results
  BY <1>1, <1>2 DEF StepOK, SagaOK, Sagas, Versions, SameSaga
<1>7. /\ journal'[i] = o.out
      /\ \A j \in processed : j \in processed' /\ j # i /\ journal'[j] = journal[j]
      /\ \A j \in processed' : j = i \/ j \in processed
  BY <1>1, <1>3 DEF SagaInv, TypeOK
<1>8. /\ saga' \in Sagas /\ processed' \in SUBSET Inputs
      /\ journal' \in [Inputs -> SUBSET Results]
      /\ dueIndex' \in BOOLEAN /\ deadline' \in Versions
  <2>1. saga' \in Sagas /\ processed' \in SUBSET Inputs
        /\ journal' \in [Inputs -> SUBSET Results]
    BY <1>1, <1>3, <1>6 DEF SagaInv, TypeOK, SagaOK
  <2>2. deadline' \in Versions
    BY <1>4, <1>6 DEF SagaInv, TypeOK, SagaOK, Sagas, Versions, MaxVersion
  <2>3. dueIndex' \in BOOLEAN
    <3>1. dueIndex \in BOOLEAN /\ HasDeadline(o.saga.stage) \in BOOLEAN
      <4>1. dueIndex \in BOOLEAN
        BY Zenon DEF SagaInv, TypeOK
      <4>2. HasDeadline(o.saga.stage) \in BOOLEAN
        BY SMT DEF HasDeadline
      <4> QED BY <4>1, <4>2, Zenon
    <3>2. CASE IsDeadline(i)
      BY <1>4, <3>1, <3>2, Zenon
    <3>3. CASE ~IsDeadline(i)
      BY <1>4, <3>1, <3>3, Zenon
    <3> QED BY <3>2, <3>3, Zenon
  <2> QED BY <2>1, <2>2, <2>3
<1>9. SagaOK(saga)'
  BY <1>3, <1>6 DEF SagaOK
<1>10. JournalOK'
  <2> SUFFICES ASSUME NEW j \in processed', NEW r \in journal'[j]
               PROVE  saga'.stage \in Reached(r)
    BY DEF JournalOK, Reached
  <2>1. CASE j = i
    BY <1>2, <1>3, <1>7, <2>1 DEF StepOK
  <2>2. CASE j \in processed
    <3>1. r \in Results /\ s.stage \in Reached(r)
      BY <1>6, <1>7, <2>2 DEF SagaInv, TypeOK, JournalOK
    <3> QED BY <1>2, <1>3, <3>1 DEF StepOK
  <2> QED BY <1>7, <2>1, <2>2
<1>11. PublishedOK'
  BY <1>7 DEF SagaInv, PublishedOK
<1>12. ResultsOnce'
  <2>1. \A j \in processed : o.out \cap journal[j] = {}
    BY <1>2, <1>6 DEF StepOK, SagaInv, JournalOK
  <2> QED BY <1>7, <2>1 DEF SagaInv, ResultsOnce
<1>13. DeadlineDiscoverable'
  <2>1. CASE ~IsDeadline(i)
    <3>1. HasDeadline(o.saga.stage) => dueIndex' /\ deadline' = o.saga.version
      BY <1>4, <2>1, Zenon
    <3> QED BY <1>3, <3>1 DEF DeadlineDiscoverable, HasDeadline
  <2>2. CASE IsDeadline(i)
    <3>1. HasDeadline(o.saga.stage) => HasDeadline(saga.stage) /\ o.saga.version = saga.version
      BY <1>1, <1>5, <1>6, <2>2 DEF HasDeadline, WaitingStages
    <3>2. HasDeadline(saga.stage) => dueIndex /\ deadline = saga.version
      BY DEF SagaInv, DeadlineDiscoverable
    <3>3. HasDeadline(o.saga.stage) => dueIndex' /\ deadline' = o.saga.version
      <4>1. dueIndex' = dueIndex /\ deadline' = deadline
        BY <1>4, <2>2
      <4> QED BY <3>1, <3>2, <4>1, Zenon
    <3> QED BY <1>3, <3>3 DEF DeadlineDiscoverable, HasDeadline
  <2> QED BY <2>1, <2>2
<1>14. DeadlinesOK'
  <2>1. deadline' <= saga'.version
    BY <1>3, <1>4, <1>6 DEF SagaInv, DeadlinesOK, TypeOK, Versions
  <2>2. ASSUME NEW v \in Versions, Deadline(v) \in processed'
        PROVE  v <= saga'.version /\ (HasDeadline(saga'.stage) => v # saga'.version)
    <3>1. CASE Deadline(v) \in processed
      BY <1>3, <1>6, <3>1 DEF SagaInv, DeadlinesOK, Versions, SameSaga
    <3>2. CASE Deadline(v) = i
      <4>1. i.version = v /\ IsDeadline(i)
        BY <3>2 DEF Deadline, IsDeadline
      <4> QED
        BY <1>1, <1>3, <1>5, <1>6, <4>1 DEF Versions, HasDeadline, WaitingStages
    <3> QED BY <1>7, <2>2, <3>1, <3>2
  <2>3. \A v \in Versions : lease'[v].done => Deadline(v) \in processed'
    BY <1>7 DEF SagaInv, DeadlinesOK
  <2> QED BY <2>1, <2>2, <2>3 DEF DeadlinesOK, HasDeadline, Deadline
<1>15. ASSUME NEW v \in Workers, worker'[v] = worker[v] PROVE WorkerOK(v)'
  <2> DEFINE x == worker[v]
  <2>1. WorkerOK(v) /\ x \in WorkerStates
    BY DEF SagaInv, TypeOK
  <2>2. x.pc = "commit" => /\ SagaOK(x.loaded)
                           /\ x.loaded.version <= saga'.version
                           /\ x.loaded.version = saga'.version => SameSaga(x.loaded, saga')
    <3> SUFFICES ASSUME x.pc = "commit"
                 PROVE  /\ SagaOK(x.loaded)
                        /\ x.loaded.version <= saga'.version
                        /\ x.loaded.version = saga'.version => SameSaga(x.loaded, saga')
      OBVIOUS
    <3>1. /\ SagaOK(x.loaded) /\ x.loaded.version \in Nat
          /\ x.loaded.version <= saga.version
          /\ x.loaded.version = saga.version => SameSaga(x.loaded, saga)
      BY <2>1 DEF WorkerOK, SagaOK, Sagas, Versions
    <3>2. x.loaded.version <= o.saga.version
      BY <1>6, <3>1
    <3>3. ASSUME x.loaded.version = o.saga.version PROVE SameSaga(x.loaded, o.saga)
      <4>1. x.loaded.version = saga.version /\ saga.version = o.saga.version
        BY <1>6, <3>1, <3>3
      <4> QED BY <1>1, <1>6, <3>1, <4>1 DEF SameSaga
    <3> QED BY <1>3, <3>1, <3>2, <3>3
  <2>3. x.pc = "publish" => x.input \in processed' /\ x.todo \subseteq journal'[x.input]
    BY <1>7, <2>1 DEF WorkerOK
  <2>4. x.pc = "finish" => x.input \in processed'
    BY <1>7, <2>1 DEF WorkerOK
  <2>5. IsDeadline(x.input) => x.input.version <= saga'.version
    <3>1. IsDeadline(x.input) => x.input.version \in Nat /\ x.input.version <= saga.version
      BY <2>1, InputForms DEF WorkerOK, WorkerStates, Versions
    <3> QED BY <1>3, <1>6, <3>1
  <2> QED
    BY <1>15, <2>1, <2>2, <2>3, <2>4, <2>5
    DEF WorkerOK, SagaOK, SameSaga, IsDeadline
<1>16. saga'.stage # saga.stage => saga.version # saga'.version
  BY <1>3, <1>6 DEF SameSaga
<1>17. saga.stage \in TerminalStages => saga' = saga
  <2>1. saga.stage \in TerminalStages => s = saga
    BY <1>1 DEF SameSaga, TerminalStages
  <2> QED BY <1>1, <1>3, <2>1, TerminalIgnored DEF Outcome, i, s
<1> QED
  BY <1>3, <1>6, <1>7, <1>8, <1>9, <1>10, <1>11, <1>12, <1>13, <1>14, <1>15, <1>16, <1>17
  DEF i

----------------------------------------------------------------------------
(* Steps that leave the order's workspace alone                            *)

\* A worker that keeps its memory keeps its part of the invariant.
LEMMA OtherWorkerOK ==
  ASSUME NEW v \in Workers, WorkerOK(v), UNCHANGED <<saga, processed, journal>>,
         stream \subseteq stream', worker'[v] = worker[v]
  PROVE  WorkerOK(v)'
  BY DEF WorkerOK, SagaOK, SameSaga, IsDeadline

\* One worker moves: what is left to show is the types, the new memory of that
\* worker, and what it published or completed.
LEMMA LocalStep ==
  ASSUME SagaInv, UNCHANGED redis, NEW w \in Workers, NEW x,
         TypeOK', worker' = [worker EXCEPT ![w] = x], WorkerOK(w)',
         stream \subseteq stream',
         \A r \in published' : r \in published \/ \E i \in processed : r \in journal[i],
         \A v \in Versions : lease'[v].done => Deadline(v) \in processed
  PROVE  SagaInv'
<1>1. \A v \in Workers : WorkerOK(v)'
  <2> SUFFICES ASSUME NEW v \in Workers, v # w PROVE WorkerOK(v)'
    OBVIOUS
  <2>1. worker'[v] = worker[v]
    BY DEF SagaInv, TypeOK
  <2> QED BY <2>1, OtherWorkerOK DEF SagaInv, redis
<1>2. SagaOK(saga)' /\ JournalOK' /\ ResultsOnce'
  BY DEF SagaInv, redis, SagaOK, JournalOK, Reached, ResultsOnce
<1>3. PublishedOK'
  BY DEF SagaInv, redis, PublishedOK
<1>4. DeadlinesOK'
  BY DEF SagaInv, redis, DeadlinesOK, HasDeadline, Deadline
<1>5. DeadlineDiscoverable'
  <2>1. DeadlineDiscoverable /\ UNCHANGED <<saga, dueIndex, deadline>>
    BY DEF SagaInv, redis
  <2> QED BY <2>1, Zenon DEF DeadlineDiscoverable, HasDeadline
<1> QED BY <1>1, <1>2, <1>3, <1>4, <1>5 DEF SagaInv

\* The workers' types after one of them moved.
LEMMA WorkerTypes ==
  ASSUME TypeOK, NEW w \in Workers, NEW x \in WorkerStates,
         worker' = [worker EXCEPT ![w] = x]
  PROVE  worker' \in [Workers -> WorkerStates] /\ worker'[w] = x
  BY DEF TypeOK

\* Returning a message to the broker, for a worker that has one.
LEMMA RequeueTypes ==
  ASSUME TypeOK, NEW w \in Workers, WorkerOK(w), worker[w].pc # "idle",
         Requeue(worker[w].input), stream' = stream
  PROVE  queued' \in SUBSET stream' /\ dropped' \in SUBSET stream'
  BY DEF TypeOK, WorkerOK, Requeue, WorkerStates

\* A step that ends a worker's claim or delivery.
LEMMA GoIdle ==
  ASSUME SagaInv, UNCHANGED <<redis, lease, stream, published, projected>>,
         NEW w \in Workers, worker' = [worker EXCEPT ![w] = Idle],
         queued' \in SUBSET stream', dropped' \in SUBSET stream', faults' \in 0..MaxFaults
  PROVE  SagaInv'
<1>1. worker' \in [Workers -> WorkerStates] /\ worker'[w] = Idle
  BY WorkerTypes, WorkerForms DEF SagaInv
<1>2. TypeOK'
  BY <1>1, Zenon DEF SagaInv, TypeOK, redis
<1>3. WorkerOK(w)'
  BY <1>1, WorkerForms DEF WorkerOK
<1>4. \A v \in Versions : lease'[v].done => Deadline(v) \in processed
  BY DEF SagaInv, DeadlinesOK
<1> QED BY <1>1, <1>2, <1>3, <1>4, LocalStep DEF SagaInv

\* The delivery of a message and the load of its workspace
LEMMA DeliverInv ==
  ASSUME SagaInv, NEW w \in Workers, NEW m \in MessageNames, Deliver(w, m) PROVE SagaInv'
<1> DEFINE x == Loading(Msg(m), 0)
<1>1. Msg(m) \in Inputs /\ ~IsDeadline(Msg(m)) /\ Msg(m).kind = m /\ 0 \in 0..RetryLimit
  BY BoundsAssumption DEF Inputs, Msg, IsDeadline, MessageNames, EventNames
<1>2. x \in WorkerStates /\ x.pc = "load" /\ x.input = Msg(m)
  BY <1>1, WorkerForms
<1>3. worker' = [worker EXCEPT ![w] = x] /\ stream' = stream /\ m \in stream
  BY DEF Deliver, SagaInv, TypeOK
<1> HIDE DEF x
<1>4. worker' \in [Workers -> WorkerStates] /\ worker'[w] = x
  BY <1>2, <1>3, WorkerTypes DEF SagaInv
<1>5. TypeOK'
  <2>1. queued' \in SUBSET stream'
    BY <1>3 DEF Deliver, SagaInv, TypeOK
  <2> QED BY <1>4, <2>1, Zenon DEF Deliver, SagaInv, TypeOK, redis
<1>6. WorkerOK(w)'
  BY <1>1, <1>2, <1>3, <1>4 DEF WorkerOK, IsDeadline
<1>7. \A v \in Versions : lease'[v].done => Deadline(v) \in processed
  BY DEF Deliver, SagaInv, DeadlinesOK
<1>8. UNCHANGED redis /\ published' = published
  BY DEF Deliver
<1> QED BY <1>3, <1>5, <1>6, <1>7, <1>8, LocalStep

\* loadOrderWorkspace copies the stored workspace, so the copy is current.
LEMMA LoadInv == ASSUME SagaInv, NEW w \in Workers, Load(w) PROVE SagaInv'
<1> DEFINE x == [worker[w] EXCEPT !.pc = "commit", !.loaded = saga]
<1>1. worker[w] \in WorkerStates /\ saga \in Sagas /\ worker[w].pc = "load"
  BY DEF SagaInv, TypeOK, Load
<1>2. x \in WorkerStates /\ x.pc = "commit" /\ x.loaded = saga /\ x.input = worker[w].input
  BY <1>1 DEF WorkerStates, Pcs
<1>3. worker' = [worker EXCEPT ![w] = x]
  BY DEF Load
<1> HIDE DEF x
<1>4. worker' \in [Workers -> WorkerStates] /\ worker'[w] = x
  BY <1>2, <1>3, WorkerTypes DEF SagaInv
<1>5. TypeOK'
  BY <1>4, Zenon DEF Load, SagaInv, TypeOK, redis, broker
<1>6. WorkerOK(w)'
  <2>1. WorkerOK(w) /\ SagaOK(saga) /\ UNCHANGED <<saga, stream>>
    BY DEF SagaInv, Load, redis, broker
  <2>2. saga.version <= saga.version /\ SameSaga(saga, saga)
    BY <1>1 DEF Sagas, Versions, SameSaga
  <2> QED BY <1>1, <1>2, <1>4, <2>1, <2>2 DEF WorkerOK, SagaOK, SameSaga, IsDeadline
<1>7. \A v \in Versions : lease'[v].done => Deadline(v) \in processed
  BY DEF Load, SagaInv, DeadlinesOK
<1>8. UNCHANGED redis /\ published' = published /\ stream' = stream
  BY DEF Load, broker
<1> QED BY <1>3, <1>5, <1>6, <1>7, <1>8, LocalStep

\* Steps that end in idle
LEMMA IdleInv ==
  ASSUME SagaInv, NEW w \in Workers, NakLag(w) \/ Ack(w) \/ Abandon(w) PROVE SagaInv'
<1>1. /\ UNCHANGED <<redis, lease, stream, published, projected>>
      /\ worker' = [worker EXCEPT ![w] = Idle] /\ worker[w].pc # "idle"
  BY DEF NakLag, Ack, Abandon, broker
<1>2. queued' \in SUBSET stream' /\ dropped' \in SUBSET stream'
  <2>1. CASE NakLag(w) \/ Abandon(w)
    BY <1>1, <2>1, RequeueTypes DEF NakLag, Abandon, SagaInv
  <2>2. CASE Ack(w)
    BY <2>2 DEF Ack, broker, SagaInv, TypeOK
  <2> QED BY <2>1, <2>2
<1>3. faults' \in 0..MaxFaults
  BY BoundsAssumption DEF NakLag, Ack, Abandon, SagaInv, TypeOK
<1> QED BY <1>1, <1>2, <1>3, GoIdle

\* A duplicate input publishes what the journal holds for it.
LEMMA CommitDuplicateInv ==
  ASSUME SagaInv, NEW w \in Workers, CommitDuplicate(w) PROVE SagaInv'
<1> DEFINE i == worker[w].input
           x == Publishing(i, journal[i])
<1>1. i \in Inputs /\ i \in processed /\ journal[i] \in SUBSET Results /\ worker[w].pc = "commit"
  BY DEF SagaInv, TypeOK, CommitDuplicate, WorkerStates
<1>2. x \in WorkerStates /\ x.pc = "publish" /\ x.input = i /\ x.todo = journal[i]
  BY <1>1, WorkerForms
<1>3. worker' = [worker EXCEPT ![w] = x]
  BY DEF CommitDuplicate
<1> HIDE DEF x
<1>4. worker' \in [Workers -> WorkerStates] /\ worker'[w] = x
  BY <1>2, <1>3, WorkerTypes DEF SagaInv
<1>5. TypeOK'
  BY <1>4, Zenon DEF CommitDuplicate, SagaInv, TypeOK, redis, broker
<1>6. WorkerOK(w)'
  <2>1. WorkerOK(w) /\ UNCHANGED <<saga, processed, journal, stream>>
    BY DEF SagaInv, CommitDuplicate, redis, broker
  <2> QED BY <1>1, <1>2, <1>4, <2>1 DEF WorkerOK, IsDeadline
<1>7. \A v \in Versions : lease'[v].done => Deadline(v) \in processed
  BY DEF CommitDuplicate, SagaInv, DeadlinesOK
<1>8. UNCHANGED redis /\ published' = published /\ stream' = stream
  BY DEF CommitDuplicate, broker
<1> QED BY <1>3, <1>5, <1>6, <1>7, <1>8, LocalStep

\* A version conflict loads again or returns the message.
LEMMA CommitConflictInv ==
  ASSUME SagaInv, NEW w \in Workers, CommitConflict(w) PROVE SagaInv'
<1> DEFINE i == worker[w].input
           a == worker[w].attempts + 1
<1>1. i \in Inputs /\ worker[w].attempts \in Nat /\ worker[w].pc = "commit"
  BY BoundsAssumption DEF SagaInv, TypeOK, CommitConflict, WorkerStates
<1>2. CASE a < RetryLimit
  <2> DEFINE x == Loading(i, a)
  <2>1. a \in 0..RetryLimit
    BY <1>1, <1>2, BoundsAssumption
  <2>2. x \in WorkerStates /\ x.pc = "load" /\ x.input = i
    BY <1>1, <2>1, WorkerForms
  <2>3. /\ worker' = [worker EXCEPT ![w] = x]
        /\ UNCHANGED <<redis, lease, stream, queued, dropped, published, projected, faults>>
    BY <1>2 DEF CommitConflict
  <2> HIDE DEF x
  <2>4. worker' \in [Workers -> WorkerStates] /\ worker'[w] = x
    BY <2>2, <2>3, WorkerTypes DEF SagaInv
  <2>5. TypeOK'
    BY <2>3, <2>4, Zenon DEF SagaInv, TypeOK, redis
  <2>6. WorkerOK(w)'
    <3>1. WorkerOK(w) /\ UNCHANGED <<saga, stream>>
      BY <2>3 DEF SagaInv, redis
    <3> QED BY <1>1, <2>2, <2>4, <3>1 DEF WorkerOK, IsDeadline
  <2>7. \A v \in Versions : lease'[v].done => Deadline(v) \in processed
    BY <2>3 DEF SagaInv, DeadlinesOK
  <2> QED BY <2>3, <2>5, <2>6, <2>7, LocalStep
<1>3. CASE ~(a < RetryLimit)
  <2>1. /\ UNCHANGED <<redis, lease, stream, published, projected, faults>>
        /\ worker' = [worker EXCEPT ![w] = Idle] /\ Requeue(i)
    BY <1>3 DEF CommitConflict
  <2>2. queued' \in SUBSET stream' /\ dropped' \in SUBSET stream'
    BY <1>1, <2>1, RequeueTypes DEF SagaInv
  <2>3. faults' \in 0..MaxFaults
    BY <2>1 DEF SagaInv, TypeOK
  <2> QED BY <2>1, <2>2, <2>3, GoIdle
<1> QED BY <1>2, <1>3

\* Both commits: the write, and a writer that publishes what it wrote or, when
\* the reply was lost, loads again.
LEMMA CommitInv ==
  ASSUME SagaInv, NEW w \in Workers, Commit(w) \/ CommitReplyLost(w) PROVE SagaInv'
<1> DEFINE i == worker[w].input
<1>1. PICK o \in Update(worker[w].loaded, i) :
        /\ WriteOutcome(i, o)
        /\ \/ worker' = [worker EXCEPT ![w] = Publishing(i, o.out)] /\ faults' = faults
           \/ /\ worker' = [worker EXCEPT ![w] = Loading(i, worker[w].attempts + 1)]
              /\ worker[w].attempts + 1 < RetryLimit
              /\ faults < MaxFaults /\ faults' = faults + 1
  BY DEF Commit, CommitReplyLost
<1>2. /\ CommitGuard(w) /\ worker[w].pc = "commit"
      /\ UNCHANGED <<lease, broker, published, projected>>
  BY DEF Commit, CommitReplyLost, CommitGuard
<1>3. UNCHANGED <<lease, stream, queued, dropped, published, projected>>
  BY <1>2 DEF broker
<1>4. /\ saga' \in Sagas /\ processed' \in SUBSET Inputs
      /\ journal' \in [Inputs -> SUBSET Results]
      /\ dueIndex' \in BOOLEAN /\ deadline' \in Versions
      /\ SagaOK(saga)' /\ JournalOK' /\ PublishedOK'
      /\ DeadlinesOK' /\ DeadlineDiscoverable' /\ ResultsOnce'
      /\ saga.version <= saga'.version
      /\ i \in processed' /\ journal'[i] = o.out
      /\ \A v \in Workers : worker'[v] = worker[v] => WorkerOK(v)'
  BY <1>1, <1>2, <1>3, WriteInv
<1>5. /\ worker[w] \in WorkerStates /\ i \in Inputs /\ WorkerOK(w)
      /\ worker[w].attempts \in Nat /\ journal'[i] \in SUBSET Results
      /\ worker \in [Workers -> WorkerStates]
  BY <1>4, BoundsAssumption DEF SagaInv, TypeOK, WorkerStates
<1>6. faults' \in 0..MaxFaults
  BY <1>1, BoundsAssumption DEF SagaInv, TypeOK
<1>7. PICK x \in WorkerStates :
        /\ worker' = [worker EXCEPT ![w] = x]
        /\ x.input = i
        /\ x.pc = "load" \/ (x.pc = "publish" /\ x.todo = o.out)
  <2>1. CASE worker' = [worker EXCEPT ![w] = Publishing(i, o.out)]
    <3>1. o.out \in SUBSET Results
      BY <1>4, <1>5
    <3>2. /\ Publishing(i, o.out) \in WorkerStates
          /\ Publishing(i, o.out).pc = "publish" /\ Publishing(i, o.out).input = i
          /\ Publishing(i, o.out).todo = o.out
      BY <1>5, <3>1, WorkerForms
    <3> QED BY <2>1, <3>2
  <2>2. CASE worker' = [worker EXCEPT ![w] = Loading(i, worker[w].attempts + 1)]
             /\ worker[w].attempts + 1 < RetryLimit
    <3>1. worker[w].attempts + 1 \in 0..RetryLimit
      BY <1>5, <2>2, BoundsAssumption
    <3>2. /\ Loading(i, worker[w].attempts + 1) \in WorkerStates
          /\ Loading(i, worker[w].attempts + 1).pc = "load"
          /\ Loading(i, worker[w].attempts + 1).input = i
      BY <1>5, <3>1, WorkerForms
    <3> QED BY <2>2, <3>2
  <2> QED BY <1>1, <2>1, <2>2
<1>8. worker' \in [Workers -> WorkerStates] /\ worker'[w] = x
  BY <1>7, WorkerTypes DEF SagaInv
<1>9. TypeOK'
  BY <1>3, <1>4, <1>6, <1>8, Zenon DEF SagaInv, TypeOK
<1>10. ASSUME NEW v \in Workers PROVE WorkerOK(v)'
  <2>1. CASE v # w
    BY <1>4, <1>5, <1>7, <2>1
  <2>2. CASE v = w
    <3>1. IsDeadline(i) => i.version <= saga'.version
      <4>1. IsDeadline(i) => i.version \in Nat /\ i.version <= saga.version
        BY <1>5, InputForms DEF WorkerOK, Versions
      <4>2. saga.version \in Nat /\ saga'.version \in Nat
        BY <1>4 DEF SagaInv, TypeOK, Sagas, Versions
      <4> QED BY <1>4, <4>1, <4>2
    <3>2. ~IsDeadline(i) => i.kind \in stream'
      BY <1>2, <1>3, <1>5 DEF WorkerOK
    <3> QED
      BY <1>4, <1>7, <1>8, <2>2, <3>1, <3>2 DEF WorkerOK, IsDeadline
  <2> QED BY <2>1, <2>2
<1> QED BY <1>4, <1>9, <1>10 DEF SagaInv

\* Publication: only stored results are announced.
LEMMA PublishInv ==
  ASSUME SagaInv, NEW w \in Workers, NEW r \in Results, Publish(w, r) PROVE SagaInv'
<1> DEFINE x == [worker[w] EXCEPT !.todo = worker[w].todo \ {r}]
<1>1. /\ worker[w] \in WorkerStates /\ worker[w].pc = "publish" /\ WorkerOK(w)
      /\ r \in worker[w].todo
  BY DEF SagaInv, TypeOK, Publish
<1>2. /\ x \in WorkerStates /\ x.pc = "publish" /\ x.input = worker[w].input
      /\ x.todo \subseteq worker[w].todo
  BY <1>1 DEF WorkerStates
<1>3. /\ worker' = [worker EXCEPT ![w] = x]
      /\ UNCHANGED <<redis, lease, stream, queued, dropped, projected, faults>>
      /\ published' = published \cup {r}
  BY DEF Publish, broker
<1> HIDE DEF x
<1>4. worker' \in [Workers -> WorkerStates] /\ worker'[w] = x
  BY <1>2, <1>3, WorkerTypes DEF SagaInv
<1>5. TypeOK'
  <2>1. published' \in SUBSET Results
    BY <1>3 DEF SagaInv, TypeOK
  <2> QED BY <1>3, <1>4, <2>1, Zenon DEF SagaInv, TypeOK, redis
<1>6. WorkerOK(w)'
  <2>1. UNCHANGED <<saga, processed, journal, stream>>
    BY <1>3 DEF redis
  <2> QED BY <1>1, <1>2, <1>4, <2>1 DEF WorkerOK, IsDeadline
<1>7. \A v \in Versions : lease'[v].done => Deadline(v) \in processed
  BY <1>3 DEF SagaInv, DeadlinesOK
<1>8. \A q \in published' : q \in published \/ \E j \in processed : q \in journal[j]
  BY <1>1, <1>3 DEF WorkerOK
<1> QED BY <1>3, <1>5, <1>6, <1>7, <1>8, LocalStep

----------------------------------------------------------------------------
(* claimDeadline                                                           *)

\* The synthetic deadline inputs
LEMMA DeadlineForm ==
  ASSUME NEW v \in Versions
  PROVE  Deadline(v) \in Inputs /\ IsDeadline(Deadline(v)) /\ Deadline(v).version = v
  BY DEF Deadline, Inputs, IsDeadline

\* The index is listed and the record read.
LEMMA ScanInv ==
  ASSUME SagaInv, NEW w \in Workers, ScanDue(w) \/ LoadDeadline(w) PROVE SagaInv'
<1>0. 0 \in Versions /\ deadline \in Versions /\ saga.version \in Nat
      /\ deadline <= saga.version /\ 0 <= saga.version
  BY DEF SagaInv, TypeOK, Sagas, Versions, MaxVersion, DeadlinesOK
<1>1. PICK x \in WorkerStates :
        /\ worker' = [worker EXCEPT ![w] = x]
        /\ x.pc \in {"due", "orphan", "claim"}
        /\ \E v \in {0, deadline} : x.input = Deadline(v)
  <2>1. CASE ScanDue(w)
    <3> DEFINE x == [Idle EXCEPT !.pc = "due", !.input = Deadline(0)]
    <3>1. x \in WorkerStates /\ x.pc = "due" /\ x.input = Deadline(0)
      BY <1>0, DeadlineForm, WorkerForms DEF WorkerStates, Pcs
    <3>2. worker' = [worker EXCEPT ![w] = x]
      BY <2>1 DEF ScanDue
    <3> HIDE DEF x
    <3> QED BY <3>1, <3>2
  <2>2. CASE LoadDeadline(w)
    <3> DEFINE p == IF deadline = 0 THEN "orphan" ELSE "claim"
               x == [worker[w] EXCEPT !.pc = p, !.input = Deadline(deadline)]
    <3>1. p \in Pcs /\ p \in {"due", "orphan", "claim"} /\ worker[w] \in WorkerStates
      BY DEF Pcs, SagaInv, TypeOK
    <3>2. worker' = [worker EXCEPT ![w] = x]
      BY <2>2 DEF LoadDeadline
    <3> HIDE DEF p
    <3>3. x \in WorkerStates /\ x.pc = p /\ x.input = Deadline(deadline)
      BY <1>0, <3>1, DeadlineForm DEF WorkerStates
    <3> HIDE DEF x
    <3> QED BY <3>1, <3>2, <3>3
  <2> QED BY <2>1, <2>2
<1>2. UNCHANGED <<redis, lease, stream, queued, dropped, published, projected, faults>>
  BY DEF ScanDue, LoadDeadline, broker
<1>3. worker' \in [Workers -> WorkerStates] /\ worker'[w] = x
  BY <1>1, WorkerTypes DEF SagaInv
<1>4. TypeOK'
  BY <1>2, <1>3, Zenon DEF SagaInv, TypeOK, redis
<1>5. WorkerOK(w)'
  <2>1. IsDeadline(x.input) /\ x.input.version <= saga.version
    BY <1>0, <1>1, DeadlineForm
  <2>2. saga' = saga
    BY <1>2 DEF redis
  <2> QED BY <1>1, <1>3, <2>1, <2>2 DEF WorkerOK, IsDeadline
<1>6. \A v \in Versions : lease'[v].done => Deadline(v) \in processed
  BY <1>2 DEF SagaInv, DeadlinesOK
<1> QED BY <1>1, <1>2, <1>4, <1>5, <1>6, LocalStep

\* Claim and completion of the lease
LEMMA LeaseStepInv ==
  ASSUME SagaInv, NEW w \in Workers, Acquire(w) \/ CompleteLease(w) PROVE SagaInv'
<1> DEFINE i == worker[w].input
           v == i.version
<1>1. /\ worker[w] \in WorkerStates /\ WorkerOK(w) /\ i \in Inputs
      /\ worker[w].pc \in {"claim", "publish"} /\ IsDeadline(i)
      /\ worker[w].pc = "publish" => i \in processed
  BY DEF SagaInv, TypeOK, WorkerStates, Acquire, CompleteLease, WorkerOK
<1>2. i = Deadline(v) /\ v \in Versions /\ lease \in [Versions -> Leases]
  BY <1>1, InputForms DEF SagaInv, TypeOK
<1>3. UNCHANGED <<redis, stream, queued, dropped, published, projected, faults>>
  BY DEF Acquire, CompleteLease, broker
<1>4. lease' \in [Versions -> Leases]
      /\ \A u \in Versions : lease'[u].done => Deadline(u) \in processed
  <2>1. CASE lease' = lease
    BY <1>2, <2>1 DEF SagaInv, DeadlinesOK
  <2>2. CASE lease' = [lease EXCEPT ![v].holder = w]
    <3>1. /\ lease' \in [Versions -> Leases]
          /\ \A u \in Versions : lease'[u].done = lease[u].done
      BY <1>2, <2>2 DEF Leases
    <3> QED BY <3>1, Zenon DEF SagaInv, DeadlinesOK
  <2>3. CASE /\ lease' = [lease EXCEPT ![v] = [holder |-> NoWorker, done |-> TRUE]]
             /\ worker[w].pc = "publish"
    <3>1. /\ lease' \in [Versions -> Leases]
          /\ \A u \in Versions : u # v => lease'[u] = lease[u]
      BY <1>2, <2>3 DEF Leases
    <3>2. Deadline(v) \in processed
      BY <1>1, <1>2, <2>3
    <3> QED BY <3>1, <3>2 DEF SagaInv, DeadlinesOK
  <2> QED BY <2>1, <2>2, <2>3 DEF Acquire, CompleteLease
<1>5. PICK x \in WorkerStates :
        /\ worker' = [worker EXCEPT ![w] = x]
        /\ \/ x = Idle
           \/ x.input = i /\ x.pc = "load"
           \/ x.input = i /\ x.pc = "finish" /\ i \in processed
  <2>1. CASE worker' = [worker EXCEPT ![w] = Idle]
    BY <2>1, WorkerForms
  <2>2. ASSUME NEW p \in {"load", "finish"}, Goto(w, p), p = "finish" => i \in processed
        PROVE  \E x \in WorkerStates :
                 /\ worker' = [worker EXCEPT ![w] = x]
                 /\ \/ x = Idle
                    \/ x.input = i /\ x.pc = "load"
                    \/ x.input = i /\ x.pc = "finish" /\ i \in processed
    <3> DEFINE x == [worker[w] EXCEPT !.pc = p]
    <3>1. x \in WorkerStates /\ x.pc = p /\ x.input = i
      BY <1>1 DEF WorkerStates, Pcs
    <3>2. worker' = [worker EXCEPT ![w] = x]
      BY <2>2 DEF Goto
    <3> HIDE DEF x
    <3> QED BY <2>2, <3>1, <3>2
  <2>3. lease[v].done => i \in processed
    BY <1>2 DEF SagaInv, DeadlinesOK
  <2>4. \/ worker' = [worker EXCEPT ![w] = Idle]
        \/ Goto(w, "load")
        \/ Goto(w, "finish") /\ (worker[w].pc = "publish" \/ lease[v].done)
    BY Zenon DEF Acquire, CompleteLease
  <2> QED BY <1>1, <2>1, <2>2, <2>3, <2>4
<1>6. worker' \in [Workers -> WorkerStates] /\ worker'[w] = x
  BY <1>5, WorkerTypes DEF SagaInv
<1>7. TypeOK'
  BY <1>3, <1>4, <1>6, Zenon DEF SagaInv, TypeOK, redis
<1>8. WorkerOK(w)'
  <2>1. UNCHANGED <<saga, processed>>
    BY <1>3 DEF redis
  <2>2. CASE x = Idle
    BY <1>6, <2>2, WorkerForms DEF WorkerOK
  <2>3. CASE x # Idle
    BY <1>1, <1>5, <1>6, <2>1, <2>3 DEF WorkerOK, IsDeadline
  <2> QED BY <2>2, <2>3
<1> QED BY <1>3, <1>4, <1>5, <1>7, <1>8, LocalStep

\* The scripts that remove an index entry never remove the one an order waits
\* under: an orphan has no record, a completed deadline is not the current one.
LEMMA RemoveDeadlineInv ==
  ASSUME SagaInv, NEW w \in Workers, RemoveOrphanDeadline(w) \/ CompleteDeadline(w)
  PROVE  SagaInv'
<1>1. /\ UNCHANGED <<saga, processed, journal, lease, stream, queued, dropped, published,
                     projected, faults>>
      /\ worker' = [worker EXCEPT ![w] = Idle]
  BY DEF RemoveOrphanDeadline, CompleteDeadline, broker
<1>2. /\ TypeOK /\ worker[w] \in WorkerStates /\ WorkerOK(w) /\ SagaOK(saga)
      /\ DeadlineDiscoverable /\ DeadlinesOK /\ dueIndex \in BOOLEAN
  BY DEF SagaInv, TypeOK
<1>3. HasDeadline(saga.stage) => dueIndex /\ deadline = saga.version /\ deadline # 0
  <2>1. HasDeadline(saga.stage) => saga.version # 0
    BY <1>2 DEF HasDeadline, WaitingStages, SagaOK
  <2> QED BY <1>2, <2>1, Zenon DEF DeadlineDiscoverable
<1>4. /\ dueIndex' \in BOOLEAN /\ deadline' \in {0, deadline}
      /\ HasDeadline(saga.stage) => dueIndex' /\ deadline' = deadline
  <2>1. CASE RemoveOrphanDeadline(w)
    <3>1. dueIndex' = (dueIndex /\ deadline # 0) /\ deadline' = deadline
      BY <2>1 DEF RemoveOrphanDeadline
    <3>2. dueIndex' \in BOOLEAN
      BY <3>1, Zenon
    <3> QED BY <1>3, <3>1, <3>2, Zenon
  <2>2. CASE CompleteDeadline(w)
    <3> DEFINE v == worker[w].input.version
    <3>1. worker[w].input \in processed /\ worker[w].input = Deadline(v) /\ v \in Versions
      BY <1>2, <2>2, InputForms DEF CompleteDeadline, WorkerOK, WorkerStates
    <3>2. HasDeadline(saga.stage) => deadline # v
      BY <1>2, <1>3, <3>1 DEF DeadlinesOK
    <3>3. /\ dueIndex' = IF deadline = v THEN FALSE ELSE dueIndex
          /\ deadline' = IF deadline = v THEN 0 ELSE deadline
      BY <2>2 DEF CompleteDeadline
    <3> HIDE DEF v
    <3>4. CASE deadline = v
      <4>1. dueIndex' = FALSE /\ deadline' = 0
        BY <3>3, <3>4
      <4> QED BY <3>2, <3>4, <4>1, Zenon
    <3>5. CASE deadline # v
      <4>1. dueIndex' = dueIndex /\ deadline' = deadline
        BY <3>3, <3>5
      <4> QED BY <1>2, <1>3, <4>1, Zenon
    <3> QED BY <3>4, <3>5
  <2> QED BY <2>1, <2>2
<1>5. worker' \in [Workers -> WorkerStates] /\ worker'[w] = Idle
  BY <1>1, WorkerTypes, WorkerForms DEF SagaInv
<1>6. deadline' \in Versions /\ deadline' <= saga.version
  BY <1>2, <1>4 DEF TypeOK, DeadlinesOK, Versions, MaxVersion, Sagas
<1>7. TypeOK'
  BY <1>1, <1>2, <1>4, <1>5, <1>6, Zenon DEF TypeOK
<1>8. \A v \in Workers : WorkerOK(v)'
  <2>1. WorkerOK(w)'
    BY <1>5, WorkerForms DEF WorkerOK
  <2>2. ASSUME NEW v \in Workers, v # w PROVE WorkerOK(v)'
    BY <1>1, <1>2, <2>2, OtherWorkerOK DEF SagaInv, TypeOK
  <2> QED BY <2>1, <2>2
<1>9. DeadlinesOK'
  BY <1>1, <1>2, <1>6 DEF DeadlinesOK, HasDeadline, Deadline
<1>10. DeadlineDiscoverable'
  <2>1. HasDeadline(saga'.stage) => dueIndex' /\ deadline' = saga'.version
    BY <1>1, <1>3, <1>4, Zenon
  <2> QED BY <2>1, Zenon DEF DeadlineDiscoverable, HasDeadline
<1>11. SagaOK(saga)' /\ JournalOK' /\ PublishedOK' /\ ResultsOnce'
  BY <1>1 DEF SagaInv, SagaOK, JournalOK, Reached, PublishedOK, ResultsOnce
<1> QED BY <1>7, <1>8, <1>9, <1>10, <1>11 DEF SagaInv

\* The environment: projections, participants, redeliveries and expiring leases
\* touch neither the order nor a worker.
LEMMA EnvironmentInv ==
  ASSUME SagaInv,
         \/ Project
         \/ \E m \in MessageNames : Redeliver(m)
         \/ \E c \in Commands : ShippingAnswer(c) \/ PaymentAnswer(c)
         \/ \E v \in Versions : LeaseExpire(v)
  PROVE  SagaInv'
<1>1. UNCHANGED <<redis, published, worker>>
  BY DEF Project, Redeliver, ShippingAnswer, PaymentAnswer, Answer, LeaseExpire
<1>2. /\ stream \subseteq stream' /\ stream' \in SUBSET MessageNames
      /\ queued' \in SUBSET stream' /\ dropped' \in SUBSET stream'
  <2>1. ASSUME NEW c \in Commands, Answer(c)
        PROVE  /\ stream \subseteq stream' /\ stream' \in SUBSET MessageNames
               /\ queued' \in SUBSET stream' /\ dropped' \in SUBSET stream'
    BY <2>1, AnswersAssumption DEF Answer, SagaInv, TypeOK, MessageNames
  <2>2. ASSUME NEW m \in MessageNames, Redeliver(m)
        PROVE  /\ stream \subseteq stream' /\ stream' \in SUBSET MessageNames
               /\ queued' \in SUBSET stream' /\ dropped' \in SUBSET stream'
    BY <2>2 DEF Redeliver, SagaInv, TypeOK
  <2>3. ASSUME UNCHANGED broker
        PROVE  /\ stream \subseteq stream' /\ stream' \in SUBSET MessageNames
               /\ queued' \in SUBSET stream' /\ dropped' \in SUBSET stream'
    BY <2>3 DEF broker, SagaInv, TypeOK
  <2> QED BY <2>1, <2>2, <2>3 DEF Project, ShippingAnswer, PaymentAnswer, LeaseExpire
<1>3. /\ lease' \in [Versions -> Leases]
      /\ \A v \in Versions : lease'[v].done = lease[v].done
  <2>1. lease \in [Versions -> Leases]
    BY DEF SagaInv, TypeOK
  <2>2. ASSUME NEW v \in Versions, LeaseExpire(v)
        PROVE  /\ lease' \in [Versions -> Leases]
               /\ \A u \in Versions : lease'[u].done = lease[u].done
    BY <2>1, <2>2 DEF LeaseExpire, Leases
  <2> QED BY <2>1, <2>2 DEF Project, Redeliver, ShippingAnswer, PaymentAnswer, Answer
<1>4. faults' \in 0..MaxFaults
  BY BoundsAssumption
  DEF Project, Redeliver, ShippingAnswer, PaymentAnswer, Answer, LeaseExpire, SagaInv, TypeOK
<1>5. projected' \in BOOLEAN
  <2>1. projected' = projected \/ projected' = TRUE
    BY DEF Project, Redeliver, ShippingAnswer, PaymentAnswer, Answer, LeaseExpire
  <2> QED BY <2>1, Zenon DEF SagaInv, TypeOK
<1>6. TypeOK'
  BY <1>1, <1>2, <1>3, <1>4, <1>5, Zenon DEF SagaInv, TypeOK, redis
<1>7. \A v \in Workers : WorkerOK(v)'
  BY <1>1, <1>2, OtherWorkerOK DEF SagaInv, redis
<1>8. DeadlinesOK'
  <2>1. UNCHANGED <<saga, processed, deadline>> /\ DeadlinesOK
    BY <1>1 DEF redis, SagaInv
  <2> QED BY <1>3, <2>1, Zenon DEF DeadlinesOK, HasDeadline, Deadline
<1>9. DeadlineDiscoverable'
  <2>1. DeadlineDiscoverable /\ UNCHANGED <<saga, dueIndex, deadline>>
    BY <1>1 DEF SagaInv, redis
  <2> QED BY <2>1, Zenon DEF DeadlineDiscoverable, HasDeadline
<1>10. SagaOK(saga)' /\ JournalOK' /\ PublishedOK' /\ ResultsOnce'
  BY <1>1 DEF SagaInv, redis, SagaOK, JournalOK, Reached, PublishedOK, ResultsOnce
<1> QED BY <1>6, <1>7, <1>8, <1>9, <1>10 DEF SagaInv

----------------------------------------------------------------------------
(* The theorems                                                            *)

\* Every step preserves the invariant: one case per action of Next.
LEMMA SagaStepInv == SagaInv /\ [Next]_vars => SagaInv'
<1> SUFFICES ASSUME SagaInv, [Next]_vars PROVE SagaInv'
  OBVIOUS
<1>1. CASE UNCHANGED vars
  <2>1. UNCHANGED <<saga, processed, journal, dueIndex, deadline, lease, stream, queued,
                    dropped, published, worker, projected, faults>>
    BY <1>1 DEF vars
  <2>2. TypeOK' /\ DeadlineDiscoverable'
    BY <2>1, Zenon DEF SagaInv, TypeOK, DeadlineDiscoverable, HasDeadline
  <2>3. \A w \in Workers : WorkerOK(w)'
    BY <2>1, OtherWorkerOK DEF SagaInv
  <2>4. DeadlinesOK'
    BY <2>1, Zenon DEF SagaInv, DeadlinesOK, HasDeadline, Deadline
  <2>5. SagaOK(saga)' /\ JournalOK' /\ PublishedOK' /\ ResultsOnce'
    BY <2>1 DEF SagaInv, SagaOK, JournalOK, Reached, PublishedOK, ResultsOnce
  <2> QED BY <2>2, <2>3, <2>4, <2>5 DEF SagaInv
<1>2. ASSUME NEW w \in Workers, WorkerStep(w) PROVE SagaInv'
  BY <1>2, LoadInv, IdleInv, CommitDuplicateInv, CommitConflictInv, CommitInv, PublishInv,
     ScanInv, RemoveDeadlineInv, LeaseStepInv
  DEF WorkerStep
<1>3. ASSUME NEW w \in Workers, ScanDue(w) \/ CommitReplyLost(w) \/ Abandon(w) PROVE SagaInv'
  BY <1>3, ScanInv, CommitInv, IdleInv
<1>4. ASSUME NEW w \in Workers, NEW m \in MessageNames, Deliver(w, m) PROVE SagaInv'
  BY <1>4, DeliverInv
<1>5. CASE \/ Project
           \/ \E m \in MessageNames : Redeliver(m)
           \/ \E c \in Commands : ShippingAnswer(c) \/ PaymentAnswer(c)
           \/ \E v \in Versions : LeaseExpire(v)
  BY <1>5, EnvironmentInv
<1> QED BY <1>1, <1>2, <1>3, <1>4, <1>5 DEF Next

\* The invariant of the saga holds in every reachable state, for any number of
\* lanes and scanners, any retry limit and any number of faults.
THEOREM SagaInvariant == Spec => []SagaInv
  BY SagaInitInv, SagaStepInv, PTL DEF Spec

\* Type correctness
THEOREM SagaTypeOK == Spec => []TypeOK
<1>1. SagaInv => TypeOK
  BY DEF SagaInv
<1> QED BY SagaInvariant, <1>1, PTL

\* No two inputs ever decide the same result (queueEnvelope, commitOrderScript).
THEOREM SagaResultsOnce == Spec => []ResultsOnce
<1>1. SagaInv => ResultsOnce
  BY DEF SagaInv
<1> QED BY SagaInvariant, <1>1, PTL

\* An order that waits can always be found by a deadline scanner (DueDeadlines).
THEOREM SagaDeadlineDiscoverable == Spec => []DeadlineDiscoverable
<1>1. SagaInv => DeadlineDiscoverable
  BY DEF SagaInv
<1> QED BY SagaInvariant, <1>1, PTL

\* No order is announced with two verdicts, or with one it does not have.
THEOREM SagaVerdictHolds == Spec => []VerdictHolds
<1>1. SagaInv => VerdictHolds
  <2> SUFFICES ASSUME SagaInv, NEW r \in published, r \in DOMAIN Verdict
               PROVE  saga.stage = Verdict[r]
    BY DEF VerdictHolds
  <2>1. saga.stage \in Reached(r)
    BY DEF SagaInv, PublishedOK, JournalOK
  <2>2. r \in {"order.rejected", "order.completed", "order.cancelled", "order.manual-review"}
    BY DEF Verdict
  <2>3. /\ Verdict["order.rejected"] = "REJECTED" /\ Verdict["order.completed"] = "COMPLETED"
        /\ Verdict["order.cancelled"] = "CANCELLED"
        /\ Verdict["order.manual-review"] = "MANUAL_REVIEW"
    BY DEF Verdict
  <2> QED BY <2>1, <2>2, <2>3, ReachedValues
<1> QED BY SagaInvariant, <1>1, PTL

\* Only the two commits touch the order and the stored results.
LEMMA OnlyCommitsWrite ==
  ASSUME SagaInv, Next
  PROVE  \/ UNCHANGED <<saga, processed, journal>>
         \/ \E w \in Workers : \E o : /\ CommitGuard(w)
                                      /\ o \in Update(worker[w].loaded, worker[w].input)
                                      /\ WriteOutcome(worker[w].input, o)
                                      /\ UNCHANGED <<lease, stream, published>>
<1>1. ASSUME NEW w \in Workers, Commit(w) \/ CommitReplyLost(w)
      PROVE  \E o : /\ CommitGuard(w)
                    /\ o \in Update(worker[w].loaded, worker[w].input)
                    /\ WriteOutcome(worker[w].input, o)
                    /\ UNCHANGED <<lease, stream, published>>
  BY <1>1 DEF Commit, CommitReplyLost, broker
<1>2. \/ \E w \in Workers : Commit(w) \/ CommitReplyLost(w)
      \/ UNCHANGED <<saga, processed, journal>>
  BY ZenonT(30) DEF Next, WorkerStep, Deliver, Redeliver, Project, Load, NakLag, CommitDuplicate,
     CommitConflict, Publish, Ack, Abandon, ScanDue, LoadDeadline, RemoveOrphanDeadline,
     Acquire, LeaseExpire, CompleteLease, CompleteDeadline, Answer, ShippingAnswer,
     PaymentAnswer, redis
<1> QED BY <1>1, <1>2

\* A worker that computed on an old workspace cannot move the order back, and a
\* terminal order never changes again (commitOrderScript).
THEOREM SagaNeverRewindsHolds == Spec => SagaNeverRewinds
<1> DEFINE Forward == /\ saga'.version >= saga.version
                      /\ saga'.stage # saga.stage => saga'.version > saga.version
                      /\ saga.stage \in TerminalStages => saga' = saga
<1>1. SagaInv /\ [Next]_vars => [Forward]_vars
  <2> SUFFICES ASSUME SagaInv, Next PROVE Forward
    OBVIOUS
  <2>1. saga.version \in Nat
    BY DEF SagaInv, TypeOK, Sagas, Versions
  <2>2. CASE UNCHANGED <<saga, processed, journal>>
    BY <2>1, <2>2
  <2>3. ASSUME NEW w \in Workers, NEW o, CommitGuard(w),
               o \in Update(worker[w].loaded, worker[w].input),
               WriteOutcome(worker[w].input, o), UNCHANGED <<lease, stream, published>>
        PROVE  Forward
    <3>1. /\ saga' \in Sagas /\ saga.version <= saga'.version
          /\ saga'.stage # saga.stage => saga.version # saga'.version
          /\ saga.stage \in TerminalStages => saga' = saga
      BY <2>3, WriteInv
    <3>2. saga'.version \in Nat
      BY <3>1 DEF Sagas, Versions
    <3> QED BY <2>1, <3>1, <3>2
  <2> QED BY <2>2, <2>3, OnlyCommitsWrite
<1> QED BY SagaInvariant, <1>1, PTL DEF Spec, SagaNeverRewinds

\* The results stored for an input are never replaced (commitOrderScript).
THEOREM SagaJournalStable == Spec => JournalStable
<1> DEFINE Stable == \A i \in processed : i \in processed' /\ journal'[i] = journal[i]
<1>1. SagaInv /\ [Next]_vars => [Stable]_vars
  <2> SUFFICES ASSUME SagaInv, Next PROVE Stable
    OBVIOUS
  <2>1. CASE UNCHANGED <<saga, processed, journal>>
    BY <2>1
  <2>2. ASSUME NEW w \in Workers, NEW o, CommitGuard(w),
               o \in Update(worker[w].loaded, worker[w].input),
               WriteOutcome(worker[w].input, o), UNCHANGED <<lease, stream, published>>
        PROVE  Stable
    BY <2>2, WriteInv
  <2> QED BY <2>1, <2>2, OnlyCommitsWrite
<1> QED BY SagaInvariant, <1>1, PTL DEF Spec, JournalStable

----------------------------------------------------------------------------
(* The refinement of OrderLifecycle                                        *)

\* Every outcome keeps the stage and decides nothing, or is an edge.
IsEdge(s, o) ==
    \/ o.saga.stage = s.stage /\ o.out = {}
    \/ Lifecycle!Edge(s.stage, o.saga.stage, o.out) \in Lifecycle!Edges

\* An ignored input is no edge.
LEMMA IgnoredEdge == ASSUME NEW s, NEW o \in Ignored(s) PROVE IsEdge(s, o)
  BY DEF Ignored, Outcome, IsEdge

\* The stage and the results that the transitions build
LEMMA AdvanceForm ==
  ASSUME NEW s \in Sagas, NEW t, NEW out, NEW o, o = Advance(s, t, out)
  PROVE  o.saga.stage = t /\ o.out = out
  BY DEF Advance, Outcome, Sagas

\* manualReview
LEMMA ManualReviewForm ==
  ASSUME NEW s \in Sagas, NEW out, NEW o, o = ManualReview(s, out)
  PROVE  o.saga.stage = "MANUAL_REVIEW" /\ o.out = out \cup {"order.manual-review"}
  BY DEF ManualReview, Outcome, Sagas

\* startCompensation
LEMMA StartCompensationForm ==
  ASSUME NEW s \in Sagas, NEW o
  PROVE  /\ o = StartCompensation(s, FALSE) =>
              o.saga.stage = "COMPENSATING" /\ o.out = {"release", "order.stage-changed"}
         /\ o = StartCompensation(s, TRUE) =>
              /\ o.saga.stage = "COMPENSATING"
              /\ o.out = {"release", "cancelShipment", "order.stage-changed"}
<1>1. ASSUME NEW b \in BOOLEAN, o = StartCompensation(s, b)
      PROVE  o.saga.stage = "COMPENSATING"
  BY <1>1 DEF StartCompensation, Outcome, Sagas
<1>2. o = StartCompensation(s, FALSE) => o.out = {"release", "order.stage-changed"}
  BY DEF StartCompensation, Outcome
<1>3. o = StartCompensation(s, TRUE) =>
        o.out = {"release", "cancelShipment", "order.stage-changed"}
  BY DEF StartCompensation, Outcome
<1> QED BY <1>1, <1>2, <1>3

\* The edges of the workflow, one by one
LEMMA WorkflowEdge ==
  ASSUME NEW s, NEW o, NEW f, NEW t, NEW out,
         s.stage = f, o.saga.stage = t, o.out = out,
         \/ f = "NONE" /\ t = "REJECTED" /\ out = {"order.rejected"}
         \/ f = "NONE" /\ t = "WAITING_FOR_QUOTE"
            /\ out = {"order.submitted", "calculateQuote"}
         \/ f = "WAITING_FOR_QUOTE" /\ t = "WAITING_FOR_AUTHORIZATION" /\ out = {"authorize"}
         \/ f = "WAITING_FOR_QUOTE" /\ t = "CANCELLED" /\ out = {"order.cancelled"}
         \/ f = "WAITING_FOR_AUTHORIZATION" /\ t = "WAITING_FOR_SHIPMENT"
            /\ out = {"createShipment"}
         \/ f = "WAITING_FOR_AUTHORIZATION" /\ t = "CANCELLED" /\ out = {"order.cancelled"}
         \/ f = "WAITING_FOR_SHIPMENT" /\ t = "WAITING_FOR_CAPTURE" /\ out = {"capture"}
         \/ f = "WAITING_FOR_SHIPMENT" /\ t = "COMPENSATING"
            /\ out = {"release", "order.stage-changed"}
         \/ f = "WAITING_FOR_CAPTURE" /\ t = "COMPLETED"
            /\ out = {"order.completed", "cartClear"}
         \/ f = "WAITING_FOR_CAPTURE" /\ t = "COMPENSATING"
            /\ out = {"release", "cancelShipment", "order.stage-changed"}
         \/ f = "COMPENSATING" /\ t = "CANCELLED" /\ out = {"order.cancelled"}
         \/ f = "COMPENSATING" /\ t = "MANUAL_REVIEW" /\ out = {"order.manual-review"}
  PROVE  IsEdge(s, o)
<1>1. Lifecycle!Edge(f, t, out) \in Lifecycle!WorkflowEdges
  BY Zenon DEF Lifecycle!WorkflowEdges
<1>2. Lifecycle!Edge(s.stage, o.saga.stage, o.out) \in Lifecycle!Edges
  BY <1>1, Zenon DEF Lifecycle!Edges
<1> QED BY <1>2, Zenon DEF IsEdge

\* The compensation events take an edge out of COMPENSATING or none.
LEMMA CompensationEdge ==
  ASSUME NEW s \in Sagas, s.stage = "COMPENSATING", NEW e, NEW o \in ApplyCompensation(s, e)
  PROVE  IsEdge(s, o)
<1>1. \/ o \in Ignored(s)
      \/ o = ManualReview(s, {})
      \/ o = FinishCompensation([s EXCEPT !.released = TRUE])
      \/ o = FinishCompensation([s EXCEPT !.shipCancelled = TRUE])
  BY Zenon DEF ApplyCompensation
<1>2. CASE o = ManualReview(s, {})
  <2>1. o.saga.stage = "MANUAL_REVIEW" /\ o.out = {"order.manual-review"}
    <3>1. o.out = {} \cup {"order.manual-review"} /\ o.saga.stage = "MANUAL_REVIEW"
      BY <1>2, ManualReviewForm, Zenon
    <3> QED BY <3>1
  <2> QED BY <2>1, WorkflowEdge, Zenon
<1>3. ASSUME NEW t \in Sagas, t.stage = "COMPENSATING", o = FinishCompensation(t)
      PROVE  IsEdge(s, o)
  <2>1. CASE o = Outcome(t, {})
    BY <1>3, <2>1 DEF Outcome, IsEdge
  <2>2. CASE o = Cancel(t)
    <3>1. o.saga.stage = "CANCELLED" /\ o.out = {"order.cancelled"}
      BY <1>3, <2>2, AdvanceForm, SMT DEF Cancel
    <3> QED BY <3>1, WorkflowEdge, Zenon
  <2> QED BY <1>3, <2>1, <2>2 DEF FinishCompensation
<1>4. ASSUME NEW t, \/ t = [s EXCEPT !.released = TRUE]
                    \/ t = [s EXCEPT !.shipCancelled = TRUE]
      PROVE  t \in Sagas /\ t.stage = "COMPENSATING"
  BY <1>4 DEF Sagas
<1> QED BY <1>1, <1>2, <1>3, <1>4, IgnoredEdge

\* Every input takes an edge of the lifecycle or none.
LEMMA UpdateEdge ==
  ASSUME NEW s, SagaOK(s), NEW i \in Inputs, NEW o \in Update(s, i)
  PROVE  IsEdge(s, o)
<1>1. s \in Sagas
  BY DEF SagaOK
<1>2. \/ o \in Ignored(s)
      \/ o \in ApplyOrderCommand(s)
      \/ o \in ApplySagaEvent(s, i.kind)
      \/ /\ HasDeadline(s.stage)
         /\ o = ManualReview([s EXCEPT !.version = s.version + 1], {"order.step-timed-out"})
  BY Zenon DEF Update, ProcessDeadline
<1>3. ASSUME NEW t, NEW out, o = Advance(s, t, out)
      PROVE  o.saga.stage = t /\ o.out = out
  BY <1>1, <1>3, AdvanceForm, SMT
<1>4. CASE o \in ApplyOrderCommand(s)
  <2>1. \/ o \in Ignored(s)
        \/ s.stage = "NONE" /\ o = Advance(s, "REJECTED", {"order.rejected"})
        \/ s.stage = "NONE"
           /\ o = Advance(s, "WAITING_FOR_QUOTE", {"order.submitted", "calculateQuote"})
    BY <1>4, Zenon DEF ApplyOrderCommand
  <2> QED BY <1>3, <2>1, IgnoredEdge, WorkflowEdge, Zenon
<1>5. CASE /\ HasDeadline(s.stage)
           /\ o = ManualReview([s EXCEPT !.version = s.version + 1], {"order.step-timed-out"})
  <2>1. [s EXCEPT !.version = s.version + 1] \in Sagas
    <3>1. s.version + 1 \in Versions
      BY <1>5 DEF SagaOK, Sagas, Versions, MaxVersion, HasDeadline, WaitingStages
    <3> QED BY <1>1, <3>1 DEF Sagas
  <2>2. o.saga.stage = "MANUAL_REVIEW" /\ o.out = {"order.step-timed-out", "order.manual-review"}
    <3>1. /\ o.saga.stage = "MANUAL_REVIEW"
          /\ o.out = {"order.step-timed-out"} \cup {"order.manual-review"}
      BY <1>5, <2>1, ManualReviewForm, ZenonT(30)
    <3> QED BY <3>1
  <2>3. s.stage \in Lifecycle!WaitingStages \cup {"COMPENSATING"}
    BY <1>5 DEF Lifecycle!WaitingStages, HasDeadline, WaitingStages
  <2>4. Lifecycle!Edge(s.stage, o.saga.stage, o.out) \in Lifecycle!TimeoutEdges
    BY <2>2, <2>3, Zenon DEF Lifecycle!TimeoutEdges
  <2> QED BY <2>4, Zenon DEF IsEdge, Lifecycle!Edges
<1>6. CASE o \in ApplySagaEvent(s, i.kind)
  <2>1. \/ o \in Ignored(s)
        \/ s.stage = "COMPENSATING" /\ o \in ApplyCompensation(s, i.kind)
        \/ s.stage = "WAITING_FOR_QUOTE" /\ o = Cancel(s)
        \/ s.stage = "WAITING_FOR_AUTHORIZATION" /\ o = Cancel(s)
        \/ s.stage = "WAITING_FOR_SHIPMENT" /\ o = StartCompensation(s, FALSE)
        \/ s.stage = "WAITING_FOR_CAPTURE" /\ o = StartCompensation(s, TRUE)
        \/ s.stage = "WAITING_FOR_QUOTE"
           /\ o = Advance(s, "WAITING_FOR_AUTHORIZATION", {"authorize"})
        \/ s.stage = "WAITING_FOR_AUTHORIZATION"
           /\ o = Advance(s, "WAITING_FOR_SHIPMENT", {"createShipment"})
        \/ s.stage = "WAITING_FOR_SHIPMENT"
           /\ o = Advance(s, "WAITING_FOR_CAPTURE", {"capture"})
        \/ s.stage = "WAITING_FOR_CAPTURE"
           /\ o = Advance(s, "COMPLETED", {"order.completed", "cartClear"})
    BY <1>6, Zenon DEF ApplySagaEvent
  <2>2. CASE s.stage = "COMPENSATING" /\ o \in ApplyCompensation(s, i.kind)
    BY <1>1, <2>2, CompensationEdge
  <2>3. CASE o = Cancel(s) /\ \/ s.stage = "WAITING_FOR_QUOTE"
                              \/ s.stage = "WAITING_FOR_AUTHORIZATION"
    <3>1. o.saga.stage = "CANCELLED" /\ o.out = {"order.cancelled"}
      BY <1>3, <2>3, Zenon DEF Cancel
    <3> QED BY <2>3, <3>1, WorkflowEdge, Zenon
  <2>4. CASE s.stage = "WAITING_FOR_SHIPMENT" /\ o = StartCompensation(s, FALSE)
    <3>1. o.saga.stage = "COMPENSATING" /\ o.out = {"release", "order.stage-changed"}
      BY <1>1, <2>4, StartCompensationForm, Zenon
    <3> QED BY <2>4, <3>1, WorkflowEdge, Zenon
  <2>5. CASE s.stage = "WAITING_FOR_CAPTURE" /\ o = StartCompensation(s, TRUE)
    <3>1. /\ o.saga.stage = "COMPENSATING"
          /\ o.out = {"release", "cancelShipment", "order.stage-changed"}
      BY <1>1, <2>5, StartCompensationForm, Zenon
    <3> QED BY <2>5, <3>1, WorkflowEdge, Zenon
  <2> QED
    BY <1>1, <1>3, <2>1, <2>2, <2>3, <2>4, <2>5, IgnoredEdge, WorkflowEdge, Zenon
<1> QED BY <1>2, <1>4, <1>5, <1>6, IgnoredEdge

\* A committed outcome is one step of the lifecycle, or none.
LEMMA WriteRefines ==
  ASSUME SagaInv, NEW w \in Workers, NEW o, CommitGuard(w),
         o \in Update(worker[w].loaded, worker[w].input),
         WriteOutcome(worker[w].input, o), UNCHANGED <<lease, stream, published>>
  PROVE  [Lifecycle!LifecycleNext]_(Lifecycle!lifecycle)
<1> DEFINE i == worker[w].input
           s == worker[w].loaded
<1>1. /\ i \in Inputs /\ i \notin processed /\ SagaOK(s) /\ s.stage = saga.stage
      /\ journal \in [Inputs -> SUBSET Results] /\ processed \in SUBSET Inputs
  BY DEF SagaInv, TypeOK, CommitGuard, WorkerOK, WorkerStates, SameSaga
<1>2. StepOK(s, o) /\ IsEdge(s, o)
  BY <1>1, UpdateOK, UpdateEdge
<1>3. /\ saga' = o.saga
      /\ processed' = processed \cup {i}
      /\ journal' = [journal EXCEPT ![i] = o.out]
      /\ published' = published
  BY DEF WriteOutcome
<1> HIDE DEF i, s
<1>4. Decided' = Decided \cup o.out
  <2>1. journal'[i] = o.out /\ \A j \in processed : journal'[j] = journal[j]
    BY <1>1, <1>3
  <2>2. ASSUME NEW r PROVE r \in Decided' <=> r \in Decided \/ r \in o.out
    BY <1>3, <2>1 DEF Decided
  <2> QED BY <2>2
<1>5. Decided \cap o.out = {}
  BY <1>1, <1>2 DEF StepOK, SagaInv, JournalOK, Decided
<1>6. CASE o.saga.stage = s.stage /\ o.out = {}
  <2>1. saga'.stage = saga.stage /\ Decided' = Decided /\ published' = published
    BY <1>1, <1>3, <1>4, <1>6
  <2> QED BY <2>1 DEF Lifecycle!lifecycle
<1>7. CASE Lifecycle!Edge(s.stage, o.saga.stage, o.out) \in Lifecycle!Edges
  <2> DEFINE e == Lifecycle!Edge(s.stage, o.saga.stage, o.out)
  <2>1. e.from = saga.stage /\ e.to = saga'.stage /\ e.results = o.out
    BY <1>1, <1>3 DEF Lifecycle!Edge
  <2>2. e \in Lifecycle!Edges
    BY <1>7
  <2> HIDE DEF e
  <2>3. Lifecycle!Decide(e)
    BY <1>3, <1>4, <1>5, <2>1 DEF Lifecycle!Decide
  <2> QED BY <2>2, <2>3 DEF Lifecycle!LifecycleNext
<1> QED BY <1>2, <1>6, <1>7 DEF IsEdge

\* Only publication announces, and only what is decided.
LEMMA QuietRefines ==
  ASSUME SagaInv, Next, UNCHANGED <<saga, processed, journal>>
  PROVE  [Lifecycle!LifecycleNext]_(Lifecycle!lifecycle)
<1>1. saga'.stage = saga.stage /\ Decided' = Decided
  BY DEF Decided
<1>2. \/ published' = published
      \/ \E w \in Workers, r \in Results : Publish(w, r)
  BY ZenonT(30) DEF Next, WorkerStep, Deliver, Redeliver, Project, Load, NakLag, CommitDuplicate,
     CommitConflict, Commit, CommitReplyLost, Ack, Abandon, ScanDue, LoadDeadline,
     RemoveOrphanDeadline, Acquire, LeaseExpire, CompleteLease, CompleteDeadline, Answer,
     ShippingAnswer, PaymentAnswer
<1>3. CASE published' = published
  BY <1>1, <1>3 DEF Lifecycle!lifecycle
<1>4. ASSUME NEW w \in Workers, NEW r \in Results, Publish(w, r)
      PROVE  Lifecycle!LifecycleNext
  <2>1. r \in Decided /\ published' = published \cup {r}
    BY <1>4 DEF Publish, SagaInv, WorkerOK, Decided
  <2>2. Lifecycle!Announce(r)
    BY <1>1, <2>1 DEF Lifecycle!Announce
  <2>3. r \in Lifecycle!Results
    BY DEF Results, Commands, ShippingCommands, PaymentCommands, OrderEvents,
       Lifecycle!Results, Lifecycle!Commands, Lifecycle!ShippingCommands,
       Lifecycle!PaymentCommands, Lifecycle!OrderEvents
  <2> QED BY <2>2, <2>3 DEF Lifecycle!LifecycleNext
<1> QED BY <1>2, <1>3, <1>4

\* The concurrent, redelivering, crashing saga implements the order lifecycle.
THEOREM SagaRefinesLifecycle == Spec => RefinesLifecycle
<1>1. Init => Lifecycle!LifecycleInit
  BY DEF Init, Lifecycle!LifecycleInit, Decided, NoSaga
<1>2. SagaInv /\ [Next]_vars => [Lifecycle!LifecycleNext]_(Lifecycle!lifecycle)
  <2> SUFFICES ASSUME SagaInv, [Next]_vars
               PROVE  [Lifecycle!LifecycleNext]_(Lifecycle!lifecycle)
    OBVIOUS
  <2>1. CASE UNCHANGED vars
    BY <2>1 DEF vars, Lifecycle!lifecycle, Decided
  <2>2. CASE UNCHANGED <<saga, processed, journal>> /\ Next
    BY <2>2, QuietRefines
  <2>3. ASSUME NEW w \in Workers, NEW o, CommitGuard(w),
               o \in Update(worker[w].loaded, worker[w].input),
               WriteOutcome(worker[w].input, o), UNCHANGED <<lease, stream, published>>
        PROVE  [Lifecycle!LifecycleNext]_(Lifecycle!lifecycle)
    BY <2>3, WriteRefines
  <2> QED BY <2>1, <2>2, <2>3, OnlyCommitsWrite, Zenon
<1> QED
  BY SagaInvariant, <1>1, <1>2, PTL DEF Spec, RefinesLifecycle, Lifecycle!LifecycleSpec

----------------------------------------------------------------------------
(* What the participants answered: cancelled orders are undone, completed  *)
(* ones are paid and shipped                                               *)

\* More answers never take evidence away.
LEMMA EvidenceGrows ==
  ASSUME NEW s, NEW D, NEW S, NEW T, S \subseteq T, Evidence(s, D, S)
  PROVE  Evidence(s, D, T)
  BY DEF Evidence, Settled

\* An ignored input keeps the evidence.
LEMMA IgnoredEvidence ==
  ASSUME NEW s, NEW o \in Ignored(s), NEW D, NEW S, Evidence(s, D, S)
  PROVE  Evidence(o.saga, D \cup o.out, S)
<1>1. o.saga = s /\ D \cup o.out = D
  BY DEF Ignored, Outcome
<1> QED BY <1>1

\* cancel outside a compensation: nothing was decided that is not answered.
LEMMA CancelEvidence ==
  ASSUME NEW s \in Sagas, NEW D, NEW S, Evidence(s, D, S),
         Settled("capture", {"capture-failed"}, D, S),
         Settled("authorize", {"authorization-declined", "authorization-released"}, D, S),
         Settled("createShipment", {"shipment-creation-failed", "shipment-cancelled"}, D, S)
  PROVE  Evidence(Cancel(s).saga, D \cup Cancel(s).out, S)
<1> DEFINE t == Cancel(s).saga
<1>1. /\ t.stage = "CANCELLED" /\ t.released = s.released
      /\ t.shipCancelled = s.shipCancelled /\ Cancel(s).out = {"order.cancelled"}
  BY DEF Cancel, Advance, Outcome, Sagas
<1> HIDE DEF t
<1>2. Evidence(t, D \cup {"order.cancelled"}, S)
  BY <1>1 DEF Evidence, Settled
<1> QED BY <1>1, <1>2 DEF t

\* advance: the evidence the new stage asks for is at hand.
LEMMA AdvanceEvidence ==
  ASSUME NEW s \in Sagas, NEW t, NEW out, NEW D, NEW S, Evidence(s, D, S),
         t \notin {"COMPENSATING", "CANCELLED"},
         t \in {"WAITING_FOR_SHIPMENT", "WAITING_FOR_CAPTURE", "COMPLETED"} =>
           "authorized" \in S,
         t \in {"WAITING_FOR_CAPTURE", "COMPLETED"} => "shipment-created" \in S,
         t = "COMPLETED" =>
           "captured" \in S /\ (D \cup out) \cap {"release", "cancelShipment"} = {}
  PROVE  Evidence(Advance(s, t, out).saga, D \cup Advance(s, t, out).out, S)
<1> DEFINE u == Advance(s, t, out).saga
<1>1. /\ u.stage = t /\ u.released = s.released
      /\ u.shipCancelled = s.shipCancelled /\ Advance(s, t, out).out = out
  BY DEF Advance, Outcome, Sagas
<1> HIDE DEF u
<1>2. Evidence(u, D \cup out, S)
  BY <1>1 DEF Evidence
<1> QED BY <1>1, <1>2 DEF u

\* startCompensation: the failed step is the evidence, and a shipment that
\* exists is cancelled as well.
LEMMA StartCompensationEvidence ==
  ASSUME NEW s \in Sagas, NEW b \in BOOLEAN, NEW D, NEW S, Evidence(s, D, S),
         Settled("capture", {"capture-failed"}, D, S),
         b \/ Settled("createShipment", {"shipment-creation-failed"}, D, S)
  PROVE  Evidence(StartCompensation(s, b).saga, D \cup StartCompensation(s, b).out, S)
<1> DEFINE t == StartCompensation(s, b).saga
           out == StartCompensation(s, b).out
<1>1. /\ t.stage = "COMPENSATING" /\ t.needRelease = TRUE /\ t.needCancel = b
      /\ t.released = s.released /\ t.shipCancelled = s.shipCancelled
  BY DEF StartCompensation, Outcome, Sagas
<1>2. out \in SUBSET {"release", "order.stage-changed", "cancelShipment"}
  BY DEF StartCompensation, Outcome
<1> HIDE DEF t, out
<1>3. "capture" \notin out /\ "createShipment" \notin out
  BY <1>2
<1>4. Settled("capture", {"capture-failed"}, D \cup out, S)
  BY <1>3 DEF Settled
<1>5. t.needCancel \/ Settled("createShipment", {"shipment-creation-failed"}, D \cup out, S)
  BY <1>1, <1>3 DEF Settled
<1>6. Evidence(t, D \cup out, S)
  BY <1>1, <1>4, <1>5 DEF Evidence
<1> QED BY <1>6 DEF t, out

\* manualReview asks for no evidence.
LEMMA ManualReviewEvidence ==
  ASSUME NEW s \in Sagas, NEW out, NEW D, NEW S, NEW v \in Nat, Evidence(s, D, S)
  PROVE  Evidence(ManualReview([s EXCEPT !.version = v], out).saga,
                  D \cup ManualReview([s EXCEPT !.version = v], out).out, S)
<1> DEFINE t == ManualReview([s EXCEPT !.version = v], out).saga
<1>1. /\ t.stage = "MANUAL_REVIEW" /\ t.released = s.released
      /\ t.shipCancelled = s.shipCancelled
  BY DEF ManualReview, Outcome, Sagas
<1> HIDE DEF t
<1>2. ASSUME NEW X PROVE Evidence(t, X, S)
  BY <1>1 DEF Evidence
<1> QED BY <1>2 DEF t

\* The compensation events: a recorded compensation has been answered, and the
\* order is cancelled when all that it needs are.
LEMMA CompensationEvidence ==
  ASSUME NEW s \in Sagas, s.stage = "COMPENSATING", NEW e, NEW o \in ApplyCompensation(s, e),
         NEW D, NEW S, Evidence(s, D, S), e \in S
  PROVE  Evidence(o.saga, D \cup o.out, S)
<1>1. \/ o \in Ignored(s)
      \/ o = ManualReview(s, {})
      \/ /\ e = "authorization-released"
         /\ o = FinishCompensation([s EXCEPT !.released = TRUE])
      \/ /\ e = "shipment-cancelled"
         /\ o = FinishCompensation([s EXCEPT !.shipCancelled = TRUE])
  BY Zenon DEF ApplyCompensation
<1>2. CASE o \in Ignored(s)
  BY <1>2, IgnoredEvidence
<1>3. CASE o = ManualReview(s, {})
  <2>1. s = [s EXCEPT !.version = s.version] /\ s.version \in Nat
    BY DEF Sagas, Versions
  <2> QED BY <1>3, <2>1, ManualReviewEvidence
<1>4. ASSUME NEW t \in Sagas, t.stage = "COMPENSATING", Evidence(t, D, S),
             o = FinishCompensation(t)
      PROVE  Evidence(o.saga, D \cup o.out, S)
  <2>1. CASE o = Outcome(t, {})
    BY <1>4, <2>1, IgnoredEvidence DEF Ignored
  <2>2. CASE /\ o = Cancel(t)
             /\ ~(t.needRelease /\ ~t.released) /\ ~(t.needCancel /\ ~t.shipCancelled)
    <3>1. /\ Settled("capture", {"capture-failed"}, D, S)
          /\ t.needRelease /\ t.released
          /\ "authorization-released" \in S
      BY <1>4, <2>2 DEF Evidence
    <3>2. \/ "shipment-cancelled" \in S
          \/ Settled("createShipment", {"shipment-creation-failed"}, D, S)
      BY <1>4, <2>2 DEF Evidence
    <3>3. /\ Settled("authorize", {"authorization-declined", "authorization-released"}, D, S)
          /\ Settled("createShipment", {"shipment-creation-failed", "shipment-cancelled"}, D, S)
      BY <3>1, <3>2 DEF Settled
    <3> QED BY <1>4, <2>2, <3>1, <3>3, CancelEvidence
  <2> QED BY <1>4, <2>1, <2>2 DEF FinishCompensation
<1>5. ASSUME NEW t, \/ /\ t = [s EXCEPT !.released = TRUE]
                       /\ e = "authorization-released"
                    \/ /\ t = [s EXCEPT !.shipCancelled = TRUE]
                       /\ e = "shipment-cancelled"
      PROVE  t \in Sagas /\ t.stage = "COMPENSATING" /\ Evidence(t, D, S)
  <2>1. /\ t \in Sagas /\ t.stage = s.stage /\ t.needRelease = s.needRelease
        /\ t.needCancel = s.needCancel
        /\ t.released = s.released \/ e = "authorization-released"
        /\ t.shipCancelled = s.shipCancelled \/ e = "shipment-cancelled"
    BY <1>5 DEF Sagas
  <2> QED BY <2>1 DEF Evidence
<1> QED BY <1>1, <1>2, <1>3, <1>4, <1>5

\* Every input moves the order on the evidence of what was answered.
LEMMA UpdateEvidence ==
  ASSUME NEW s, SagaOK(s), NEW i \in Inputs, NEW o \in Update(s, i), NEW D, NEW S,
         Evidence(s, D, S), \A r \in D : s.stage \in Reached(r),
         ~IsDeadline(i) => i.kind \in S
  PROVE  Evidence(o.saga, D \cup o.out, S)
<1>1. s \in Sagas /\ s.version \in Nat
  BY DEF SagaOK, Sagas, Versions
<1>2. \/ o \in Ignored(s)
      \/ o \in ApplyOrderCommand(s)
      \/ i.kind # "deadline" /\ o \in ApplySagaEvent(s, i.kind)
      \/ o = ManualReview([s EXCEPT !.version = s.version + 1], {"order.step-timed-out"})
  BY Zenon DEF Update, ProcessDeadline
<1>3. CASE o \in ApplyOrderCommand(s)
  <2>1. \/ o \in Ignored(s)
        \/ o = Advance(s, "REJECTED", {"order.rejected"})
        \/ o = Advance(s, "WAITING_FOR_QUOTE", {"order.submitted", "calculateQuote"})
    BY <1>3, Zenon DEF ApplyOrderCommand
  <2> QED BY <1>1, <2>1, IgnoredEvidence, AdvanceEvidence
<1>4. CASE o = ManualReview([s EXCEPT !.version = s.version + 1], {"order.step-timed-out"})
  <2>1. s.version + 1 \in Nat
    BY <1>1
  <2> QED BY <1>1, <1>4, <2>1, ManualReviewEvidence
<1>5. ASSUME i.kind # "deadline", o \in ApplySagaEvent(s, i.kind)
      PROVE  Evidence(o.saga, D \cup o.out, S)
  <2> DEFINE e == i.kind
  <2>1. e \in S
    BY <1>5 DEF IsDeadline
  <2>2. \/ o \in Ignored(s)
        \/ s.stage = "COMPENSATING" /\ o \in ApplyCompensation(s, e)
        \/ s.stage = "WAITING_FOR_QUOTE" /\ o = Cancel(s)
        \/ s.stage = "WAITING_FOR_AUTHORIZATION" /\ e = "authorization-declined"
           /\ o = Cancel(s)
        \/ s.stage = "WAITING_FOR_SHIPMENT" /\ e = "shipment-creation-failed"
           /\ o = StartCompensation(s, FALSE)
        \/ s.stage = "WAITING_FOR_CAPTURE" /\ e = "capture-failed"
           /\ o = StartCompensation(s, TRUE)
        \/ s.stage = "WAITING_FOR_QUOTE"
           /\ o = Advance(s, "WAITING_FOR_AUTHORIZATION", {"authorize"})
        \/ s.stage = "WAITING_FOR_AUTHORIZATION" /\ e = "authorized"
           /\ o = Advance(s, "WAITING_FOR_SHIPMENT", {"createShipment"})
        \/ s.stage = "WAITING_FOR_SHIPMENT" /\ e = "shipment-created"
           /\ o = Advance(s, "WAITING_FOR_CAPTURE", {"capture"})
        \/ s.stage = "WAITING_FOR_CAPTURE" /\ e = "captured"
           /\ o = Advance(s, "COMPLETED", {"order.completed", "cartClear"})
    BY <1>5, Zenon DEF ApplySagaEvent
  <2> HIDE DEF e
  \* What is not decided before a stage has no answer to look for.
  <2>3. /\ s.stage = "WAITING_FOR_QUOTE" => D \cap {"authorize", "createShipment", "capture"} = {}
        /\ s.stage = "WAITING_FOR_AUTHORIZATION" => D \cap {"createShipment", "capture"} = {}
        /\ s.stage = "WAITING_FOR_SHIPMENT" => "capture" \notin D
        /\ s.stage = "WAITING_FOR_CAPTURE" => D \cap {"release", "cancelShipment"} = {}
    BY ReachedValues DEF FromAuthorization, FromShipment, FromCapture, FromCompensating,
       TerminalStages
  <2>4. CASE s.stage = "COMPENSATING" /\ o \in ApplyCompensation(s, e)
    BY <1>1, <2>1, <2>4, CompensationEvidence
  <2>5. CASE s.stage = "WAITING_FOR_QUOTE" /\ o = Cancel(s)
    BY <1>1, <2>3, <2>5, CancelEvidence DEF Settled
  <2>6. CASE s.stage = "WAITING_FOR_AUTHORIZATION" /\ e = "authorization-declined"
             /\ o = Cancel(s)
    BY <1>1, <2>1, <2>3, <2>6, CancelEvidence DEF Settled
  <2>7. CASE s.stage = "WAITING_FOR_SHIPMENT" /\ e = "shipment-creation-failed"
             /\ o = StartCompensation(s, FALSE)
    BY <1>1, <2>1, <2>3, <2>7, StartCompensationEvidence DEF Settled
  <2>8. CASE s.stage = "WAITING_FOR_CAPTURE" /\ e = "capture-failed"
             /\ o = StartCompensation(s, TRUE)
    BY <1>1, <2>1, <2>8, StartCompensationEvidence DEF Settled
  <2>9. CASE s.stage = "WAITING_FOR_QUOTE"
             /\ o = Advance(s, "WAITING_FOR_AUTHORIZATION", {"authorize"})
    BY <1>1, <2>9, AdvanceEvidence
  <2>10. CASE s.stage = "WAITING_FOR_AUTHORIZATION" /\ e = "authorized"
              /\ o = Advance(s, "WAITING_FOR_SHIPMENT", {"createShipment"})
    BY <1>1, <2>1, <2>10, AdvanceEvidence
  <2>11. CASE s.stage = "WAITING_FOR_SHIPMENT" /\ e = "shipment-created"
              /\ o = Advance(s, "WAITING_FOR_CAPTURE", {"capture"})
    <3>1. "authorized" \in S
      BY <2>11 DEF Evidence
    <3> QED BY <1>1, <2>1, <2>11, <3>1, AdvanceEvidence
  <2>12. CASE s.stage = "WAITING_FOR_CAPTURE" /\ e = "captured"
              /\ o = Advance(s, "COMPLETED", {"order.completed", "cartClear"})
    <3>1. "authorized" \in S /\ "shipment-created" \in S
      BY <2>12 DEF Evidence
    <3>2. (D \cup {"order.completed", "cartClear"}) \cap {"release", "cancelShipment"} = {}
      BY <2>3, <2>12
    <3> QED BY <1>1, <2>1, <2>12, <3>1, <3>2, AdvanceEvidence
  <2> QED BY <2>2, <2>4, <2>5, <2>6, <2>7, <2>8, <2>9, <2>10, <2>11, <2>12, IgnoredEvidence
<1> QED BY <1>2, <1>3, <1>4, <1>5, IgnoredEvidence

\* Publications stay published, and only the participants add to the stream.
LEMMA StreamSteps ==
  ASSUME Next
  PROVE  /\ published \subseteq published'
         /\ \/ stream' = stream
            \/ /\ \E c \in Commands : Answer(c)
               /\ UNCHANGED <<saga, processed, journal, published, worker>>
  BY ZenonT(30) DEF Next, WorkerStep, Deliver, Redeliver, Project, Load, NakLag, CommitDuplicate,
     CommitConflict, Commit, CommitReplyLost, Publish, Ack, Abandon, ScanDue, LoadDeadline,
     RemoveOrphanDeadline, Acquire, LeaseExpire, CompleteLease, CompleteDeadline, Answer,
     ShippingAnswer, PaymentAnswer, redis, broker

\* A worker about to commit has kept its workspace or has just loaded the
\* stored one.
LEMMA CommitPc ==
  ASSUME SagaInv, Next, NEW w \in Workers, worker'[w].pc = "commit"
  PROVE  \/ worker'[w] = worker[w]
         \/ worker'[w].loaded = saga /\ UNCHANGED <<saga, processed, journal>>
<1>1. worker \in [Workers -> WorkerStates]
  BY DEF SagaInv, TypeOK
<1>2. Idle.pc = "idle"
  BY WorkerForms
<1>3. ASSUME NEW i, NEW a PROVE Loading(i, a).pc = "load" /\ Publishing(i, a).pc = "publish"
  BY <1>2 DEF Loading, Publishing, Idle
<1>4. ASSUME NEW u \in Workers, NEW x, worker' = [worker EXCEPT ![u] = x], x.pc # "commit"
      PROVE  worker'[w] = worker[w]
  BY <1>1, <1>4
<1>5. ASSUME NEW u \in Workers, Load(u)
      PROVE  \/ worker'[w] = worker[w]
             \/ worker'[w].loaded = saga /\ UNCHANGED <<saga, processed, journal>>
  BY <1>1, <1>5 DEF Load, redis, WorkerStates
<1>6. ASSUME NEW u \in Workers,
             \/ NakLag(u) \/ CommitDuplicate(u) \/ CommitConflict(u) \/ Commit(u)
             \/ CommitReplyLost(u) \/ Ack(u) \/ Abandon(u) \/ RemoveOrphanDeadline(u)
             \/ CompleteDeadline(u)
             \/ \E m \in MessageNames : Deliver(u, m)
      PROVE  worker'[w] = worker[w]
  <2>1. \E x : x.pc # "commit" /\ worker' = [worker EXCEPT ![u] = x]
    <3>1. CASE NakLag(u) \/ Ack(u) \/ Abandon(u) \/ RemoveOrphanDeadline(u) \/ CompleteDeadline(u)
      BY <1>2, <3>1 DEF NakLag, Ack, Abandon, RemoveOrphanDeadline, CompleteDeadline
    <3>2. CASE CommitConflict(u) \/ CommitReplyLost(u) \/ \E m \in MessageNames : Deliver(u, m)
      BY <1>2, <1>3, <3>2 DEF CommitConflict, CommitReplyLost, Deliver
    <3>3. CASE CommitDuplicate(u) \/ Commit(u)
      BY <1>3, <3>3 DEF CommitDuplicate, Commit
    <3> QED BY <1>6, <3>1, <3>2, <3>3
  <2> QED BY <1>4, <2>1
<1>7. ASSUME NEW u \in Workers,
             \/ ScanDue(u) \/ LoadDeadline(u) \/ Acquire(u) \/ CompleteLease(u)
             \/ \E r \in Results : Publish(u, r)
      PROVE  worker'[w] = worker[w]
  <2>1. CASE ScanDue(u)
    BY <1>1, <2>1 DEF ScanDue, Idle, WorkerStates
  <2>2. CASE LoadDeadline(u)
    BY <1>1, <2>2 DEF LoadDeadline, WorkerStates
  <2>3. CASE Acquire(u) \/ CompleteLease(u)
    BY <1>1, <1>2, <2>3 DEF Acquire, CompleteLease, Goto, WorkerStates
  <2>4. CASE \E r \in Results : Publish(u, r)
    BY <1>1, <2>4 DEF Publish, WorkerStates
  <2> QED BY <1>7, <2>1, <2>2, <2>3, <2>4
<1>8. \/ worker' = worker
      \/ \E u \in Workers :
           \/ Load(u) \/ NakLag(u) \/ CommitDuplicate(u) \/ CommitConflict(u) \/ Commit(u)
           \/ CommitReplyLost(u) \/ Ack(u) \/ Abandon(u) \/ RemoveOrphanDeadline(u)
           \/ CompleteDeadline(u)
           \/ \E m \in MessageNames : Deliver(u, m)
           \/ ScanDue(u) \/ LoadDeadline(u) \/ Acquire(u) \/ CompleteLease(u)
           \/ \E r \in Results : Publish(u, r)
  BY DEF Next, WorkerStep, Redeliver, Project, LeaseExpire, ShippingAnswer, PaymentAnswer,
     Answer
<1> QED BY <1>5, <1>6, <1>7, <1>8

\* Every step keeps the evidence.
LEMMA EvidenceStepInv == EvidenceInv /\ [Next]_vars => EvidenceInv'
<1> SUFFICES ASSUME EvidenceInv, [Next]_vars PROVE EvidenceInv'
  OBVIOUS
<1>1. SagaInv /\ SagaInv'
  BY SagaStepInv DEF EvidenceInv
<1>2. CASE UNCHANGED vars
  <2>1. UNCHANGED <<saga, processed, journal, stream, published, worker>>
    BY <1>2 DEF vars
  <2>2. Decided' = Decided
    BY <2>1 DEF Decided
  <2> QED BY <1>1, <2>1, <2>2 DEF EvidenceInv, AnswersOK, WorkerEvidenceOK
<1>3. ASSUME Next PROVE AnswersOK'
  <2>1. CASE stream' = stream
    BY <1>3, <2>1, StreamSteps DEF EvidenceInv, AnswersOK
  <2>2. ASSUME NEW c \in Commands, Answer(c), published' = published PROVE AnswersOK'
    <3>1. PICK m \in Responses[c] : stream' = stream \cup {m}
      BY <2>2 DEF Answer
    <3>2. \A d \in Commands : d # c => m \notin Responses[d]
      BY <3>1 DEF Responses, Commands, ShippingCommands, PaymentCommands
    <3>3. Responses[c] \cap stream' = {m} /\ c \in published'
      BY <2>2, <3>1 DEF Answer
    <3>4. \A d \in Commands : d # c => Responses[d] \cap stream' = Responses[d] \cap stream
      BY <3>1, <3>2
    <3> QED BY <2>2, <3>3, <3>4 DEF EvidenceInv, AnswersOK
  <2> QED BY <1>3, <2>1, <2>2, StreamSteps
<1>4. ASSUME Next, UNCHANGED <<saga, processed, journal>> PROVE EvidenceInv'
  <2>1. Decided' = Decided /\ stream \subseteq stream' /\ saga' = saga
    BY <1>4, StreamSteps DEF Decided, Answer
  <2>2. Evidence(saga, Decided, stream)'
    BY <2>1, EvidenceGrows DEF EvidenceInv
  <2>3. ASSUME NEW w \in Workers PROVE WorkerEvidenceOK(w)'
    BY <1>1, <1>4, <2>1, <2>2, CommitPc, EvidenceGrows DEF EvidenceInv, WorkerEvidenceOK
  <2> QED BY <1>1, <1>3, <1>4, <2>2, <2>3 DEF EvidenceInv
<1>5. ASSUME Next, NEW w \in Workers, NEW o, CommitGuard(w),
             o \in Update(worker[w].loaded, worker[w].input),
             WriteOutcome(worker[w].input, o), UNCHANGED <<lease, stream, published>>
      PROVE  EvidenceInv'
  <2> DEFINE i == worker[w].input
             s == worker[w].loaded
  <2>1. /\ i \in Inputs /\ i \notin processed /\ SagaOK(s) /\ s.version = saga.version
        /\ SameSaga(s, saga) /\ (~IsDeadline(i) => i.kind \in stream)
        /\ journal \in [Inputs -> SUBSET Results] /\ processed \in SUBSET Inputs
        /\ worker[w].pc = "commit"
    BY <1>1, <1>5 DEF SagaInv, TypeOK, CommitGuard, WorkerOK, WorkerStates
  <2>2. /\ saga' = o.saga /\ stream' = stream
        /\ processed' = processed \cup {i}
        /\ journal' = [journal EXCEPT ![i] = o.out]
    BY <1>5 DEF WriteOutcome
  <2>3. StepOK(s, o)
    BY <1>5, <2>1, UpdateOK
  <2>4. Evidence(s, Decided, stream)
    BY <2>1 DEF EvidenceInv, WorkerEvidenceOK
  <2>5. \A r \in Decided : s.stage \in Reached(r)
    BY <1>1, <2>1 DEF SagaInv, JournalOK, Decided, SameSaga
  <2>6. Evidence(o.saga, Decided \cup o.out, stream)
    BY <1>5, <2>1, <2>4, <2>5, UpdateEvidence
  <2> HIDE DEF i, s
  <2>7. Decided' = Decided \cup o.out
    <3>1. journal'[i] = o.out /\ \A j \in processed : journal'[j] = journal[j]
      BY <2>1, <2>2
    <3>2. ASSUME NEW r PROVE r \in Decided' <=> r \in Decided \/ r \in o.out
      BY <2>2, <3>1 DEF Decided
    <3> QED BY <3>2
  <2>8. Evidence(saga, Decided, stream)'
    BY <2>2, <2>6, <2>7
  \* A worker that can still commit has the version that was just overtaken,
  \* unless only a compensation was recorded.
  <2>9. ASSUME NEW v \in Workers, worker'[v].pc = "commit",
               worker'[v].loaded.version = saga'.version
        PROVE  Evidence(worker'[v].loaded, Decided', stream')
    <3>1. CASE worker'[v] = worker[v]
      <4>1. /\ worker[v].loaded.version <= saga.version /\ worker[v].loaded.version \in Nat
            /\ saga.version \in Nat
        BY <1>1, <2>9, <3>1 DEF SagaInv, TypeOK, WorkerOK, SagaOK, Sagas, Versions
      <4>2. saga'.version = saga.version
        BY <2>1, <2>2, <2>3, <2>9, <3>1, <4>1 DEF StepOK
      <4>3. Decided' = Decided
        BY <2>1, <2>2, <2>3, <2>7, <4>2 DEF StepOK
      <4> QED BY <2>2, <2>9, <3>1, <4>2, <4>3 DEF EvidenceInv, WorkerEvidenceOK
    <3>2. CASE worker'[v].loaded = saga /\ UNCHANGED <<saga, processed, journal>>
      <4>1. Decided' = Decided
        BY <3>2 DEF Decided
      <4> QED BY <2>2, <3>2, <4>1 DEF EvidenceInv
    <3> QED BY <1>1, <1>5, <2>9, <3>1, <3>2, CommitPc
  <2> QED BY <1>1, <1>3, <1>5, <2>8, <2>9 DEF EvidenceInv, WorkerEvidenceOK
<1> QED BY <1>1, <1>2, <1>4, <1>5, OnlyCommitsWrite

\* The evidence holds before anything is decided or answered.
LEMMA EvidenceInitInv == Init => EvidenceInv
<1> SUFFICES ASSUME Init PROVE EvidenceInv
  OBVIOUS
<1>1. AnswersOK
  BY DEF Init, AnswersOK, Responses, Commands, ShippingCommands, PaymentCommands
<1>2. Evidence(saga, Decided, stream)
  BY DEF Init, NoSaga, Evidence
<1>3. \A w \in Workers : WorkerEvidenceOK(w)
  BY WorkerForms DEF Init, WorkerEvidenceOK
<1> QED BY <1>1, <1>2, <1>3, SagaInitInv DEF EvidenceInv

\* The order's stage always rests on what the participants answered.
THEOREM SagaEvidence == Spec => []EvidenceInv
  BY EvidenceInitInv, EvidenceStepInv, PTL DEF Spec

\* A result that was published was decided.
LEMMA PublishedDecided ==
  ASSUME SagaInv PROVE published \subseteq Decided
  BY DEF SagaInv, PublishedOK, Decided

\* When order.cancelled is announced nothing of the order is left: no capture,
\* and every authorization and shipment was undone (cancel, finishCompensation).
THEOREM SagaCancelledMeansUndone == Spec => []CancelledMeansUndone
<1>1. EvidenceInv => CancelledMeansUndone
  <2> SUFFICES ASSUME EvidenceInv, "order.cancelled" \in published
               PROVE  /\ "captured" \notin stream
                      /\ "authorized" \in stream => "authorization-released" \in stream
                      /\ "shipment-created" \in stream => "shipment-cancelled" \in stream
    BY DEF CancelledMeansUndone
  <2>1. saga.stage = "CANCELLED"
    BY ReachedValues DEF EvidenceInv, SagaInv, PublishedOK, JournalOK
  <2>2. /\ Settled("capture", {"capture-failed"}, Decided, stream)
        /\ Settled("authorize", {"authorization-declined", "authorization-released"},
                   Decided, stream)
        /\ Settled("createShipment", {"shipment-creation-failed", "shipment-cancelled"},
                   Decided, stream)
    BY <2>1 DEF EvidenceInv, Evidence
  <2>3. ASSUME NEW c \in Commands, NEW m \in Responses[c], m \in stream
        PROVE  c \in Decided /\ \A n \in Responses[c] : n \in stream => n = m
    BY <2>3, PublishedDecided DEF EvidenceInv, AnswersOK
  <2>4. {"capture", "authorize", "createShipment"} \subseteq Commands
    BY DEF Commands, PaymentCommands, ShippingCommands
  <2>5. /\ Responses["capture"] = {"captured", "capture-failed"}
        /\ Responses["authorize"] = {"authorized", "authorization-declined"}
        /\ Responses["createShipment"] = {"shipment-created", "shipment-creation-failed"}
    BY DEF Responses
  <2> QED BY <2>2, <2>3, <2>4, <2>5 DEF Settled
<1> QED BY SagaEvidence, <1>1, PTL

\* The cart is cleared and order.completed announced only for an order that is
\* paid for and shipped, and of which nothing was undone.
THEOREM SagaCompletedMeansPaid == Spec => []CompletedMeansPaidAndShipped
<1>1. EvidenceInv => CompletedMeansPaidAndShipped
  <2> SUFFICES ASSUME EvidenceInv, published \cap {"order.completed", "cartClear"} # {}
               PROVE  /\ {"authorized", "shipment-created", "captured"} \subseteq stream
                      /\ published \cap {"release", "cancelShipment"} = {}
    BY DEF CompletedMeansPaidAndShipped
  <2>1. saga.stage = "COMPLETED"
    BY ReachedValues DEF EvidenceInv, SagaInv, PublishedOK, JournalOK
  <2> QED BY <2>1, PublishedDecided DEF EvidenceInv, Evidence
<1> QED BY SagaEvidence, <1>1, PTL

============================================================================
