--------------------------- MODULE OrderLifecycle ---------------------------
(***************************************************************************)
(* What the checkout saga promises, with no workers, stores or deliveries: *)
(* an order follows one path of the lifecycle graph, every edge is taken   *)
(* at most once, the edge's results are decided together with the stage,   *)
(* and only decided results are ever announced.                            *)
(***************************************************************************)
EXTENDS SagaTransitions

VARIABLES stage, decided, announced

lifecycle == <<stage, decided, announced>>

Edge(from, to, results) == [from |-> from, to |-> to, results |-> results]

\* processOrderCommand and applySagaEvent, one edge per stage change
WorkflowEdges ==
    { Edge("NONE", "REJECTED", {"order.rejected"}),
      Edge("NONE", "WAITING_FOR_QUOTE", {"order.submitted", "calculateQuote"}),
      Edge("WAITING_FOR_QUOTE", "WAITING_FOR_AUTHORIZATION", {"authorize"}),
      Edge("WAITING_FOR_QUOTE", "CANCELLED", {"order.cancelled"}),
      Edge("WAITING_FOR_AUTHORIZATION", "WAITING_FOR_SHIPMENT", {"createShipment"}),
      Edge("WAITING_FOR_AUTHORIZATION", "CANCELLED", {"order.cancelled"}),
      Edge("WAITING_FOR_SHIPMENT", "WAITING_FOR_CAPTURE", {"capture"}),
      Edge("WAITING_FOR_SHIPMENT", "COMPENSATING", {"release", "order.stage-changed"}),
      Edge("WAITING_FOR_CAPTURE", "COMPLETED", {"order.completed", "cartClear"}),
      Edge("WAITING_FOR_CAPTURE", "COMPENSATING",
           {"release", "cancelShipment", "order.stage-changed"}),
      Edge("COMPENSATING", "CANCELLED", {"order.cancelled"}),
      Edge("COMPENSATING", "MANUAL_REVIEW", {"order.manual-review"}) }

\* processDeadline: any stage that waits may time out
TimeoutEdges ==
    { Edge(s, "MANUAL_REVIEW", {"order.step-timed-out", "order.manual-review"}) :
        s \in WaitingStages \cup {"COMPENSATING"} }

Edges == WorkflowEdges \cup TimeoutEdges

LifecycleInit == stage = "NONE" /\ decided = {} /\ announced = {}

Decide(e) ==
    /\ stage = e.from
    /\ e.results \cap decided = {}
    /\ stage' = e.to
    /\ decided' = decided \cup e.results
    /\ UNCHANGED announced

Announce(r) ==
    /\ r \in decided
    /\ announced' = announced \cup {r}
    /\ UNCHANGED <<stage, decided>>

LifecycleNext == (\E e \in Edges : Decide(e)) \/ (\E r \in Results : Announce(r))

LifecycleSpec == LifecycleInit /\ [][LifecycleNext]_lifecycle

============================================================================
