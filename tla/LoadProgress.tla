---------------------------- MODULE LoadProgress ----------------------------
(***************************************************************************)
(* What the load generator and the measurements promise about a whole run, *)
(* checked side by side as in LoadAndReports: the checkout transactions of *)
(* closed-loop users, whose settlement is followed by a greenlet of its    *)
(* own, the saturation ladder of two workers, the schedule of the resource *)
(* sampler, and two sources of the metrics gateway.                        *)
(***************************************************************************)
EXTENDS CheckoutTransactions, SaturationLadder, ResourceUsage

VARIABLES
    part,          \* the component whose behaviour this is
    version, collecting, job, value, late, snapshot, collectBegun, asOf, served

gatewayState == <<version, collecting, job, value, late, snapshot, collectBegun, asOf, served>>

\* Two sources, each with a thread of its own.
Gateway == INSTANCE MetricsGateway WITH
    Sources <- {"kubernetes", "nats"}, Parts <- {"p1"}, Executors <- 1, MaxVersion <- 1

ASSUME LoadProgressAssumption ==
    /\ TransactionsAssumption
    /\ LadderAssumption
    /\ UsageAssumption
    /\ Gateway!GatewayAssumption

Parts == {"orders", "ladder", "gateway", "usage"}

LoadProgressInit ==
    /\ part \in Parts
    /\ TransactionsInit
    /\ LadderInit
    /\ UsageInit
    /\ Gateway!GatewayInit

\* A behaviour of one component; the others keep their initial states.
LoadProgressNext ==
    \/ /\ part = "orders" /\ TransactionsNext
       /\ UNCHANGED <<part, ladderVars, gatewayState, usageVars>>
    \/ /\ part = "ladder" /\ LadderNext
       /\ UNCHANGED <<part, transactionVars, gatewayState, usageVars>>
    \/ /\ part = "gateway" /\ Gateway!GatewayNext
       /\ UNCHANGED <<part, transactionVars, ladderVars, usageVars>>
    \/ /\ part = "usage" /\ UsageNext
       /\ UNCHANGED <<part, transactionVars, ladderVars, gatewayState>>

loadProgressVars == <<part, transactionVars, ladderVars, gatewayState, usageVars>>

LoadProgressFairness ==
    /\ WF_transactionVars(part = "orders" /\ DriverStep)
    /\ \A t \in Transactions : WF_transactionVars(part = "orders" /\ SettlementEvent(t))
    /\ WF_ladderVars(part = "ladder" /\ CoordinatorStep)
    /\ \A w \in Workers : WF_ladderVars(part = "ladder" /\ WorkerStep(w))
    /\ \A s \in {"kubernetes", "nats"} :
          /\ WF_gatewayState(part = "gateway" /\ Gateway!Collect(s))
          /\ WF_gatewayState(part = "gateway" /\ Gateway!Publish(s))
    /\ WF_usageVars(part = "usage" /\ Tick)
    /\ WF_usageVars(part = "usage" /\ Start)
    /\ WF_usageVars(part = "usage" /\ Stop)
    /\ WF_usageVars(part = "usage" /\ Stopped)

LoadProgressSpec ==
    /\ LoadProgressInit /\ [][LoadProgressNext]_loadProgressVars
    /\ LoadProgressFairness

----------------------------------------------------------------------------

\* Drivers, ladder and sampler end although transactions, workers and requests
\* hang, and every source of the gateway is refreshed again and again.
LoadGoesOn ==
    /\ part = "orders" => RunEnds
    /\ part = "ladder" => LadderEnds
    /\ part = "gateway" => Gateway!RefreshGoesOn
    /\ SamplerEnds

=============================================================================
