--------------------------- MODULE LoadAndReports ---------------------------
(***************************************************************************)
(* The load generator and the measurements of a benchmark run, checked     *)
(* side by side: checkout transactions, the split of the load among        *)
(* workers, the event observer, the metrics gateway, and the reports that  *)
(* are made of their files. They meet only through files and snapshots,    *)
(* whose contents the modules choose freely, so a behaviour is one of one  *)
(* component.                                                              *)
(***************************************************************************)
EXTENDS MetricsGateway, EventObserver

VARIABLES
    member,        \* the component whose behaviour this is
    transactionPc, order, business, accepted, outstanding, index, driver, drained,
    breaks,
    config, phase, status, scheduled, saturated,
    reportTick, reportLate, reportControl, faultLog, reportRecords, reportSamples,
    now, counter, used, cadvisor, usageCache, samplerPc, usageBegun, next, skipped, stop,
    usageRecords, workflowEvents, workflowObserver, marks, faults

transactionState == <<transactionPc, order, business, accepted, outstanding, index, driver, drained,
       breaks>>
planState == <<config, phase, status, scheduled, saturated>>
reportState == <<reportTick, reportLate, reportControl, faultLog, reportRecords, reportSamples>>
usageState == <<now, counter, used, cadvisor, usageCache, samplerPc, usageBegun, next, skipped, stop,
       usageRecords, workflowEvents, workflowObserver, marks, faults>>

\* Open loop: two transactions at once and streams that break off.
Orders == INSTANCE CheckoutTransactions WITH
    Count <- 2, Concurrency <- 2, Slots <- 1, Inline <- TRUE, Application <- "NATS",
    MaxBreaks <- 2, pc <- transactionPc

\* The gRPC application at its concurrency limit.
Calls == INSTANCE CheckoutTransactions WITH
    Count <- 2, Concurrency <- 1, Slots <- 1, Inline <- TRUE, Application <- "GRPC",
    MaxBreaks <- 0, pc <- transactionPc

\* Requests around the limits of one and of several workers.
Split == INSTANCE WorkerPlan WITH
    Unit <- 2, MinRate <- 1, MaxOpen <- 3, MaxClosed <- 3, MaxUsers <- 9,
    SpawnDivisor <- 3, StepRate <- 2, StepSeconds <- 2,
    Rates <- {0, 1, 3, 4, 6, 8, 9}, Users <- {0, 1, 3, 4, 7, 8, 9, 10},
    Durations <- {0, 1, 3, 5}, DriverLimit <- 6

\* One outage; every sample of the pending events.
Report == INSTANCE FaultReport WITH
    Unit <- 2, MinRate <- 1, MaxOpen <- 2, MaxClosed <- 3, MaxUsers <- 3,
    SpawnDivisor <- 3, StepRate <- 2, StepSeconds <- 2, Drain <- 0, Stable <- 1,
    Fraction <- <<9, 10>>, Tolerance <- 0, Baseline <- 2, MaxAge <- 1, MaxSlow <- 1,
    Plan <- << [down |-> 1, up |-> 2] >>, Rate <- 2, Duration <- 4, MaxLate <- 0,
    Application <- "NATS", Outcomes <- {"completed", "none"}, Samples <- {0, 1},
    tick <- reportTick, late <- reportLate, control <- reportControl,
    records <- reportRecords, samples <- reportSamples

\* Two outages, and a worker that starts half a second late.
Outages == INSTANCE FaultReport WITH
    Unit <- 2, MinRate <- 1, MaxOpen <- 2, MaxClosed <- 3, MaxUsers <- 3,
    SpawnDivisor <- 3, StepRate <- 2, StepSeconds <- 2, Drain <- 1, Stable <- 1,
    Fraction <- <<9, 10>>, Tolerance <- 0, Baseline <- 2, MaxAge <- 1, MaxSlow <- 1,
    Plan <- << [down |-> 1, up |-> 2], [down |-> 3, up |-> 4] >>, Rate <- 2,
    Duration <- 5, MaxLate <- 1,
    Application <- "GRPC", Outcomes <- {"completed", "none"}, Samples <- {},
    tick <- reportTick, late <- reportLate, control <- reportControl,
    records <- reportRecords, samples <- reportSamples

\* Two workers with different shares, each on time or late; late and failed requests.
Shares == INSTANCE FaultReport WITH
    Unit <- 2, MinRate <- 1, MaxOpen <- 2, MaxClosed <- 3, MaxUsers <- 3,
    SpawnDivisor <- 3, StepRate <- 2, StepSeconds <- 2, Drain <- 1, Stable <- 1,
    Fraction <- <<9, 10>>, Tolerance <- 0, Baseline <- 2, MaxAge <- 1, MaxSlow <- 1,
    Plan <- << [down |-> 1, up |-> 2] >>, Rate <- 3, Duration <- 3, MaxLate <- 1,
    Application <- "GRPC",
    Outcomes <- {"completed", "completed late", "failed", "none"}, Samples <- {},
    tick <- reportTick, late <- reportLate, control <- reportControl,
    records <- reportRecords, samples <- reportSamples

\* A pod that restarts, or a gateway that misses it or one of its counters.
Usage == INSTANCE ResourceUsage WITH
    Pods <- {"p"}, Interval <- 1, WarmUp <- 0, End <- 3, MaxTime <- 3, MaxWork <- 2,
    MaxWorkflowEvents <- 0, MaxFaults <- 1, cache <- usageCache, begun <- usageBegun,
    records <- usageRecords

ASSUME LoadAndReportsAssumption ==
    /\ Orders!TransactionsAssumption
    /\ Calls!TransactionsAssumption
    /\ ObserverAssumption
    /\ GatewayAssumption
    /\ Split!PlanAssumption
    /\ Report!ReportAssumption
    /\ Outages!ReportAssumption
    /\ Shares!ReportAssumption
    /\ Usage!UsageAssumption

Members == {"orders", "calls", "observer", "gateway", "plan", "report", "outages", "shares", "usage"}

LoadAndReportsInit ==
    /\ member \in Members
    /\ Orders!TransactionsInit
    /\ ObserverInit
    /\ GatewayInit
    /\ Split!PlanInit
    /\ member # "plan" => config = Split!Smallest
    /\ CASE member = "shares" -> Shares!ReportInit
         [] member = "outages" -> Outages!ReportInit
         [] OTHER -> Report!ReportInit
    /\ Usage!UsageInit

\* A behaviour of one component; the others keep their initial states.
LoadAndReportsNext ==
    \/ /\ member = "orders" /\ Orders!TransactionsNext
       /\ UNCHANGED <<member, observerVars, gatewayVars, planState, reportState,
                       usageState>>
    \/ /\ member = "calls" /\ Calls!TransactionsNext
       /\ UNCHANGED <<member, observerVars, gatewayVars, planState, reportState,
                       usageState>>
    \/ /\ member = "observer" /\ ObserverNext
       /\ UNCHANGED <<member, transactionState, gatewayVars, planState, reportState,
                       usageState>>
    \/ /\ member = "gateway" /\ GatewayNext
       /\ UNCHANGED <<member, transactionState, observerVars, planState, reportState,
                       usageState>>
    \/ /\ member = "plan" /\ Split!PlanNext
       /\ UNCHANGED <<member, transactionState, observerVars, gatewayVars, reportState,
                       usageState>>
    \/ /\ member = "report" /\ Report!RunTick
       /\ UNCHANGED <<member, transactionState, observerVars, gatewayVars, planState,
                       usageState>>
    \/ /\ member = "outages" /\ Outages!RunTick
       /\ UNCHANGED <<member, transactionState, observerVars, gatewayVars, planState,
                       usageState>>
    \/ /\ member = "shares" /\ Shares!RunTick
       /\ UNCHANGED <<member, transactionState, observerVars, gatewayVars, planState,
                       usageState>>
    \/ /\ member = "usage" /\ Usage!UsageNext
       /\ UNCHANGED <<member, transactionState, observerVars, gatewayVars, planState,
                       reportState>>

loadAndReportsVars ==
    <<member, transactionState, observerVars, gatewayVars, planState, reportState,
          usageState>>

LoadAndReportsSpec ==
    /\ LoadAndReportsInit /\ [][LoadAndReportsNext]_loadAndReportsVars

----------------------------------------------------------------------------

\* The outstanding counter is the number of accepted orders whose outcome is
\* not recorded: those still followed, and those whose transaction was killed.
OutstandingExact == IF member = "calls" THEN Calls!OutstandingExact ELSE Orders!OutstandingExact

\* Together the workers schedule exactly the requested load: every request of a
\* saturation rung by one worker and no other, all users, and an arrival rate
\* to within one request per worker. A worker sends all of its schedule that
\* its concurrency allows.
LoadIsWhole == Split!LoadIsWhole

\* The shared target is sampled by exactly one worker if metrics are wanted.
OneSampler == Split!OneSampler

\* The report counts no fewer lost requests than the scheduled requests without an
\* outcome record; and exactly those if every worker started with the plan's clock.
LostCounted ==
    CASE member = "shares" -> Shares!LostCounted
      [] member = "outages" -> Outages!LostCounted
      [] OTHER -> Report!LostCounted

\* A fault is reported as converged only on evidence: its scale-up has succeeded,
\* at no moment of the window a service is on its way down or down, in each second
\* as many requests have an outcome as should have been sent (all of them, if the
\* workers are on time), and (NATS) in the MaxAge seconds before each second of it
\* there was a sample no higher than one of a second that began before the fault.
ConvergedIsReal ==
    CASE member = "shares" -> Shares!ConvergedIsReal
      [] member = "outages" -> Outages!ConvergedIsReal
      [] OTHER -> Report!ConvergedIsReal

\* Every second that begins while a service is down is labelled as its outage. The
\* second in which it goes down keeps the phase before, for all but its beginning.
OutageLabelled ==
    CASE member = "shares" -> Shares!OutageLabelled
      [] member = "outages" -> Outages!OutageLabelled
      [] OTHER -> Report!OutageLabelled

\* The report never says that a pod has used more than it did between the first and
\* the last steady sample that showed its counter, whatever restarts, failed requests
\* and silent nodes lie between, except for what a counter stood at when it appeared
\* in a pod that was seen without it; the operations of the disk latency do without
\* that exception. It is exactly what was used if every sample showed the counter and
\* nothing failed.
NothingInvented == Usage!NothingInvented

----------------------------------------------------------------------------
(* The properties of the run                                              *)

\* Types of the state of the component whose behaviour it is.
LoadAndReportsTypeOK ==
    CASE member = "orders" -> Orders!TransactionsTypeOK
      [] member = "calls" -> Calls!TransactionsTypeOK
      [] member = "gateway" -> GatewayTypeOK
      [] member = "plan" -> Split!PlanTypeOK
      [] member = "report" -> Report!ReportTypeOK
      [] member = "outages" -> Outages!ReportTypeOK
      [] member = "shares" -> Shares!ReportTypeOK
      [] member = "usage" -> Usage!UsageTypeOK
      [] OTHER -> TRUE

\* The workers together take up the requested load, and one of them samples.
LoadIsDivided == LoadIsWhole /\ OneSampler

\* The reports say what happened: the outstanding orders are counted exactly, no
\* lost request is missed, a convergence is reported only where there was one, every
\* second that begins in an outage is labelled, and resource use is invented only
\* where a counter was missing.
ReportIsTrue ==
    /\ LoadAndReportsTypeOK
    /\ OutstandingExact
    /\ LostCounted /\ ConvergedIsReal /\ OutageLabelled
    /\ NothingInvented

=============================================================================
