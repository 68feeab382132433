# TLA+ verification of the NATS-based Online Boutique

This directory is the formal model of `microservices-demo-nats`: an online shop
whose services talk through NATS JetStream and keep their state in Redis and in
JetStream key-value buckets. It holds TLA+ modules, TLC configurations and
TLAPS proofs. Paths below are relative to the repository's `src/` directory
unless they start with `docs/`.

## 1. The system

| Component | State it keeps | Operations | Interacts with |
|---|---|---|---|
| `checkoutservice`: order saga (`saga.go`, `redis_store.go`, `messaging.go`) | per order in Redis: saga, version, accepted snapshot, result journal by input id | order command, twelve participant events, timeout | commands to payment, shipping and cart; order events to everybody |
| `checkoutservice`: deadline scanner (`messaging.go`, `redis_store.go`) | deadline index (64 shards), deadline record, fencing lease | scan, claim, complete, orphan removal | the same order keys, concurrently with the lanes of all replicas |
| `checkoutservice`: projections (`redis_store.go`) | versioned cart, product, catalog and rate values | apply event, load for an order | catalog, currency and cart events |
| `shared/stateless`: leases (`lease.go`, `kv_lease.go`, `currencyservice/bootstrap_claim.js`) | owner, token, expiry, completed per work item | acquire, renew, complete | deadline scanner (Redis); catalog and currency bootstrap (JetStream KV) |
| `shared/stateless`: aggregate store (`aggregate.go`, .NET twin) | state, version, inbox per aggregate | load, commit | cart service |
| `cartservice` | cart and version per user, result journal; product availability projection | add item, clear (expected version), catalog events | commands from the frontend and from checkout; cart events |
| `paymentservice`, `shippingservice` | none: outcomes are derived from the command | authorize/capture/release, quote/create/cancel | checkout |
| `productcatalogservice`, `currencyservice` | files; a bootstrap lease in KV | publish the catalog or the rates once per revision | all projections |
| `storefrontprojectionservice` | products, carts, orders, operations in KV buckets; caches | apply events, answer queries | frontend |
| `frontend` | none (cookies) | publish commands with stable ids, query | storefront projection |
| `recommendationservice`: catalog (`catalog_kv.py`, `nats_events.py`) | product records, index and snapshot marker in one KV bucket; cached copy per replica | apply upsert, removal, snapshot; migrate a bucket without index; answer from the cache | catalog events; replicas share durable and bucket |
| `recommendationservice`: triggers (`nats_events.py`) | none; the newest recommendation of a session is kept by the storefront | thin out a batch, choose, publish, acknowledge | cart events and page views |
| `recommendationservice`: supervisor (`nats_events.py`) | connection, consumer tasks, queues, ready flag | connect, consume, tear down, back off, stop | both of the above run on it |
| `emailservice` (`nats_worker.py`) | none | fetch a batch, send, publish the outcome, acknowledge, nak, drain | completed orders |
| `benchmarkservice`: run control (`control.py`, `job.py`) | active-run lease and run records in KV, Kubernetes Jobs | start, stop, details, reconcile; heartbeat, finalize | API replicas and coordinators compete for the lease |
| `benchmarkservice`: workers of a run (`job.py`, `runtime.py`) | coordination objects in the Object Store | barrier, run, collect, merge, upload, verdict | one coordinator, several pods |
| `benchmarkservice`: shared store (`shared_store.py`) | one connection, its lock and error table | compare-and-set, read, object calls, retry, close | under all of the above |
| `benchmarkservice`: page (`app.py`) | the sequence of runs, the list | submit, refresh, stop | the API |
| `benchmarkservice`: load (`locustfile.py`, `saturation.py`, `config.py`) | transactions, `business.jsonl`, `outstanding.jsonl`, rung objects | drive, submit, follow over SSE, settle, drain; climb the ladder; split the load | frontend, workers of the run |
| `benchmarkservice`: measurement (`cluster_metrics.py`, `metrics_server.py`, `runtime.py`) | event counts, cached snapshots, `resources.jsonl` | observe, collect, serve, sample | cluster, NATS |
| `benchmarkservice`: fault injection (`fault_tolerance.py`, `standalone.py`) | replicas of the deployments, `faults.jsonl` | scale down, wait, scale up, restore | kubectl, Locust processes |
| `benchmarkservice`: reports (`reporting.py`, `parse_results.py`) | none | spans, phases, lost requests, convergence, resource totals | the files of a run |
| `adservice`, `shoppingassistantservice` | none | answer queries | |
| `messageoperationsservice` | none | inspect and replay dead letters | JetStream |
| `loadgenerator`, scripts, manifests, generated protobuf code | tooling | | |

Hard behaviours: every consumer has explicit acknowledgement, redelivery after
30 s and at most ten deliveries; messages of one order arrive on five durable
consumers, so they are ordered only within one consumer of one replica; any
replica may process any message; publication and acknowledgement follow the
commit as separate steps; a script may run and lose its reply; scanners of all
replicas compete for deadlines under leases that expire while the holder works.

What makes each component correct:

* saga: one effect per input and per order; a verdict agrees with what payment
  and shipping did; nobody moves an order back; every accepted order ends;
* scanner: a waiting order can always be found; a deadline never overrules an
  order that went on; results of a timeout get published;
* leases: one unexpired holder; a late holder is refused; completion is final;
* cart: commands apply once; a clear removes only what its sender saw; the
  published snapshots are the versions of one history;
* projections: never older than before, and finally the newest;
* recommendation: no stored product is missing in the index; a trigger is
  dropped only for a newer one; a lost connection is rebuilt and two generations
  of consumers never overlap;
* email: one outcome per order, and none acknowledged before it is announced;
* benchmark runs: one workload at a time, every run gets a verdict that its
  artifacts bear out, the cluster under test is left as it was found;
* measurement and reports: numbers are what really happened or are absent.

`PROJECT.json` lists all components with their status and, under `hazards`, the
places of the code these properties are for.

## 2. Modules

| Module | Models | Composition |
|---|---|---|
| `SagaTransitions` | `saga.go`, `processDeadline`: the pure function from saga and input to next saga and results | used by the two below |
| `CheckoutSaga` | `ApplyOrder` and its Lua script, delivery, publication, acknowledgement, scanner, participants, for one order | EXTENDS `SagaTransitions` |
| `OrderLifecycle` | abstract specification: a graph of stages whose edges decide results once | implemented by `CheckoutSaga` |
| `Lease` | `lease.go`: three atomic scripts with caller-supplied time | abstract for `KVLease` |
| `KVLease` | `kv_lease.go`, `bootstrap_claim.js`: the same with read, decide, compare-and-set | EXTENDS `Lease`, implements it |
| `CartTransitions` | `RedisAggregateCartStore.cs`: what a command does to a cart of a version | used by the two below |
| `CartAggregate` | the cart's replicas over `RedisAtomicAggregateStore.cs`, delivery, publication, acknowledgement, and the readers' projection, for one cart | EXTENDS `CartTransitions` |
| `CartLedger` | abstract specification: each command answered once by one atomic transition | implemented by `CartAggregate` |
| `RecommendationCatalog` | `catalog_kv.py`, the catalog handler and `_CatalogCache`: replicas, bucket, readers | in `EventServices`, `EventServicesProgress` |
| `RecommendationTriggers` | batch filter, trigger handlers, projected view of a session | in the same |
| `RecommendationSupervisor` | `_run`, `_consume`, pools, reconnect callbacks | in the same |
| `EmailWorker` | `emailservice/nats_worker.py` | in the same |
| `BenchmarkRuns` | `control.py` and the coordinator's part of `job.py` | in `RunControl`, `RunProgress` |
| `SharedStore` | `shared_store.py` | in the same |
| `RunSequence` | the script in `app.py` | in the same |
| `BenchmarkWorkers` | `job.py` with several workers | in `RunProgress` |
| `FaultInjection` | `fault_tolerance.py`, `standalone.py` | in `RunProgress` |
| `CheckoutTransactions` | drivers and transactions of `locustfile.py` | in `LoadAndReports`, `LoadProgress` |
| `SaturationLadder` | saturation driver and `saturation.py` | in `LoadProgress` |
| `EventObserver` | `NatsMicroStatsClient` of `cluster_metrics.py` | in `LoadAndReports` |
| `MetricsGateway` | collectors and snapshot cache | in `LoadAndReports`, `LoadProgress` |
| `WorkerSplit`, `WorkerPlan` | `config.py`: validation and shares; a request from validation to the last worker | in `LoadAndReports` |
| `FaultReport` | `fault_tolerance_summary` of `reporting.py` over a run | EXTENDS `WorkerSplit`; in `LoadAndReports` |
| `ResourceUsage` | `ResourceSampler` and the resource totals of the report | in `LoadAndReports`, `LoadProgress` |
| `MCCheckoutSaga` | symmetry and state constraint for the saga's runs | EXTENDS `CheckoutSaga` |
| `StatelessStores`, `EventServices`, `EventServicesProgress`, `RunControl`, `RunProgress`, `LoadAndReports`, `LoadProgress` | components side by side with their instances | see below |
| `CheckoutSagaProofs`, `LeaseProofs`, `CartAggregateProofs` | theorems about the saga, the leases, the cart | EXTEND the modules they are about |
| `EventServicesProofs` | theorems about the catalog, the supervisor, the triggers and the email worker | the same |
| `RunProofs`, `ControlProofs`, `RunProgressProofs` | theorems about the run control; the shared store and the page; the workers and the fault injection | the same |
| `LoadProofs` | theorems about the ladder, the gateway, the observer, the transactions, the sampler and the plan | the same |

Components side by side. The seven modules from `StatelessStores` on extend or
instantiate several components (they extend those whose properties are proved,
so that a run checks the very definitions the theorems state, with the constants in
its cfg) and add one variable, `part`: a behaviour picks a component
and is one of that component's, while the others keep their initial states. The
components in one such module share no variable and the module of each already
contains its environment (what the others do to it, at any moment and in any
order), so nothing is gained by interleaving them, and TLC explores the sum of
their state spaces, not the product. A component may appear as several parts
with different constants. Properties are those of the component modules under
the same names. Fairness is that of the component (its `...Fairness`), for the
behaviours that are its own.

Definitions named `...` with a comment "Mutant of D" are deliberately wrong
variants of `D`; nothing uses them, they document which property notices which
mistake (`mutants` in `PROJECT.json`).

### CheckoutSaga and the code

* `saga`, `processed`/`journal`, `dueIndex`, `deadline` are the keys `:saga` and
  `:version` (always written together), `:results`, the order's member in
  `:deadlines`, and `:deadline`. A deadline record is named by the version that
  armed it: its work id is derived from version and time, and each version arms
  at most one time.
* A worker is one goroutine: a processing lane or a deadline scanner. Its `pc`
  follows `ApplyOrder`: `load` (MGET), `commit` (the Lua script, with the
  branches duplicate, conflict and write), `publish` (one step per JetStream
  acknowledgement), then `Ack`; a scanner goes through `due`, `orphan`/`claim`
  before and `finish` after. Every Redis or JetStream call is one step.
* `Update` is the set of outcomes of a transition. It has more than one member
  only where the decision depends on data left out: acceptance of the command
  (validation of cart, prices and payment data) and currency conversion of the quote.
* The broker is external: `queued` holds what it may deliver, `Redeliver` is
  AckWait running out or a lost acknowledgement, `Requeue` is a NAK that leads to
  another delivery or, at the last one, to `dropped`.
* Faults (`MaxFaults`) are crashes or failed handlers (`Abandon`), lost replies
  (`CommitReplyLost`) and spurious redeliveries.
* Time is not modelled: a deadline may be due, and a lease may run out, at any
  moment. This has more behaviours than the code with well-behaved clocks and
  is what a paused process sees.
* The payment and shipping services answer each command with one of its two
  events or never (`Answers` restricts which answers an instance can give).

### Lease and KVLease and the code

`rec` is the stored hash or KV value, `held` what the callers have in memory.
Calls take any `now` up to the clock, because callers read the time before the
call (the scanner before a whole loop). `KVLease` adds the read value, the
revision and the attempt counter of each call in progress. `GiveUp`/`Stop` is
an error or the end of the process.

### CartAggregate and the code

* `cart` and `version` are the `:state` and `:version` keys, `journal` the
  `:inbox:` keys. A replica has one worker for a cart because
  `AggregatePartitionedDispatcher` queues the commands of one user in one
  partition; replicas run concurrently. `pc` follows `HandleAsync`: `check`
  (the product lookup of an add, once per delivery), `load` and `commit` (the
  two scripts, up to `MaximumStoreAttempts` times), `publish`, `ack`.
* A cart is a function from products to quantities (0 means no line). A line
  that would overflow `int32` is a rejection; `QuantityLimit` stands for the
  largest `int32`.
* `Send` is the frontend or checkout. A clear carries a version its sender can
  have read: 0 or that of an announced snapshot (`Seen`).
* `view` is the projection of the readers; events reach it in any order and
  again (`ProjectAgain`), and `applyProjectionScript` takes only newer versions.
* `CatalogEvent` changes product availability at any time, also between the
  lookup and the commit.

### The recommendation modules and the code

* Every get, create and update of the bucket is one step, and an update carries
  the revision that was read; `attempts` is the loop of `update_index`. The
  migration of a bucket without index (`start`) is part of the replica's start.
  `catalogGiven` are events after the last delivery.
* `RecommendationCatalog` has one cached copy with its lock and several readers
  of one replica; `CacheExpires` is the end of its time to live.
* Trigger versions are clock readings, so one order covers both kinds; which
  products are drawn is left out, the result carries the catalog revision.
* In `RecommendationSupervisor` a step is what happens between two awaits.
  Messages are counted; `queue.join()` waits for the count of unfinished ones.

### EmailWorker and the code

`_process_messages` starts a pool of workers for a batch; when a nak fails,
`gather` raises and the replica drains its connection while the workers left
over (`orphan`) go on until it is closed. `FailureMode` is per replica because a
rollout may change it.

### The run control modules and the code

* `BenchmarkRuns`: `mutate`, `_acquire_lease`, `renew_lease` and
  `release_lease` are retried compare-and-set loops and therefore atomic; what a
  caller has read before is a step of its own. `Ambiguous` lets calls fail
  although the workload runs.
* `SharedStore`: a coroutine runs to its next await; `wire` holds requests that
  may be carried out after their caller has given up; `Timeout` is bounded by
  `MaxFaults` except where nothing else can end a call (the loop has stopped, or
  the holder of the lock is gone).
* `RunSequence` is the page's script: it runs to the next await, answers may be
  late or lost, and lists may be older than the runs.
* `BenchmarkWorkers`: objects of the barrier and results are sets; deadlines are
  moments that may come.
* `FaultInjection`: main thread and controller thread; a kubectl call may fail
  with or without effect; `_wait_until` may run into its deadline.

### The load and measurement modules and the code

* `CheckoutTransactions` follows one transaction from the product page to its
  settlement; the storefront's order is the environment (`OrderProgress`), and a
  stream may break off (`MaxBreaks`). `Slots` is the limit on reconnecting streams.
* `SaturationLadder`: progress and decision objects are shared by both backends
  (files and KV); the coordinator's samples come from an observer that may reset.
* `EventObserver` assumes that no disconnect callback runs between a flush's PONG
  and the reading of the counts, and that subscriptions are queued without
  giving the loop away.
* `MetricsGateway`: a request that misses the deadline keeps its executor thread
  (`late`); cAdvisor counters, which the code keeps for 30 seconds on purpose,
  are left out.
* `WorkerSplit` computes with whole numbers of 1/`Unit` orders per second.
* `FaultReport` unfolds a run second by second and evaluates the report's
  formulas on its files; `ResourceUsage` does the same with the sampler's
  records. One counter stands for CPU, network and disk; the gateway's cache
  never goes back (it has one replica).

## 3. Runs

| Run | Instance | Shows |
|---|---|---|
| `SagaLanes` | 2 lanes, all answers, 2 faults, 2 attempts | `ResultsOnce`, `CancelledMeansUndone`, `CompletedMeansPaidAndShipped`, `JournalStable` |
| `SagaTimeouts` | 1 lane, 1 scanner, all answers, 1 fault | `DeadlineDiscoverable`, `VerdictHolds`, `SagaNeverRewinds`, `RefinesLifecycle` |
| `SagaLiveness` | 1 lane, 1 scanner, a failing shipment, 1 fault, fair | `SagaProgress` (`OrderSettles`, `StoredResultsPublished`) |
| `SagaCompensations` | 2 lanes | violation, see findings |
| `SagaTimeoutResults` | 1 lane, 1 scanner, 1 fault, fair | violation, see findings |
| `StatelessStores` | cart: 2 replicas, three adds and a clear, 2 attempts, line limit 2, and three of the commands with a fault; leases: 2 workers, clock to 4, leases of 2, 2 attempts; fair | `HistoryLinear`, `ClearsWhatWasSeen`, `AnswersStable`, `RefinesLedger`, `CartGoesOn` (`CommandsAnswered`, `ViewCatchesUp`); `MutualExclusion`, `CompletionIsFinal`, `TokensFence`, `RefinesLease` |
| `EventServices` | catalog: 2 replicas, 3 products, one of them removed, a bucket without index, 2 faults; triggers: 2 replicas, 3 triggers, 1 fault; supervisor: 2 consumers, a connection that drops or closes; email: 2 replicas, 2 orders, 2 faults | `OneGeneration`; `ToldOnce` (`AckedMeansNotified`, `OneOutcome`); `CatalogKept` (`StoredMeansIndexed`, `VersionsRise`); `SessionKeepsNewest` (`SupersededByNewer`, `ViewNeverRewinds`) |
| `EventServicesProgress` | 1 replica, 2 readers, two catalogs; 3 triggers; a connection that drops; 3 orders, one invalid, with 2 workers; 1 fault each; fair | `ServicesGoOn`: `CacheFollows` (`CacheNeverRewinds`, `CacheConverges`) and `EventsAnswered` (`SessionAnswered`, `OrderNotified`, `SupervisorRebuilds`, `StopEnds`) |
| `RunControl` | control: 2 runs, 2 requests, crashes and 2 faults, and stops with ambiguous failures; store: 2 threads, 2 calls each, drops and time-outs; page: 2 sequences of 2 runs, another user, 1 fault | `OneWorkload`; `SequenceObeys` (`OneAtATime`, `StopSticks`); `StoreIsSafe` (`WrittenOnce`, `OneClient`); `LeaseReleases` (`ReleasedWhenOver`, `ReleaseIsFinal`); `StopsReleaseOnce` (`ReleaseIsFinal` with stop requests) |
| `RunProgress` | control: 2 runs, 1 fault; store: 1 thread, 3 calls of all kinds, 2 faults; page: 1 sequence; pods: 3 workers, 2 faults; injection: 2 deployments, 2 processes, 3 failing calls; fair | `VerdictsAreTrue` (`StartTogether`, `CompletedMeansAll`, `VerdictHasArtifacts`); `ClusterRestored` (`NothingLeftDown`, `OneOutage`, `CompletedMeansInjected`); `RunsEnd` (`RunSettles`, `SequenceEnds`, `AllEnd`, `FaultRunEnds`, `CallReturns`, `StoreRecovers`) |
| `LoadAndReports` | transactions: open loop, 2 at once, and gRPC at its limit; observer: 1 caller, 3 events, 2 drops; gateway: 3 parts, 2 threads; split: rates and users around the limits of one and of several workers; reports: two outages, and two workers with unequal shares; usage: one pod, 2 faults | `NothingStale`; `ObservedIsReal` (`OneConnection`, `CountsAreReal`); `LoadIsDivided` (`LoadIsWhole` with `RungsShared`, `OneSampler`); `ReportIsTrue` (`OutstandingExact`, `LostExact`, `ConvergedIsReal`, `OutageLabelled`, `NothingInvented`) |
| `LoadProgress` | closed loop, 2 transactions; 2 workers, 2 rungs, 2 faults; 2 sources; a sampler that skips ticks; fair | `TransactionsAreTrue` (`EveryTransactionRecorded`, `OutstandingExact`, `RecordsAreTrue`); `SamplesAccounted` (`TicksAccounted`, `WorkflowCountsReal`); `LadderIsReal` (`RungsInStep`, `LoggedOnce`, `GoodputIsReal`); `LoadGoesOn` (`RunEnds`, `LadderEnds`, `RefreshGoesOn`, `SamplerEnds`) |

The last six runs check one property per concern; its parts, in parentheses, are
the properties of the component modules, and `mutants` in `PROJECT.json` has a
mistake for every part. One property of a run includes the type invariants of
its components (`...TypeOK`); those of the saga, the leases, the cart and of the
components of section 4 are proved.

Bounds of the saga. Two lanes are what a race needs: the commit compares one
version, so a conflict involves one stale and one current worker; the proofs
cover any number of lanes and scanners. Two faults allow a crash or lost reply
followed by a redelivery of the same input. The version bound 7 is not a limit
of the model: it is the longest path of the lifecycle, and `SagaTypeOK` proves
that it is never exceeded. `OneClaimedDeadline` (`SagaTimeouts`) leaves out
behaviours in which deadlines of two versions are both claimed; each version has
its own lease and input id, and the theorems hold without the constraint.

Bounds of the stores. Two replicas make every conflict of the cart; the limit of
2 attempts lets the retries run out, a line limit of 2 makes the third unit
overflow, and the third add lets the cart change between what a clear's sender
saw and the clear. Four ticks of the clock with leases of two let a lease
expire, be taken over and expire again.

Bounds of the other components. Races in them are between two replicas, threads,
callers or tasks, so two of each are there; the events of a product are two
versions, a stored older one and a marker, enough for every order of old and new,
and another one's record meets its removal;
two faults allow a failure while another one is being repaired (`MaxConns` of the
store is one more than the connections these faults can cost). A queue of the
supervisor holds two messages and four are there; an executor has fewer threads
than parts. Rates are chosen on both sides of each limit of `config.py`. The
clock of `ResourceUsage` covers a sample before, in and after the steady phase.

Deadlock checking is off in all runs: an order that has its verdict, a run that
is over or a page nobody uses legitimately has nothing left to do, and clocks and
fault budgets are bounded.

Scenarios that are left out of a run because the code fails its property there
are listed as known deviations in section 5: stop requests in `OneWorkload`'s
part, closed connections in `SupervisorRebuilds`' part, two callers in
`CountsAreReal`'s part, late workers in `LostExact`'s parts, a product that is announced
again after its removal in `CatalogKept`'s part. `OneClient` is checked
with connections that drop and calls that time out, and exempts the connections
that did so (`shaken`).

Fairness, and why the code justifies it:

* saga (`Fairness`): a goroutine that can take its next step takes it; the scan
  ticker and the fetch loops keep running; time passes, so leases run out;
  projections catch up. Nothing is assumed about the participants, about
  redelivery limits or about which delivery is the last one.
* cart: the replicas' partitions, the command consumer and the readers'
  consumers go on; nobody has to send anything.
* recommendation and email: every await has a time-out, so loops go on; the
  cache's time to live passes; JetStream delivers again after AckWait; a dropped
  connection is restored or closed by the client. Nothing makes a shopper look at
  a page, and nothing promises that the catalog gets complete.
* run control: requests and coordinators go on, a lease runs out, the page's
  refresh asks again and again (strong fairness of `Details` for each run,
  and of the submission of a run that may be refused for a while), runs end.
* store: the loop runs, the server answers what reaches it, connections reconnect.
* workers, ladder, injection: processes go on, and every wait has a deadline.
* transactions: the driver goes on; a transaction itself may hang in a request,
  which is what the driver's kill is for.
* gateway and sampler: each source's thread and the clock go on; requests may hang.

## 4. What is proved

For every set of lanes and scanners, any retry limit and any number of faults
(`CheckoutSagaProofs`), from the assumptions `WorkersAssumption`,
`AnswersAssumption` and `BoundsAssumption` only:

* `SagaInvariant`: `Spec => []SagaInv`. The parts and why they are needed:
  `SagaOK` ties the version to the stage, so equal versions mean equal stages;
  `WorkerOK` says that a loaded workspace is no newer than the stored one and,
  at the same version, differs at most in the compensation flags (`SameSaga`,
  the gap behind the first finding), so a commit that passes the version check
  is a transition of the current order; `JournalOK` gives every decided result
  the set of stages that can follow it (`Reached`), which no transition leaves,
  so a transition can never decide a result again; `DeadlinesOK` says that a
  processed deadline is not the one the order waits under, so that finishing it
  removes nothing that is needed; `PublishedOK` ties publications to the journal.
* `SagaTypeOK`, `SagaResultsOnce`, `SagaDeadlineDiscoverable`,
  `SagaVerdictHolds` follow from the invariant; `SagaNeverRewindsHolds` and
  `SagaJournalStable` are action properties proved from it.
* `SagaRefinesLifecycle`: the saga implements `OrderLifecycle` under
  `stage <- saga.stage`, `decided <- Decided`, `announced <- published`; a commit
  is an edge or a stutter, a publication is `Announce`, all else stutters.
* `SagaEvidence`: `Spec => []EvidenceInv`, which adds to `SagaInv` where the flags
  and stages of a saga come from. `AnswersOK`: payment and shipping answer only
  published commands, and each once. `Evidence`: the answers that brought the
  stored saga to its stage are in the stream; for a cancelled order, every command
  that was decided has an answer that leaves nothing to undo, which the stage
  alone does not tell, because there are several ways to it.
  `WorkerEvidenceOK`: the same for a workspace that can still be committed; without
  it a commit could write a stage nobody's answers account for.
  `SagaCancelledMeansUndone` and `SagaCompletedMeansPaid` follow.

`LeaseProofs`, for any workers, durations and clocks: `LeaseInvariant` (a lease
in memory is the stored claim or has run out), `LeaseMutualExclusion`,
`LeaseCompletionIsFinal`, `LeaseTokensFence`. For the lease with compare-and-set,
`KVInvariant` (`KVInv`): a call at its put that carries the current revision
has read the current entry, and the decision it made is still permitted. This is
what makes `KVRefinesLease` go through: a put that succeeds is the atomic acquire,
renewal or completion, and all other steps stutter. `KVLeaseSafe` transfers
mutual exclusion and final completion along the refinement.

`CartAggregateProofs`, for any replicas, products, commands, limits and faults,
from `CommandsAssumption`, `QuantityAssumption` and `StoreAssumption`:

* `CartInvariant`: `CartSpec => []CartInv`. `ReplicaOK` says that a loaded cart is no newer
  than the stored one and equal to it at the same version (every change of the cart raises
  the version, unlike the saga's), so a commit that passes the version check is
  a transition of the current cart; `SentOK` says that announced commands have
  answers and that what a sender saw stays seen.
* `CartTypes`, `CartHistory` and `CartClears` follow from it; `CartAnswers` is
  an action property proved from it.
* `CartRefinesLedger`: a commit is `AnswerOnce`, a publication is `Announce`, all
  else stutters; `SameTransitions` identifies the ledger's transitions with the
  replicas'.

`EventServicesProofs`, for any consumers, pools, batches, replicas, sessions and
triggers, from `SupervisorAssumption`, `TriggerAssumption` and `CatalogAssumption`:

* `SupervisorInvariant` (`SupervisorInv`): busy workers are among the living ones
  (`TaskOK`) and between two connections every task is off, not only finished:
  a worker that survived its task could otherwise wake up under the next
  connection. `SupervisorOneGeneration` follows.
* `TriggerInvariant` (`TriggerInv`): what a replica has in hand was sent
  (`HandOK`), each session that sent a trigger has a newest one, although the set is
  not bounded (`NewestSent`), and what was dropped has a newer one that was sent
  (`SupersededOlder`; the filter itself only looks at one batch, whose newest may
  have been dropped before). Together: the newest one is never dropped.
  `TriggersKeepNewest` gives the invariant
  and the action property of `SessionKeepsNewest`.

* `CatalogInvariant` (`CatalogInv`), for any products, events, records found at the
  start, replicas, readers and faults. `WritesOK`: a handler at its put whose revision is the present
  one has read the present value, so what it decided (the event is not superseded; the
  index it wants is the present one with its product in or out) still holds; the
  revision is all that makes the write of a decision taken some steps ago safe.
  `SeedingOK`: no event is handled before there is an index, and the migration of
  every replica, started at any time, still finds all active products until then.
  `CacheOK`: whoever is between the two reads of a refresh holds the lock, and has read
  a marker no older than the cached one. `CatalogGoesForward` has the two action
  properties `VersionsRise` and `CacheNeverRewinds`, proved from it.
* `CatalogIsKept` (`KeptInv`): `CatalogKept`, of which `StoredMeansIndexed` needs
  `ReconciledOK`, what the two reads of `_reconcile_catalog_index`, some steps apart,
  mean together: who takes a product out takes out one that is not active, and the
  handler that is done with an active product leaves it in the index. It has the hypothesis
  `RemovedForGood` (no product is announced again after its removal): without it the record
  may become active between the two reads, and the property is false (section 5).

In the same module, for any finite set of orders, any replicas, failure modes and
concurrency, from `EmailAssumption`: `EmailInvariant` (`EmailInv`) and
`EmailToldOnce`. `MessagesOK` says that a message about to be acknowledged has its
outcome in the stream; `EventsOK` that both outcomes of an order have the same
message id, so the stream takes only the first one, whatever the failure modes of
the replicas; `PoolOK` counts the messages in work against the workers of the
pool or of the pool that was left over, the counting argument for which `Orders`
has to be finite.

`RunProgressProofs`, for any number of deployments, replicas, Locust processes and
failing calls, from `FaultAssumption`: `FaultInvariant` (`FaultInv`) and
`FaultClusterRestored`. `ThreadsOK` and `ControllerOK` say where main thread and
controller can be at the same time, `ClusterOK` that only the deployment of the
fault in progress can be down, and `LogOK` that `faults.jsonl` is exactly the four
entries of every fault before this one and a prefix of this one's, as long as
nothing raised. `CompletedMeansInjected` is about this log: a completed run has the
four entries of every fault, in order (`Injected`), and no others.

In the same module, for any workers and faults, from `WorkersAssumption`:
`WorkersInvariant` (`WorkersInv`) and `WorkersVerdictsTrue`. `BarrierOK`: until the
coordinator has ended nobody is past the barrier without the start object, which
is put when all are ready; `ResultsOK`: a stored result is the final outcome of a
worker that has ended; `VerdictOK`: the verdict is decided when no other worker can
change its outcome, and recorded after the upload.

`RunProofs`, for any replicas, requests, runs and faults, from `RunsAssumption`:

* `RunsInvariant` (`RunsInv`) and `RunsReleaseIsFinal` hold in every behaviour,
  with crashes, stop requests and calls that fail although they took effect.
  `FreshOK`: the run of a request that has not taken the lease is known to nobody,
  so the lease that is there was never its own; a released lease is not live
  (`ReleasedOK`).
* `RunsControl` (`ControlInv`), `RunsOneWorkload`, `RunsReleasedWhenOver` and
  `RunsLeaseReleases` have the hypotheses `~AllowStop` and `~Ambiguous`, those of the
  part of `RunControl` that checks `OneWorkload`; crashes, expiring leases
  and failing calls are included. The hypotheses are needed: with a stop request
  `OneWorkload` is false (section 5). `OwnersOK`: a request between taking the
  lease and creating the Job holds the lease and is the only one about its run;
  `EndersOK`: a request about to release has found the coordinator gone; `RunnersOK`: a living coordinator
  holds the lease, and no Job is deleted under it. The lease thus has one owner
  at a time, handed from the request to the coordinator.

`ControlProofs`, from `StoreAssumption` and `SequenceAssumption`:

* `SafeStore`, for any number of threads, calls, connections and faults (`StoreInv`). A
  call is written when the log has as many entries as the revision it had read, and
  every attempt of it carries that revision (`AttemptsAgree`, `WrittenBefore`), so an
  attempt that is still under way after the write, even after its caller gave up, is
  refused. `AnswersTrue` says the same of an answer before it is returned. `LockOK`:
  whoever holds the lock has found the current connection closed or lost, so the
  connection it replaces is not one that is in use.
* `SequenceObeyed`, for any length and number of sequences, other users and failed
  calls (`SequenceInv`). A list may be old, but a run that is over in it is over
  (`ListOK`), because runs do not come back; so the page submits the next run only when the
  one before has ended. `ActiveOK` says who answers for an active run: the submission
  under way, the plan on the page, or the stop button. `CountOK` ties the counter
  to the runs there are; between the server's answer and the page's handling of it
  the two differ by one.

`LoadProofs`, one theorem per component:

* `LadderClimbed` (`LadderInv`), for any workers, rungs and faults. `DecisionsOK`: a
  decision is made when every worker's progress is there; `LogOK`: the log is the
  decisions made, and the coordinator is in the rung after them; `SamplesOK`: what an
  observer has missed is the same in all samples of it, so two samples of one
  identity differ by what completed between them. `GoodputIsReal`, an action
  property, follows from it.
* `GatewayFresh` (`GatewayInv`), for any sources, parts and executor threads: a request
  reads after its collection began, and the cache holds what the requests of one
  collection have read (`CollectedFresh`).
* `ObserverCounts` (`ObserverInv`), for any number of events, drops and reconnections. It
  has the hypothesis that calls do not overlap (one member of `Tasks`): with two calls
  at once it is false (section 5). A call opens a connection only when there is
  none (`CurrentOpen`), and a sample has the present identity only if the connection was
  up ever since (`SamplesCounted`).
* `TransactionsRecorded` (`TransactionsInv`), for any number of transactions, any
  concurrency and any number of reconnections, open and closed loop. `Shape`: the
  records of a transaction are determined by how far it has come; `Truthful`: what they
  say of the order stays so, because an order only moves forward; the counter is the
  cardinality of `Owed`, which every step changes by at most one member. That the
  recorder closes when nobody can write any more is part of the invariant.
* `SamplesAccountedFor` (`UsageInv`), for any interval, pods, work and faults.
  `ScheduleOK`: the next tick is a whole number of intervals after the first sample,
  namely the samples and the skipped ticks, and all samples lie before it. That a
  new deadline is the first tick that has not passed needs facts about
  division and multiples, which are lemmas of their own (`Division`, `Multiples`,
  `Quotients`). `MarksOK`: a reading with the observer's identity has seen every event since.
* `PlanDivided` (`PlanInv`), for any limits and requests: `RungsShared` and `OneSampler`.
  `OrdinalsPartition` shows that the workers' ordinals of a rung partition it for every
  number of requests and workers; `SentOK` that a worker sends whole rungs, and has sent all
  of its own when it ends.

Only model-checked:

* all liveness (TLAPS does not handle fairness here): `SagaProgress`, `CartGoesOn`,
  `RunsEnd`, `LoadGoesOn`, `ServicesGoOn` (except its part `CacheNeverRewinds`, which
  is an action property and proved);
* the rest of `LoadIsDivided` (users and arrivals add up to what was asked for) and
  `ReportIsTrue`: sums over workers, seconds or records, computed by folds and
  recursive functions whose value for every input needs induction. `OutstandingExact`,
  one part of `ReportIsTrue`, is proved with the transactions.

Assumptions on the constants of the components that are checked side by side are
definitions (`...Assumption`): the modules which instantiate them assume them of
the values they use, and the theorems have them as hypotheses.

## 5. Findings

1. *Lost compensation* (`SagaCompensations`). `finishCompensation`
   (`checkoutservice/saga.go:449`) records the first of two compensations without
   raising the version. When `authorization-released` and `shipment-cancelled`
   are processed concurrently both commits pass the version check and the second
   erases the first one's flag. Both inputs count as processed, so no redelivery
   repairs it: the order stays `COMPENSATING` until its deadline sends it to
   manual review, although both compensations succeeded.
2. *Timeout results not published* (`SagaTimeoutResults`). A scanner that stops
   after committing a timeout relies on the next scan to publish the results. A
   late participant event for the order, which is terminal now, commits with
   deadline mode `remove` and deletes the index entry and the record; the
   `step-timed-out` and `manual-review-required` events are never published.

Known deviations. TLC finds each of these with the named component module
under the constants given; the property is kept in the module, and the runs above
check the component outside the scenario or check a weaker property.

| Where | Property | Scenario | What happens |
|---|---|---|---|
| `recommendationservice/catalog_kv.py:109` | `RecommendationCatalog.IndexAgrees` | an upsert and a removal of one product, 2 replicas | the upsert's replica reads the active product, the removal finds nothing in the index to remove, then the upsert adds the product: a removed product stays in the index |
| `recommendationservice/catalog_kv.py:109` | `RecommendationCatalog.StoredMeansIndexed` | a product that is removed and announced again, 2 replicas | the removal's replica reads the removed record, the new upsert is stored and finds its product in the index, then the removal takes it out: an active product is missing in the index |
| `recommendationservice/nats_events.py:537` | `RecommendationSupervisor.SupervisorRebuilds` | `MayClose = TRUE` | when the connection is closed a worker's `nak()` raises, nobody counts down the queue, and the cleanup waits in `queue.join()` for ever; the comment at 605-607 promises unbounded retries |
| `recommendationservice/nats_events.py:588` | `RecommendationSupervisor.FailedNotHealthy` | a drop while a consumer fails | `reconnected()` sets the ready flag without looking at the consumers, against the comment at 518-519 |
| `emailservice/nats_worker.py:100` | `EmailWorker.FailureIsTerminal` | one replica that fails | a failure event follows the first exception; `docs/nats-event-driven-upgrade-plan.md:279-281` wants a redelivery first |
| `benchmarkservice/control.py:329` | `BenchmarkRuns.OneWorkload` | `AllowStop = TRUE` | `stop()` of a run whose Job is just being created deletes nothing and releases the lease; a second workload starts beside the first |
| `benchmarkservice/control.py:218` | `BenchmarkRuns.FailureRecorded` | `AllowCrash = TRUE` | a replica that stops between creating the Job and recording its name leaves a failure nobody records |
| `benchmarkservice/shared_store.py:171` | `SharedStore.OneClient` without its exemption of `shaken` | `"drop"` or `"timeout"` in `Troubles` | a call during a reconnect opens a second connection and the first one is never closed; nor is one whose opening or closing was cancelled |
| `benchmarkservice/shared_store.py:186` | `SharedStore.FailuresRetried` | 2 threads, `"timeout"` | one call's time-out empties the error table; the other call's transient error becomes a `KeyError` and is not retried |
| `benchmarkservice/job.py:204` | `BenchmarkWorkers.StopPublished` | a signal while results are collected | worker zero leaves without a terminal state |
| `benchmarkservice/cluster_metrics.py:600` | `EventObserver.CountsAreReal` | 2 tasks | both samples of a refresh connect and subscribe: every event is counted twice under one identity |
| `benchmarkservice/config.py:328` | `WorkerPlan.WorkersLoad` | a rate just above a multiple of the limit | the last worker's share is below the minimum and its own validation refuses it |
| `benchmarkservice/reporting.py:1591` | `FaultReport.LostExact` | `MaxLate = 1` | requests of a worker that started late count as lost in one second and are not given back in the next |
| `benchmarkservice/reporting.py:1437` | `FaultReport.DocumentedConvergence` | any | windows with a lost request are skipped, which the README's definition does not say |

## 6. Not modelled, and the plan

Not modelled: identifiers, addresses, serialization, telemetry and HTTP
rendering; expiry of the result journal (retention); creation of consumers and
streams; the storefront projection, the frontend and dead-letter operations; the
ad service and the assistant (stateless answers); the storefront load generator
(random requests, no state); gRPC servers; the email template; the choice of
products by shuffling; percentiles, tables, plots and CSV files of the reports,
parsing of kubelet and exporter answers, memory gauges and NaN values; pending
values shown in saturation reports; manifests, scripts and generated code.

Planned, in this order:

1. Further theorems: the sums of `WorkerPlan` and `FaultReport`, once there is
   induction over data.
2. `CatalogProjection`: the bootstrap publisher over the KV lease and the
   version-guarded projections (versions are content hashes); the multi-step
   read of an order's projections.
3. Several orders on one deadline shard; expiry of the journal.
4. Storefront projection, operation views and query cache; frontend operations;
   dead-letter operations.
5. Money arithmetic against a reference.
