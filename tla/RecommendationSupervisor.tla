----------------------- MODULE RecommendationSupervisor -----------------------
(***************************************************************************)
(* The event worker of recommendationservice: the supervisor thread        *)
(* (_thread_main, _run), its NATS connection and the consumer tasks        *)
(* (_consume), each with a queue and a pool of workers.  Messages are      *)
(* counted; what a handler does is RecommendationCatalog's and             *)
(* RecommendationTriggers' business.  Everything runs on one asyncio loop: *)
(* a step is what happens between two awaits.                              *)
(***************************************************************************)
EXTENDS Naturals, FiniteSets

CONSTANTS
    Consumers,
    First,          \* the catalog consumer, started before the others
    Workers,        \* concurrency of a consumer
    Batch,          \* messages of one fetch; the queue holds 2 * Batch
    Supply,         \* bound on the messages a durable delivers
    MaxFlaps,       \* bound on lost connections
    MaxErrors,      \* bound on errors of JetStream on a connected socket
    MayClose        \* whether the reconnect attempts may run out

SupervisorAssumption ==
    /\ First \in Consumers
    /\ Workers \in Nat \ {0} /\ Batch \in Nat \ {0} /\ Supply \in Nat
    /\ MaxFlaps \in Nat /\ MaxErrors \in Nat /\ MayClose \in BOOLEAN

VARIABLES
    run,        \* the supervisor: connect, startup, gather, cleanup, close, backoff, stopped
    link,       \* the connection: none, up, down (reconnecting), closed
    ready,      \* the _ready event, what /readyz answers
    stop,       \* the _stop event
    task,       \* the consumer tasks of the newest connection
    leaked,     \* the workers that earlier connections left behind
    supply,     \* per consumer, messages still to be delivered
    flaps, errors

supervisorVars == <<run, link, ready, stop, task, leaked, supply, flaps, errors>>

\* failed is `failures` being non-empty; error tells how the task will end.
Off == [pc |-> "off", pending |-> 0, queue |-> 0, busy |-> 0, alive |-> 0,
        failed |-> FALSE, error |-> FALSE]
Started == [Off EXCEPT !.pc = "fetch", !.alive = Workers]

\* The workers left over by earlier consumers of a durable, and whether their
\* connection was still open when the next one was made.  Their queues are one.
NoneLeaked == [queue |-> 0, busy |-> 0, alive |-> 0, open |-> FALSE]

\* No connection is in use: none was made yet, or the last one is closed.
Severed == link \in {"none", "closed"}

\* The supervisor is between two connections, or done.
AtRest == run \in {"backoff", "connect", "stopped"}

SupervisorTypeOK ==
    /\ run \in {"connect", "startup", "gather", "cleanup", "close", "backoff", "stopped"}
    /\ link \in {"none", "up", "down", "closed"}
    /\ ready \in BOOLEAN /\ stop \in BOOLEAN
    /\ task \in [Consumers ->
          [pc : {"off", "fetch", "put", "join", "ended"}, pending : 0..Batch,
           queue : 0..(2 * Batch), busy : 0..Workers, alive : 0..Workers,
           failed : BOOLEAN, error : BOOLEAN]]
    /\ leaked \in [Consumers -> [queue : Nat, busy : Nat, alive : Nat, open : BOOLEAN]]
    /\ supply \in [Consumers -> 0..Supply]
    /\ flaps \in 0..MaxFlaps /\ errors \in 0..MaxErrors

SupervisorInit ==
    /\ run = "connect" /\ link = "none" /\ ready = FALSE /\ stop = FALSE
    /\ task = [c \in Consumers |-> Off]
    /\ leaked = [c \in Consumers |-> NoneLeaked]
    /\ supply = [c \in Consumers |-> Supply]
    /\ flaps = 0 /\ errors = 0

SetTask(c, state) == task' = [task EXCEPT ![c] = state]

\* The finally of _consume: without a failed worker the queue is joined first.
\* Messages not acknowledged are delivered again.
Leaving(t, error) ==
    IF t.failed THEN [Off EXCEPT !.pc = "ended", !.failed = TRUE, !.error = error]
    ELSE [t EXCEPT !.pc = "join", !.pending = 0, !.error = error]

\* Mutant of Cancelled: the fetch loop catches the cancellation and goes on.
CancelSwallowed(t) == IF t.pc = "join" THEN [t EXCEPT !.pc = "ended"] ELSE t

\* task.cancel(): the await that is pending raises.  In the join this leaves the
\* finally before the workers are cancelled: they stay, with their queue.
Cancelled(t) ==
    CASE t.pc \in {"fetch", "put"} -> Leaving(t, FALSE)
      [] t.pc = "join" -> [t EXCEPT !.pc = "ended"]
      [] OTHER -> t

----------------------------------------------------------------------------
(* The supervisor                                                          *)

\* A new connection is tried: the workers that the last one has left stay on the
\* loop, bound to that connection.
Shed(c) ==
    [queue |-> leaked[c].queue + task[c].queue,
     busy |-> leaked[c].busy + task[c].busy,
     alive |-> leaked[c].alive + task[c].alive,
     open |-> leaked[c].open \/ (task[c].alive > 0 /\ ~Severed)]

\* _run connects, ensures the index and starts the catalog consumer.
Connect ==
    /\ run = "connect" /\ ~stop
    /\ run' = "startup" /\ link' = "up"
    /\ task' = [c \in Consumers |-> IF c = First THEN Started ELSE Off]
    /\ leaked' = [c \in Consumers |-> Shed(c)]
    /\ UNCHANGED <<ready, stop, supply, flaps, errors>>

\* nats.connect fails, or it succeeds and the bucket, its index or the durable
\* cannot be had: _run raises before its try, with the connection open.
ConnectFails ==
    /\ run = "connect" /\ ~stop /\ errors < MaxErrors
    /\ run' = "close" /\ ready' = FALSE
    /\ link' \in {link, "up"}
    /\ task' = [c \in Consumers |-> Off]
    /\ leaked' = [c \in Consumers |-> Shed(c)]
    /\ errors' = errors + 1
    /\ UNCHANGED <<stop, supply, flaps>>

\* The catalog has candidates, from this replica or another one: the other
\* consumers start and the service is ready.
CatalogReady ==
    /\ run = "startup" /\ link = "up"
    /\ run' = "gather" /\ ready' = TRUE
    /\ task' = [c \in Consumers |-> IF c = First THEN task[c] ELSE Started]
    /\ UNCHANGED <<link, stop, leaked, supply, flaps, errors>>

\* The catalog consumer failed or the connection is lost: everything is
\* cancelled.  A consumer that ended because of stop leaves the loop waiting.
StartupFails ==
    /\ run = "startup"
    /\ link # "up" \/ (task[First].pc = "ended" /\ task[First].error)
    /\ run' = "cleanup"
    /\ task' = [c \in Consumers |-> Cancelled(task[c])]
    /\ UNCHANGED <<link, ready, stop, leaked, supply, flaps, errors>>

\* The bucket or a durable of the other consumers raises on a live connection.
StartupError ==
    /\ run = "startup" /\ link = "up" /\ errors < MaxErrors
    /\ run' = "cleanup"
    /\ task' = [c \in Consumers |-> Cancelled(task[c])]
    /\ errors' = errors + 1
    /\ UNCHANGED <<link, ready, stop, leaked, supply, flaps>>

\* gather returns with the first exception, or when every consumer has stopped.
GatherEnds ==
    /\ run = "gather"
    /\ \/ \E c \in Consumers : task[c].pc = "ended" /\ task[c].error
       \/ \A c \in Consumers : task[c].pc = "ended"
    /\ run' = "cleanup"
    /\ task' = [c \in Consumers |-> Cancelled(task[c])]
    /\ UNCHANGED <<link, ready, stop, leaked, supply, flaps, errors>>

\* Mutant of CleanedUp: the second gather is not awaited.
CleanedUpAtOnce ==
    /\ run = "cleanup"
    /\ run' = "close" /\ link' = "closed" /\ ready' = FALSE
    /\ UNCHANGED <<stop, task, leaked, supply, flaps, errors>>

\* All cancelled consumers have ended; the connection is closed if it is not,
\* and its callback clears the ready flag.
CleanedUp ==
    /\ run = "cleanup"
    /\ \A c \in Consumers : task[c].pc \in {"off", "ended"}
    /\ run' = "close" /\ link' = "closed" /\ ready' = FALSE
    /\ UNCHANGED <<stop, task, leaked, supply, flaps, errors>>

\* Mutant of Close: only _run closes its connection.
CloseForgotten ==
    /\ run = "close"
    /\ run' = "backoff"
    /\ UNCHANGED <<link, ready, stop, task, leaked, supply, flaps, errors>>

\* _thread_main closes what a failed start has left open and backs off.
Close ==
    /\ run = "close"
    /\ run' = "backoff" /\ ready' = FALSE
    /\ link' = IF link = "none" THEN "none" ELSE "closed"
    /\ UNCHANGED <<stop, task, leaked, supply, flaps, errors>>

Again ==
    /\ run = "backoff"
    /\ run' = IF stop THEN "stopped" ELSE "connect"
    /\ UNCHANGED <<link, ready, stop, task, leaked, supply, flaps, errors>>

StopBeforeConnect ==
    /\ run = "connect" /\ stop
    /\ run' = "stopped"
    /\ UNCHANGED <<link, ready, stop, task, leaked, supply, flaps, errors>>

\* stop_event_worker, called when the health server is shut down.
Stop ==
    /\ ~stop
    /\ stop' = TRUE /\ ready' = FALSE
    /\ UNCHANGED <<run, link, task, leaked, supply, flaps, errors>>

----------------------------------------------------------------------------
(* The connection and its callbacks                                        *)

Disconnected ==
    /\ link = "up" /\ flaps < MaxFlaps
    /\ link' = "down" /\ ready' = FALSE
    /\ flaps' = flaps + 1
    /\ UNCHANGED <<run, stop, task, leaked, supply, errors>>

Reconnected ==
    /\ link = "down"
    /\ link' = "up" /\ ready' = TRUE
    /\ UNCHANGED <<run, stop, task, leaked, supply, flaps, errors>>

\* NATS_WORKER_RECONNECT_ATTEMPTS are used up.
Closed ==
    /\ link = "down" /\ MayClose
    /\ link' = "closed" /\ ready' = FALSE
    /\ UNCHANGED <<run, stop, task, leaked, supply, flaps, errors>>

----------------------------------------------------------------------------
(* A consumer                                                              *)

\* Mutant of LoopEnds: the stop event is not tested.
LoopEndsOnFailure(c) ==
    /\ task[c].pc = "fetch"
    /\ task[c].failed
    /\ SetTask(c, Leaving(task[c], TRUE))
    /\ UNCHANGED <<run, link, ready, stop, leaked, supply, flaps, errors>>

\* The loop test and the failures test come before every fetch.
LoopEnds(c) ==
    /\ task[c].pc = "fetch"
    /\ stop \/ task[c].failed
    /\ SetTask(c, Leaving(task[c], task[c].failed /\ ~stop))
    /\ UNCHANGED <<run, link, ready, stop, leaked, supply, flaps, errors>>

Fetch(c) ==
    /\ task[c].pc = "fetch" /\ link = "up"
    /\ ~stop /\ ~task[c].failed
    /\ \E n \in 1..Batch :
          /\ n <= supply[c]
          /\ supply' = [supply EXCEPT ![c] = @ - n]
          /\ SetTask(c, [task[c] EXCEPT !.pc = "put", !.pending = n])
    /\ UNCHANGED <<run, link, ready, stop, leaked, flaps, errors>>

\* A closed connection, or an error of JetStream on a live one.
FetchError(c) ==
    /\ task[c].pc = "fetch" /\ ~stop
    /\ \/ link = "closed" /\ UNCHANGED errors
       \/ link = "up" /\ errors < MaxErrors /\ errors' = errors + 1
    /\ ready' = FALSE
    /\ SetTask(c, Leaving(task[c], TRUE))
    /\ UNCHANGED <<run, link, stop, leaked, supply, flaps>>

\* queue.put waits while the queue is full.
Put(c) ==
    /\ task[c].pc = "put"
    /\ task[c].queue < 2 * Batch
    /\ SetTask(c, [task[c] EXCEPT !.queue = @ + 1, !.pending = @ - 1,
                                  !.pc = IF task[c].pending = 1 THEN "fetch" ELSE "put"])
    /\ UNCHANGED <<run, link, ready, stop, leaked, supply, flaps, errors>>

Take(c) ==
    /\ task[c].queue > 0
    /\ task[c].busy < task[c].alive
    /\ SetTask(c, [task[c] EXCEPT !.queue = @ - 1, !.busy = @ + 1])
    /\ UNCHANGED <<run, link, ready, stop, leaked, supply, flaps, errors>>

\* Acknowledged, or not acknowledged and delivered again later.
Handled(c) ==
    /\ task[c].busy > 0 /\ link # "closed"
    /\ SetTask(c, [task[c] EXCEPT !.busy = @ - 1])
    /\ UNCHANGED <<run, link, ready, stop, leaked, supply, flaps, errors>>

\* On a closed connection the handler raises, and so does its nak: the worker
\* ends, and its callback records the failure.
WorkerDies(c) ==
    /\ task[c].busy > 0 /\ link = "closed"
    /\ SetTask(c, [task[c] EXCEPT !.busy = @ - 1, !.alive = @ - 1, !.failed = TRUE])
    /\ UNCHANGED <<run, link, ready, stop, leaked, supply, flaps, errors>>

\* queue.join returns when every item was marked done; the workers are cancelled.
Joined(c) ==
    /\ task[c].pc = "join"
    /\ task[c].queue = 0 /\ task[c].busy = 0
    /\ SetTask(c, [Off EXCEPT !.pc = "ended", !.error = task[c].error])
    /\ UNCHANGED <<run, link, ready, stop, leaked, supply, flaps, errors>>

\* A worker that outlived its connection goes on with what its queue holds.  On
\* the closed connection the handler and its nak raise, and it ends.
LeakedTake(c) ==
    /\ run # "stopped"
    /\ leaked[c].queue > 0 /\ leaked[c].busy < leaked[c].alive
    /\ leaked' = [leaked EXCEPT ![c].queue = @ - 1, ![c].busy = @ + 1]
    /\ UNCHANGED <<run, link, ready, stop, task, supply, flaps, errors>>

LeakedEnds(c) ==
    /\ run # "stopped"
    /\ leaked[c].busy > 0
    /\ leaked' = [leaked EXCEPT ![c].busy = @ - 1,
                                ![c].alive = IF leaked[c].open THEN @ ELSE @ - 1]
    /\ UNCHANGED <<run, link, ready, stop, task, supply, flaps, errors>>

----------------------------------------------------------------------------

Supervise == Connect \/ StartupFails \/ GatherEnds \/ CleanedUp \/ Close
             \/ Again \/ StopBeforeConnect
Consume(c) == LoopEnds(c) \/ Fetch(c) \/ Put(c) \/ Joined(c) \/ (link = "closed" /\ FetchError(c))
Pool(c) == Take(c) \/ Handled(c) \/ WorkerDies(c)

SupervisorNext ==
    \/ Supervise \/ ConnectFails \/ StartupError \/ CatalogReady \/ Stop
    \/ Disconnected \/ Reconnected \/ Closed
    \/ \E c \in Consumers :
          Consume(c) \/ FetchError(c) \/ Pool(c) \/ LeakedTake(c) \/ LeakedEnds(c)

\* The loop runs what is ready; a lost connection comes back or is closed.
\* Nothing promises that the catalog gets complete (CatalogReady).
SupervisorFairness ==
    /\ WF_supervisorVars(Supervise)
    /\ WF_supervisorVars(Reconnected \/ Closed)
    /\ \A c \in Consumers : WF_supervisorVars(Consume(c)) /\ WF_supervisorVars(Pool(c))

SupervisorSpec == SupervisorInit /\ [][SupervisorNext]_supervisorVars /\ SupervisorFairness

----------------------------------------------------------------------------

\* A worker can outlive its connection (a cancel in queue.join skips the
\* cancellation of the workers), but it cannot work beside the next one: before a
\* connection is tried the last one is closed, by _run or by _thread_main, and all
\* its consumers have ended; and whoever is left is bound to a closed connection,
\* where it can neither publish nor acknowledge.
OneGeneration ==
    /\ AtRest => Severed /\ \A c \in Consumers : task[c].pc \in {"off", "ended"}
    /\ \A c \in Consumers : ~leaked[c].open

\* A consumer whose workers have all died on the closed connection waits for a
\* room in its queue, or in queue.join for messages that nobody will take.
Stranded(c) ==
    /\ task[c].alive = 0
    /\ \/ task[c].pc = "put" /\ task[c].queue = 2 * Batch
       \/ task[c].pc = "join" /\ task[c].queue > 0

\* The connection of a generation is closed or its consumers are being cancelled.
Ending == run = "cleanup" \/ (run \in {"startup", "gather"} /\ link = "closed")

\* Whatever ends a generation, the supervisor gets to the next one, and a service
\* that is stopped while it serves ends; the one way to hang, which the code has,
\* is a stranded consumer that it waits for, then for ever.
SupervisorRebuilds ==
    Ending ~> (run = "backoff" \/ [](\E c \in Consumers : Stranded(c)))
StopEnds ==
    (stop /\ run = "gather") ~> (run = "stopped" \/ [](\E c \in Consumers : Stranded(c)))

\* What the comment at the fetch says: a failed pull subscription is not made
\* healthy by an otherwise connected socket.
FailedNotHealthy ==
    ready => \A c \in Consumers : ~(task[c].pc \in {"join", "ended"} /\ task[c].error)

----------------------------------------------------------------------------
(* The inductive invariant (proved in EventServicesProofs)                 *)

\* A task has a message to put while it puts, and no more handlers at work than
\* workers alive.
TaskOK(t) ==
    /\ t.busy <= t.alive
    /\ t.pc = "put" => t.pending > 0

\* The consumers have ended before _thread_main closes what is left open.
SupervisorInv ==
    /\ SupervisorTypeOK
    /\ \A c \in Consumers : TaskOK(task[c]) /\ leaked[c].busy <= leaked[c].alive
    /\ OneGeneration
    /\ run = "close" => \A c \in Consumers : task[c].pc \in {"off", "ended"}

=============================================================================
