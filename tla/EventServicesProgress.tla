----------------------- MODULE EventServicesProgress ------------------------
(***************************************************************************)
(* What the event-driven Python services promise to do eventually, checked *)
(* side by side as in EventServices.                                       *)
(***************************************************************************)
EXTENDS Naturals, FiniteSets

CONSTANT None

VARIABLES
    part,          \* the component whose behaviour this is
    record, catalogRevision, index, catalogQueued, catalogGiven, catalogReplica,
    cache, reader, catalogFaults,
    sent, triggerQueued, superseded, stale, triggerGiven, aged, triggerHand,
    triggerRevision, results, view, triggerFaults,
    run, link, ready, stop, task, leaked, supply, flaps, errors,
    completed, emailQueued, emailGiven, acked, deliveries, window, events, emailReplica,
    emailHand, emailFaults

catalogState == <<record, catalogRevision, index, catalogQueued, catalogGiven, catalogReplica,
       cache, reader, catalogFaults>>
triggerState == <<sent, triggerQueued, superseded, stale, triggerGiven, aged, triggerHand,
       triggerRevision, results, view, triggerFaults>>
supervisorState == <<run, link, ready, stop, task, leaked, supply, flaps, errors>>
emailState == <<completed, emailQueued, emailGiven, acked, deliveries, window, events, emailReplica,
       emailHand, emailFaults>>

Upsert(id, p, v) == [id |-> id, kind |-> "upsert", product |-> p, version |-> v, count |-> 0]
Marker(id, v, n) == [id |-> id, kind |-> "snapshot", product |-> None, version |-> v, count |-> n]

\* Two catalogs, the second with one product more.
ReleaseEvents == {Upsert("p1", "p", 1), Marker("s1", 1, 1), Upsert("q2", "q", 2), Marker("s2", 2, 2)}

Trigger(id, kind, s, v) == [id |-> id, kind |-> kind, session |-> s, version |-> v]

SessionTriggers ==
    {Trigger("c1", "cart", "s", 1), Trigger("v2", "page", "s", 2), Trigger("c3", "cart", "s", 3)}

\* Two handlers that share the cache of one replica.
Cache == INSTANCE RecommendationCatalog WITH
    Products <- {"p", "q"}, Events <- ReleaseEvents, Legacy <- {}, CatalogReplicas <- {"r1"},
    CacheHost <- "r1", Readers <- {"h1", "h2"}, MaxAttempts <- 2, MaxCatalogFaults <- 1,
    revisions <- catalogRevision, handler <- catalogReplica

\* One session, three triggers.
Triggers == INSTANCE RecommendationTriggers WITH
    Triggers <- SessionTriggers, Sessions <- {"s"}, Replicas <- {"r1"},
    MaxRevision <- 1, MaxFaults <- 1, queued <- triggerQueued, given <- triggerGiven,
    hand <- triggerHand, revision <- triggerRevision, faults <- triggerFaults

\* A connection that drops comes back or is closed, with messages enough to
\* strand a consumer.
Supervisor == INSTANCE RecommendationSupervisor WITH
    Consumers <- {"catalog", "cart"}, First <- "catalog", Workers <- 1, Batch <- 1,
    Supply <- 4, MaxFlaps <- 1, MaxErrors <- 0, MayClose <- TRUE

\* A batch with more orders than workers.
Email == INSTANCE EmailWorker WITH
    Orders <- {"o1", "o2", "o3"}, Invalid <- {"o3"}, EmailReplicas <- {"r1"},
    FailureMode <- [r \in {"r1"} |-> FALSE], Concurrency <- 2, MaxDeliver <- 2,
    MaxWindows <- 0, MaxEmailFaults <- 1, replica <- emailReplica

ASSUME EventServicesProgressAssumption ==
    /\ Cache!CatalogAssumption
    /\ Triggers!TriggerAssumption
    /\ Supervisor!SupervisorAssumption
    /\ Email!EmailAssumption

Parts == {"cache", "triggers", "supervisor", "email"}

EventServicesProgressInit ==
    /\ part \in Parts
    /\ Cache!CatalogInit
    /\ Triggers!TriggerInit
    /\ Supervisor!SupervisorInit
    /\ Email!EmailInit

\* A behaviour of one component; the others keep their initial states.
EventServicesProgressNext ==
    \/ /\ part = "cache" /\ Cache!CatalogNext
       /\ UNCHANGED <<part, triggerState, supervisorState, emailState>>
    \/ /\ part = "triggers" /\ Triggers!TriggerNext
       /\ UNCHANGED <<part, catalogState, supervisorState, emailState>>
    \/ /\ part = "supervisor" /\ Supervisor!SupervisorNext
       /\ UNCHANGED <<part, catalogState, triggerState, emailState>>
    \/ /\ part = "email" /\ Email!EmailNext
       /\ UNCHANGED <<part, catalogState, triggerState, supervisorState>>

eventServicesProgressVars ==
    <<part, catalogState, triggerState, supervisorState, emailState>>

EventServicesProgressFairness ==
    /\ \A r \in {"r1"} : WF_catalogState(part = "cache" /\ Cache!ReplicaStep(r))
    /\ \A h \in {"h1", "h2"} :
          WF_catalogState(part = "cache" /\ (Cache!TakeLock(h) \/ Cache!ReadSnapshot(h) \/ Cache!ReadProducts(h)))
    /\ WF_catalogState(part = "cache" /\ Cache!CacheExpires)
    /\ \A r \in {"r1"} : WF_triggerState(part = "triggers" /\ Triggers!Work(r))
    /\ WF_triggerState(part = "triggers" /\ \E r \in {"r1"} : Triggers!FetchSome(r))
    /\ WF_triggerState(part = "triggers" /\ \E e \in results : Triggers!Project(e))
    /\ WF_supervisorState(part = "supervisor" /\ Supervisor!Supervise)
    /\ WF_supervisorState(part = "supervisor" /\ (Supervisor!Reconnected \/ Supervisor!Closed))
    /\ \A c \in {"catalog", "cart"} :
          /\ WF_supervisorState(part = "supervisor" /\ Supervisor!Consume(c))
          /\ WF_supervisorState(part = "supervisor" /\ Supervisor!Pool(c))
    /\ \A r \in {"r1"} :
          WF_emailState(part = "email" /\ Email!Loop(r)) /\ WF_emailState(part = "email" /\ Email!Process(r))
    /\ \A o \in {"o1", "o2", "o3"} : WF_emailState(part = "email" /\ Email!AckWait(o))

EventServicesProgressSpec ==
    /\ EventServicesProgressInit /\ [][EventServicesProgressNext]_eventServicesProgressVars
    /\ EventServicesProgressFairness

----------------------------------------------------------------------------

\* The handlers of one process never answer from an older catalog than before:
\* a refresh that was overtaken does not put its value back.
CacheNeverRewinds == Cache!CacheNeverRewinds

\* While there are always handlers that need a value, the cache ends with the
\* index and the marker of the bucket: no invalidation is lost for good and the
\* lock is always released.
CacheConverges == Cache!CacheConverges

\* Every trigger is answered, by itself or by a newer one, unless it or a newer
\* one was given up or too old.
SessionAnswered == Triggers!SessionAnswered

\* Whatever ends a generation, the supervisor gets to the next one, and a service
\* that is stopped while it serves ends, unless a stranded consumer, one whose
\* workers have all died on the closed connection, is waited for, then for ever.
SupervisorRebuilds == Supervisor!SupervisorRebuilds
StopEnds == Supervisor!StopEnds

\* Every completed order is answered or, after all deliveries, given up.
OrderNotified == Email!OrderNotified

----------------------------------------------------------------------------
(* The property of the run, in two parts                                   *)

\* The cache of a replica follows the bucket: concurrent handlers never replace
\* it by an older copy, and it ends with the newest catalog.
CacheFollows == CacheNeverRewinds /\ CacheConverges

\* Every session gets an answer to its newest trigger and every order its
\* notification, unless JetStream has given the message up; a failed connection is
\* torn down and rebuilt, and a stop ends the supervisor, except that it hangs on a
\* consumer whose workers have all died before its queue was done.
EventsAnswered == SessionAnswered /\ OrderNotified /\ SupervisorRebuilds /\ StopEnds

\* The services go on: the cache follows the bucket and every event is answered.
ServicesGoOn == CacheFollows /\ EventsAnswered

=============================================================================
