--------------------------- MODULE EventServices ----------------------------
(***************************************************************************)
(* The event-driven Python services, checked side by side: the catalog and *)
(* the triggers of recommendationservice, its connection supervisor, and   *)
(* emailservice. They share no state, so a behaviour is one of one         *)
(* component and TLC explores the sum of their state spaces, not the       *)
(* product.  The supervisor has messages enough to fill a queue.           *)
(***************************************************************************)
EXTENDS RecommendationCatalog, RecommendationSupervisor, RecommendationTriggers, EmailWorker

VARIABLE part      \* the component whose behaviour this is

Upsert(id, p, v) == [id |-> id, kind |-> "upsert", product |-> p, version |-> v, count |-> 0]
Marker(id, v, n) == [id |-> id, kind |-> "snapshot", product |-> None, version |-> v, count |-> n]

\* Two versions of one product, one of another, the removal of a third and the end
\* of the snapshot, with older records in a bucket that has no index yet.
BootstrapEvents ==
    {Upsert("p2", "p", 2), Upsert("p3", "p", 3), Upsert("q1", "q", 1),
     [Upsert("o2", "o", 2) EXCEPT !.kind = "removal"], Marker("s1", 1, 1)}
BootstrapLegacy == {Upsert("p1", "p", 1), Upsert("o1", "o", 1)}

Trigger(id, kind, s, v) == [id |-> id, kind |-> kind, session |-> s, version |-> v]

\* One session with both kinds of trigger, two of which may be fetched together.
SessionTriggers ==
    {Trigger("c1", "cart", "s", 1), Trigger("v2", "page", "s", 2), Trigger("c3", "cart", "s", 3)}

\* During the rollout of a new EMAIL_FAILURE_MODE: one replica fails every send.
RolloutFailureMode == [r \in EmailReplicas |-> r = "r1"]

ASSUME EventServicesAssumption ==
    /\ CatalogAssumption /\ RemovedForGood
    /\ TriggerAssumption
    /\ SupervisorAssumption
    /\ EmailAssumption

Parts == {"catalog", "triggers", "supervisor", "email"}

EventServicesInit ==
    /\ part \in Parts
    /\ CatalogInit
    /\ TriggerInit
    /\ SupervisorInit
    /\ EmailInit

\* A behaviour of one component; the others keep their initial states.
EventServicesNext ==
    \/ /\ part = "catalog" /\ CatalogNext
       /\ UNCHANGED <<part, triggerVars, supervisorVars, emailVars>>
    \/ /\ part = "triggers" /\ TriggerNext
       /\ UNCHANGED <<part, catalogVars, supervisorVars, emailVars>>
    \/ /\ part = "supervisor" /\ SupervisorNext
       /\ UNCHANGED <<part, catalogVars, triggerVars, emailVars>>
    \/ /\ part = "email" /\ EmailNext
       /\ UNCHANGED <<part, catalogVars, triggerVars, supervisorVars>>

eventServicesVars ==
    <<part, catalogVars, triggerVars, supervisorVars, emailVars>>

EventServicesSpec ==
    /\ EventServicesInit /\ [][EventServicesNext]_eventServicesVars

=============================================================================
