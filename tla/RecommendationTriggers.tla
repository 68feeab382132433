------------------------ MODULE RecommendationTriggers ------------------------
(***************************************************************************)
(* The triggers of recommendationservice: cart events and page views of a  *)
(* session, fetched in batches by the replicas, thinned out to the newest  *)
(* of each session, answered with a recommendation that carries the        *)
(* trigger's version, and projected by storefrontprojectionservice.        *)
(*                                                                         *)
(* Both kinds of trigger take their version from the clock (nanoseconds),  *)
(* so one order covers both.  The candidates are those of a catalog        *)
(* revision; which products are drawn does not matter here.                *)
(***************************************************************************)
EXTENDS Naturals, FiniteSets

CONSTANTS
    Triggers,       \* [id, kind, session, version]
    Sessions,
    Replicas,
    MaxRevision,    \* bound on the catalog's revision
    MaxFaults       \* bound on failed calls, restarts and spurious redeliveries

TriggerAssumption ==
    /\ Triggers \subseteq [id : STRING, kind : {"cart", "page"}, session : Sessions,
                           version : Nat \ {0}]
    /\ \A t, u \in Triggers : t.version = u.version => t = u
    /\ MaxRevision \in Nat \ {0} /\ MaxFaults \in Nat

VARIABLES
    sent, queued,       \* triggers published / to be delivered
    superseded, stale,  \* acknowledged without an answer by a batch filter
    given,              \* given up after the last delivery
    aged,               \* page views older than RECOMMENDATION_PAGE_VIEW_MAX_AGE
    hand,               \* per replica: the triggers its workers have
    revision,           \* the catalog's revision
    results,            \* published events: <<trigger, revision>> is the message id
    view,               \* per session: the version of the projected recommendation
    faults

broker == <<sent, queued, given>>
filtered == <<superseded, stale>>
triggerVars == <<broker, filtered, aged, hand, revision, results, view, faults>>

Works == [trigger : Triggers, pc : {"choose", "publish", "ack"}, revision : 0..MaxRevision]

TriggerTypeOK ==
    /\ sent \in SUBSET Triggers
    /\ queued \in SUBSET sent /\ given \in SUBSET sent
    /\ superseded \in SUBSET sent /\ stale \in SUBSET sent
    /\ aged \in SUBSET sent
    /\ hand \in [Replicas -> SUBSET Works]
    /\ revision \in 1..MaxRevision
    /\ results \in SUBSET (Triggers \X (1..MaxRevision))
    /\ view \in [Sessions -> Nat]
    /\ faults \in 0..MaxFaults

TriggerInit ==
    /\ sent = {} /\ queued = {} /\ given = {}
    /\ superseded = {} /\ stale = {} /\ aged = {}
    /\ hand = [r \in Replicas |-> {}]
    /\ revision = 1
    /\ results = {}
    /\ view = [s \in Sessions |-> 0]
    /\ faults = 0

----------------------------------------------------------------------------
(* Storefront, cart and catalog                                            *)

\* The clock of the senders orders the triggers of a session.
Send(t) ==
    /\ t \notin sent
    /\ \A u \in sent : u.session = t.session => u.version < t.version
    /\ sent' = sent \cup {t}
    /\ queued' = queued \cup {t}
    /\ UNCHANGED <<given, filtered, aged, hand, revision, results, view, faults>>

Ages(t) ==
    /\ t \in sent \ aged
    /\ t.kind = "page"
    /\ aged' = aged \cup {t}
    /\ UNCHANGED <<broker, filtered, hand, revision, results, view, faults>>

CatalogChanges ==
    /\ revision < MaxRevision
    /\ revision' = revision + 1
    /\ UNCHANGED <<broker, filtered, aged, hand, results, view, faults>>

----------------------------------------------------------------------------
(* _consume, _fresh_page_views, _latest_cart_triggers                      *)

\* The page views of a batch that are too old.
Stale(batch) == {t \in batch : t.kind = "page" /\ t \in aged}

\* Mutant of Newest: the first trigger of a session is kept.
Oldest(batch) == {t \in batch : \A u \in batch : u.session = t.session => t.version <= u.version}

\* The newest trigger of each session.
Newest(batch) == {t \in batch : \A u \in batch : u.session = t.session => u.version <= t.version}

Retained(batch) == Newest(batch \ Stale(batch))

\* A fetch of the cart or of the page-view durable: what the filter drops is
\* acknowledged, the rest goes to the workers.
FetchBatch(r, kind, batch) ==
    /\ batch # {} /\ batch \subseteq {t \in queued : t.kind = kind}
    /\ queued' = queued \ batch
    /\ stale' = stale \cup Stale(batch)
    /\ superseded' = superseded \cup (batch \ (Stale(batch) \cup Retained(batch)))
    /\ hand' = [hand EXCEPT ![r] = @ \cup
                  [trigger : Retained(batch), pc : {"choose"}, revision : {0}]]
    /\ UNCHANGED <<sent, given, aged, revision, results, view, faults>>

\* An acknowledgement of the filter fails: the batch is not handed on, and what
\* was not acknowledged is delivered again.
FilterFails(kind, batch, acked) ==
    /\ faults < MaxFaults
    /\ batch # {} /\ batch \subseteq {t \in queued : t.kind = kind}
    /\ acked \subseteq batch \ Retained(batch)
    /\ queued' = queued \ acked
    /\ stale' = stale \cup (acked \cap Stale(batch))
    /\ superseded' = superseded \cup (acked \ Stale(batch))
    /\ faults' = faults + 1
    /\ UNCHANGED <<sent, given, aged, hand, revision, results, view>>

----------------------------------------------------------------------------
(* _process_message, _handle_trigger, _publish_result                      *)

Replace(r, w, new) == hand' = [hand EXCEPT ![r] = (@ \ {w}) \cup new]

\* The candidates, and with them the revision that goes into the message id.
Choose(r, w) ==
    /\ w.pc = "choose"
    /\ Replace(r, w, {[w EXCEPT !.pc = "publish", !.revision = revision]})
    /\ UNCHANGED <<broker, filtered, aged, revision, results, view, faults>>

\* A result published again under the same id is dropped by JetStream.
Publish(r, w) ==
    /\ w.pc = "publish"
    /\ results' = results \cup {<<w.trigger, w.revision>>}
    /\ Replace(r, w, {[w EXCEPT !.pc = "ack"]})
    /\ UNCHANGED <<broker, filtered, aged, revision, view, faults>>

Ack(r, w) ==
    /\ w.pc = "ack"
    /\ Replace(r, w, {})
    /\ UNCHANGED <<broker, filtered, aged, revision, results, view, faults>>

\* Any await of the handler raises: the trigger is not acknowledged, delivered
\* again, and given up after the last delivery.
HandlerFails(r, w) ==
    /\ faults < MaxFaults
    /\ Replace(r, w, {})
    /\ \/ queued' = queued \cup {w.trigger} /\ UNCHANGED given
       \/ given' = given \cup {w.trigger} /\ UNCHANGED queued
    /\ faults' = faults + 1
    /\ UNCHANGED <<sent, filtered, aged, revision, results, view>>

\* The connection is rebuilt or the replica starts again.
Restart(r) ==
    /\ faults < MaxFaults
    /\ hand[r] # {}
    /\ queued' = queued \cup {w.trigger : w \in hand[r]}
    /\ hand' = [hand EXCEPT ![r] = {}]
    /\ faults' = faults + 1
    /\ UNCHANGED <<sent, given, filtered, aged, revision, results, view>>

\* A trigger is delivered again although it was acknowledged or is being handled.
Redeliver(t) ==
    /\ faults < MaxFaults
    /\ t \in sent \ (queued \cup given)
    /\ queued' = queued \cup {t}
    /\ faults' = faults + 1
    /\ UNCHANGED <<sent, given, filtered, aged, hand, revision, results, view>>

----------------------------------------------------------------------------
(* storefrontprojectionservice: updateJSON of the session's recommendation *)

\* Mutant of Project: the last event wins.
ProjectAny(e) ==
    /\ e \in results
    /\ view[e[1].session] # e[1].version
    /\ view' = [view EXCEPT ![e[1].session] = e[1].version]
    /\ UNCHANGED <<broker, filtered, aged, hand, revision, results, faults>>

\* Events come in any order and again; only a newer one is written.
Project(e) ==
    /\ e \in results
    /\ e[1].version > view[e[1].session]
    /\ view' = [view EXCEPT ![e[1].session] = e[1].version]
    /\ UNCHANGED <<broker, filtered, aged, hand, revision, results, faults>>

----------------------------------------------------------------------------

Work(r) == \E w \in hand[r] : Choose(r, w) \/ Publish(r, w) \/ Ack(r, w)
FetchSome(r) == \E kind \in {"cart", "page"}, batch \in SUBSET queued : FetchBatch(r, kind, batch)

TriggerNext ==
    \/ \E t \in Triggers : Send(t) \/ Ages(t) \/ Redeliver(t)
    \/ CatalogChanges
    \/ \E r \in Replicas : FetchSome(r) \/ Work(r) \/ Restart(r)
    \/ \E r \in Replicas : \E w \in hand[r] : HandlerFails(r, w)
    \/ \E kind \in {"cart", "page"}, batch \in SUBSET queued, acked \in SUBSET queued :
          FilterFails(kind, batch, acked)
    \/ \E e \in results : Project(e)

TriggerSpec == TriggerInit /\ [][TriggerNext]_triggerVars

\* Every fetch and every handler comes to an end; the projection consumes.
TriggerFairness ==
    /\ \A r \in Replicas : WF_triggerVars(Work(r))
    /\ WF_triggerVars(\E r \in Replicas : FetchSome(r))
    /\ WF_triggerVars(\E e \in results : Project(e))

FairTriggerSpec == TriggerSpec /\ TriggerFairness

----------------------------------------------------------------------------

\* A trigger acknowledged without an answer gave way to a newer one of its
\* session that was not itself dropped for another reason than its age.
SupersededByNewer ==
    \A t \in superseded : \E u \in sent \ superseded :
        u.session = t.session /\ u.version > t.version

\* The recommendation a session is shown never goes back to an older context.
ViewNeverRewinds == [][\A s \in Sessions : view'[s] >= view[s]]_triggerVars

\* Every trigger is answered, by itself or by a newer one, unless it or a newer
\* one was given up or too old.
SessionAnswered ==
    \A t \in Triggers : t \in sent ~>
        \/ view[t.session] >= t.version
        \/ \E u \in given \cup stale : u.session = t.session /\ u.version >= t.version

\* A session keeps the newest of its triggers: the filters drop only what a newer
\* one covers, and the view never goes back.
SessionKeepsNewest == []SupersededByNewer /\ ViewNeverRewinds

----------------------------------------------------------------------------
(* The inductive invariant (proved in EventServicesProofs)                 *)

HandOK ==
    \A r \in Replicas : \A w \in hand[r] :
        w.trigger \in sent /\ (w.pc # "choose" => w.revision \in 1..MaxRevision)

\* Of the triggers a session has sent there is a newest one, although the set
\* is not bounded: the senders' clock rises.
NewestSent ==
    \A t \in sent : \E u \in sent :
        /\ u.session = t.session
        /\ \A x \in sent : x.session = t.session => x.version <= u.version

\* The filters compare within one batch, whose newest trigger may have been
\* dropped before and come again.
SupersededOlder ==
    \A t \in superseded : \E u \in sent : u.session = t.session /\ u.version > t.version

TriggerInv ==
    /\ TriggerTypeOK
    /\ HandOK
    /\ NewestSent
    /\ SupersededOlder

=============================================================================
