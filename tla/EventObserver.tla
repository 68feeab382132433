---------------------------- MODULE EventObserver ----------------------------
(***************************************************************************)
(* NatsMicroStatsClient (cluster_metrics.py): one asyncio loop that keeps  *)
(* a NATS connection, counts workflow events in subscription callbacks and *)
(* serves samples of the counts.  A coroutine gives the loop away at every *)
(* await, so several calls may be inside _ensure_connected at once: each   *)
(* collection submits two of them together, which open a connection each,  *)
(* and a call that timed out in its thread leaves its coroutine running.   *)
(***************************************************************************)
EXTENDS Integers, Sequences, FiniteSets

CONSTANTS
    Tasks,         \* coroutines that may run at the same time
    MaxPublished,  \* bound on workflow events
    MaxDrops       \* bound on lost and on closed connections

ObserverAssumption == MaxPublished \in Nat /\ MaxDrops \in Nat

VARIABLES
    observerPc,    \* per coroutine: where it waits
    conns,         \* the state of each connection, in the order they were opened
    current,       \* self._connection (an index of conns), 0 for None
    handle,        \* per coroutine: the connection it flushes
    identity,      \* _order_completed_observer_id
    total,         \* _workflow_event_totals of one event
    queued,        \* events delivered to subscriptions, callbacks not yet run
    published,     \* events published so far
    samples,       \* the last two samples handed out, with what was true then
    broken,        \* _order_completed_error is set
    drops

observerVars ==
    <<observerPc, conns, current, handle, identity, total, queued, published, samples, broken, drops>>

States == {"up", "down", "closed"}
TakenRec == [id : Nat, total : Nat, queued : Nat, events : Nat, open : Nat]

ObserverTypeOK ==
    /\ observerPc \in [Tasks -> {"idle", "connecting", "subscribing", "flushing"}]
    /\ conns \in Seq(States)
    /\ current \in 0..Len(conns)
    /\ handle \in [Tasks -> 0..Len(conns)]
    /\ \A t \in Tasks : observerPc[t] \in {"subscribing", "flushing"} => handle[t] # 0 /\ current # 0
    /\ total \in Nat /\ queued \in Nat
    /\ published \in 0..MaxPublished
    /\ drops \in 0..MaxDrops /\ identity \in 0..drops
    /\ samples \in Seq(TakenRec) /\ Len(samples) <= 2
    /\ broken \in BOOLEAN

ObserverInit ==
    /\ observerPc = [t \in Tasks |-> "idle"]
    /\ conns = << >> /\ current = 0
    /\ handle = [t \in Tasks |-> 0]
    /\ identity = 0 /\ total = 0 /\ queued = 0
    /\ published = 0
    /\ samples = << >>
    /\ broken = FALSE
    /\ drops = 0

ObserverGoto(t, state) == observerPc' = [observerPc EXCEPT ![t] = state]
Drop == drops < MaxDrops /\ drops' = drops + 1

----------------------------------------------------------------------------
(* _ensure_connected                                                       *)

Connected == current # 0 /\ conns[current] # "closed"

\* A call: the connection that is there, or a new one.
Call(t) ==
    /\ observerPc[t] = "idle"
    /\ IF Connected
       THEN handle' = [handle EXCEPT ![t] = current] /\ ObserverGoto(t, "flushing")
       ELSE UNCHANGED handle /\ ObserverGoto(t, "connecting")
    /\ UNCHANGED <<conns, current, identity, total, queued, published, samples, broken, drops>>

\* nats.connect returns: the attribute is overwritten, whoever else has set it, and
\* the subscriptions are queued on the new connection without giving the loop away.
ConnectionOpens(t) ==
    /\ observerPc[t] = "connecting"
    /\ conns' = Append(conns, "up")
    /\ current' = Len(conns) + 1
    /\ handle' = [handle EXCEPT ![t] = Len(conns) + 1]
    /\ ObserverGoto(t, "subscribing")
    /\ UNCHANGED <<identity, total, queued, published, samples, broken, drops>>

ConnectFails(t) ==
    /\ observerPc[t] = "connecting" /\ Drop
    /\ ObserverGoto(t, "idle")
    /\ UNCHANGED <<conns, current, handle, identity, total, queued, published, samples, broken>>

\* Mutant of RoundTrip: an answer is not waited for.
RoundTripNever(t) == TRUE

\* A flush is a round trip: it needs the connection up.
RoundTrip(t) == conns[handle[t]] = "up"

\* The subscriptions are flushed on the coroutine's own connection; what it returns
\* is the attribute, by now perhaps the connection of another.
Subscribed(t) ==
    /\ observerPc[t] = "subscribing" /\ RoundTrip(t)
    /\ handle' = [handle EXCEPT ![t] = current]
    /\ ObserverGoto(t, "flushing")
    /\ UNCHANGED <<conns, current, identity, total, queued, published, samples, broken, drops>>

FlushFails(t) ==
    /\ observerPc[t] \in {"subscribing", "flushing"} /\ conns[handle[t]] # "up"
    /\ ObserverGoto(t, "idle")
    /\ UNCHANGED <<conns, current, handle, identity, total, queued, published, samples, broken, drops>>

----------------------------------------------------------------------------
(* Samples                                                                 *)

\* The connections that have a subscription of the event.
Open == Cardinality({i \in 1..Len(conns) : conns[i] # "closed"})

Taken == [id |-> identity, total |-> total, queued |-> queued, events |-> published, open |-> Open]

\* _order_completed_sample, from the answer to its flush on; an error of the
\* client is never forgotten.
ServeSample(t) ==
    /\ observerPc[t] = "flushing" /\ RoundTrip(t)
    /\ samples' = IF broken THEN samples
                  ELSE IF Len(samples) < 2 THEN Append(samples, Taken)
                  ELSE <<samples[2], Taken>>
    /\ ObserverGoto(t, "idle")
    /\ UNCHANGED <<conns, current, handle, identity, total, queued, published, broken, drops>>

\* _sample only asks the services for their statistics.
ServeStats(t) ==
    /\ observerPc[t] = "flushing" /\ RoundTrip(t)
    /\ ObserverGoto(t, "idle")
    /\ UNCHANGED <<conns, current, handle, identity, total, queued, published, samples, broken, drops>>

----------------------------------------------------------------------------
(* Events and the connection's callbacks                                   *)

\* Every connection that is up gets the event.
Deliveries == Cardinality({i \in 1..Len(conns) : conns[i] = "up"})

Event ==
    /\ published < MaxPublished
    /\ published' = published + 1
    /\ queued' = queued + Deliveries
    /\ UNCHANGED <<observerPc, conns, current, handle, identity, total, samples, broken, drops>>

\* observe
Observe ==
    /\ queued > 0
    /\ queued' = queued - 1
    /\ total' = total + 1
    /\ UNCHANGED <<observerPc, conns, current, handle, identity, published, samples, broken, drops>>

\* Mutant of Forget: the counts start again under the same identity.
ForgetTotal == total' = 0 /\ UNCHANGED identity

\* disconnected: a new identity and new counts.
Forget == total' = 0 /\ identity' = identity + 1

\* The client of the connection, be it the current one or not, reconnects by itself,
\* or gives up and closes; either calls disconnected.
ConnectionDrops(i) ==
    /\ conns[i] # "closed" /\ Drop
    /\ \E state \in {"down", "closed"} : conns' = [conns EXCEPT ![i] = state]
    /\ Forget
    /\ UNCHANGED <<observerPc, current, handle, queued, published, samples, broken>>

\* Nobody is told.
Reconnects(i) ==
    /\ conns[i] = "down"
    /\ conns' = [conns EXCEPT ![i] = "up"]
    /\ UNCHANGED <<observerPc, current, handle, identity, total, queued, published, samples, broken, drops>>

\* observer_error
ClientError ==
    /\ ~broken /\ Drop
    /\ broken' = TRUE
    /\ UNCHANGED <<observerPc, conns, current, handle, identity, total, queued, published, samples>>

----------------------------------------------------------------------------

Step(t) ==
    \/ Call(t) \/ ConnectionOpens(t) \/ ConnectFails(t) \/ Subscribed(t)
    \/ FlushFails(t) \/ ServeSample(t) \/ ServeStats(t)

ObserverNext ==
    \/ \E t \in Tasks : Step(t)
    \/ Event \/ Observe \/ ClientError
    \/ \E i \in 1..Len(conns) : ConnectionDrops(i) \/ Reconnects(i)

ObserverSpec == ObserverInit /\ [][ObserverNext]_observerVars

----------------------------------------------------------------------------

\* Two samples with one identity are never a partial count, up to callbacks that
\* are still queued: whatever dropped, reconnected or was opened beside it, every
\* event between them is counted, and at most once per open connection (so twice,
\* once the first two calls of a collection have opened two). A disconnect makes a
\* new identity.
Counted(s1, s2) == s2.total + s2.queued - (s1.total + s1.queued)
CountsAreReal ==
    Len(samples) = 2 /\ samples[1].id = samples[2].id =>
        LET events == samples[2].events - samples[1].events
            counted == Counted(samples[1], samples[2])
        IN  events <= counted /\ counted <= samples[2].open * events

\* The counts are those of the connections that are open.
ObservedIsReal == ObserverTypeOK /\ CountsAreReal

----------------------------------------------------------------------------
(* The inductive invariant of ObservedIsReal                               *)

\* A sample has the present identity only if no connection dropped since, so the
\* one it was taken over is up; and then every event since is counted or queued,
\* once per connection that is open at most.
SampleCounted(s) ==
    /\ s.id <= identity /\ s.events <= published
    /\ s.id = identity =>
          /\ \E i \in 1..Len(conns) : conns[i] = "up"
          /\ published - s.events <= Counted(s, Taken)
          /\ Counted(s, Taken) <= Open * (published - s.events)

ObserverInv ==
    /\ ObserverTypeOK /\ CountsAreReal
    /\ \A k \in 1..Len(samples) : SampleCounted(samples[k])

=============================================================================
