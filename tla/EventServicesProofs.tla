------------------------- MODULE EventServicesProofs -------------------------
(***************************************************************************)
(* Proofs about emailservice, for any finite set of orders, any replicas   *)
(* with any failure modes, any concurrency and any number of faults, and   *)
(* about recommendationservice: its connection supervisor, for any         *)
(* consumers, pool and batch sizes, its triggers, for any set of triggers, *)
(* sessions and replicas, and its shared catalog, for any products,        *)
(* events, records found at the start, replicas and request handlers.      *)
(***************************************************************************)
EXTENDS EmailWorker, RecommendationSupervisor, RecommendationTriggers, RecommendationCatalog,
        FiniteSetTheorems, TLAPS

MsgPcs == {"wait", "publish", "ack", "nak"}
Msg == [order : Orders, pool : {"current", "orphan"}, pc : MsgPcs]
ReplicaRec == [pc : {"connect", "fetch", "process", "drain"},
               current : 0..Concurrency, orphan : 0..Concurrency]
EventRec == [id : Orders \X (Outcomes \cup {"confirmation"}), outcome : Outcomes,
             window : 0..MaxWindows]

Busy(h) == {m \in h : m.pc # "wait"}

----------------------------------------------------------------------------
(* Messages in the hands of a replica                                      *)

LEMMA MsgSet ==
  ASSUME NEW m \in Msg, NEW p \in MsgPcs
  PROVE  /\ [m EXCEPT !.pc = p] \in Msg /\ [m EXCEPT !.pc = p].pc = p
         /\ [m EXCEPT !.pc = p].order = m.order /\ [m EXCEPT !.pc = p].pool = m.pool
         /\ [m EXCEPT !.pool = "orphan"] \in Msg /\ [m EXCEPT !.pool = "orphan"].pc = m.pc
         /\ [m EXCEPT !.pool = "orphan"].order = m.order
         /\ [m EXCEPT !.pool = "orphan"].pool = "orphan"
BY DEF Msg

LEMMA FitsBusy ==
  ASSUME NEW h, NEW p, Fits(h, p)
  PROVE  /\ IsFiniteSet(h) /\ IsFiniteSet(Busy(h)) /\ Cardinality(Busy(h)) \in Nat
         /\ Cardinality(Busy(h)) <= p.current + p.orphan
<1>1. IsFiniteSet(h) /\ Cardinality(Busy(h)) <= p.current + p.orphan
  BY DEF Fits, Busy
<1>2. Busy(h) \in SUBSET h
  BY DEF Busy
<1>3. IsFiniteSet(Busy(h))
  BY <1>1, <1>2, FS_Subset
<1> QED BY <1>1, <1>3, FS_CardinalityType

\* A worker goes on with its message.
LEMMA SwapFits ==
  ASSUME NEW h \in SUBSET Msg, NEW p \in ReplicaRec, Concurrency \in Nat, Fits(h, p),
         NEW m \in h, NEW n \in Msg,
         n.pool = m.pool, m.pc # "wait"
  PROVE  Fits((h \ {m}) \cup {n}, p)
<1> DEFINE t == (h \ {m}) \cup {n}
<1>1. /\ IsFiniteSet(h) /\ IsFiniteSet(Busy(h)) /\ Cardinality(Busy(h)) \in Nat
      /\ Cardinality(Busy(h)) <= p.current + p.orphan
  BY FitsBusy
<1>2. IsFiniteSet(t)
  BY <1>1, FS_AddElement, FS_RemoveElement
<1>3. m \in Busy(h)
  BY DEF Busy
<1> DEFINE b == Busy(h) \ {m}
<1>4. IsFiniteSet(b) /\ Cardinality(b) = Cardinality(Busy(h)) - 1
  BY <1>1, <1>3, FS_RemoveElement
<1>5. /\ IsFiniteSet(b \cup {n})
      /\ Cardinality(b \cup {n}) = IF n \in b THEN Cardinality(b) ELSE Cardinality(b) + 1
  <2> HIDE DEF b
  <2> QED BY <1>4, FS_AddElement
<1>6. Busy(t) \in SUBSET (b \cup {n})
  BY DEF Busy
<1>7. Cardinality(Busy(t)) <= Cardinality(b \cup {n}) /\ IsFiniteSet(Busy(t))
  <2> HIDE DEF b, t
  <2> QED BY <1>5, <1>6, FS_Subset
<1>8. Cardinality(Busy(t)) \in Nat
  BY <1>7, FS_CardinalityType
<1>9. Cardinality(Busy(t)) <= p.current + p.orphan
  <2>1. p.current \in Nat /\ p.orphan \in Nat
    BY DEF ReplicaRec
  <2> HIDE DEF b, t
  <2> QED BY <1>1, <1>4, <1>5, <1>7, <1>8, <2>1
<1>10. \A x \in t : x \in h \/ x = n
  OBVIOUS
<1> HIDE DEF t
<1> QED BY <1>2, <1>9, <1>10 DEF Fits, Busy, t

LEMMA DropFits ==
  ASSUME NEW h \in SUBSET Msg, NEW p, Fits(h, p), p \in ReplicaRec, Concurrency \in Nat, NEW m \in h
  PROVE  Fits((h \ {m}) \cup {}, p)
<1> DEFINE t == (h \ {m}) \cup {}
<1>1. /\ IsFiniteSet(h) /\ IsFiniteSet(Busy(h)) /\ Cardinality(Busy(h)) \in Nat
      /\ Cardinality(Busy(h)) <= p.current + p.orphan
  BY FitsBusy
<1>2. t \in SUBSET h /\ Busy(t) \in SUBSET Busy(h)
  BY DEF Busy
<1>3. IsFiniteSet(t) /\ IsFiniteSet(Busy(t)) /\ Cardinality(Busy(t)) <= Cardinality(Busy(h))
  BY <1>1, <1>2, FS_Subset
<1>4. Cardinality(Busy(t)) \in Nat /\ p.current \in Nat /\ p.orphan \in Nat
  BY <1>3, FS_CardinalityType DEF ReplicaRec
<1>5. Cardinality(Busy(t)) <= p.current + p.orphan
  <2> HIDE DEF t
  <2> QED BY <1>1, <1>3, <1>4
<1> HIDE DEF t
<1> QED BY <1>2, <1>3, <1>5 DEF Fits, Busy, t

\* A free worker takes a waiting message.
LEMMA TakeFits ==
  ASSUME NEW h \in SUBSET Msg, NEW p \in ReplicaRec, Concurrency \in Nat, Fits(h, p),
         NEW m \in h, NEW n \in Msg, n.pool = m.pool, m.pc = "wait",
         Cardinality({x \in h : x.pool = m.pool /\ x.pc # "wait"}) < p[m.pool]
  PROVE  Fits((h \ {m}) \cup {n}, p)
<1> DEFINE t == (h \ {m}) \cup {n}
<1>1. /\ IsFiniteSet(h) /\ IsFiniteSet(Busy(h)) /\ Cardinality(Busy(h)) \in Nat
  BY FitsBusy
<1>2. IsFiniteSet(t)
  BY <1>1, FS_AddElement, FS_RemoveElement
<1>3. \A x \in h : x.pool = m.pool
  BY DEF Fits, ReplicaRec
<1>4. {x \in h : x.pool = m.pool /\ x.pc # "wait"} = Busy(h)
  BY <1>3 DEF Busy
<1>5. Cardinality(Busy(h)) < p.current + p.orphan
  <2>1. p.current \in Nat /\ p.orphan \in Nat /\ m.pool \in {"current", "orphan"}
    BY DEF ReplicaRec, Msg
  <2>2. p[m.pool] = p.current \/ p[m.pool] = p.orphan
    BY <2>1
  <2> QED BY <1>1, <1>4, <2>1, <2>2
<1>6. /\ IsFiniteSet(Busy(h) \cup {n})
      /\ Cardinality(Busy(h) \cup {n}) = IF n \in Busy(h) THEN Cardinality(Busy(h)) ELSE Cardinality(Busy(h)) + 1
  BY <1>1, FS_AddElement
<1>7. Busy(t) \in SUBSET (Busy(h) \cup {n})
  BY DEF Busy
<1>8. Cardinality(Busy(t)) <= Cardinality(Busy(h) \cup {n}) /\ IsFiniteSet(Busy(t))
  <2> HIDE DEF t
  <2> QED BY <1>6, <1>7, FS_Subset
<1>9. Cardinality(Busy(t)) <= p.current + p.orphan
  <2>1. p.current \in Nat /\ p.orphan \in Nat /\ Cardinality(Busy(t)) \in Nat
    BY <1>8, FS_CardinalityType DEF ReplicaRec
  <2> HIDE DEF t
  <2> QED BY <1>1, <1>5, <1>6, <1>8, <2>1
<1>10. \A x \in t : x \in h \/ x = n
  OBVIOUS
<1> HIDE DEF t
<1> QED BY <1>2, <1>9, <1>10 DEF Fits, Busy, t

\* A worker dies of a failed nak; the others become orphans.
LEMMA OrphanFits ==
  ASSUME NEW h \in SUBSET Msg, NEW p \in ReplicaRec, Concurrency \in Nat, Fits(h, p),
         NEW m \in h, m.pc = "nak",
         NEW q, q.pc = "drain", q.current = 0, q.orphan = p.current + p.orphan - 1,
         NEW t, \A x \in t : \E n \in h \ {m} : x = [n EXCEPT !.pool = "orphan"],
         \A n \in h \ {m} : [n EXCEPT !.pool = "orphan"] \in t
  PROVE  Fits(t, q) /\ q.orphan \in 0..Concurrency /\ t \in SUBSET Msg
<1>1. /\ IsFiniteSet(h) /\ IsFiniteSet(Busy(h)) /\ Cardinality(Busy(h)) \in Nat
      /\ Cardinality(Busy(h)) <= p.current + p.orphan
  BY FitsBusy
<1>2. p.current \in 0..Concurrency /\ p.orphan \in 0..Concurrency
  BY DEF ReplicaRec
<1> DEFINE b == Busy(h) \ {m}
<1>3. IsFiniteSet(b) /\ Cardinality(b) = Cardinality(Busy(h)) - 1 /\ Cardinality(b) \in Nat
  <2>1. m \in Busy(h)
    BY DEF Busy
  <2>2. IsFiniteSet(b) /\ Cardinality(b) = Cardinality(Busy(h)) - 1
    BY <1>1, <2>1, FS_RemoveElement
  <2> HIDE DEF b
  <2> QED BY <2>2, FS_CardinalityType
<1>4. p.current = 0 \/ p.orphan = 0
  BY DEF Fits, ReplicaRec
<1>5. q.orphan \in 0..Concurrency
  <2>1. p.current + p.orphan - 1 \in 0..Concurrency
    <3> HIDE DEF b
    <3> QED BY <1>1, <1>2, <1>3, <1>4
  <2> QED BY <2>1
<1>6. \A n \in Msg : /\ [n EXCEPT !.pool = "orphan"].pc = n.pc
                     /\ [n EXCEPT !.pool = "orphan"] \in Msg
                     /\ [n EXCEPT !.pool = "orphan"].pool = "orphan"
  BY DEF Msg
<1>7. \A x \in t : \E n \in h \ {m} : x = [n EXCEPT !.pool = "orphan"]
  OBVIOUS
<1>8. \A x \in t : x \in Msg /\ x.pool = "orphan"
  <2> SUFFICES ASSUME NEW x \in t PROVE x \in Msg /\ x.pool = "orphan"
    OBVIOUS
  <2>1. PICK n \in h \ {m} : x = [n EXCEPT !.pool = "orphan"]
    BY <1>7
  <2>2. n \in Msg
    OBVIOUS
  <2> QED BY <1>6, <2>1, <2>2
<1> DEFINE g == [n \in h \ {m} |-> [n EXCEPT !.pool = "orphan"]]
<1>9. g \in Surjection(h \ {m}, t)
  BY DEF Surjection
<1>10. IsFiniteSet(t)
  BY <1>1, <1>9, FS_RemoveElement, FS_Surjection
<1> DEFINE f == [n \in b |-> [n EXCEPT !.pool = "orphan"]]
<1>11. f \in Surjection(b, Busy(t))
  <2>1. ASSUME NEW n \in b PROVE f[n] \in Busy(t)
    <3>1. n \in h \ {m} /\ n \in Msg /\ n.pc # "wait" /\ f[n] = [n EXCEPT !.pool = "orphan"]
      BY DEF Busy
    <3>2. f[n] \in t
      BY <3>1
    <3>3. f[n].pc # "wait"
      BY <1>6, <3>1
    <3> QED BY <3>2, <3>3 DEF Busy
  <2>2. ASSUME NEW x \in Busy(t) PROVE \E n \in b : f[n] = x
    <3>1. x \in t /\ x.pc # "wait"
      BY DEF Busy
    <3>2. PICK n \in h \ {m} : x = [n EXCEPT !.pool = "orphan"]
      BY <1>7, <3>1
    <3>3. n \in Msg /\ n.pc # "wait"
      BY <1>6, <3>1, <3>2
    <3>4. n \in b
      BY <3>3 DEF Busy
    <3> QED BY <3>2, <3>4
  <2> QED BY <2>1, <2>2 DEF Surjection
<1>12. IsFiniteSet(Busy(t)) /\ Cardinality(Busy(t)) <= Cardinality(b)
  <2> HIDE DEF f, b
  <2> QED BY <1>3, <1>11, FS_Surjection
<1>13. Cardinality(Busy(t)) <= q.current + q.orphan
  <2>1. Cardinality(Busy(t)) \in Nat
    BY <1>12, FS_CardinalityType
  <2> HIDE DEF b
  <2> QED BY <1>1, <1>2, <1>3, <1>5, <1>12, <2>1
<1> QED BY <1>5, <1>10, <1>13, <1>8 DEF Fits, Busy

----------------------------------------------------------------------------
(* The stream of outcomes                                                  *)

TypeParts(c, q, g, a, d, w, e, p, h, f) ==
    /\ c \in SUBSET Orders /\ q \in SUBSET c /\ g \in SUBSET c /\ a \in SUBSET c
    /\ d \in [Orders -> 0..MaxDeliver] /\ w \in [Orders -> 0..MaxWindows] /\ e \in SUBSET EventRec
    /\ p \in [EmailReplicas -> ReplicaRec] /\ h \in [EmailReplicas -> SUBSET Msg] /\ f \in 0..MaxEmailFaults

LEMMA TypeIs ==
  /\ EmailTypeOK <=> TypeParts(completed, emailQueued, emailGiven, acked, deliveries, window, events, replica,
                               emailHand,
                               emailFaults)
  /\ EmailTypeOK' <=> TypeParts(completed', emailQueued', emailGiven', acked', deliveries', window', events', replica',
                                emailHand', emailFaults')
BY DEF EmailTypeOK, TypeParts, EventRec, ReplicaRec, Msg, MsgPcs

\* _result_message_id gives both outcomes one id, and the stream keeps the first
\* one of a duplicate window.
LEMMA StoredOutcome ==
  ASSUME EmailAssumption, events \in SUBSET EventRec, window \in [Orders -> 0..MaxWindows],
         EventsOK, OncePerWindow,
         NEW r \in EmailReplicas, NEW m \in Msg, NEW s, s = Stored(r, m)
  PROVE  /\ s \in SUBSET EventRec /\ events \subseteq s
         /\ \A e \in s : e.id[2] = "confirmation"
         /\ \A e, f \in s : e.id[1] = f.id[1] /\ e.window = f.window => e = f
         /\ \E e \in s : e.id[1] = m.order
<1> DEFINE outcome == IF FailureMode[r] THEN "failed" ELSE "sent"
<1> DEFINE id == <<m.order, "confirmation">>
<1> DEFINE w == window[m.order]
<1> DEFINE x == [id |-> id, outcome |-> outcome, window |-> w]
<1>1. s = IF \E e \in events : e.id = id /\ e.window = w THEN events ELSE events \cup {x}
  BY DEF Stored, MessageId
<1>2. m.order \in Orders /\ w \in 0..MaxWindows
  BY DEF Msg
<1>3. /\ x \in EventRec /\ x.id = id /\ x.window = w
      /\ id[1] = m.order /\ id[2] = "confirmation"
  BY <1>2 DEF EventRec, Outcomes
<1>4. \A e \in events : e.id = <<e.id[1], e.id[2]>>
  BY DEF EventRec
<1>5. \A e \in events : e.id[2] = "confirmation"
  BY DEF EventsOK
<1>6. \A e, f \in events : e.id[1] = f.id[1] /\ e.window = f.window => e = f
  BY DEF OncePerWindow
<1>7. CASE \E e \in events : e.id = id /\ e.window = w
  BY <1>1, <1>3, <1>5, <1>6, <1>7
<1>8. CASE ~\E e \in events : e.id = id /\ e.window = w
  <2>1. \A e \in events : ~(e.id[1] = m.order /\ e.window = w)
    BY <1>4, <1>5, <1>8
  <2> HIDE DEF x, id, w
  <2> QED BY <1>1, <1>3, <1>5, <1>6, <1>8, <2>1
<1> QED BY <1>7, <1>8

\* JetStream delivers a message again, or gives it up.
LEMMA ReturnOK ==
  ASSUME EmailAssumption, EmailTypeOK, DeliveriesOK, NEW o \in completed, Return(o),
         deliveries' = deliveries, completed' = completed
  PROVE  /\ emailQueued' \in SUBSET completed /\ emailGiven' \in SUBSET completed
         /\ DeliveriesOK'
<1>1. completed \in SUBSET Orders /\ deliveries \in [Orders -> 0..MaxDeliver] /\ emailQueued \in SUBSET completed
          /\ emailGiven \in SUBSET completed
  BY DEF EmailTypeOK
<1> QED BY <1>1 DEF Return, DeliveriesOK

\* What the replicas have in their hands stays in order when one of them replaces
\* a message by new ones.
LEMMA Replaced ==
  ASSUME EmailTypeOK, MessagesOK, NEW r \in EmailReplicas, NEW m \in emailHand[r], NEW new \in SUBSET Msg,
         ReplaceMessage(r, m, new), completed' = completed, events \subseteq events',
         \A n \in new : /\ n.order \in completed
                        /\ n.pc = "ack" => \E e \in events' : e.id[1] = n.order
  PROVE  /\ emailHand' \in [EmailReplicas -> SUBSET Msg] /\ MessagesOK'
         /\ emailHand'[r] = (emailHand[r] \ {m}) \cup new
         /\ \A q \in EmailReplicas \ {r} : emailHand'[q] = emailHand[q]
<1>1. emailHand \in [EmailReplicas -> SUBSET Msg]
  BY TypeIs DEF TypeParts
<1>2. emailHand' = [emailHand EXCEPT ![r] = (emailHand[r] \ {m}) \cup new]
  BY DEF ReplaceMessage
<1>3. /\ emailHand' \in [EmailReplicas -> SUBSET Msg] /\ emailHand'[r] = (emailHand[r] \ {m}) \cup new
      /\ \A q \in EmailReplicas \ {r} : emailHand'[q] = emailHand[q]
  BY <1>1, <1>2
<1>4. ASSUME NEW q \in EmailReplicas, NEW n \in emailHand'[q]
      PROVE  n.order \in completed /\ (n.pc = "ack" => \E e \in events' : e.id[1] = n.order)
  <2>1. CASE n \in emailHand[q]
    BY <2>1 DEF MessagesOK, Notified
  <2>2. CASE n \in new
    BY <2>2
  <2> QED BY <1>3, <2>1, <2>2
<1> QED BY <1>3, <1>4 DEF MessagesOK, Notified

LEMMA PoolAfter ==
  ASSUME PoolOK, NEW r \in EmailReplicas, Fits(emailHand'[r], replica'[r]),
         \A q \in EmailReplicas \ {r} : emailHand'[q] = emailHand[q] /\ replica'[q] = replica[q]
  PROVE  PoolOK'
BY DEF PoolOK

----------------------------------------------------------------------------
(* The inductive step                                                      *)

\* What has to be shown of a step that keeps order in the broker.
LEMMA InvAfter ==
  ASSUME TypeParts(completed', emailQueued', emailGiven', acked', deliveries', window', events', replica', emailHand',
                   emailFaults'),
         DeliveriesOK', EventsOK', MessagesOK', PoolOK', AckedMeansNotified', OncePerWindow'
  PROVE  EmailInv'
BY TypeIs DEF EmailInv

LEMMA BrokerStep ==
  ASSUME EmailAssumption, EmailInv, NEW o \in Orders, Complete(o) \/ AckWait(o) \/ WindowPasses(o)
  PROVE  EmailInv'
<1>1. /\ TypeParts(completed, emailQueued, emailGiven, acked, deliveries, window, events, replica, emailHand,
                   emailFaults)
      /\ EmailTypeOK /\ DeliveriesOK /\ EventsOK /\ MessagesOK /\ PoolOK /\ AckedMeansNotified /\ OncePerWindow
      /\ MaxDeliver \in Nat \ {0}
  BY TypeIs DEF EmailInv, EmailAssumption
<1>2. CASE Complete(o)
  <2>1. /\ o \notin completed /\ completed' = completed \cup {o} /\ emailQueued' = emailQueued \cup {o}
        /\ UNCHANGED <<emailGiven, acked, deliveries, window, events, replica, emailHand, emailFaults>>
    BY <1>2 DEF Complete
  <2>2. TypeParts(completed', emailQueued', emailGiven', acked', deliveries', window', events', replica', emailHand',
                  emailFaults')
    BY <1>1, <2>1 DEF TypeParts
  <2>3. DeliveriesOK'
    BY <1>1, <2>1 DEF DeliveriesOK
  <2>4. EventsOK' /\ PoolOK' /\ OncePerWindow'
    BY <1>1, <2>1 DEF EventsOK, PoolOK, OncePerWindow
  <2>5. MessagesOK' /\ AckedMeansNotified'
    BY <1>1, <2>1 DEF MessagesOK, AckedMeansNotified, Notified
  <2> QED BY <2>2, <2>3, <2>4, <2>5, InvAfter
<1>3. CASE AckWait(o)
  <2>1. /\ o \in completed /\ Return(o)
        /\ UNCHANGED <<completed, acked, deliveries, window, events, replica, emailHand, emailFaults>>
    BY <1>3 DEF AckWait
  <2>2. emailQueued' \in SUBSET completed /\ emailGiven' \in SUBSET completed /\ DeliveriesOK'
    BY <1>1, <2>1, ReturnOK
  <2>3. TypeParts(completed', emailQueued', emailGiven', acked', deliveries', window', events', replica', emailHand',
                  emailFaults')
    BY <1>1, <2>1, <2>2 DEF TypeParts
  <2>4. EventsOK' /\ PoolOK' /\ OncePerWindow'
    BY <1>1, <2>1 DEF EventsOK, PoolOK, OncePerWindow
  <2>5. MessagesOK' /\ AckedMeansNotified'
    BY <1>1, <2>1 DEF MessagesOK, AckedMeansNotified, Notified
  <2> QED BY <2>2, <2>3, <2>4, <2>5, InvAfter
<1>4. CASE WindowPasses(o)
  <2>1. /\ window[o] < MaxWindows /\ window' = [window EXCEPT ![o] = @ + 1]
        /\ UNCHANGED <<completed, emailQueued, emailGiven, acked, deliveries, events, replica,
                       emailHand, emailFaults>>
    BY <1>4 DEF WindowPasses
  <2>2. window' \in [Orders -> 0..MaxWindows]
    <3>1. window \in [Orders -> 0..MaxWindows] /\ MaxWindows \in Nat
      BY <1>1 DEF TypeParts, EmailAssumption
    <3> QED BY <2>1, <3>1
  <2>3. TypeParts(completed', emailQueued', emailGiven', acked', deliveries', window', events', replica',
                  emailHand', emailFaults')
    BY <1>1, <2>1, <2>2 DEF TypeParts
  <2>4. DeliveriesOK' /\ EventsOK' /\ PoolOK' /\ OncePerWindow'
    BY <1>1, <2>1 DEF DeliveriesOK, EventsOK, PoolOK, OncePerWindow
  <2>5. MessagesOK' /\ AckedMeansNotified'
    BY <1>1, <2>1 DEF MessagesOK, AckedMeansNotified, Notified
  <2> QED BY <2>3, <2>4, <2>5, InvAfter
<1> QED BY <1>2, <1>3, <1>4

\* A replica goes from one state of its loop to another, and its hands with it.
LEMMA LoopAfter ==
  ASSUME EmailAssumption, EmailInv, NEW r \in EmailReplicas, NEW p \in ReplicaRec, NEW h \in SUBSET Msg,
         replica' = [replica EXCEPT ![r] = p], emailHand' = [emailHand EXCEPT ![r] = h], Fits(h, p),
         \A m \in h : m.order \in completed /\ (m.pc = "ack" => Notified(m.order)),
         UNCHANGED <<completed, emailGiven, acked, window, events>>, emailFaults' \in 0..MaxEmailFaults,
         emailQueued' \in SUBSET completed, deliveries' \in [Orders -> 0..MaxDeliver], DeliveriesOK'
  PROVE  EmailInv'
<1>1. /\ TypeParts(completed, emailQueued, emailGiven, acked, deliveries, window, events, replica, emailHand,
                   emailFaults)
      /\ EventsOK /\ MessagesOK /\ PoolOK /\ AckedMeansNotified /\ OncePerWindow
  BY TypeIs DEF EmailInv
<1>2. /\ replica \in [EmailReplicas -> ReplicaRec] /\ emailHand \in [EmailReplicas -> SUBSET Msg]
  BY <1>1 DEF TypeParts
<1>3. /\ replica' \in [EmailReplicas -> ReplicaRec] /\ emailHand' \in [EmailReplicas -> SUBSET Msg]
      /\ replica'[r] = p /\ emailHand'[r] = h
      /\ \A q \in EmailReplicas \ {r} : emailHand'[q] = emailHand[q] /\ replica'[q] = replica[q]
  BY <1>2
<1>4. TypeParts(completed', emailQueued', emailGiven', acked', deliveries', window', events', replica', emailHand',
                emailFaults')
  BY <1>1, <1>3 DEF TypeParts
<1>5. MessagesOK'
  <2>1. ASSUME NEW q \in EmailReplicas, NEW m \in emailHand'[q]
        PROVE  m.order \in completed /\ (m.pc = "ack" => Notified(m.order))
    BY <1>1, <1>3 DEF MessagesOK
  <2> QED BY <2>1 DEF MessagesOK, Notified
<1>6. PoolOK'
  BY <1>1, <1>3, PoolAfter
<1>7. EventsOK' /\ OncePerWindow' /\ AckedMeansNotified'
  BY <1>1 DEF EventsOK, OncePerWindow, AckedMeansNotified, Notified
<1> QED BY <1>4, <1>5, <1>6, <1>7, InvAfter

LEMMA PoolSizes ==
  ASSUME Concurrency \in Nat \ {0}, NEW b, IsFiniteSet(b)
  PROVE  PoolSize(b) \in 0..Concurrency
<1>1. Cardinality(b) \in Nat
  BY FS_CardinalityType
<1> QED BY <1>1 DEF PoolSize

LEMMA LoopStep ==
  ASSUME EmailAssumption, EmailInv, NEW r \in EmailReplicas, Loop(r) \/ FetchFails(r) \/ RestartWorker(r)
  PROVE  EmailInv'
<1>1. /\ TypeParts(completed, emailQueued, emailGiven, acked, deliveries, window, events, replica, emailHand,
                   emailFaults)
      /\ EmailTypeOK /\ DeliveriesOK /\ EventsOK /\ MessagesOK /\ PoolOK /\ AckedMeansNotified /\ OncePerWindow
      /\ MaxDeliver \in Nat \ {0} /\ Concurrency \in Nat \ {0} /\ MaxEmailFaults \in Nat /\ IsFiniteSet(Orders)
  BY TypeIs DEF EmailInv, EmailAssumption
<1>2. /\ replica \in [EmailReplicas -> ReplicaRec] /\ emailHand \in [EmailReplicas -> SUBSET Msg]
      /\ emailQueued \in SUBSET completed /\ completed \in SUBSET Orders /\ emailFaults \in 0..MaxEmailFaults
      /\ deliveries \in [Orders -> 0..MaxDeliver]
  BY <1>1 DEF TypeParts
<1>3. Fits(emailHand[r], replica[r]) /\ replica[r] \in ReplicaRec /\ emailHand[r] \in SUBSET Msg
  BY <1>1, <1>2 DEF PoolOK
<1>4. \A m \in emailHand[r] : m.order \in completed /\ (m.pc = "ack" => Notified(m.order))
  BY <1>1 DEF MessagesOK
\* Nothing but the state of the replica and what it has in hand changes.
<1>5. ASSUME NEW p \in ReplicaRec, NEW h \in SUBSET Msg, h \subseteq emailHand[r],
             replica' = [replica EXCEPT ![r] = p], emailHand' = [emailHand EXCEPT ![r] = h], Fits(h, p),
             UNCHANGED <<emailBroker, events>>, emailFaults' \in 0..MaxEmailFaults
      PROVE  EmailInv'
  <2>1. UNCHANGED <<completed, emailQueued, emailGiven, acked, deliveries, window, events>>
    BY <1>5 DEF emailBroker
  <2>2. DeliveriesOK'
    BY <1>1, <2>1 DEF DeliveriesOK
  <2>3. \A m \in h : m.order \in completed /\ (m.pc = "ack" => Notified(m.order))
    BY <1>4, <1>5
  <2>4. emailQueued' \in SUBSET completed /\ deliveries' \in [Orders -> 0..MaxDeliver]
    BY <1>2, <2>1
  <2> QED BY <1>5, <2>1, <2>2, <2>3, <2>4, LoopAfter
<1>6. emailHand = [emailHand EXCEPT ![r] = emailHand[r]]
  BY <1>2
<1> DEFINE none == {}
<1>7. none \in SUBSET Msg /\ none \subseteq emailHand[r] /\ Fits(none, Fresh) /\ Fresh \in ReplicaRec
  <2>1. IsFiniteSet(none) /\ Cardinality(none) = 0 /\ none = {}
    BY FS_EmptySet
  <2>2. Fresh \in ReplicaRec /\ Fresh.pc = "connect" /\ Fresh.current = 0 /\ Fresh.orphan = 0
    BY <1>1 DEF Fresh, ReplicaRec
  <2>3. {m \in none : m.pc # "wait"} = none
    OBVIOUS
  <2> HIDE DEF none
  <2> QED BY <2>1, <2>2, <2>3 DEF Fits
<1>8. CASE ConsumeConnection(r)
  <2> DEFINE p == [replica[r] EXCEPT !.pc = "fetch"]
  <2>1. /\ replica[r].pc = "connect" /\ replica' = [replica EXCEPT ![r] = p]
        /\ UNCHANGED <<emailBroker, events, emailHand, emailFaults>>
    BY <1>8 DEF ConsumeConnection
  <2>2. p \in ReplicaRec /\ p.pc = "fetch" /\ p.current = replica[r].current /\ p.orphan = replica[r].orphan
    BY <1>3 DEF ReplicaRec
  <2> HIDE DEF p
  <2>3. Fits(emailHand[r], p)
    BY <1>3, <2>1, <2>2 DEF Fits
  <2> QED BY <1>2, <1>3, <1>5, <1>6, <2>1, <2>2, <2>3
<1>9. CASE FetchFails(r)
  <2> DEFINE p == [replica[r] EXCEPT !.pc = "drain"]
  <2>1. /\ replica[r].pc = "fetch" /\ replica' = [replica EXCEPT ![r] = p]
        /\ UNCHANGED <<emailBroker, events, emailHand>> /\ emailFaults' \in 0..MaxEmailFaults
    BY <1>1, <1>2, <1>9 DEF FetchFails, Fault
  <2>2. p \in ReplicaRec /\ p.pc = "drain" /\ p.current = replica[r].current /\ p.orphan = replica[r].orphan
    BY <1>3 DEF ReplicaRec
  <2> HIDE DEF p
  <2>3. Fits(emailHand[r], p)
    BY <1>3, <2>1, <2>2 DEF Fits
  <2> QED BY <1>3, <1>5, <1>6, <2>1, <2>2, <2>3
<1>10. CASE BatchDone(r)
  <2> DEFINE y == [replica[r] EXCEPT !.pc = "fetch"]
  <2> DEFINE p == [y EXCEPT !.current = 0]
  <2>1. /\ replica[r].pc = "process" /\ ~\E m \in emailHand[r] : m.pool = "current"
        /\ UNCHANGED <<emailBroker, events, emailHand, emailFaults>>
    BY <1>10 DEF BatchDone
  <2>2. replica' = [replica EXCEPT ![r] = p]
    BY <1>2, <1>10 DEF BatchDone
  <2>3. y \in ReplicaRec /\ y.pc = "fetch" /\ y.orphan = replica[r].orphan
    BY <1>3 DEF ReplicaRec
  <2> HIDE DEF y
  <2>4. p \in ReplicaRec /\ p.pc = "fetch" /\ p.current = 0 /\ p.orphan = replica[r].orphan
    BY <1>1, <2>3 DEF ReplicaRec
  <2> HIDE DEF p
  <2>5. emailHand[r] = {} /\ replica[r].orphan = 0
    BY <1>3, <2>1 DEF Fits
  <2>6. Fits(emailHand[r], p)
    <3>1. {m \in emailHand[r] : m.pc # "wait"} = {} /\ Cardinality({}) = 0 /\ IsFiniteSet({})
      BY <2>5, FS_EmptySet
    <3> QED BY <2>4, <2>5, <3>1 DEF Fits
  <2> QED BY <1>2, <1>3, <1>5, <1>6, <2>1, <2>2, <2>4, <2>6
<1>11. CASE Drained(r) \/ RestartWorker(r)
  <2>1. /\ emailHand' = [emailHand EXCEPT ![r] = none] /\ replica' = [replica EXCEPT ![r] = Fresh]
        /\ UNCHANGED <<emailBroker, events>> /\ emailFaults' \in 0..MaxEmailFaults
    BY <1>1, <1>2, <1>11 DEF Drained, RestartWorker, Fault
  <2> HIDE DEF none
  <2> QED BY <1>5, <1>7, <2>1
<1>12. ASSUME NEW batch \in SUBSET emailQueued, FetchMessages(r, batch) PROVE EmailInv'
  <2> DEFINE y == [replica[r] EXCEPT !.pc = "process"]
  <2> DEFINE p == [y EXCEPT !.current = PoolSize(batch)]
  <2> DEFINE h == emailHand[r] \cup [order : batch, pool : {"current"}, pc : {"wait"}]
  <2>1. /\ replica[r].pc = "fetch" /\ emailQueued' = emailQueued \ batch
        /\ deliveries' = [o \in Orders |-> deliveries[o] + IF o \in batch THEN 1 ELSE 0]
        /\ emailHand' = [emailHand EXCEPT ![r] = h]
        /\ UNCHANGED <<completed, emailGiven, acked, window, events, emailFaults>>
    BY <1>12 DEF FetchMessages
  <2>2. replica' = [replica EXCEPT ![r] = p]
    BY <1>2, <1>12 DEF FetchMessages
  <2>3. IsFiniteSet(batch)
    BY <1>1, <1>2, FS_Subset
  <2>4. PoolSize(batch) \in 0..Concurrency
    BY <1>1, <2>3, PoolSizes
  <2>5. y \in ReplicaRec /\ y.pc = "process" /\ y.orphan = replica[r].orphan
    BY <1>3 DEF ReplicaRec
  <2> HIDE DEF y
  <2>6. p \in ReplicaRec /\ p.pc = "process" /\ p.current = PoolSize(batch) /\ p.orphan = replica[r].orphan
    BY <2>4, <2>5 DEF ReplicaRec
  <2> HIDE DEF p
  <2>7. emailHand[r] = {} /\ replica[r].orphan = 0
    BY <1>3, <2>1 DEF Fits
  <2>8. h = {[order |-> o, pool |-> "current", pc |-> "wait"] : o \in batch}
    <3>1. ASSUME NEW x \in h PROVE x \in {[order |-> o, pool |-> "current", pc |-> "wait"] : o \in batch}
      BY <2>7
    <3>2. ASSUME NEW o \in batch PROVE [order |-> o, pool |-> "current", pc |-> "wait"] \in h
      OBVIOUS
    <3> QED BY <3>1, <3>2
  <2>9. /\ h \in SUBSET Msg /\ \A m \in h : m.order \in batch /\ m.pc = "wait" /\ m.pool = "current"
    BY <1>2, <2>7 DEF Msg, MsgPcs
  <2>10. IsFiniteSet(h)
    <3> DEFINE f == [o \in batch |-> [order |-> o, pool |-> "current", pc |-> "wait"]]
    <3> DEFINE t == {[order |-> o, pool |-> "current", pc |-> "wait"] : o \in batch}
    <3>1. f \in Surjection(batch, t)
      BY DEF Surjection
    <3>2. IsFiniteSet(t)
      <4> HIDE DEF f, t
      <4> QED BY <2>3, <3>1, FS_Surjection
    <3> QED BY <2>8, <3>2
  <2> HIDE DEF h
  <2>11. Fits(h, p)
    <3>1. {m \in h : m.pc # "wait"} = {} /\ Cardinality({}) = 0
      BY <2>9, FS_EmptySet
    <3>2. p.current \in 0..Concurrency /\ p.orphan = 0
      BY <2>4, <2>6, <2>7
    <3>3. 0 <= p.current + p.orphan
      BY <1>1, <3>2
    <3>4. \A m \in h : m.pool = "current"
      BY <2>9
    <3> QED BY <2>6, <2>7, <2>10, <3>1, <3>3, <3>4 DEF Fits
  <2>12. \A m \in h : m.order \in completed /\ (m.pc = "ack" => Notified(m.order))
    BY <1>2, <2>9
  <2>13. deliveries' \in [Orders -> 0..MaxDeliver] /\ DeliveriesOK'
    <3>1. \A o \in batch : deliveries[o] < MaxDeliver
      BY <1>1 DEF DeliveriesOK
    <3>2. deliveries' \in [Orders -> 0..MaxDeliver]
      BY <1>1, <1>2, <2>1, <3>1
    <3>3. \A o \in Orders : o \notin completed => deliveries'[o] = 0
      BY <1>1, <1>2, <2>1 DEF DeliveriesOK
    <3>4. \A o \in emailQueued \ batch : deliveries'[o] < MaxDeliver
      BY <1>1, <1>2, <2>1 DEF DeliveriesOK
    <3> QED BY <2>1, <3>2, <3>3, <3>4 DEF DeliveriesOK
  <2> QED BY <1>2, <2>1, <2>2, <2>6, <2>9, <2>11, <2>12, <2>13, LoopAfter
<1> QED BY <1>8, <1>9, <1>10, <1>11, <1>12 DEF Loop

\* A worker replaces its message m by new ones; queue and stream may change.
LEMMA WorkerAfter ==
  ASSUME EmailAssumption, EmailInv, NEW r \in EmailReplicas, NEW m \in emailHand[r], NEW new \in SUBSET Msg,
         ReplaceMessage(r, m, new), Fits((emailHand[r] \ {m}) \cup new, replica[r]),
         \A n \in new : /\ n.order \in completed
                        /\ n.pc = "ack" => \E e \in events' : e.id[1] = n.order,
         UNCHANGED <<completed, deliveries, window, replica>>, emailFaults' \in 0..MaxEmailFaults,
         emailQueued' \in SUBSET completed, emailGiven' \in SUBSET completed, acked' \in SUBSET completed,
         DeliveriesOK', events \subseteq events', events' \in SUBSET EventRec, EventsOK', OncePerWindow',
         \A o \in acked' : \E e \in events' : e.id[1] = o
  PROVE  EmailInv'
<1>1. /\ TypeParts(completed, emailQueued, emailGiven, acked, deliveries, window, events, replica, emailHand,
                   emailFaults)
      /\ EmailTypeOK /\ MessagesOK /\ PoolOK
  BY TypeIs DEF EmailInv
<1>2. /\ emailHand' \in [EmailReplicas -> SUBSET Msg] /\ MessagesOK'
      /\ emailHand'[r] = (emailHand[r] \ {m}) \cup new
      /\ \A q \in EmailReplicas \ {r} : emailHand'[q] = emailHand[q]
  BY <1>1, Replaced
<1>3. PoolOK'
  BY <1>1, <1>2, PoolAfter
<1>4. TypeParts(completed', emailQueued', emailGiven', acked', deliveries', window', events', replica', emailHand',
                emailFaults')
  BY <1>1, <1>2 DEF TypeParts
<1>5. AckedMeansNotified'
  BY DEF AckedMeansNotified, Notified
<1> QED BY <1>2, <1>3, <1>4, <1>5, InvAfter

LEMMA WorkerStep ==
  ASSUME EmailAssumption, EmailInv, NEW r \in EmailReplicas, Process(r) \/ MessageFails(r)
  PROVE  EmailInv'
<1>1. /\ TypeParts(completed, emailQueued, emailGiven, acked, deliveries, window, events, replica, emailHand,
                   emailFaults)
      /\ EmailTypeOK /\ DeliveriesOK /\ EventsOK /\ MessagesOK /\ PoolOK /\ AckedMeansNotified /\ OncePerWindow
      /\ MaxDeliver \in Nat \ {0} /\ Concurrency \in Nat /\ MaxEmailFaults \in Nat
  BY TypeIs DEF EmailInv, EmailAssumption
<1>2. /\ replica \in [EmailReplicas -> ReplicaRec] /\ emailHand \in [EmailReplicas -> SUBSET Msg]
      /\ emailQueued \in SUBSET completed /\ emailGiven \in SUBSET completed /\ acked \in SUBSET completed
      /\ completed \in SUBSET Orders /\ emailFaults \in 0..MaxEmailFaults
      /\ events \in SUBSET EventRec /\ window \in [Orders -> 0..MaxWindows]
  BY <1>1 DEF TypeParts
<1>3. PICK m \in emailHand[r] : \/ Begin(r, m) \/ PublishOutcome(r, m) \/ AckMessage(r, m) \/ Nak(r, m)
                           \/ PublishFails(r, m) \/ AckFails(r, m) \/ NakFails(r, m)
  BY DEF Process, MessageFails
<1>4. /\ m \in Msg /\ m.order \in completed /\ (m.pc = "ack" => Notified(m.order))
      /\ Fits(emailHand[r], replica[r]) /\ replica[r] \in ReplicaRec /\ emailHand[r] \in SUBSET Msg
  BY <1>1, <1>2 DEF MessagesOK, PoolOK
<1>5. \A o \in acked : \E e \in events : e.id[1] = o
  BY <1>1 DEF AckedMeansNotified, Notified
\* The worker goes on with n, without a change of the queue.
<1>6. ASSUME NEW n \in Msg, n.order = m.order, ReplaceMessage(r, m, {n}), Fits((emailHand[r] \ {m}) \cup {n},
                                                              replica[r]),
             n.pc = "ack" => \E e \in events' : e.id[1] = m.order,
             UNCHANGED <<emailBroker, replica>>, emailFaults' \in 0..MaxEmailFaults,
             events' = events \/ events' = Stored(r, m)
      PROVE  EmailInv'
  <2>1. UNCHANGED <<completed, emailQueued, emailGiven, acked, deliveries, window>>
    BY <1>6 DEF emailBroker
  <2>2. /\ events \subseteq events' /\ events' \in SUBSET EventRec
        /\ \A e \in events' : e.id[2] = "confirmation"
        /\ \A e, f \in events' : e.id[1] = f.id[1] /\ e.window = f.window => e = f
    <3>1. CASE events' = events
      BY <1>1, <1>2, <3>1 DEF EventsOK, OncePerWindow
    <3>2. CASE events' = Stored(r, m)
      BY <1>1, <1>2, <1>4, <3>2, StoredOutcome
    <3> QED BY <1>6, <3>1, <3>2
  <2>3. EventsOK' /\ OncePerWindow'
    BY <2>2 DEF EventsOK, OncePerWindow
  <2>4. DeliveriesOK'
    BY <1>1, <2>1 DEF DeliveriesOK
  <2>5. \A o \in acked' : \E e \in events' : e.id[1] = o
    BY <1>5, <2>1, <2>2
  <2> DEFINE new == {n}
  <2>6. /\ new \in SUBSET Msg /\ ReplaceMessage(r, m, new) /\ Fits((emailHand[r] \ {m}) \cup new, replica[r])
        /\ \A x \in new : x.order \in completed /\ (x.pc = "ack" => \E e \in events' : e.id[1] = x.order)
    BY <1>4, <1>6
  <2> HIDE DEF new
  <2> QED BY <1>2, <1>6, <2>1, <2>2, <2>3, <2>4, <2>5, <2>6, WorkerAfter
<1>7. CASE Begin(r, m)
  <2>1. PICK p \in {"nak", "publish"} : ReplaceMessage(r, m, {[m EXCEPT !.pc = p]})
    BY <1>7 DEF Begin
  <2>2. /\ m.pc = "wait" /\ UNCHANGED <<emailBroker, events, replica, emailFaults>>
        /\ Cardinality({x \in emailHand[r] : x.pool = m.pool /\ x.pc # "wait"}) < replica[r][m.pool]
    BY <1>7 DEF Begin, Active
  <2>3. PICK n : n = [m EXCEPT !.pc = p]
    OBVIOUS
  <2>4. n \in Msg /\ n.order = m.order /\ n.pool = m.pool /\ n.pc = p
    BY <1>4, <2>3 DEF Msg, MsgPcs
  <2>5. Fits((emailHand[r] \ {m}) \cup {n}, replica[r])
    BY <1>1, <1>4, <2>2, <2>4, TakeFits
  <2> QED BY <1>2, <1>6, <2>1, <2>2, <2>3, <2>4, <2>5
<1>8. CASE PublishOutcome(r, m)
  <2>1. /\ m.pc = "publish" /\ events' = Stored(r, m) /\ ReplaceMessage(r, m, {[m EXCEPT !.pc = "ack"]})
        /\ UNCHANGED <<emailBroker, replica, emailFaults>>
    BY <1>8 DEF PublishOutcome
  <2>2. PICK n : n = [m EXCEPT !.pc = "ack"]
    OBVIOUS
  <2>3. n \in Msg /\ n.order = m.order /\ n.pool = m.pool /\ n.pc = "ack"
    BY <1>4, <2>2, MsgSet DEF MsgPcs
  <2>4. Fits((emailHand[r] \ {m}) \cup {n}, replica[r])
    BY <1>1, <1>4, <2>1, <2>3, SwapFits
  <2>5. \E e \in events' : e.id[1] = m.order
    BY <1>1, <1>2, <1>4, <2>1, StoredOutcome
  <2> QED BY <1>2, <1>6, <2>1, <2>2, <2>3, <2>4, <2>5
<1>9. CASE PublishFails(r, m) \/ AckFails(r, m)
  <2>1. /\ m.pc \in {"publish", "ack"} /\ ReplaceMessage(r, m, {[m EXCEPT !.pc = "nak"]})
        /\ events' = events \/ events' = Stored(r, m)
        /\ UNCHANGED <<emailBroker, replica>> /\ emailFaults' \in 0..MaxEmailFaults
    BY <1>1, <1>2, <1>9 DEF PublishFails, AckFails, Fault
  <2>2. PICK n : n = [m EXCEPT !.pc = "nak"]
    OBVIOUS
  <2>3. n \in Msg /\ n.order = m.order /\ n.pool = m.pool /\ n.pc = "nak"
    BY <1>4, <2>2, MsgSet DEF MsgPcs
  <2>4. Fits((emailHand[r] \ {m}) \cup {n}, replica[r])
    BY <1>1, <1>4, <2>1, <2>3, SwapFits
  <2> QED BY <1>6, <2>1, <2>2, <2>3, <2>4
<1> DEFINE none == {}
<1>10. none \in SUBSET Msg /\ Fits((emailHand[r] \ {m}) \cup none, replica[r])
  BY <1>1, <1>4, DropFits
<1>11. CASE AckMessage(r, m)
  <2>1. /\ m.pc = "ack" /\ acked' = acked \cup {m.order} /\ ReplaceMessage(r, m, none)
        /\ UNCHANGED <<completed, emailQueued, emailGiven, deliveries, window, events, replica, emailFaults>>
    BY <1>11 DEF AckMessage
  <2>2. \A n \in none : n.order \in completed /\ (n.pc = "ack" => \E e \in events' : e.id[1] = n.order)
    OBVIOUS
  <2> HIDE DEF none
  <2>3. EventsOK' /\ OncePerWindow' /\ DeliveriesOK'
    BY <1>1, <2>1 DEF EventsOK, OncePerWindow, DeliveriesOK
  <2>4. acked' \in SUBSET completed
    BY <1>2, <1>4, <2>1
  <2>5. \A o \in acked' : \E e \in events' : e.id[1] = o
    <3>1. \E e \in events : e.id[1] = m.order
      BY <1>4, <2>1 DEF Notified
    <3> QED BY <1>5, <2>1, <3>1
  <2> QED BY <1>2, <1>10, <2>1, <2>2, <2>3, <2>4, <2>5, WorkerAfter
<1>12. CASE Nak(r, m)
  <2>1. /\ ReplaceMessage(r, m, none) /\ UNCHANGED <<completed, acked, deliveries, window, events, replica,
                                                     emailFaults>>
        /\ UNCHANGED <<emailQueued, emailGiven>> \/ Return(m.order)
    BY <1>12 DEF Nak
  <2>2. \A n \in none : n.order \in completed /\ (n.pc = "ack" => \E e \in events' : e.id[1] = n.order)
    OBVIOUS
  <2> HIDE DEF none
  <2>3. emailQueued' \in SUBSET completed /\ emailGiven' \in SUBSET completed /\ DeliveriesOK'
    <3>1. CASE UNCHANGED <<emailQueued, emailGiven>>
      BY <1>1, <1>2, <2>1, <3>1 DEF DeliveriesOK
    <3>2. CASE Return(m.order)
      BY <1>1, <1>4, <2>1, <3>2, ReturnOK
    <3> QED BY <2>1, <3>1, <3>2
  <2>4. EventsOK' /\ OncePerWindow'
    BY <1>1, <2>1 DEF EventsOK, OncePerWindow
  <2>5. \A o \in acked' : \E e \in events' : e.id[1] = o
    BY <1>5, <2>1
  <2> QED BY <1>2, <1>10, <2>1, <2>2, <2>3, <2>4, <2>5, WorkerAfter
<1>13. CASE NakFails(r, m)
  <2>1. PICK p : p = [pc |-> "drain", current |-> 0, orphan |-> replica[r].current + replica[r].orphan - 1]
    OBVIOUS
  <2>2. PICK h : h = {[n EXCEPT !.pool = "orphan"] : n \in emailHand[r] \ {m}}
    OBVIOUS
  <2>3. /\ m.pc = "nak" /\ replica' = [replica EXCEPT ![r] = p] /\ emailHand' = [emailHand EXCEPT ![r] = h]
        /\ UNCHANGED <<completed, emailQueued, emailGiven, acked, deliveries, window, events>>
               /\ emailFaults' \in 0..MaxEmailFaults
    BY <1>1, <1>2, <1>13, <2>1, <2>2 DEF NakFails, Fault, emailBroker
  <2>4. Fits(h, p) /\ p \in ReplicaRec /\ h \in SUBSET Msg
    <3>1. /\ \A x \in h : \E n \in emailHand[r] \ {m} : x = [n EXCEPT !.pool = "orphan"]
          /\ \A n \in emailHand[r] \ {m} : [n EXCEPT !.pool = "orphan"] \in h
      BY <2>2
    <3>2. PICK g \in SUBSET Msg : g = emailHand[r]
      BY <1>4
    <3>3. PICK s \in ReplicaRec : s = replica[r]
      BY <1>4
    <3>4. m \in g /\ m.pc = "nak" /\ Fits(g, s) /\ Concurrency \in Nat
      BY <1>1, <1>4, <2>3, <3>2, <3>3
    <3>5. p.pc = "drain" /\ p.current = 0 /\ p.orphan = s.current + s.orphan - 1
      BY <2>1, <3>3
    <3>6. /\ \A x \in h : \E n \in g \ {m} : x = [n EXCEPT !.pool = "orphan"]
          /\ \A n \in g \ {m} : [n EXCEPT !.pool = "orphan"] \in h
      BY <3>1, <3>2
    <3>7. Fits(h, p) /\ p.orphan \in 0..Concurrency /\ h \in SUBSET Msg
      BY <3>4, <3>5, <3>6, OrphanFits
    <3> QED BY <1>1, <2>1, <3>5, <3>7 DEF ReplicaRec
  <2>5. \A x \in h : x.order \in completed /\ (x.pc = "ack" => Notified(x.order))
    <3> SUFFICES ASSUME NEW x \in h PROVE x.order \in completed /\ (x.pc = "ack" => Notified(x.order))
      OBVIOUS
    <3>1. PICK n \in emailHand[r] : x = [n EXCEPT !.pool = "orphan"]
      BY <2>2
    <3>2. n \in Msg /\ n.order \in completed /\ (n.pc = "ack" => Notified(n.order))
      BY <1>1, <1>4 DEF MessagesOK
    <3>3. x.order = n.order /\ x.pc = n.pc
      BY <3>1, <3>2 DEF Msg
    <3> QED BY <3>2, <3>3
  <2>6. DeliveriesOK' /\ emailQueued' \in SUBSET completed /\ deliveries' \in [Orders -> 0..MaxDeliver]
    BY <1>1, <1>2, <2>3 DEF DeliveriesOK, TypeParts
  <2> QED BY <2>3, <2>4, <2>5, <2>6, LoopAfter
<1> QED BY <1>3, <1>7, <1>8, <1>9, <1>11, <1>12, <1>13

LEMMA EmailStart ==
  ASSUME EmailAssumption, EmailInit PROVE EmailInv
<1>1. MaxDeliver \in Nat \ {0} /\ Concurrency \in Nat \ {0} /\ MaxEmailFaults \in Nat
      /\ MaxWindows \in Nat
  BY DEF EmailAssumption
<1>2. Fresh \in ReplicaRec /\ Fresh.pc = "connect" /\ Fresh.current = 0 /\ Fresh.orphan = 0
  BY <1>1 DEF Fresh, ReplicaRec
<1>3. /\ replica \in [EmailReplicas -> ReplicaRec] /\ emailHand \in [EmailReplicas -> SUBSET Msg]
      /\ deliveries \in [Orders -> 0..MaxDeliver] /\ emailFaults \in 0..MaxEmailFaults
      /\ window \in [Orders -> 0..MaxWindows]
  BY <1>1, <1>2 DEF EmailInit
<1>4. EmailTypeOK
  BY <1>3, TypeIs DEF EmailInit, TypeParts
<1>5. PoolOK
  <2> SUFFICES ASSUME NEW r \in EmailReplicas PROVE Fits(emailHand[r], replica[r])
    BY DEF PoolOK
  <2> DEFINE none == {}
  <2>1. emailHand[r] = none /\ replica[r] = Fresh
    BY DEF EmailInit
  <2>2. IsFiniteSet(none) /\ Cardinality(none) = 0 /\ none = {} /\ {m \in none : m.pc # "wait"} = none
    BY FS_EmptySet
  <2> HIDE DEF none
  <2> QED BY <1>2, <2>1, <2>2 DEF Fits
<1>6. DeliveriesOK /\ EventsOK /\ MessagesOK /\ AckedMeansNotified /\ OncePerWindow
  BY DEF EmailInit, DeliveriesOK, EventsOK, MessagesOK, AckedMeansNotified, OncePerWindow
<1> QED BY <1>4, <1>5, <1>6 DEF EmailInv

\* Every behaviour of the replicas keeps the type invariant, what was announced,
\* and no more messages in work than workers.
THEOREM EmailInvariant ==
  ASSUME EmailAssumption
  PROVE  EmailSpec => []EmailInv
<1>1. EmailInit => EmailInv
  BY EmailStart
<1>2. EmailInv /\ [EmailNext]_emailVars => EmailInv'
  <2> SUFFICES ASSUME EmailInv, [EmailNext]_emailVars PROVE EmailInv'
    OBVIOUS
  <2>1. CASE UNCHANGED emailVars
    <3>1. UNCHANGED <<completed, emailQueued, emailGiven, acked, deliveries, window, events, replica, emailHand,
                      emailFaults>>
      BY <2>1 DEF emailVars, emailBroker
    <3>2. EmailTypeOK'
      BY <3>1, TypeIs DEF EmailInv
    <3>3. DeliveriesOK' /\ EventsOK' /\ MessagesOK' /\ PoolOK' /\ AckedMeansNotified' /\ OncePerWindow'
      BY <3>1 DEF EmailInv, DeliveriesOK, EventsOK, MessagesOK, PoolOK, AckedMeansNotified, OncePerWindow, Notified
    <3> QED BY <3>2, <3>3 DEF EmailInv
  <2> QED BY <2>1, BrokerStep, LoopStep, WorkerStep DEF EmailNext
<1> QED BY <1>1, <1>2, PTL DEF EmailSpec

\* An order is acknowledged only when its outcome is in the stream, and has one
\* outcome, for any mix of failure modes.
THEOREM EmailToldBeforeAck ==
  ASSUME EmailAssumption
  PROVE  EmailSpec => []ToldBeforeAck
<1>1. EmailInv => ToldBeforeAck
  BY DEF EmailInv, ToldBeforeAck
<1> QED BY <1>1, EmailInvariant, PTL

----------------------------------------------------------------------------
(* The supervisor                                                          *)

Tasks == [pc : {"off", "fetch", "put", "join", "ended"}, pending : 0..Batch,
          queue : 0..(2 * Batch), busy : 0..Workers, alive : 0..Workers,
          failed : BOOLEAN, error : BOOLEAN]

Leaks == [queue : Nat, busy : Nat, alive : Nat, open : BOOLEAN]

\* What a consumer task can be: well typed, with a message to put while it puts.
TaskInv(t) == t \in Tasks /\ TaskOK(t)

\* The states of a task that are built from scratch.
LEMMA TaskForms ==
  ASSUME SupervisorAssumption
  PROVE  /\ TaskInv(Off) /\ TaskInv(Started)
         /\ Off.pc = "off" /\ Off.queue = 0 /\ Off.busy = 0 /\ Off.alive = 0
         /\ \A e, f \in BOOLEAN : TaskInv([Off EXCEPT !.pc = "ended", !.failed = f, !.error = e])
         /\ \A e \in BOOLEAN : TaskInv([Off EXCEPT !.pc = "ended", !.error = e])
<1>1. Batch \in Nat \ {0} /\ Workers \in Nat \ {0}
  BY DEF SupervisorAssumption
<1>2. /\ Off \in Tasks /\ Off.pc = "off" /\ Off.queue = 0 /\ Off.busy = 0 /\ Off.alive = 0
  BY <1>1 DEF Off, Tasks
<1>3. Started \in Tasks /\ Started.pc = "fetch" /\ Started.busy = 0 /\ Started.alive = Workers
  <2>1. [Off EXCEPT !.pc = "fetch"] \in Tasks /\ [Off EXCEPT !.pc = "fetch"].busy = 0
        /\ [Off EXCEPT !.pc = "fetch"].pc = "fetch"
    BY <1>2 DEF Tasks
  <2> DEFINE a == [Off EXCEPT !.pc = "fetch"]
  <2>2. Workers \in 0..Workers
    BY <1>1
  <2>3. Started = [a EXCEPT !.alive = Workers]
    BY DEF Started
  <2> HIDE DEF a
  <2>4. a \in Tasks /\ a.pc = "fetch" /\ a.busy = 0
    BY <2>1 DEF a
  <2> QED BY <2>2, <2>3, <2>4 DEF Tasks
<1>4. ASSUME NEW e \in BOOLEAN, NEW f \in BOOLEAN, NEW t,
             \/ t = [Off EXCEPT !.pc = "ended", !.failed = f, !.error = e]
             \/ t = [Off EXCEPT !.pc = "ended", !.error = e]
      PROVE  TaskInv(t)
  <2>1. t \in Tasks /\ t.pc = "ended" /\ t.busy = 0 /\ t.alive = 0
    BY <1>2, <1>4 DEF Tasks
  <2> QED BY <2>1 DEF TaskInv, TaskOK
<1>5. TaskInv(Off) /\ TaskInv(Started)
  BY <1>1, <1>2, <1>3 DEF TaskInv, TaskOK
<1> QED BY <1>2, <1>4, <1>5

\* _consume leaves its loop, and a pending await is cancelled.
LEMMA LeavingOK ==
  ASSUME SupervisorAssumption, NEW t, TaskInv(t), NEW e \in BOOLEAN
  PROVE  TaskInv(Leaving(t, e)) /\ TaskInv(Cancelled(t))
<1>1. Batch \in Nat
  BY DEF SupervisorAssumption
<1>2. ASSUME NEW b \in BOOLEAN PROVE TaskInv(Leaving(t, b))
  <2>1. CASE t.failed
    BY <2>1, TaskForms DEF Leaving
  <2>2. CASE ~t.failed
    <3> DEFINE v == [t EXCEPT !.pc = "join", !.pending = 0]
    <3> DEFINE u == [v EXCEPT !.error = b]
    <3>1. Leaving(t, b) = u
      BY <2>2 DEF Leaving
    <3>2. v \in Tasks /\ v.pc = "join" /\ v.busy = t.busy /\ v.alive = t.alive
      <4>1. 0 \in 0..Batch
        BY <1>1
      <4> QED BY <4>1 DEF TaskInv, Tasks
    <3> HIDE DEF v
    <3>3. u \in Tasks /\ u.pc = "join" /\ u.busy = t.busy /\ u.alive = t.alive
      BY <3>2 DEF Tasks
    <3> HIDE DEF u
    <3>4. TaskInv(u)
      BY <3>3 DEF TaskInv, TaskOK
    <3> QED BY <3>1, <3>4
  <2> QED BY <2>1, <2>2
<1>3. TaskInv([t EXCEPT !.pc = "ended"])
  <2> DEFINE u == [t EXCEPT !.pc = "ended"]
  <2>1. u \in Tasks /\ u.pc = "ended" /\ u.busy = t.busy /\ u.alive = t.alive
    BY DEF TaskInv, Tasks
  <2> HIDE DEF u
  <2>2. TaskInv(u)
    BY <2>1 DEF TaskInv, TaskOK
  <2> QED BY <2>2 DEF u
<1>4. \/ Cancelled(t) = Leaving(t, FALSE) \/ Cancelled(t) = [t EXCEPT !.pc = "ended"]
      \/ Cancelled(t) = t
  BY Zenon DEF Cancelled
<1> QED BY <1>2, <1>3, <1>4

\* The first connection is made with every task off.
LEMMA SupervisorInitInv ==
  ASSUME SupervisorAssumption PROVE SupervisorInit => SupervisorInv
<1> SUFFICES ASSUME SupervisorInit PROVE SupervisorInv
  OBVIOUS
<1>1. \A c \in Consumers : task[c] = Off /\ leaked[c] = NoneLeaked
  BY DEF SupervisorInit
<1>2. task \in [Consumers -> Tasks] /\ \A c \in Consumers : TaskOK(task[c])
  BY <1>1, TaskForms DEF SupervisorInit, TaskInv
<1>3. supply \in [Consumers -> 0..Supply] /\ flaps \in 0..MaxFlaps /\ errors \in 0..MaxErrors
  BY DEF SupervisorInit, SupervisorAssumption
<1>4. ready \in BOOLEAN /\ stop \in BOOLEAN
  BY Zenon DEF SupervisorInit
<1>5. /\ leaked \in [Consumers -> Leaks]
      /\ \A c \in Consumers : leaked[c].busy <= leaked[c].alive /\ ~leaked[c].open
  BY <1>1 DEF SupervisorInit, NoneLeaked, Leaks
<1>6. SupervisorTypeOK
  BY <1>2, <1>3, <1>4, <1>5 DEF SupervisorInit, SupervisorTypeOK, Tasks, Leaks
<1>7. OneGeneration
  BY <1>1, <1>5, TaskForms DEF SupervisorInit, OneGeneration, Severed, AtRest
<1> QED BY <1>2, <1>5, <1>6, <1>7 DEF SupervisorInv, SupervisorInit

\* One message goes on: it is fetched, put, taken, handled, or its worker dies.
LEMMA MessageOK ==
  ASSUME SupervisorAssumption, NEW t, TaskInv(t), NEW n \in 1..Batch
  PROVE  /\ TaskInv([t EXCEPT !.pc = "put", !.pending = n])
         /\ t.pc = "put" /\ t.queue < 2 * Batch =>
               TaskInv([t EXCEPT !.queue = @ + 1, !.pending = @ - 1,
                                 !.pc = IF t.pending = 1 THEN "fetch" ELSE "put"])
         /\ t.queue > 0 /\ t.busy < t.alive => TaskInv([t EXCEPT !.queue = @ - 1, !.busy = @ + 1])
         /\ t.busy > 0 => /\ TaskInv([t EXCEPT !.busy = @ - 1])
                          /\ TaskInv([t EXCEPT !.busy = @ - 1, !.alive = @ - 1, !.failed = TRUE])
<1>1. Batch \in Nat \ {0} /\ Workers \in Nat \ {0}
  BY DEF SupervisorAssumption
<1>2. /\ t \in Tasks /\ t.queue \in 0..(2 * Batch) /\ t.pending \in 0..Batch
      /\ t.busy \in 0..Workers /\ t.alive \in 0..Workers
      /\ t.busy <= t.alive /\ (t.pc = "put" => t.pending > 0)
  BY DEF TaskInv, TaskOK, Tasks
<1>3. TaskInv([t EXCEPT !.pc = "put", !.pending = n])
  <2> DEFINE u == [t EXCEPT !.pc = "put", !.pending = n]
  <2>1. n \in 0..Batch /\ n > 0
    BY <1>1
  <2>2. u \in Tasks /\ u.busy = t.busy /\ u.alive = t.alive /\ u.pending = n
    BY <1>2, <2>1 DEF Tasks
  <2> HIDE DEF u
  <2>3. TaskInv(u)
    BY <1>2, <2>1, <2>2 DEF TaskInv, TaskOK
  <2> QED BY <2>3 DEF u
<1>4. ASSUME t.pc = "put", t.queue < 2 * Batch
      PROVE  TaskInv([t EXCEPT !.queue = @ + 1, !.pending = @ - 1,
                               !.pc = IF t.pending = 1 THEN "fetch" ELSE "put"])
  <2> DEFINE p == IF t.pending = 1 THEN "fetch" ELSE "put"
  <2> DEFINE v == [t EXCEPT !.queue = t.queue + 1]
  <2> DEFINE w == [v EXCEPT !.pending = t.pending - 1]
  <2> DEFINE u == [w EXCEPT !.pc = p]
  <2>0. u = [t EXCEPT !.queue = @ + 1, !.pending = @ - 1,
                      !.pc = IF t.pending = 1 THEN "fetch" ELSE "put"]
    BY <1>2 DEF Tasks
  <2>1. t.queue + 1 \in 0..(2 * Batch) /\ t.pending - 1 \in 0..Batch /\ t.pending > 0
    BY <1>1, <1>2, <1>4
  <2>2. v \in Tasks /\ v.busy = t.busy /\ v.alive = t.alive
    BY <1>2, <2>1 DEF Tasks
  <2> HIDE DEF v
  <2>3. w \in Tasks /\ w.busy = t.busy /\ w.alive = t.alive /\ w.pending = t.pending - 1
    BY <2>1, <2>2 DEF Tasks
  <2> HIDE DEF w
  <2>4. p \in {"fetch", "put"} /\ (p = "put" => t.pending # 1)
    OBVIOUS
  <2> HIDE DEF p
  <2>5. /\ u \in Tasks /\ u.busy = t.busy /\ u.alive = t.alive /\ u.pending = t.pending - 1
        /\ u.pc = p
    BY <2>3, <2>4 DEF Tasks
  <2> HIDE DEF u
  <2>6. TaskInv(u)
    BY <1>2, <2>1, <2>4, <2>5 DEF TaskInv, TaskOK
  <2> QED BY <2>0, <2>6
<1>5. ASSUME t.queue > 0, t.busy < t.alive
      PROVE  TaskInv([t EXCEPT !.queue = @ - 1, !.busy = @ + 1])
  <2> DEFINE v == [t EXCEPT !.queue = t.queue - 1]
  <2> DEFINE u == [v EXCEPT !.busy = t.busy + 1]
  <2>0. u = [t EXCEPT !.queue = @ - 1, !.busy = @ + 1]
    BY <1>2 DEF Tasks
  <2>1. t.queue - 1 \in 0..(2 * Batch) /\ t.busy + 1 \in 0..Workers
    BY <1>1, <1>2, <1>5
  <2>2. v \in Tasks /\ v.alive = t.alive /\ v.pc = t.pc /\ v.pending = t.pending
    BY <1>2, <2>1 DEF Tasks
  <2> HIDE DEF v
  <2>3. /\ u \in Tasks /\ u.alive = t.alive /\ u.pc = t.pc /\ u.pending = t.pending
        /\ u.busy = t.busy + 1
    BY <2>1, <2>2 DEF Tasks
  <2> HIDE DEF u
  <2>4. TaskInv(u)
    BY <1>2, <1>5, <2>3 DEF TaskInv, TaskOK
  <2> QED BY <2>0, <2>4
<1>6. ASSUME t.busy > 0
      PROVE  /\ TaskInv([t EXCEPT !.busy = @ - 1])
             /\ TaskInv([t EXCEPT !.busy = @ - 1, !.alive = @ - 1, !.failed = TRUE])
  <2> DEFINE v == [t EXCEPT !.busy = t.busy - 1]
  <2> DEFINE w == [v EXCEPT !.alive = t.alive - 1]
  <2> DEFINE u == [w EXCEPT !.failed = TRUE]
  <2>0. /\ v = [t EXCEPT !.busy = @ - 1]
        /\ u = [t EXCEPT !.busy = @ - 1, !.alive = @ - 1, !.failed = TRUE]
    BY <1>2 DEF Tasks
  <2>1. t.busy - 1 \in 0..Workers /\ t.alive - 1 \in 0..Workers
    BY <1>1, <1>2, <1>6
  <2>2. /\ v \in Tasks /\ v.alive = t.alive /\ v.pc = t.pc /\ v.pending = t.pending
        /\ v.busy = t.busy - 1
    BY <1>2, <2>1 DEF Tasks
  <2> HIDE DEF v
  <2>3. /\ w \in Tasks /\ w.alive = t.alive - 1 /\ w.pc = t.pc /\ w.pending = t.pending
        /\ w.busy = t.busy - 1
    BY <2>1, <2>2 DEF Tasks
  <2> HIDE DEF w
  <2>4. /\ u \in Tasks /\ u.alive = t.alive - 1 /\ u.pc = t.pc /\ u.pending = t.pending
        /\ u.busy = t.busy - 1
    BY <2>3 DEF Tasks
  <2> HIDE DEF u
  <2>5. TaskInv(v) /\ TaskInv(u)
    BY <1>2, <1>6, <2>2, <2>4 DEF TaskInv, TaskOK
  <2> QED BY <2>0, <2>5
<1> QED BY <1>3, <1>4, <1>5, <1>6

\* What every step keeps of the tasks and of the leaked workers.
SupervisorParts ==
  /\ task \in [Consumers -> Tasks] /\ \A d \in Consumers : TaskOK(task[d])
  /\ leaked \in [Consumers -> Leaks]
  /\ \A d \in Consumers : leaked[d].busy <= leaked[d].alive /\ ~leaked[d].open
  /\ AtRest => Severed
  /\ AtRest \/ run = "close" => \A d \in Consumers : task[d].pc \in {"off", "ended"}

\* A step of one consumer's task: the others are as they were, and between two
\* connections its consumer stays ended.
LEMMA OneTaskStep ==
  ASSUME SupervisorParts, NEW c \in Consumers, NEW t, TaskInv(t),
         AtRest \/ run = "close" => t.pc \in {"off", "ended"}, SetTask(c, t), UNCHANGED <<run, link, leaked>>
  PROVE  SupervisorParts'
<1>1. t \in Tasks /\ TaskOK(t)
  BY DEF TaskInv
<1>2. \A d \in Consumers : task'[d] = t \/ task'[d] = task[d]
  BY DEF SetTask, SupervisorParts
<1>3. task' \in [Consumers -> Tasks]
  BY <1>1 DEF SetTask, SupervisorParts
<1>4. \A d \in Consumers : TaskOK(task'[d])
  BY <1>1, <1>2 DEF SupervisorParts
<1>5. /\ AtRest' => Severed'
      /\ AtRest' \/ run' = "close" => \A d \in Consumers : task'[d].pc \in {"off", "ended"}
  BY <1>2 DEF SupervisorParts, AtRest, Severed
<1> QED BY <1>3, <1>4, <1>5 DEF SupervisorParts

\* What a consumer leaves behind is counted, and bound to a closed connection.
LEMMA ShedOK ==
  ASSUME SupervisorAssumption, SupervisorParts, AtRest, NEW c \in Consumers
  PROVE  Shed(c) \in Leaks /\ Shed(c).busy <= Shed(c).alive /\ ~Shed(c).open
<1>1. /\ task[c].queue \in 0..(2 * Batch) /\ task[c].busy \in 0..Workers
      /\ task[c].alive \in 0..Workers /\ task[c].busy <= task[c].alive
      /\ leaked[c].queue \in Nat /\ leaked[c].busy \in Nat /\ leaked[c].alive \in Nat
      /\ leaked[c].busy <= leaked[c].alive /\ ~leaked[c].open /\ Severed
  BY DEF SupervisorParts, Tasks, Leaks, TaskOK
<1>2. /\ leaked[c].queue + task[c].queue \in Nat
      /\ leaked[c].busy + task[c].busy \in Nat /\ leaked[c].alive + task[c].alive \in Nat
      /\ leaked[c].busy + task[c].busy <= leaked[c].alive + task[c].alive
  BY <1>1 DEF SupervisorAssumption
<1>3. (leaked[c].open \/ (task[c].alive > 0 /\ ~Severed)) = FALSE
  BY <1>1
<1> QED BY <1>2, <1>3 DEF Shed, Leaks

LEMMA SupervisorStepInv ==
  ASSUME SupervisorAssumption, SupervisorInv, [SupervisorNext]_supervisorVars
  PROVE  SupervisorInv'
<1>1. /\ SupervisorParts /\ \A c \in Consumers : TaskInv(task[c])
      /\ supply \in [Consumers -> 0..Supply] /\ flaps \in 0..MaxFlaps /\ errors \in 0..MaxErrors
      /\ ready \in BOOLEAN /\ stop \in BOOLEAN /\ link \in {"none", "up", "down", "closed"}
      /\ run \in {"connect", "startup", "gather", "cleanup", "close", "backoff", "stopped"}
  BY DEF SupervisorInv, SupervisorTypeOK, SupervisorParts, OneGeneration, Tasks, Leaks, TaskInv
<1>2. /\ Off.pc = "off" /\ Off.queue = 0 /\ Off.busy = 0 /\ TaskInv(Off) /\ TaskInv(Started)
      /\ Batch \in Nat \ {0} /\ MaxFlaps \in Nat /\ MaxErrors \in Nat /\ Supply \in Nat
  BY TaskForms DEF SupervisorAssumption
\* What is left to show of each action: the tasks, and the type of the rest.
<1>3. SUFFICES
        /\ SupervisorParts'
        /\ supply' \in [Consumers -> 0..Supply] /\ flaps' \in 0..MaxFlaps /\ errors' \in 0..MaxErrors
        /\ ready' \in BOOLEAN /\ stop' \in BOOLEAN /\ link' \in {"none", "up", "down", "closed"}
        /\ run' \in {"connect", "startup", "gather", "cleanup", "close", "backoff", "stopped"}
  BY DEF SupervisorInv, SupervisorTypeOK, SupervisorParts, OneGeneration, Tasks, Leaks
<1>4. CASE UNCHANGED supervisorVars
  BY <1>1, <1>4 DEF supervisorVars, SupervisorParts, AtRest, Severed
<1>5. CASE Connect \/ ConnectFails
  <2>1. /\ AtRest /\ ~AtRest' /\ UNCHANGED <<stop, supply, flaps>>
        /\ leaked' = [c \in Consumers |-> Shed(c)]
        /\ ready' \in BOOLEAN /\ link' \in {link, "up"} /\ run' \in {"startup", "close"}
    BY <1>1, <1>5 DEF Connect, ConnectFails, AtRest
  <2>2. errors' \in 0..MaxErrors
    BY <1>1, <1>2, <1>5 DEF Connect, ConnectFails
  <2>3. task' \in [Consumers -> Tasks] /\ \A c \in Consumers : TaskOK(task'[c])
    <3>1. CASE Connect
      BY <1>2, <3>1 DEF Connect, TaskInv
    <3>2. CASE ConnectFails
      BY <1>2, <3>2 DEF ConnectFails, TaskInv
    <3> QED BY <1>5, <3>1, <3>2
  <2>4. \A c \in Consumers : Shed(c) \in Leaks /\ Shed(c).busy <= Shed(c).alive /\ ~Shed(c).open
    BY <1>1, <2>1, ShedOK
  <2>5. leaked' \in [Consumers -> Leaks]
        /\ \A c \in Consumers : leaked'[c].busy <= leaked'[c].alive /\ ~leaked'[c].open
    BY <2>1, <2>4
  <2>6. run' = "close" => \A c \in Consumers : task'[c].pc \in {"off", "ended"}
    BY <1>2, <1>5 DEF Connect, ConnectFails
  <2>7. SupervisorParts'
    BY <2>1, <2>3, <2>5, <2>6 DEF SupervisorParts
  <2> QED BY <1>1, <2>1, <2>2, <2>7
<1>6. CASE CatalogReady
  <2>1. SupervisorParts'
    BY <1>1, <1>2, <1>6 DEF CatalogReady, TaskInv, SupervisorParts, AtRest
  <2> QED BY <1>1, <1>6, <2>1 DEF CatalogReady
<1>7. CASE StartupFails \/ StartupError \/ GatherEnds
  <2>1. \A c \in Consumers : TaskInv(Cancelled(task[c]))
    BY <1>1, LeavingOK
  <2>2. /\ task' = [c \in Consumers |-> Cancelled(task[c])] /\ run' = "cleanup"
        /\ UNCHANGED <<link, ready, stop, leaked, supply, flaps>>
    BY <1>7 DEF StartupFails, StartupError, GatherEnds
  <2>3. SupervisorParts'
    BY <1>1, <2>1, <2>2 DEF TaskInv, SupervisorParts, AtRest
  <2>4. errors' \in 0..MaxErrors
    BY <1>1, <1>2, <1>7 DEF StartupFails, StartupError, GatherEnds
  <2> QED BY <1>1, <2>2, <2>3, <2>4
<1>8. CASE CleanedUp \/ Close
  <2>1. /\ UNCHANGED <<task, leaked, stop, supply, flaps, errors>>
        /\ ready' = FALSE /\ link' \in {"none", "closed"} /\ run' \in {"close", "backoff"}
    BY <1>1, <1>8 DEF CleanedUp, Close
  <2>2. \A c \in Consumers : task[c].pc \in {"off", "ended"}
    BY <1>8, <1>1 DEF CleanedUp, Close, SupervisorParts
  <2>3. SupervisorParts'
    BY <1>1, <2>1, <2>2 DEF SupervisorParts, AtRest, Severed
  <2> QED BY <1>1, <2>1, <2>3
<1>9. CASE Again \/ StopBeforeConnect
  <2>1. /\ AtRest /\ run' \in {"stopped", "connect"}
        /\ UNCHANGED <<link, ready, stop, task, leaked, supply, flaps, errors>>
    BY <1>9 DEF Again, StopBeforeConnect, AtRest
  <2>2. SupervisorParts'
    BY <1>1, <2>1 DEF SupervisorParts, AtRest, Severed
  <2> QED BY <1>1, <2>1, <2>2
<1>10. CASE Stop \/ Disconnected \/ Reconnected \/ Closed
  <2>1. UNCHANGED <<run, task, leaked, supply, errors>>
    BY <1>10 DEF Stop, Disconnected, Reconnected, Closed
  <2>2. flaps' \in 0..MaxFlaps
    BY <1>1, <1>2, <1>10 DEF Stop, Disconnected, Reconnected, Closed
  <2>3. ready' \in BOOLEAN /\ stop' \in BOOLEAN /\ link' \in {"none", "up", "down", "closed"}
    BY Zenon, <1>1, <1>10 DEF Stop, Disconnected, Reconnected, Closed
  <2>4. link' = link \/ ~Severed
    BY <1>10 DEF Stop, Disconnected, Reconnected, Closed, Severed
  <2>5. SupervisorParts'
    BY <1>1, <2>1, <2>4 DEF SupervisorParts, AtRest, Severed
  <2> QED BY <1>1, <2>1, <2>2, <2>3, <2>5
<1>11. ASSUME NEW c \in Consumers, Consume(c) \/ FetchError(c) \/ Pool(c)
       PROVE  /\ SupervisorParts'
              /\ supply' \in [Consumers -> 0..Supply] /\ flaps' \in 0..MaxFlaps
              /\ errors' \in 0..MaxErrors
              /\ ready' \in BOOLEAN /\ stop' = stop /\ link' = link /\ run' = run
  <2>1. SUFFICES
          /\ \E t : TaskInv(t) /\ (AtRest \/ run = "close" => t.pc \in {"off", "ended"})
                  /\ SetTask(c, t)
          /\ supply' \in [Consumers -> 0..Supply] /\ flaps' \in 0..MaxFlaps
          /\ errors' \in 0..MaxErrors /\ leaked' = leaked
          /\ ready' \in BOOLEAN /\ stop' = stop /\ link' = link /\ run' = run
    BY <1>1, <2>1, OneTaskStep
  <2>2. TaskInv(task[c]) /\ (AtRest \/ run = "close" => task[c].pc \in {"off", "ended"})
    BY <1>1 DEF SupervisorParts
  <2>3. CASE LoopEnds(c)
    <3>1. TaskInv(Leaving(task[c], task[c].failed /\ ~stop))
      <4>1. (task[c].failed /\ ~stop) \in BOOLEAN
        OBVIOUS
      <4> QED BY <2>2, <4>1, LeavingOK
    <3>2. ~(AtRest \/ run = "close")
      BY <2>2, <2>3 DEF LoopEnds
    <3> QED BY <1>1, <2>3, <3>1, <3>2 DEF LoopEnds
  <2>4. CASE Fetch(c)
    <3>1. PICK n \in 1..Batch :
            /\ n <= supply[c]
            /\ supply' = [supply EXCEPT ![c] = @ - n]
            /\ SetTask(c, [task[c] EXCEPT !.pc = "put", !.pending = n])
      BY <2>4 DEF Fetch
    <3>2. TaskInv([task[c] EXCEPT !.pc = "put", !.pending = n])
      BY <2>2, MessageOK
    <3>3. supply' \in [Consumers -> 0..Supply]
      BY <1>1, <1>2, <3>1
    <3>4. ~(AtRest \/ run = "close") /\ UNCHANGED <<run, link, ready, stop, leaked, flaps, errors>>
      BY <2>2, <2>4 DEF Fetch
    <3> QED BY <1>1, <3>1, <3>2, <3>3, <3>4
  <2>5. CASE FetchError(c)
    <3>1. TaskInv(Leaving(task[c], TRUE))
      BY <2>2, LeavingOK
    <3>2. errors' \in 0..MaxErrors
      BY <1>1, <1>2, <2>5 DEF FetchError
    <3>3. ~(AtRest \/ run = "close")
      BY <2>2, <2>5 DEF FetchError
    <3> QED BY <1>1, <2>5, <3>1, <3>2, <3>3 DEF FetchError
  <2>6. CASE Put(c)
    <3>1. TaskInv([task[c] EXCEPT !.queue = @ + 1, !.pending = @ - 1,
                                  !.pc = IF task[c].pending = 1 THEN "fetch" ELSE "put"])
      <4>1. 1 \in 1..Batch /\ task[c].pc = "put" /\ task[c].queue < 2 * Batch
        BY <1>2, <2>6 DEF Put
      <4> QED BY <2>2, <4>1, MessageOK
    <3>2. ~(AtRest \/ run = "close")
      BY <2>2, <2>6 DEF Put
    <3> QED BY <1>1, <2>6, <3>1, <3>2 DEF Put
  <2>7. CASE Joined(c)
    <3>1. TaskInv([Off EXCEPT !.pc = "ended", !.error = task[c].error])
      BY <2>2, TaskForms DEF TaskInv, Tasks
    <3>2. ~(AtRest \/ run = "close")
      BY <2>2, <2>7 DEF Joined
    <3> QED BY <1>1, <2>7, <3>1, <3>2 DEF Joined
  <2>8. CASE Pool(c)
    <3>1. 1 \in 1..Batch
      BY <1>2
    <3>2. \E t : TaskInv(t) /\ t.pc = task[c].pc /\ SetTask(c, t)
      <4>0. task[c] \in Tasks
        BY <2>2 DEF TaskInv
      <4>1. CASE Take(c)
        <5> DEFINE t == [task[c] EXCEPT !.queue = @ - 1, !.busy = @ + 1]
        <5>1. TaskInv(t)
          BY <2>2, <3>1, <4>1, MessageOK DEF Take
        <5>2. t.pc = task[c].pc
          BY <4>0 DEF Tasks
        <5> QED BY <4>1, <5>1, <5>2 DEF Take
      <4>2. CASE Handled(c)
        <5> DEFINE t == [task[c] EXCEPT !.busy = @ - 1]
        <5>1. TaskInv(t)
          BY <2>2, <3>1, <4>2, MessageOK DEF Handled
        <5>2. t.pc = task[c].pc
          BY <4>0 DEF Tasks
        <5> QED BY <4>2, <5>1, <5>2 DEF Handled
      <4>3. CASE WorkerDies(c)
        <5> DEFINE t == [task[c] EXCEPT !.busy = @ - 1, !.alive = @ - 1, !.failed = TRUE]
        <5>1. TaskInv(t)
          BY <2>2, <3>1, <4>3, MessageOK DEF WorkerDies
        <5>2. t.pc = task[c].pc
          BY <4>0 DEF Tasks
        <5> QED BY <4>3, <5>1, <5>2 DEF WorkerDies
      <4> QED BY <2>8, <4>1, <4>2, <4>3 DEF Pool
    <3>3. UNCHANGED <<run, link, ready, stop, leaked, supply, flaps, errors>>
      BY <2>8 DEF Pool, Take, Handled, WorkerDies
    <3> QED BY <1>1, <2>2, <3>2, <3>3
  <2> QED BY <1>11, <2>3, <2>4, <2>5, <2>6, <2>7, <2>8 DEF Consume
\* The workers left behind: their connection stays closed.
<1>12. ASSUME NEW c \in Consumers, LeakedTake(c) \/ LeakedEnds(c)
       PROVE  SupervisorParts' /\ UNCHANGED <<run, link, ready, stop, task, supply, flaps, errors>>
  <2>1. UNCHANGED <<run, link, ready, stop, task, supply, flaps, errors>>
    BY <1>12 DEF LeakedTake, LeakedEnds
  <2>2. /\ leaked \in [Consumers -> Leaks] /\ leaked[c] \in Leaks
        /\ leaked[c].busy \in Nat /\ leaked[c].alive \in Nat /\ leaked[c].queue \in Nat
        /\ leaked[c].busy <= leaked[c].alive /\ ~leaked[c].open
    BY <1>1 DEF SupervisorParts, Leaks
  <2>3. \E l \in Leaks : leaked' = [leaked EXCEPT ![c] = l] /\ l.busy <= l.alive /\ ~l.open
    <3>1. CASE LeakedTake(c)
      <4> DEFINE u == [leaked[c] EXCEPT !.queue = leaked[c].queue - 1]
      <4> DEFINE l == [u EXCEPT !.busy = leaked[c].busy + 1]
      <4>1. leaked[c].queue - 1 \in Nat /\ leaked[c].busy + 1 \in Nat
            /\ leaked[c].busy + 1 <= leaked[c].alive
        BY <2>2, <3>1 DEF LeakedTake
      <4>2. u \in Leaks /\ u.alive = leaked[c].alive /\ ~u.open
        BY <2>2, <4>1 DEF Leaks
      <4>3. l \in Leaks /\ l.busy = leaked[c].busy + 1 /\ l.alive = leaked[c].alive /\ ~l.open
        BY <4>1, <4>2 DEF Leaks
      <4>4. leaked' = [leaked EXCEPT ![c] = l]
        BY <2>2, <3>1 DEF LeakedTake, Leaks
      <4> QED BY <4>1, <4>3, <4>4
    <3>2. CASE LeakedEnds(c)
      <4> DEFINE u == [leaked[c] EXCEPT !.busy = leaked[c].busy - 1]
      <4> DEFINE l == [u EXCEPT !.alive = leaked[c].alive - 1]
      <4>1. leaked[c].busy - 1 \in Nat /\ leaked[c].alive - 1 \in Nat
            /\ leaked[c].busy - 1 <= leaked[c].alive - 1
        BY <2>2, <3>2 DEF LeakedEnds
      <4>2. u \in Leaks /\ u.busy = leaked[c].busy - 1 /\ ~u.open
        BY <2>2, <4>1 DEF Leaks
      <4>3. l \in Leaks /\ l.busy = leaked[c].busy - 1 /\ l.alive = leaked[c].alive - 1 /\ ~l.open
        BY <4>1, <4>2 DEF Leaks
      <4>4. leaked' = [leaked EXCEPT ![c] = l]
        BY <2>2, <3>2 DEF LeakedEnds, Leaks
      <4> QED BY <4>1, <4>3, <4>4
    <3> QED BY <1>12, <3>1, <3>2
  <2>4. /\ leaked' \in [Consumers -> Leaks]
        /\ \A d \in Consumers : leaked'[d].busy <= leaked'[d].alive /\ ~leaked'[d].open
    BY <1>1, <2>2, <2>3 DEF SupervisorParts
  <2>5. SupervisorParts'
    BY <1>1, <2>1, <2>4 DEF SupervisorParts, AtRest, Severed
  <2> QED BY <2>1, <2>5
<1> QED
  BY <1>1, <1>4, <1>5, <1>6, <1>7, <1>8, <1>9, <1>10, <1>11, <1>12
     DEF SupervisorNext, Supervise

\* The inductive invariant of the supervisor, for every number of consumers,
\* workers and messages: queues and pools stay within their bounds.
THEOREM SupervisorInvariant ==
  ASSUME SupervisorAssumption PROVE SupervisorSpec => []SupervisorInv
<1>1. SupervisorInit => SupervisorInv
  BY SupervisorInitInv
<1>2. SupervisorInv /\ [SupervisorNext]_supervisorVars => SupervisorInv'
  BY SupervisorStepInv
<1> QED BY <1>1, <1>2, PTL DEF SupervisorSpec

\* Two generations never work side by side, whatever fails: when _run connects,
\* the connection before is closed and its consumers have ended, and the workers
\* that a cancel in queue.join has left are bound to closed connections.
THEOREM SupervisorOneGeneration ==
  ASSUME SupervisorAssumption PROVE SupervisorSpec => []OneGeneration
<1>1. SupervisorInv => OneGeneration
  BY DEF SupervisorInv
<1> QED BY <1>1, SupervisorInvariant, PTL

----------------------------------------------------------------------------
(* The triggers                                                            *)

\* What a batch filter drops for being older has a newer trigger of its session
\* in the same batch.
LEMMA DroppedIsOlder ==
  ASSUME TriggerAssumption, NEW batch, batch \subseteq Triggers,
         NEW t \in batch, t \notin Retained(batch), t \notin Stale(batch)
  PROVE  \E u \in batch : u.session = t.session /\ u.version > t.version
<1>1. PICK u \in batch \ Stale(batch) : u.session = t.session /\ ~(u.version <= t.version)
  BY DEF Retained, Newest
<1>2. u.version \in Nat /\ t.version \in Nat
  BY DEF TriggerAssumption
<1> QED BY <1>1, <1>2

\* A newer trigger of each dropped one leads, through the newest the session has
\* sent, to one that was not dropped.
LEMMA NewestIsKept ==
  ASSUME TriggerAssumption, TriggerInv PROVE SupersededByNewer
<1> SUFFICES ASSUME NEW t \in superseded
             PROVE  \E u \in sent \ superseded : u.session = t.session /\ u.version > t.version
  BY DEF SupersededByNewer
<1>1. sent \subseteq Triggers /\ superseded \subseteq sent
  BY DEF TriggerInv, TriggerTypeOK
<1>2. \A x \in sent : x.version \in Nat
  BY <1>1 DEF TriggerAssumption
<1>3. PICK u \in sent : /\ u.session = t.session
                        /\ \A x \in sent : x.session = t.session => x.version <= u.version
  BY <1>1 DEF TriggerInv, NewestSent
<1>4. PICK x \in sent : x.session = t.session /\ x.version > t.version
  BY DEF TriggerInv, SupersededOlder
<1>5. u.version > t.version
  BY <1>1, <1>2, <1>3, <1>4
<1>6. u \notin superseded
  <2> SUFFICES ASSUME u \in superseded PROVE FALSE
    OBVIOUS
  <2>1. PICK y \in sent : y.session = u.session /\ y.version > u.version
    BY DEF TriggerInv, SupersededOlder
  <2> QED BY <1>2, <1>3, <2>1
<1> QED BY <1>3, <1>5, <1>6

LEMMA TriggerInitInv ==
  ASSUME TriggerAssumption PROVE TriggerInit => TriggerInv
<1> SUFFICES ASSUME TriggerInit PROVE TriggerInv
  OBVIOUS
<1>1. TriggerTypeOK
  BY DEF TriggerInit, TriggerTypeOK, TriggerAssumption
<1>2. HandOK
  BY DEF TriggerInit, HandOK
<1> QED BY <1>1, <1>2 DEF TriggerInit, TriggerInv, NewestSent, SupersededOlder

\* What a worker may hold of a trigger.
WorkOK(w) == w \in Works /\ w.trigger \in sent /\ (w.pc # "choose" => w.revision \in 1..MaxRevision)

\* A replica's hand loses some work and gets other: the hands stay well formed.
LEMMA HandStep ==
  ASSUME TriggerTypeOK, HandOK, NEW r \in Replicas, NEW kept, kept \subseteq hand[r],
         NEW new, \A w \in new : WorkOK(w),
         hand' = [hand EXCEPT ![r] = kept \cup new], sent' = sent
  PROVE  hand' \in [Replicas -> SUBSET Works] /\ HandOK'
<1>1. hand \in [Replicas -> SUBSET Works]
  BY DEF TriggerTypeOK
<1>2. kept \cup new \in SUBSET Works
  BY <1>1 DEF WorkOK
<1>3. hand' \in [Replicas -> SUBSET Works]
  BY <1>1, <1>2
<1>4. ASSUME NEW q \in Replicas, NEW w \in hand'[q]
      PROVE  w.trigger \in sent /\ (w.pc # "choose" => w.revision \in 1..MaxRevision)
  <2>1. w \in hand[q] \/ w \in new
    BY <1>1, <1>4
  <2> QED BY <2>1 DEF HandOK, WorkOK
<1> QED BY <1>3, <1>4 DEF HandOK

\* The work of one trigger goes on.
LEMMA WorkForms ==
  ASSUME TriggerAssumption, TriggerTypeOK, HandOK, NEW r \in Replicas, NEW w \in hand[r]
  PROVE  /\ w \in Works /\ w.trigger \in sent
         /\ w.pc # "choose" => w.revision \in 1..MaxRevision
         /\ WorkOK([w EXCEPT !.pc = "publish", !.revision = revision])
         /\ w.pc = "publish" => WorkOK([w EXCEPT !.pc = "ack"])
<1>1. w \in Works /\ w.trigger \in sent /\ (w.pc # "choose" => w.revision \in 1..MaxRevision)
  BY DEF TriggerTypeOK, HandOK
<1>2. revision \in 1..MaxRevision /\ revision \in 0..MaxRevision
  BY DEF TriggerTypeOK, TriggerAssumption
<1>3. WorkOK([w EXCEPT !.pc = "publish", !.revision = revision])
  BY <1>1, <1>2 DEF WorkOK, Works
<1>4. ASSUME w.pc = "publish" PROVE WorkOK([w EXCEPT !.pc = "ack"])
  BY <1>1, <1>4 DEF WorkOK, Works
<1> QED BY <1>1, <1>3, <1>4

LEMMA TriggerStepInv ==
  ASSUME TriggerAssumption, TriggerInv, [TriggerNext]_triggerVars
  PROVE  TriggerInv'
<1>1. /\ TriggerTypeOK /\ HandOK /\ NewestSent /\ SupersededOlder
      /\ MaxFaults \in Nat /\ MaxRevision \in Nat \ {0}
      /\ \A t \in Triggers : t.version \in Nat /\ t.session \in Sessions
  BY DEF TriggerInv, TriggerAssumption
<1>2. CASE UNCHANGED triggerVars
  BY <1>1, <1>2 DEF triggerVars, broker, filtered, TriggerInv, TriggerTypeOK, HandOK, NewestSent,
                    SupersededOlder
<1>3. ASSUME NEW t \in Triggers, Send(t) PROVE TriggerInv'
  <2>1. /\ sent' = sent \cup {t} /\ queued' = queued \cup {t}
        /\ \A u \in sent : u.session = t.session => u.version < t.version
        /\ UNCHANGED <<given, filtered, aged, hand, revision, results, view, faults>>
    BY <1>3 DEF Send
  <2>2. TriggerTypeOK' /\ HandOK'
    BY <1>1, <2>1 DEF TriggerTypeOK, HandOK, filtered
  <2>3. NewestSent'
    <3> SUFFICES ASSUME NEW x \in sent'
                 PROVE  \E u \in sent' : /\ u.session = x.session
                                         /\ \A y \in sent' : y.session = x.session => y.version <= u.version
      BY DEF NewestSent
    <3>1. \A y \in sent' : y \in Triggers /\ y.version \in Nat
      BY <1>1, <2>1 DEF TriggerTypeOK
    <3>2. CASE x.session = t.session
      BY <2>1, <3>1, <3>2
    <3>3. CASE x.session # t.session
      <4>1. x \in sent
        BY <2>1, <3>3
      <4>2. PICK u \in sent : /\ u.session = x.session
                              /\ \A y \in sent : y.session = x.session => y.version <= u.version
        BY <1>1, <4>1 DEF NewestSent
      <4> QED BY <2>1, <3>3, <4>2
    <3> QED BY <3>2, <3>3
  <2>4. SupersededOlder'
    BY <1>1, <2>1 DEF SupersededOlder, filtered
  <2> QED BY <2>2, <2>3, <2>4 DEF TriggerInv
\* No other step changes what was sent.
<1>4. ASSUME sent' = sent, TriggerTypeOK', HandOK', SupersededOlder' PROVE TriggerInv'
  BY <1>1, <1>4 DEF TriggerInv, NewestSent
<1>5. ASSUME NEW t \in Triggers, Ages(t) \/ Redeliver(t) PROVE TriggerInv'
  <2>1. TriggerTypeOK'
    BY <1>1, <1>5 DEF Ages, Redeliver, TriggerTypeOK, broker, filtered
  <2>2. HandOK' /\ SupersededOlder' /\ sent' = sent
    BY <1>1, <1>5 DEF Ages, Redeliver, HandOK, SupersededOlder, broker, filtered
  <2> QED BY <1>4, <2>1, <2>2
<1>6. CASE CatalogChanges
  <2>1. TriggerTypeOK'
    BY <1>1, <1>6 DEF CatalogChanges, TriggerTypeOK, broker, filtered
  <2>2. HandOK' /\ SupersededOlder' /\ sent' = sent
    BY <1>1, <1>6 DEF CatalogChanges, HandOK, SupersededOlder, broker, filtered
  <2> QED BY <1>4, <2>1, <2>2
<1>7. ASSUME NEW r \in Replicas, NEW kind \in {"cart", "page"}, NEW batch \in SUBSET queued,
             FetchBatch(r, kind, batch)
      PROVE  TriggerInv'
  <2>1. batch \subseteq sent /\ batch \subseteq Triggers
    BY <1>1 DEF TriggerTypeOK
  <2>2. Retained(batch) \subseteq batch /\ Stale(batch) \subseteq batch
    BY DEF Retained, Newest, Stale
  <2> DEFINE new == [trigger : Retained(batch), pc : {"choose"}, revision : {0}]
  <2>3. \A w \in new : WorkOK(w)
    BY <1>1, <2>1, <2>2 DEF WorkOK, Works
  <2>4. /\ hand' = [hand EXCEPT ![r] = hand[r] \cup new] /\ sent' = sent
        /\ queued' = queued \ batch
        /\ stale' = stale \cup Stale(batch)
        /\ superseded' = superseded \cup (batch \ (Stale(batch) \cup Retained(batch)))
        /\ UNCHANGED <<given, aged, revision, results, view, faults>>
    BY <1>7 DEF FetchBatch
  <2> HIDE DEF new
  <2>5. hand' \in [Replicas -> SUBSET Works] /\ HandOK'
    BY <1>1, <2>3, <2>4, HandStep
  <2>6. TriggerTypeOK'
    BY <1>1, <2>1, <2>2, <2>4, <2>5 DEF TriggerTypeOK
  <2>7. \A t \in batch \ (Stale(batch) \cup Retained(batch)) :
          \E u \in sent : u.session = t.session /\ u.version > t.version
    BY <2>1, DroppedIsOlder
  <2>8. SupersededOlder'
    BY <1>1, <2>4, <2>7 DEF SupersededOlder
  <2> QED BY <1>4, <2>4, <2>5, <2>6, <2>8
<1>8. ASSUME NEW r \in Replicas, NEW w \in hand[r], Choose(r, w) \/ Publish(r, w) \/ Ack(r, w)
      PROVE  TriggerInv'
  <2>1. /\ w \in Works /\ w.trigger \in sent /\ (w.pc # "choose" => w.revision \in 1..MaxRevision)
        /\ WorkOK([w EXCEPT !.pc = "publish", !.revision = revision])
        /\ w.pc = "publish" => WorkOK([w EXCEPT !.pc = "ack"])
    BY <1>1, WorkForms
  <2>2. /\ UNCHANGED <<broker, filtered, aged, revision, view, faults>>
        /\ results' \in SUBSET (Triggers \X (1..MaxRevision))
    <3>1. w.pc = "publish" => <<w.trigger, w.revision>> \in Triggers \X (1..MaxRevision)
      BY <1>1, <2>1 DEF TriggerTypeOK
    <3> QED BY <1>1, <1>8, <3>1 DEF Choose, Publish, Ack, TriggerTypeOK
  <2>3. \E new : (\A x \in new : WorkOK(x)) /\ Replace(r, w, new)
    BY <1>8, <2>1 DEF Choose, Publish, Ack
  <2>4. hand' \in [Replicas -> SUBSET Works] /\ HandOK'
    <3>1. hand[r] \ {w} \subseteq hand[r] /\ sent' = sent
      BY <2>2 DEF broker
    <3> QED BY <1>1, <2>3, <3>1, HandStep DEF Replace
  <2>5. TriggerTypeOK'
    BY <1>1, <2>2, <2>4 DEF TriggerTypeOK, broker, filtered
  <2>6. SupersededOlder' /\ sent' = sent
    BY <1>1, <2>2 DEF SupersededOlder, broker, filtered
  <2> QED BY <1>4, <2>4, <2>5, <2>6
<1>9. ASSUME NEW r \in Replicas, Restart(r) \/ \E w \in hand[r] : HandlerFails(r, w)
      PROVE  TriggerInv'
  <2>1. \A w \in hand[r] : w.trigger \in sent
    BY <1>1 DEF HandOK
  <2>2. PICK kept : kept \subseteq hand[r] /\ hand' = [hand EXCEPT ![r] = kept \cup {}]
    <3>1. CASE Restart(r)
      <4>1. hand' = [hand EXCEPT ![r] = {} \cup {}] /\ {} \subseteq hand[r]
        BY <3>1 DEF Restart
      <4> QED BY <4>1
    <3>2. ASSUME NEW w \in hand[r], HandlerFails(r, w)
          PROVE  hand' = [hand EXCEPT ![r] = (hand[r] \ {w}) \cup {}] /\ hand[r] \ {w} \subseteq hand[r]
      BY <3>2 DEF HandlerFails, Replace
    <3> QED BY <1>9, <3>1, <3>2
  <2>3. /\ UNCHANGED <<sent, filtered, aged, revision, results, view>>
        /\ queued' \subseteq sent /\ given' \subseteq sent /\ faults' \in 0..MaxFaults
    BY <1>1, <1>9, <2>1 DEF Restart, HandlerFails, TriggerTypeOK
  <2>4. hand' \in [Replicas -> SUBSET Works] /\ HandOK'
    <3> DEFINE none == {}
    <3>1. (\A w \in none : WorkOK(w)) /\ hand' = [hand EXCEPT ![r] = kept \cup none]
      BY <2>2
    <3>2. sent' = sent
      BY <2>3
    <3> HIDE DEF none
    <3> QED BY <1>1, <2>2, <3>1, <3>2, HandStep
  <2>5. TriggerTypeOK'
    BY <1>1, <2>3, <2>4 DEF TriggerTypeOK, filtered
  <2>6. SupersededOlder'
    BY <1>1, <2>3 DEF SupersededOlder, filtered
  <2> QED BY <1>4, <2>3, <2>4, <2>5, <2>6
<1>10. ASSUME NEW kind \in {"cart", "page"}, NEW batch \in SUBSET queued,
              NEW gone \in SUBSET queued, FilterFails(kind, batch, gone)
       PROVE  TriggerInv'
  <2>1. batch \subseteq sent /\ batch \subseteq Triggers
    BY <1>1 DEF TriggerTypeOK
  <2>2. /\ gone \subseteq batch \ Retained(batch)
        /\ queued' = queued \ gone
        /\ stale' = stale \cup (gone \cap Stale(batch))
        /\ superseded' = superseded \cup (gone \ Stale(batch))
        /\ faults < MaxFaults /\ faults' = faults + 1
        /\ UNCHANGED <<sent, given, aged, hand, revision, results, view>>
    BY <1>10 DEF FilterFails
  <2>3. TriggerTypeOK'
    BY <1>1, <2>1, <2>2 DEF TriggerTypeOK
  <2>4. \A t \in gone \ Stale(batch) : \E u \in sent : u.session = t.session /\ u.version > t.version
    BY <2>1, <2>2, DroppedIsOlder
  <2>5. SupersededOlder' /\ HandOK'
    BY <1>1, <2>2, <2>4 DEF SupersededOlder, HandOK
  <2> QED BY <1>4, <2>2, <2>3, <2>5
<1>11. ASSUME NEW e \in results, Project(e) PROVE TriggerInv'
  <2>1. /\ e[1].version \in Nat /\ e[1].session \in Sessions
        /\ view' = [view EXCEPT ![e[1].session] = e[1].version]
        /\ UNCHANGED <<broker, filtered, aged, hand, revision, results, faults>>
    BY <1>1, <1>11 DEF Project, TriggerTypeOK
  <2>2. TriggerTypeOK'
    BY <1>1, <2>1 DEF TriggerTypeOK, broker, filtered
  <2>3. SupersededOlder' /\ HandOK' /\ sent' = sent
    BY <1>1, <2>1 DEF SupersededOlder, HandOK, broker, filtered
  <2> QED BY <1>4, <2>2, <2>3
<1> QED
  BY <1>2, <1>3, <1>5, <1>6, <1>7, <1>8, <1>9, <1>10, <1>11 DEF TriggerNext, FetchSome, Work

\* The inductive invariant of the triggers, for every set of triggers, sessions
\* and replicas: every session has a newest trigger, and what a filter drops is
\* older than another one of its session.
THEOREM TriggerInvariant ==
  ASSUME TriggerAssumption PROVE TriggerSpec => []TriggerInv
<1>1. TriggerInit => TriggerInv
  BY TriggerInitInv
<1>2. TriggerInv /\ [TriggerNext]_triggerVars => TriggerInv'
  BY TriggerStepInv
<1> QED BY <1>1, <1>2, PTL DEF TriggerSpec

\* The filters of _consume drop only triggers that a kept, newer one of the
\* session answers for, across batches, redeliveries and replicas; and updateJSON
\* never lets a late result take the session's view back.
THEOREM TriggersKeepNewest ==
  ASSUME TriggerAssumption PROVE TriggerSpec => SessionKeepsNewest
<1>1. TriggerInv => SupersededByNewer
  BY NewestIsKept
<1>2. ASSUME TriggerInv, [TriggerNext]_triggerVars
      PROVE  [\A s \in Sessions : view'[s] >= view[s]]_triggerVars
  <2>1. view \in [Sessions -> Nat]
    BY <1>2 DEF TriggerInv, TriggerTypeOK
  <2>2. CASE UNCHANGED view
    BY <2>1, <2>2
  <2>3. ASSUME NEW e \in results, Project(e) PROVE \A s \in Sessions : view'[s] >= view[s]
    <3>1. e[1].version \in Nat
      BY <1>2 DEF TriggerInv, TriggerTypeOK, TriggerAssumption
    <3> QED BY <2>1, <2>3, <3>1 DEF Project
  <2>4. CASE TriggerNext
    BY <2>2, <2>3, <2>4 DEF TriggerNext, Send, Ages, Redeliver, CatalogChanges, FetchSome,
       FetchBatch, Work, Choose, Publish, Ack, Restart, HandlerFails, FilterFails
  <2> QED BY <1>2, <2>4
<1> QED BY <1>1, <1>2, TriggerInvariant, PTL DEF TriggerSpec, SessionKeepsNewest, ViewNeverRewinds

----------------------------------------------------------------------------
(* The shared catalog                                                      *)

HandlerRec ==
    [pc : {"start", "keys", "seed", "idle", "get", "put", "product",
           "index", "putIndex", "done"},
     event : Events \cup {None}, revision : Nat, ids : SUBSET Products,
     todo : SUBSET Products, removed : BOOLEAN, attempts : 0..(MaxAttempts - 1)]

WantedBy(h, ids) == IF h.removed THEN ids \ {KeyOf(h.event)} ELSE ids \cup {KeyOf(h.event)}

ActiveIn(p, rv, rc) == rv[p] > 0 /\ rc[p].kind = "upsert"
StaleIn(e, rv, rc) ==
    rv[KeyOf(e)] > 0 /\ (rc[KeyOf(e)].id = e.id \/ e.version <= rc[KeyOf(e)].version)

\* SeedingOK and WritesOK of one handler, with the index ix, the revisions rv and
\* the records rc.
Legal(h, ix, rv, rc) ==
    /\ h.pc \notin {"start", "keys", "seed"} => ix.revision > 0
    /\ h.pc = "seed" /\ ix.revision = 0 =>
          \A p \in Products : ActiveIn(p, rv, rc) => p \in h.todo \cup h.ids
    /\ h.pc \in {"start", "keys", "seed", "idle"} <=> h.event = None
    /\ h.pc = "put" => /\ h.revision <= rv[KeyOf(h.event)]
                       /\ rv[KeyOf(h.event)] = h.revision => ~StaleIn(h.event, rv, rc)
    /\ h.pc \in {"product", "index", "putIndex"} => h.event.kind # "snapshot"
    /\ h.pc \in {"product", "index", "putIndex", "done"} => rv[KeyOf(h.event)] > 0
    /\ h.pc = "putIndex" => /\ h.revision <= ix.revision
                            /\ ix.revision = h.revision => h.ids = WantedBy(h, ix.ids)

\* ReconciledOK of one handler.
Reconciled(h, ix, rv, rc) ==
    /\ h.pc \in {"index", "putIndex"} /\ h.removed => ~ActiveIn(KeyOf(h.event), rv, rc)
    /\ h.pc = "done" /\ h.event.kind # "snapshot" /\ ActiveIn(KeyOf(h.event), rv, rc) =>
          KeyOf(h.event) \in ix.ids

LEMMA HandlersLegal ==
  /\ SeedingOK /\ WritesOK <=> \A r \in CatalogReplicas : Legal(handler[r], index, revisions, record)
  /\ ReconciledOK <=> \A r \in CatalogReplicas : Reconciled(handler[r], index, revisions, record)
  /\ (SeedingOK /\ WritesOK)' <=> \A r \in CatalogReplicas : Legal(handler'[r], index', revisions', record')
  /\ ReconciledOK' <=> \A r \in CatalogReplicas : Reconciled(handler'[r], index', revisions', record')
<1>1. SeedingOK /\ WritesOK <=> \A r \in CatalogReplicas : Legal(handler[r], index, revisions, record)
  BY DEF SeedingOK, WritesOK, Legal, Unchanged, IndexUnchanged, Wanted, WantedBy, Seeding, IsActive,
         ActiveIn, Superseded, StaleIn
<1>2. ReconciledOK <=> \A r \in CatalogReplicas : Reconciled(handler[r], index, revisions, record)
  BY DEF ReconciledOK, Reconciled, IsActive, ActiveIn
<1>3. (SeedingOK /\ WritesOK)' <=> \A r \in CatalogReplicas : Legal(handler'[r], index', revisions', record')
  BY DEF SeedingOK, WritesOK, Legal, Unchanged, IndexUnchanged, Wanted, WantedBy, Seeding, IsActive,
         ActiveIn, Superseded, StaleIn
<1>4. ReconciledOK' <=> \A r \in CatalogReplicas : Reconciled(handler'[r], index', revisions', record')
  BY DEF ReconciledOK, Reconciled, IsActive, ActiveIn
<1> QED BY <1>1, <1>2, <1>3, <1>4

LEMMA EventFacts ==
  ASSUME CatalogAssumption, NEW e \in Events \cup Legacy
  PROVE  /\ e # None /\ e.version \in Nat \ {0} /\ e.kind \in Kinds /\ KeyOf(e) \in Keys
         /\ KeyOf(e) = "catalog" <=> e.kind = "snapshot"
         /\ e.kind # "snapshot" => KeyOf(e) = e.product /\ KeyOf(e) \in Products
         /\ "catalog" \in Keys /\ "catalog" \notin Products
<1>1. /\ e \in [id : STRING, kind : Kinds, product : Products \cup {None}, version : Nat \ {0}, count : Nat]
      /\ e.kind # "snapshot" => e.product \in Products
      /\ None \notin Events \cup Legacy /\ "catalog" \notin Products
  BY DEF CatalogAssumption
<1> QED BY <1>1 DEF KeyOf, Keys

LEMMA CatalogTypes ==
  ASSUME CatalogTypeOK
  PROVE  /\ record \in [Keys -> Events \cup Legacy \cup {None}] /\ revisions \in [Keys -> Nat]
         /\ index.revision \in Nat /\ index.ids \in SUBSET Products
         /\ handler \in [CatalogReplicas -> HandlerRec]
         /\ catalogQueued \in SUBSET Events /\ catalogGiven \in SUBSET Events
         /\ catalogFaults \in 0..MaxCatalogFaults
  BY DEF CatalogTypeOK, HandlerRec

\* One handler goes on.
LEMMA GotoOne ==
  ASSUME handler \in [CatalogReplicas -> HandlerRec], NEW r \in CatalogReplicas, NEW s \in HandlerRec, Goto(r, s)
  PROVE  /\ handler' \in [CatalogReplicas -> HandlerRec] /\ handler'[r] = s
         /\ \A q \in CatalogReplicas : q # r => handler'[q] = handler[q]
  BY DEF Goto

LEMMA StartingHandlers ==
  ASSUME CatalogAssumption
  PROVE  /\ Handler \in HandlerRec /\ Idle \in HandlerRec
         /\ Handler.pc = "start" /\ Handler.event = None /\ Handler.ids = {}
         /\ Idle.pc = "idle" /\ Idle.event = None
         /\ [Handler EXCEPT !.pc = "keys"] \in HandlerRec
<1>1. 0 \in 0..(MaxAttempts - 1)
  BY DEF CatalogAssumption
<1> QED BY <1>1 DEF Handler, Idle, HandlerRec

LEMMA CatalogInitInv ==
  ASSUME CatalogAssumption, CatalogInit
  PROVE  KeptInv
<1>1. \A k \in Keys : /\ record[k] \in Events \cup Legacy \cup {None}
                      /\ record[k] # None => KeyOf(record[k]) = k /\ record[k] \in Legacy
  <2> SUFFICES ASSUME NEW k \in Keys
               PROVE  /\ record[k] \in Events \cup Legacy \cup {None}
                      /\ record[k] # None => KeyOf(record[k]) = k /\ record[k] \in Legacy
    OBVIOUS
  <2>1. record[k] = IF \E e \in Legacy : e.product = k THEN CHOOSE e \in Legacy : e.product = k ELSE None
    BY DEF CatalogInit
  <2>2. CASE \E e \in Legacy : e.product = k
    <3>1. record[k] \in Legacy /\ record[k].product = k
      BY <2>1, <2>2
    <3>2. record[k].kind # "snapshot"
      BY <3>1 DEF CatalogAssumption
    <3> QED BY <3>1, <3>2, EventFacts
  <2>3. CASE ~\E e \in Legacy : e.product = k
    BY <2>1, <2>3
  <2> QED BY <2>2, <2>3
<1>2. record = [k \in Keys |-> record[k]]
  BY DEF CatalogInit
<1>3. record \in [Keys -> Events \cup Legacy \cup {None}]
  BY <1>1, <1>2
<1>4. revisions \in [Keys -> Nat] /\ RecordsOK
  BY <1>1 DEF CatalogInit, RecordsOK
<1>5. handler \in [CatalogReplicas -> HandlerRec] /\ index = NoIndex
      /\ \A r \in CatalogReplicas : handler[r].pc = "start" /\ handler[r].event = None
  BY StartingHandlers DEF CatalogInit
<1>6. /\ catalogQueued \in SUBSET Events /\ catalogGiven \in SUBSET Events
      /\ reader \in [Readers -> [pc : {"idle", "lock", "snapshot", "products"}, catalog : Nat]]
      /\ catalogFaults \in 0..MaxCatalogFaults
  BY DEF CatalogInit, Waiting, CatalogAssumption
<1>7. cache \in [value : [ids : SUBSET Products, catalog : Nat, revision : Nat],
                 fresh : BOOLEAN, lock : Readers \cup {None}]
  BY DEF CatalogInit, NoValue
<1>8. CatalogTypeOK
  BY <1>3, <1>4, <1>5, <1>6, <1>7 DEF CatalogTypeOK, HandlerRec, NoIndex
<1>9. \A r \in CatalogReplicas : Legal(handler[r], index, revisions, record)
                                     /\ Reconciled(handler[r], index, revisions, record)
  BY <1>5 DEF Legal, Reconciled, NoIndex
<1>10. CacheOK
  <2>1. Marked \in Nat
    <3>1. "catalog" \in Keys /\ revisions["catalog"] \in Nat
      BY <1>4 DEF Keys
    <3>2. revisions["catalog"] > 0 => record["catalog"] \in Legacy
      <4>1. revisions["catalog"] > 0 => record["catalog"] # None
        BY <1>4, <3>1 DEF RecordsOK
      <4> QED BY <1>1, <3>1, <4>1
    <3> QED BY <3>1, <3>2, EventFacts DEF Marked
  <2> QED BY <2>1, <1>5 DEF CacheOK, CatalogInit, NoValue, NoIndex, Waiting
<1>11. StoredMeansIndexed
  BY <1>5 DEF StoredMeansIndexed, Seeding, NoIndex
<1> QED BY <1>4, <1>8, <1>9, <1>10, <1>11, HandlersLegal DEF KeptInv, CatalogInv

\* No event gets lost when the handler of r goes on with s: it is in hand, or to be
\* delivered, or was given up, or its product needs nothing more.
Carried(r, s) ==
    \A e \in Events :
        e \in catalogQueued \cup catalogGiven \/ handler[r].event = e =>
            \/ e \in catalogQueued' \cup catalogGiven' \/ s.event = e
            \/ KeyOf(e) \in Products /\ IsActive(KeyOf(e)) => KeyOf(e) \in index.ids

Broker == catalogQueued \in SUBSET Events /\ catalogGiven \in SUBSET Events

LEMMA NakCarries ==
  ASSUME CatalogTypeOK, NEW r \in CatalogReplicas, NEW s, handler[r].event \in Events, CatalogNak(handler[r].event)
  PROVE  Carried(r, s) /\ Broker'
<1>1. Broker
  BY DEF CatalogTypeOK, Broker
<1>2. catalogQueued \cup catalogGiven \cup {handler[r].event} \subseteq catalogQueued' \cup catalogGiven'
  BY DEF CatalogNak
<1>3. Broker'
  BY <1>1 DEF CatalogNak, Broker
<1>4. Carried(r, s)
  BY <1>2 DEF Carried
<1> QED BY <1>3, <1>4

\* What a step of the handler of r that leaves the bucket alone does.
Moves(r) ==
    \E s \in HandlerRec :
        /\ Goto(r, s) /\ Legal(s, index, revisions, record) /\ Broker'
        /\ ReconciledOK => Reconciled(s, index, revisions, record) /\ Carried(r, s)

LEMMA IdleMoves ==
  ASSUME CatalogAssumption, CatalogInv, NEW r \in CatalogReplicas, Broker', index.revision > 0, Goto(r, Idle),
         ReconciledOK => Carried(r, Idle)
  PROVE  Moves(r)
<1>1. Idle \in HandlerRec /\ Idle.pc = "idle" /\ Idle.event = None
  BY StartingHandlers
<1>2. Legal(Idle, index, revisions, record) /\ Reconciled(Idle, index, revisions, record)
  BY <1>1 DEF Legal, Reconciled
<1> QED BY <1>1, <1>2 DEF Moves

\* The handler stays with its event.
LEMMA HandMoves ==
  ASSUME CatalogTypeOK, NEW r \in CatalogReplicas, NEW s \in HandlerRec, Goto(r, s), s.event = handler[r].event,
         UNCHANGED catalogBroker, Legal(s, index, revisions, record),
         ReconciledOK => Reconciled(s, index, revisions, record)
  PROVE  Moves(r)
<1>1. Broker' /\ Carried(r, s)
  BY DEF CatalogTypeOK, Broker, Carried, catalogBroker
<1> QED BY <1>1 DEF Moves

LEMMA ConflictMoves ==
  ASSUME CatalogAssumption, CatalogInv, NEW r \in CatalogReplicas, NEW pc \in {"get", "index"}, Conflict(r, pc),
         handler[r].event \in Events, index.revision > 0,
         pc = "index" => /\ handler[r].pc = "putIndex"
                         /\ handler[r].event.kind # "snapshot" /\ revisions[KeyOf(handler[r].event)] > 0
  PROVE  Moves(r)
<1> DEFINE h == handler[r]
           s == [h EXCEPT !.pc = pc, !.attempts = h.attempts + 1]
<1>1. CatalogTypeOK /\ h \in HandlerRec /\ MaxAttempts \in Nat \ {0}
  BY CatalogTypes DEF CatalogInv, CatalogAssumption
<1>2. CASE h.attempts + 1 < MaxAttempts /\ Goto(r, s) /\ UNCHANGED catalogBroker
  <2>1. s \in HandlerRec /\ s.pc = pc /\ s.event = h.event /\ s.removed = h.removed
    <3>1. h.attempts + 1 \in 0..(MaxAttempts - 1)
      BY <1>1, <1>2 DEF HandlerRec
    <3> QED BY <1>1, <3>1 DEF HandlerRec
  <2>2. h.event # None
    BY DEF CatalogAssumption
  <2>3. Legal(s, index, revisions, record)
    BY <2>1, <2>2 DEF Legal
  <2>4. ReconciledOK => Reconciled(s, index, revisions, record)
    BY <2>1, HandlersLegal DEF Reconciled
  <2> QED BY <1>1, <1>2, <2>1, <2>3, <2>4, HandMoves
<1>3. CASE CatalogNak(h.event) /\ Goto(r, Idle)
  BY <1>1, <1>3, NakCarries, IdleMoves
<1> QED BY <1>2, <1>3 DEF Conflict

LEMMA SeedingMoves ==
  ASSUME CatalogAssumption, CatalogInv, NEW r \in CatalogReplicas,
         EnsureIndex(r) \/ ListKeys(r) \/ \E p \in Products : ReadLegacy(r, p)
  PROVE  Moves(r)
<1> DEFINE h == handler[r]
<1>1. CatalogTypeOK /\ h \in HandlerRec /\ Legal(h, index, revisions, record) /\ index.revision \in Nat
      /\ revisions \in [Keys -> Nat] /\ Products \subseteq Keys
  BY CatalogTypes, HandlersLegal DEF CatalogInv, Keys
<1>2. UNCHANGED catalogBroker
  BY DEF EnsureIndex, ListKeys, ReadLegacy
<1>3. CASE EnsureIndex(r)
  <2>1. h.pc = "start" /\ h.event = None
    BY <1>1, <1>3 DEF EnsureIndex, Legal
  <2>2. CASE index.revision > 0
    <3>1. Goto(r, Idle)
      BY <1>3, <2>2 DEF EnsureIndex
    <3>2. Broker' /\ Carried(r, Idle)
      BY <1>1, <1>2, <2>1, StartingHandlers DEF Broker, Carried, catalogBroker, CatalogTypeOK
    <3> QED BY <2>2, <3>1, <3>2, IdleMoves
  <2>3. CASE ~(index.revision > 0)
    <3> DEFINE s == [Handler EXCEPT !.pc = "keys"]
    <3>1. Goto(r, s)
      BY <1>3, <2>3 DEF EnsureIndex
    <3>2. s \in HandlerRec /\ s.pc = "keys" /\ s.event = None
      BY StartingHandlers DEF Handler
    <3>3. Legal(s, index, revisions, record) /\ Reconciled(s, index, revisions, record)
      BY <3>2 DEF Legal, Reconciled
    <3> QED BY <1>1, <1>2, <2>1, <3>1, <3>2, <3>3, HandMoves
  <2> QED BY <2>2, <2>3
<1>4. CASE ListKeys(r)
  <2> DEFINE s == [Handler EXCEPT !.pc = "seed", !.todo = {p \in Products : revisions[p] > 0}]
  <2>1. h.pc = "keys" /\ h.event = None /\ Goto(r, s)
    BY <1>1, <1>4 DEF ListKeys, Legal
  <2>2. s \in HandlerRec /\ s.pc = "seed" /\ s.event = None /\ s.todo = {p \in Products : revisions[p] > 0}
    BY StartingHandlers DEF Handler, HandlerRec
  <2>3. Legal(s, index, revisions, record) /\ Reconciled(s, index, revisions, record)
    BY <2>2 DEF Legal, Reconciled, ActiveIn
  <2> QED BY <1>1, <1>2, <2>1, <2>2, <2>3, HandMoves
<1>5. ASSUME NEW p \in Products, ReadLegacy(r, p)
      PROVE  Moves(r)
  <2> DEFINE s == [h EXCEPT !.todo = h.todo \ {p}, !.ids = IF IsActive(p) THEN h.ids \cup {p} ELSE h.ids]
  <2>1. h.pc = "seed" /\ Goto(r, s)
    BY <1>5 DEF ReadLegacy
  <2>2. /\ s \in HandlerRec /\ s.pc = "seed" /\ s.event = h.event /\ s.todo = h.todo \ {p}
        /\ s.ids = IF IsActive(p) THEN h.ids \cup {p} ELSE h.ids
    BY <1>1, <2>1 DEF HandlerRec
  <2>3. Legal(s, index, revisions, record) /\ Reconciled(s, index, revisions, record)
    BY <1>1, <2>1, <2>2 DEF Legal, Reconciled, ActiveIn, IsActive
  <2>4. UNCHANGED catalogBroker
    BY <1>5 DEF ReadLegacy
  <2> QED BY <1>1, <2>1, <2>2, <2>3, <2>4, HandMoves
<1> QED BY <1>3, <1>4, <1>5

LEMMA HandlingMoves ==
  ASSUME CatalogAssumption, CatalogInv, NEW r \in CatalogReplicas,
         (\E e \in Events : CatalogFetch(r, e)) \/ GetRecord(r) \/ GetProduct(r) \/ GetIndex(r) \/ Finish(r)
  PROVE  Moves(r)
<1> DEFINE h == handler[r]
<1>1. /\ CatalogTypeOK /\ h \in HandlerRec /\ Legal(h, index, revisions, record) /\ index.revision \in Nat
      /\ revisions \in [Keys -> Nat] /\ index.ids \in SUBSET Products
      /\ ReconciledOK => Reconciled(h, index, revisions, record)
      /\ MaxAttempts \in Nat \ {0} /\ None \notin Events
  BY CatalogTypes, HandlersLegal DEF CatalogInv, CatalogAssumption
<1>2. h.pc \in {"get", "put", "product", "index", "putIndex", "done"} =>
         /\ h.event \in Events /\ KeyOf(h.event) \in Keys
         /\ h.event.kind # "snapshot" => KeyOf(h.event) \in Products
  BY <1>1, EventFacts DEF Legal, HandlerRec
<1>3. ASSUME NEW e \in Events, CatalogFetch(r, e)
      PROVE  Moves(r)
  <2> DEFINE s == [Idle EXCEPT !.pc = "get", !.event = e]
  <2>1. h.pc = "idle" /\ h.event = None /\ Goto(r, s)
    BY <1>1, <1>3 DEF CatalogFetch, Legal
  <2>2. s \in HandlerRec /\ s.pc = "get" /\ s.event = e
    BY StartingHandlers DEF Idle, Handler, HandlerRec
  <2>3. Legal(s, index, revisions, record) /\ Reconciled(s, index, revisions, record)
    BY <1>1, <2>1, <2>2 DEF Legal, Reconciled
  <2>4. Broker'
    BY <1>1, <1>3 DEF CatalogFetch, Broker, CatalogTypeOK
  <2>5. Carried(r, s)
    BY <1>1, <1>3, <2>1, <2>2 DEF CatalogFetch, Carried
  <2> QED BY <2>1, <2>2, <2>3, <2>4, <2>5 DEF Moves
<1>4. CASE GetRecord(r)
  <2>1. h.pc = "get" /\ UNCHANGED catalogBroker
    BY <1>4 DEF GetRecord
  <2>2. CASE Superseded(h.event)
    <3> DEFINE s == Settled(r)
    <3>1. Goto(r, s)
      BY <1>4, <2>2 DEF GetRecord
    <3>2. /\ s \in HandlerRec /\ s.event = h.event
          /\ s.pc = IF h.event.kind = "snapshot" THEN "done" ELSE "product"
      <4>1. 0 \in 0..(MaxAttempts - 1)
        BY <1>1
      <4>2. (IF h.event.kind = "snapshot" THEN "done" ELSE "product") \in {"done", "product"}
        OBVIOUS
      <4> QED BY <1>1, <4>1, <4>2 DEF Settled, HandlerRec
    <3>3. revisions[KeyOf(h.event)] > 0
      BY <2>2 DEF Superseded
    <3> HIDE DEF s
    <3>4. Legal(s, index, revisions, record) /\ Reconciled(s, index, revisions, record)
      BY <1>1, <1>2, <2>1, <3>2, <3>3 DEF Legal, Reconciled
    <3> QED BY <1>1, <2>1, <3>1, <3>2, <3>4, HandMoves
  <2>3. CASE ~Superseded(h.event)
    <3> DEFINE s == [h EXCEPT !.pc = "put", !.revision = revisions[KeyOf(h.event)]]
    <3>1. Goto(r, s)
      BY <1>4, <2>3 DEF GetRecord
    <3>2. s \in HandlerRec /\ s.event = h.event /\ s.pc = "put" /\ s.revision = revisions[KeyOf(h.event)]
      BY <1>1, <1>2, <2>1 DEF HandlerRec
    <3>3. Legal(s, index, revisions, record) /\ Reconciled(s, index, revisions, record)
      BY <1>1, <1>2, <2>1, <2>3, <3>2 DEF Legal, Reconciled, StaleIn, Superseded
    <3> QED BY <1>1, <2>1, <3>1, <3>2, <3>3, HandMoves
  <2> QED BY <2>2, <2>3
<1>5. CASE GetProduct(r)
  <2> DEFINE s == [h EXCEPT !.pc = "index", !.removed = ~IsActive(KeyOf(h.event))]
  <2>1. h.pc = "product" /\ UNCHANGED catalogBroker /\ Goto(r, s)
    BY <1>5 DEF GetProduct
  <2>2. s \in HandlerRec /\ s.event = h.event /\ s.pc = "index" /\ (s.removed <=> ~IsActive(KeyOf(h.event)))
    BY <1>1 DEF HandlerRec, IsActive
  <2>3. Legal(s, index, revisions, record) /\ Reconciled(s, index, revisions, record)
    BY <1>1, <1>2, <2>1, <2>2 DEF Legal, Reconciled, ActiveIn, IsActive
  <2> QED BY <1>1, <2>1, <2>2, <2>3, HandMoves
<1>6. CASE GetIndex(r)
  <2>1. h.pc = "index" /\ UNCHANGED catalogBroker /\ KeyOf(h.event) \in Products
    BY <1>1, <1>2, <1>6 DEF GetIndex, Legal
  <2>2. Wanted(r, index.ids) = WantedBy(h, index.ids) /\ WantedBy(h, index.ids) \in SUBSET Products
    BY <1>1, <2>1 DEF Wanted, WantedBy
  <2>3. CASE index.revision > 0 /\ WantedBy(h, index.ids) = index.ids
    <3> DEFINE s == [h EXCEPT !.pc = "done"]
    <3>1. Goto(r, s)
      BY <1>6, <2>2, <2>3 DEF GetIndex
    <3>2. s \in HandlerRec /\ s.event = h.event /\ s.pc = "done"
      BY <1>1 DEF HandlerRec
    <3>3. Legal(s, index, revisions, record)
      BY <1>1, <1>2, <2>1, <3>2 DEF Legal
    <3>4. ReconciledOK => Reconciled(s, index, revisions, record)
      BY <1>1, <2>1, <2>3, <3>2 DEF Reconciled, WantedBy
    <3> QED BY <1>1, <2>1, <3>1, <3>2, <3>3, <3>4, HandMoves
  <2>4. CASE ~(index.revision > 0 /\ WantedBy(h, index.ids) = index.ids)
    <3> DEFINE s == [h EXCEPT !.pc = "putIndex", !.ids = WantedBy(h, index.ids), !.revision = index.revision]
    <3>1. Goto(r, s)
      BY <1>6, <2>2, <2>4 DEF GetIndex
    <3>2. /\ s \in HandlerRec /\ s.event = h.event /\ s.pc = "putIndex" /\ s.removed = h.removed
          /\ s.revision = index.revision /\ s.ids = WantedBy(h, index.ids)
      BY <1>1, <2>2 DEF HandlerRec
    <3>3. WantedBy(s, index.ids) = WantedBy(h, index.ids)
      BY <3>2 DEF WantedBy
    <3>4. Legal(s, index, revisions, record)
      BY <1>1, <1>2, <2>1, <3>2, <3>3 DEF Legal
    <3>5. ReconciledOK => Reconciled(s, index, revisions, record)
      BY <1>1, <2>1, <3>2 DEF Reconciled
    <3> QED BY <1>1, <2>1, <3>1, <3>2, <3>4, <3>5, HandMoves
  <2> QED BY <2>3, <2>4
<1>7. CASE Finish(r)
  <2>1. h.pc = "done" /\ UNCHANGED catalogBroker /\ Goto(r, Idle) /\ index.revision > 0
    BY <1>1, <1>7 DEF Finish, Legal
  <2>2. Broker' /\ (ReconciledOK => Carried(r, Idle))
    <3>1. Broker' /\ UNCHANGED <<catalogQueued, catalogGiven>>
      BY <1>1, <2>1 DEF Broker, CatalogTypeOK, catalogBroker
    <3>2. ReconciledOK => (KeyOf(h.event) \in Products /\ IsActive(KeyOf(h.event)) => KeyOf(h.event) \in index.ids)
      <4>1. KeyOf(h.event) \in Products => h.event.kind # "snapshot"
        BY <1>2, <2>1, EventFacts
      <4> QED BY <1>1, <2>1, <4>1 DEF Reconciled, ActiveIn, IsActive
    <3> QED BY <3>1, <3>2 DEF Carried
  <2> QED BY <2>1, <2>2, IdleMoves
<1> QED BY <1>3, <1>4, <1>5, <1>6, <1>7

LEMMA FailingMoves ==
  ASSUME CatalogAssumption, CatalogInv, NEW r \in CatalogReplicas, CallFails(r) \/ CatalogRestart(r)
  PROVE  Moves(r)
<1> DEFINE h == handler[r]
<1>1. CatalogTypeOK /\ h \in HandlerRec /\ Legal(h, index, revisions, record) /\ Broker
  BY CatalogTypes, HandlersLegal DEF CatalogInv, Broker
<1>2. CASE CallFails(r)
  <2>1. h.event \in Events /\ CatalogNak(h.event) /\ Goto(r, Idle)
    BY <1>1, <1>2 DEF CallFails, HandlerRec
  <2>2. index.revision > 0
    BY <1>1, <1>2 DEF CallFails, Legal
  <2> QED BY <1>1, <2>1, <2>2, NakCarries, IdleMoves
<1>3. CASE CatalogRestart(r)
  <2>1. /\ Goto(r, Handler) /\ catalogQueued' = catalogQueued \cup ({h.event} \ {None})
        /\ catalogGiven' = catalogGiven /\ h.event \in Events \cup {None} /\ None \notin Events
    BY <1>1, <1>3 DEF CatalogRestart, HandlerRec, CatalogAssumption
  <2>2. Broker' /\ Carried(r, Handler)
    BY <1>1, <2>1 DEF Broker, Carried
  <2>3. /\ Handler \in HandlerRec /\ Legal(Handler, index, revisions, record)
        /\ Reconciled(Handler, index, revisions, record)
    BY StartingHandlers DEF Legal, Reconciled
  <2> QED BY <2>1, <2>2, <2>3 DEF Moves
<1> QED BY <1>2, <1>3

\* The part of CatalogInv about bucket, broker and handlers.
BucketOK ==
    /\ record \in [Keys -> Events \cup Legacy \cup {None}] /\ revisions \in [Keys -> Nat]
    /\ index \in [revision : Nat, ids : SUBSET Products]
    /\ handler \in [CatalogReplicas -> HandlerRec] /\ Broker
    /\ RecordsOK /\ SeedingOK /\ WritesOK

KeptOK == ReconciledOK /\ StoredMeansIndexed

LEMMA MovesKeep ==
  ASSUME CatalogAssumption, CatalogInv, NEW r \in CatalogReplicas, Moves(r), UNCHANGED bucket
  PROVE  BucketOK' /\ (KeptOK => KeptOK')
<1>1. PICK s \in HandlerRec :
          /\ Goto(r, s) /\ Legal(s, index, revisions, record) /\ Broker'
          /\ ReconciledOK => Reconciled(s, index, revisions, record) /\ Carried(r, s)
  BY DEF Moves
<1>2. /\ record' = record /\ revisions' = revisions /\ index' = index
      /\ record \in [Keys -> Events \cup Legacy \cup {None}] /\ revisions \in [Keys -> Nat]
      /\ index \in [revision : Nat, ids : SUBSET Products]
      /\ handler \in [CatalogReplicas -> HandlerRec]
  BY CatalogTypes DEF bucket, CatalogInv, CatalogTypeOK
<1>3. /\ handler' \in [CatalogReplicas -> HandlerRec] /\ handler'[r] = s
      /\ \A q \in CatalogReplicas : q # r => handler'[q] = handler[q]
  BY <1>1, <1>2, GotoOne
<1>4. SeedingOK' /\ WritesOK'
  <2>1. \A q \in CatalogReplicas : Legal(handler'[q], index, revisions, record)
    BY <1>1, <1>3, HandlersLegal DEF CatalogInv
  <2> QED BY <1>2, <2>1, HandlersLegal
<1>5. RecordsOK'
  BY <1>2 DEF CatalogInv, RecordsOK
<1>6. ASSUME KeptOK PROVE KeptOK'
  <2>1. Reconciled(s, index, revisions, record) /\ Carried(r, s)
    BY <1>1, <1>6 DEF KeptOK
  <2>2. \A q \in CatalogReplicas : Reconciled(handler'[q], index, revisions, record)
    BY <1>3, <1>6, <2>1, HandlersLegal DEF KeptOK
  <2>3. ReconciledOK'
    BY <1>2, <2>2, HandlersLegal
  <2>4. ASSUME NEW p \in Products, IsActive(p), p \notin index.ids, ~Seeding
        PROVE  Pending(p)'
    <3>1. PICK e \in Events : KeyOf(e) = p /\ (e \in catalogQueued \cup catalogGiven \/ InHand(e))
      BY <1>6, <2>4 DEF KeptOK, StoredMeansIndexed, Pending
    <3>2. CASE e \in catalogQueued \cup catalogGiven \/ handler[r].event = e
      <4>1. e \in catalogQueued' \cup catalogGiven' \/ s.event = e
        BY <2>1, <2>4, <3>1, <3>2 DEF Carried
      <4> QED BY <1>3, <3>1, <4>1 DEF Pending, InHand
    <3>3. CASE \E q \in CatalogReplicas : q # r /\ handler[q].event = e
      BY <1>3, <3>1, <3>3 DEF Pending, InHand
    <3> QED BY <3>1, <3>2, <3>3 DEF InHand
  <2>5. StoredMeansIndexed'
    BY <1>2, <2>4 DEF StoredMeansIndexed, IsActive, Seeding
  <2> QED BY <2>3, <2>5 DEF KeptOK
<1> QED BY <1>1, <1>2, <1>3, <1>4, <1>5, <1>6 DEF BucketOK

LEMMA CreateIndexKeeps ==
  ASSUME CatalogAssumption, CatalogInv, NEW r \in CatalogReplicas, CreateIndex(r)
  PROVE  BucketOK' /\ (KeptOK => KeptOK') /\ index'.revision >= index.revision
<1> DEFINE h == handler[r]
<1>1. /\ CatalogTypeOK /\ h \in HandlerRec /\ Legal(h, index, revisions, record) /\ Broker
      /\ index \in [revision : Nat, ids : SUBSET Products] /\ index.revision \in Nat
      /\ record \in [Keys -> Events \cup Legacy \cup {None}] /\ revisions \in [Keys -> Nat]
      /\ handler \in [CatalogReplicas -> HandlerRec]
  BY CatalogTypes, HandlersLegal DEF CatalogInv, Broker, CatalogTypeOK
<1>2. /\ h.pc = "seed" /\ h.todo = {} /\ Goto(r, Idle) /\ h.event = None
      /\ record' = record /\ revisions' = revisions
      /\ catalogQueued' = catalogQueued /\ catalogGiven' = catalogGiven
  BY <1>1 DEF CreateIndex, catalogBroker, Legal
<1>3. CASE index.revision # 0
  <2>1. UNCHANGED bucket /\ index.revision > 0 /\ index' = index
    BY <1>1, <1>2, <1>3 DEF CreateIndex, bucket
  <2>2. Broker' /\ Carried(r, Idle)
    BY <1>1, <1>2 DEF Broker, Carried, CatalogAssumption
  <2> QED BY <1>1, <1>2, <2>1, <2>2, IdleMoves, MovesKeep
<1>4. CASE index.revision = 0
  <2>1. index' = [revision |-> 1, ids |-> h.ids] /\ h.ids \in SUBSET Products
    BY <1>1, <1>4 DEF CreateIndex, HandlerRec
  <2>2. /\ index' \in [revision : Nat, ids : SUBSET Products] /\ index'.revision = 1 /\ index'.ids = h.ids
    BY <2>1
  <2>3. /\ handler' \in [CatalogReplicas -> HandlerRec]
        /\ \A q \in CatalogReplicas : handler'[q].pc \in {"start", "keys", "seed", "idle"} /\ handler'[q].event = None
    <3>1. \A q \in CatalogReplicas : handler[q].pc \in {"start", "keys", "seed"} /\ handler[q].event = None
      BY <1>4, HandlersLegal DEF CatalogInv, Legal
    <3> QED BY <1>1, <1>2, <3>1, GotoOne, StartingHandlers
  <2>4. \A q \in CatalogReplicas : /\ Legal(handler'[q], index', revisions, record)
                                   /\ Reconciled(handler'[q], index', revisions, record)
    BY <2>2, <2>3 DEF Legal, Reconciled
  <2>5. SeedingOK' /\ WritesOK' /\ ReconciledOK' /\ RecordsOK'
    BY <1>2, <2>4, HandlersLegal DEF CatalogInv, RecordsOK
  <2>6. StoredMeansIndexed'
    <3>1. \A p \in Products : IsActive(p) => p \in h.ids
      BY <1>1, <1>2, <1>4 DEF Legal, ActiveIn, IsActive
    <3> QED BY <1>2, <2>2, <3>1 DEF StoredMeansIndexed, IsActive
  <2>7. Broker'
    BY <1>1, <1>2 DEF Broker
  <2> QED BY <1>1, <1>2, <1>4, <2>2, <2>3, <2>5, <2>6, <2>7 DEF BucketOK, KeptOK
<1> QED BY <1>3, <1>4

LEMMA PutIndexKeeps ==
  ASSUME CatalogAssumption, CatalogInv, NEW r \in CatalogReplicas, PutIndex(r)
  PROVE  BucketOK' /\ (KeptOK => KeptOK') /\ index'.revision >= index.revision
<1> DEFINE h == handler[r]
           k == KeyOf(h.event)
<1>1. /\ CatalogTypeOK /\ h \in HandlerRec /\ Legal(h, index, revisions, record) /\ Broker
      /\ index \in [revision : Nat, ids : SUBSET Products] /\ index.revision \in Nat
      /\ record \in [Keys -> Events \cup Legacy \cup {None}] /\ revisions \in [Keys -> Nat]
      /\ handler \in [CatalogReplicas -> HandlerRec] /\ None \notin Events
  BY CatalogTypes, HandlersLegal DEF CatalogInv, Broker, CatalogTypeOK, CatalogAssumption
<1>2. h.pc = "putIndex" /\ record' = record /\ revisions' = revisions
  BY DEF PutIndex
<1>3. /\ index.revision > 0 /\ h.event \in Events /\ h.event.kind # "snapshot" /\ revisions[k] > 0
      /\ h.revision <= index.revision /\ h.revision \in Nat
      /\ index.revision = h.revision => h.ids = WantedBy(h, index.ids)
  BY <1>1, <1>2 DEF Legal, HandlerRec
<1>4. CASE ~IndexUnchanged(r)
  <2>1. UNCHANGED bucket /\ index' = index /\ Conflict(r, "index")
    BY <1>2, <1>4 DEF PutIndex, bucket
  <2>2. Moves(r)
    BY <1>2, <1>3, <2>1, ConflictMoves
  <2> QED BY <1>1, <2>1, <2>2, MovesKeep
<1>5. CASE IndexUnchanged(r)
  <2> DEFINE s == [h EXCEPT !.pc = "done"]
  <2>1. /\ index' = [revision |-> index.revision + 1, ids |-> h.ids] /\ Goto(r, s)
        /\ catalogQueued' = catalogQueued /\ catalogGiven' = catalogGiven
    BY <1>5 DEF PutIndex, catalogBroker
  <2>2. h.ids = WantedBy(h, index.ids) /\ h.ids \in SUBSET Products
    BY <1>1, <1>3, <1>5 DEF IndexUnchanged, HandlerRec
  <2>3. /\ index' \in [revision : Nat, ids : SUBSET Products] /\ index'.revision = index.revision + 1
        /\ index'.ids = h.ids
    BY <1>1, <2>1, <2>2
  <2>4. s \in HandlerRec /\ s.pc = "done" /\ s.event = h.event
    BY <1>1 DEF HandlerRec
  <2> HIDE DEF s
  <2>5. /\ handler' \in [CatalogReplicas -> HandlerRec] /\ handler'[r] = s
        /\ \A q \in CatalogReplicas : q # r => handler'[q] = handler[q]
    BY <1>1, <2>1, <2>4, GotoOne
  <2>6. Legal(s, index', revisions, record)
    BY <1>1, <1>3, <2>3, <2>4 DEF Legal
  <2>7. ASSUME NEW q \in CatalogReplicas, q # r
        PROVE  Legal(handler[q], index', revisions, record)
    <3>1. Legal(handler[q], index, revisions, record) /\ handler[q] \in HandlerRec
      BY <1>1, HandlersLegal DEF CatalogInv
    <3>2. handler[q].revision \in Nat /\ (handler[q].pc = "putIndex" => handler[q].revision <= index.revision)
      BY <3>1 DEF HandlerRec, Legal
    <3>3. /\ index'.revision > 0 /\ index'.revision # 0
          /\ handler[q].pc = "putIndex" =>
                handler[q].revision <= index'.revision /\ index'.revision # handler[q].revision
      BY <1>1, <2>3, <3>2
    <3> QED BY <3>1, <3>3 DEF Legal
  <2>8. SeedingOK' /\ WritesOK' /\ RecordsOK'
    BY <1>2, <2>5, <2>6, <2>7, HandlersLegal DEF CatalogInv, RecordsOK
  <2>9. ASSUME KeptOK PROVE KeptOK'
    <3>1. Reconciled(h, index, revisions, record)
      BY <2>9, HandlersLegal DEF KeptOK
    <3>2. \A p \in index.ids : IsActive(p) => p \in index'.ids
      BY <1>2, <2>2, <2>3, <3>1 DEF WantedBy, Reconciled, IsActive, ActiveIn
    <3>3. IsActive(k) => k \in index'.ids
      BY <1>2, <2>2, <2>3, <3>1 DEF WantedBy, Reconciled, IsActive, ActiveIn
    <3>4. Reconciled(s, index', revisions, record)
      BY <2>4, <3>3 DEF Reconciled, IsActive, ActiveIn
    <3>5. ASSUME NEW q \in CatalogReplicas, q # r
          PROVE  Reconciled(handler[q], index', revisions, record)
      <4>1. Reconciled(handler[q], index, revisions, record)
        BY <2>9, HandlersLegal DEF KeptOK
      <4> QED BY <3>2, <4>1 DEF Reconciled, IsActive, ActiveIn
    <3>6. ReconciledOK'
      BY <1>2, <2>5, <3>4, <3>5, HandlersLegal
    <3>7. \A p \in Products : IsActive(p) => p \in index'.ids \/ Pending(p)
      <4>1. \A p \in Products : IsActive(p) => p \in index.ids \/ Pending(p)
        BY <1>3, <2>9 DEF KeptOK, StoredMeansIndexed, Seeding
      <4> QED BY <3>2, <4>1
    <3>8. \A p : Pending(p) => Pending(p)'
      BY <2>1, <2>4, <2>5 DEF Pending, InHand
    <3>9. StoredMeansIndexed'
      BY <1>2, <3>7, <3>8 DEF StoredMeansIndexed, IsActive
    <3> QED BY <3>6, <3>9 DEF KeptOK
  <2>10. Broker'
    BY <1>1, <2>1 DEF Broker
  <2> QED BY <1>1, <1>2, <2>3, <2>5, <2>8, <2>9, <2>10 DEF BucketOK
<1> QED BY <1>4, <1>5

\* A record that is written is newer than the one it replaces; if products are
\* removed for good, a product that is not active is not written as active.
LEMMA WrittenIsNewer ==
  ASSUME CatalogAssumption, CatalogInv, NEW r \in CatalogReplicas, handler[r].pc = "put", Unchanged(r)
  PROVE  LET e == handler[r].event
             k == KeyOf(e)
         IN  /\ e \in Events /\ k \in Keys
             /\ revisions[k] > 0 => record[k] \in Events \cup Legacy /\ record[k].version < e.version
             /\ RemovedForGood /\ k \in Products /\ revisions[k] > 0 /\ ~IsActive(k) => e.kind # "upsert"
<1> DEFINE e == handler[r].event
           k == KeyOf(e)
<1>1. /\ handler[r] \in HandlerRec /\ Legal(handler[r], index, revisions, record) /\ RecordsOK
      /\ record \in [Keys -> Events \cup Legacy \cup {None}] /\ revisions \in [Keys -> Nat] /\ None \notin Events
  BY CatalogTypes, HandlersLegal DEF CatalogInv, CatalogAssumption
<1>2. e \in Events /\ k \in Keys /\ e.version \in Nat
  BY <1>1, EventFacts DEF Legal, HandlerRec
<1>3. ASSUME revisions[k] > 0
      PROVE  record[k] \in Events \cup Legacy /\ record[k].version < e.version /\ KeyOf(record[k]) = k
  <2>1. record[k] \in Events \cup Legacy /\ KeyOf(record[k]) = k
    BY <1>1, <1>2, <1>3 DEF RecordsOK
  <2>2. record[k].version \in Nat
    BY <2>1, EventFacts
  <2>3. ~(e.version <= record[k].version)
    BY <1>1, <1>3 DEF Legal, StaleIn, Unchanged
  <2> QED BY <1>2, <2>1, <2>2, <2>3
<1>4. ASSUME RemovedForGood, k \in Products, revisions[k] > 0, ~IsActive(k), e.kind = "upsert"
      PROVE  FALSE
  <2> DEFINE f == record[k]
  <2>1. f \in Events \cup Legacy /\ f.version < e.version /\ KeyOf(f) = k
    BY <1>3, <1>4
  <2>2. f.kind \in Kinds /\ f.kind # "upsert" /\ f.kind # "snapshot" /\ f.product = k
    BY <1>4, <2>1, EventFacts DEF IsActive
  <2>3. f.kind = "removal" /\ e.product = k /\ f.version \in Nat
    BY <1>2, <1>4, <2>1, <2>2, EventFacts DEF Kinds
  <2>4. e.version < f.version
    BY <1>2, <1>4, <2>1, <2>2, <2>3 DEF RemovedForGood
  <2> QED BY <1>2, <2>1, <2>3, <2>4
<1> QED BY <1>2, <1>3, <1>4

LEMMA MarkedIsNat ==
  ASSUME CatalogAssumption, CatalogInv
  PROVE  Marked \in Nat
<1>1. /\ "catalog" \in Keys /\ revisions["catalog"] \in Nat
      /\ revisions["catalog"] > 0 => record["catalog"] \in Events \cup Legacy
  BY CatalogTypes DEF Keys, CatalogInv, RecordsOK
<1> QED BY <1>1, EventFacts DEF Marked

\* No version and no marker falls.
RecordsRise ==
    /\ \A k \in Keys : revisions[k] > 0 =>
          revisions'[k] > 0 /\ record'[k].version >= record[k].version
    /\ Marked' >= Marked

LEMMA RecordsStay ==
  ASSUME CatalogAssumption, CatalogInv, UNCHANGED <<record, revisions>>
  PROVE  RecordsRise
<1>1. \A k \in Keys : revisions[k] > 0 => record[k].version \in Nat
  BY CatalogTypes, EventFacts DEF CatalogInv, RecordsOK
<1> QED BY <1>1, MarkedIsNat DEF RecordsRise, Marked

LEMMA PutRecordKeeps ==
  ASSUME CatalogAssumption, CatalogInv, NEW r \in CatalogReplicas, PutRecord(r)
  PROVE  BucketOK' /\ (RemovedForGood /\ KeptOK => KeptOK') /\ index' = index /\ RecordsRise
<1> DEFINE h == handler[r]
           e == h.event
           k == KeyOf(e)
<1>1. /\ CatalogTypeOK /\ h \in HandlerRec /\ Legal(h, index, revisions, record) /\ Broker
      /\ index \in [revision : Nat, ids : SUBSET Products] /\ index.revision \in Nat
      /\ record \in [Keys -> Events \cup Legacy \cup {None}] /\ revisions \in [Keys -> Nat]
      /\ handler \in [CatalogReplicas -> HandlerRec] /\ None \notin Events \cup Legacy /\ MaxAttempts \in Nat \ {0}
  BY CatalogTypes, HandlersLegal DEF CatalogInv, Broker, CatalogTypeOK, CatalogAssumption
<1>2. h.pc = "put" /\ index' = index
  BY DEF PutRecord
<1>3. index.revision > 0 /\ e \in Events
  BY <1>1, <1>2 DEF Legal, HandlerRec
<1>4. CASE ~Unchanged(r)
  <2>1. UNCHANGED bucket /\ Conflict(r, "get") /\ UNCHANGED <<record, revisions>>
    BY <1>2, <1>4 DEF PutRecord, bucket
  <2>2. Moves(r)
    BY <1>3, <2>1, ConflictMoves
  <2> QED BY <1>2, <2>1, <2>2, MovesKeep, RecordsStay
<1>5. CASE Unchanged(r)
  <2> DEFINE s == Settled(r)
  <2>1. /\ record' = [record EXCEPT ![k] = e] /\ revisions' = [revisions EXCEPT ![k] = revisions[k] + 1] /\ Goto(r, s)
        /\ catalogQueued' = catalogQueued /\ catalogGiven' = catalogGiven
    BY <1>5 DEF PutRecord, catalogBroker
  <2>2. /\ k \in Keys /\ e # None
        /\ revisions[k] > 0 => record[k] \in Events \cup Legacy /\ record[k].version < e.version
        /\ RemovedForGood /\ k \in Products /\ revisions[k] > 0 /\ ~IsActive(k) => e.kind # "upsert"
    BY <1>1, <1>2, <1>3, <1>5, WrittenIsNewer
  <2>3. /\ record' \in [Keys -> Events \cup Legacy \cup {None}] /\ revisions' \in [Keys -> Nat]
        /\ record'[k] = e /\ revisions'[k] = revisions[k] + 1 /\ revisions[k] \in Nat
        /\ \A l \in Keys : l # k => record'[l] = record[l] /\ revisions'[l] = revisions[l]
        /\ \A l \in Keys : revisions'[l] \in Nat /\ revisions[l] \in Nat /\ revisions'[l] >= revisions[l]
    BY <1>1, <1>3, <2>1, <2>2
  <2>4. /\ s \in HandlerRec /\ s.event = e
        /\ s.pc = IF e.kind = "snapshot" THEN "done" ELSE "product"
    <3>1. 0 \in 0..(MaxAttempts - 1)
      BY <1>1
    <3>2. (IF e.kind = "snapshot" THEN "done" ELSE "product") \in {"done", "product"}
      OBVIOUS
    <3> QED BY <1>1, <3>1, <3>2 DEF Settled, HandlerRec
  <2> HIDE DEF s
  <2>5. /\ handler' \in [CatalogReplicas -> HandlerRec] /\ handler'[r] = s
        /\ \A q \in CatalogReplicas : q # r => handler'[q] = handler[q]
    BY <1>1, <2>1, <2>4, GotoOne
  <2>6. RecordsOK'
    BY <2>2, <2>3 DEF RecordsOK, CatalogInv
  <2>7. Legal(s, index, revisions', record')
    BY <1>3, <2>2, <2>3, <2>4 DEF Legal
  <2>8. ASSUME NEW q \in CatalogReplicas, q # r
        PROVE  Legal(handler[q], index, revisions', record')
    <3> DEFINE g == handler[q]
               l == KeyOf(g.event)
    <3>1. Legal(g, index, revisions, record) /\ g \in HandlerRec /\ g.revision \in Nat
      BY <1>1, HandlersLegal DEF CatalogInv, HandlerRec
    <3>2. g.event # None => g.event \in Events /\ l \in Keys
      BY <3>1, EventFacts DEF HandlerRec
    <3>3. g.pc \in {"put", "product", "index", "putIndex", "done"} => l \in Keys
      BY <3>1, <3>2 DEF Legal
    <3>4. ASSUME g.pc = "put"
          PROVE  g.revision <= revisions'[l] /\ (revisions'[l] = g.revision => ~StaleIn(g.event, revisions', record'))
      <4>1. l \in Keys /\ g.revision <= revisions[l] /\ (revisions[l] = g.revision
                => ~StaleIn(g.event, revisions, record))
        BY <3>1, <3>3, <3>4 DEF Legal
      <4>2. CASE l = k
        BY <2>3, <3>1, <4>1, <4>2
      <4>3. CASE l # k
        BY <2>3, <4>1, <4>3 DEF StaleIn
      <4> QED BY <4>2, <4>3
    <3>5. g.pc \in {"product", "index", "putIndex", "done"} => revisions'[l] > 0
      BY <2>3, <3>1, <3>3 DEF Legal
    <3>6. index.revision # 0
      BY <1>3
    <3> QED BY <3>1, <3>4, <3>5, <3>6 DEF Legal
  <2>9. SeedingOK' /\ WritesOK'
    BY <1>2, <2>5, <2>7, <2>8, HandlersLegal
  <2>10. ASSUME RemovedForGood, KeptOK PROVE KeptOK'
    <3>1. ASSUME NEW p \in Products, revisions[p] > 0
          PROVE  ActiveIn(p, revisions', record') => ActiveIn(p, revisions, record)
      <4>1. p \in Keys
        BY DEF Keys
      <4>2. CASE p = k
        BY <2>2, <2>3, <2>10, <3>1, <4>2 DEF ActiveIn, IsActive
      <4>3. CASE p # k
        BY <2>3, <4>1, <4>3 DEF ActiveIn
      <4> QED BY <4>2, <4>3
    <3>2. ASSUME NEW q \in CatalogReplicas, q # r
          PROVE  Reconciled(handler[q], index, revisions', record')
      <4> DEFINE g == handler[q]
                 l == KeyOf(g.event)
      <4>1. Reconciled(g, index, revisions, record) /\ Legal(g, index, revisions, record) /\ g \in HandlerRec
        BY <1>1, <2>10, HandlersLegal DEF KeptOK, CatalogInv
      <4>2. g.pc \in {"index", "putIndex", "done"} => g.event \in Events /\ revisions[l] > 0
        BY <4>1 DEF Legal, HandlerRec
      <4>3. g.pc \in {"index", "putIndex", "done"} /\ g.event.kind # "snapshot" => l \in Products
        BY <4>2, EventFacts
      <4>4. g.pc \in {"index", "putIndex"} => g.event.kind # "snapshot"
        BY <4>1 DEF Legal
      <4> QED BY <3>1, <4>1, <4>2, <4>3, <4>4 DEF Reconciled
    <3>3. Reconciled(s, index, revisions', record')
      BY <2>4 DEF Reconciled
    <3>4. ReconciledOK'
      BY <1>2, <2>5, <3>2, <3>3, HandlersLegal
    <3>5. \A p \in Products : IsActive(p) => p \in index.ids \/ Pending(p)
      BY <1>3, <2>10 DEF KeptOK, StoredMeansIndexed, Seeding
    <3>6. \A p : Pending(p) => Pending(p)'
      BY <2>1, <2>4, <2>5 DEF Pending, InHand
    <3>7. \A p : p = k => Pending(p)'
      BY <1>3, <2>4, <2>5 DEF Pending, InHand
    <3>8. \A p \in Products : p # k => (IsActive(p)' <=> IsActive(p))
      BY <2>3 DEF IsActive, Keys
    <3>9. StoredMeansIndexed'
      <4>1. ASSUME NEW p \in Products, IsActive(p)' PROVE p \in index'.ids \/ Pending(p)'
        <5>1. CASE p = k
          BY <3>7, <5>1
        <5>2. CASE p # k
          BY <1>2, <3>5, <3>6, <3>8, <4>1, <5>2
        <5> QED BY <5>1, <5>2
      <4> QED BY <4>1 DEF StoredMeansIndexed
    <3> QED BY <3>4, <3>9 DEF KeptOK
  <2>11. RecordsRise
    <3>1. \A l \in Keys : revisions[l] > 0 => record[l].version \in Nat
      BY <1>1, EventFacts DEF CatalogInv, RecordsOK
    <3>2. e.version \in Nat
      BY <1>3, EventFacts
    <3>3. \A l \in Keys : revisions[l] > 0 => revisions'[l] > 0 /\ record'[l].version >= record[l].version
      <4> SUFFICES ASSUME NEW l \in Keys, revisions[l] > 0
                   PROVE  revisions'[l] > 0 /\ record'[l].version >= record[l].version
        OBVIOUS
      <4>1. CASE l = k
        BY <2>2, <2>3, <3>1, <3>2, <4>1
      <4>2. CASE l # k
        BY <2>3, <3>1, <4>2
      <4> QED BY <4>1, <4>2
    <3>4. "catalog" \in Keys
      BY DEF Keys
    <3>5. Marked' >= Marked
      <4>1. CASE revisions["catalog"] > 0
        BY <3>3, <3>4, <4>1 DEF Marked
      <4>2. CASE ~(revisions["catalog"] > 0)
        <5>1. Marked = 0
          BY <4>2 DEF Marked
        <5>2. revisions'["catalog"] > 0 => record'["catalog"] = e
          BY <2>3, <3>4, <4>2
        <5> QED BY <3>2, <5>1, <5>2 DEF Marked
      <4> QED BY <4>1, <4>2
    <3> QED BY <3>3, <3>5 DEF RecordsRise
  <2>12. Broker'
    BY <1>1, <2>1 DEF Broker
  <2> QED BY <1>1, <1>2, <2>3, <2>5, <2>6, <2>9, <2>10, <2>11, <2>12 DEF BucketOK
<1> QED BY <1>4, <1>5

CacheRec ==
    [value : [ids : SUBSET Products, catalog : Nat, revision : Nat],
     fresh : BOOLEAN, lock : Readers \cup {None}]
ReaderRec == [pc : {"idle", "lock", "snapshot", "products"}, catalog : Nat]

ServingOK ==
    /\ cache \in CacheRec /\ reader \in [Readers -> ReaderRec] /\ CacheOK
    /\ catalogFaults \in 0..MaxCatalogFaults

CacheForward ==
    \/ cache'.value = NoValue
    \/ /\ cache'.value.catalog >= cache.value.catalog
       /\ cache'.value.revision >= cache.value.revision

LEMMA CatalogParts ==
  /\ CatalogInv <=> BucketOK /\ ServingOK
  /\ CatalogInv' <=> BucketOK' /\ ServingOK'
  /\ KeptInv <=> CatalogInv /\ KeptOK
  /\ KeptInv' <=> CatalogInv' /\ KeptOK'
<1>1. CatalogInv <=> BucketOK /\ ServingOK
  BY DEF CatalogInv, CatalogTypeOK, BucketOK, ServingOK, HandlerRec, Broker, CacheRec, ReaderRec
<1>2. CatalogInv' <=> BucketOK' /\ ServingOK'
  BY DEF CatalogInv, CatalogTypeOK, BucketOK, ServingOK, HandlerRec, Broker, CacheRec, ReaderRec
<1>3. (KeptInv <=> CatalogInv /\ KeptOK) /\ (KeptInv' <=> CatalogInv' /\ KeptOK')
  BY DEF KeptInv, KeptOK
<1> QED BY <1>1, <1>2, <1>3

\* A step of a handler leaves the cached value and the readers alone, or they
\* start again.
LEMMA ServingKept ==
  ASSUME CatalogAssumption, CatalogInv, Marked' \in Nat, Marked' >= Marked,
         index'.revision \in Nat, index'.revision >= index.revision,
         catalogFaults' \in 0..MaxCatalogFaults,
         \/ /\ \/ cache' = cache
               \/ cache' = [cache EXCEPT !.fresh = FALSE]
            /\ reader' = reader
         \/ /\ cache' = [value |-> NoValue, fresh |-> FALSE, lock |-> None]
            /\ reader' = [h \in Readers |-> Waiting]
  PROVE  ServingOK' /\ CacheForward
<1>1. /\ cache \in CacheRec /\ reader \in [Readers -> ReaderRec] /\ CacheOK /\ Marked \in Nat /\ index.revision \in Nat
  BY CatalogParts, CatalogTypes, MarkedIsNat DEF ServingOK, CatalogInv
<1>2. cache.value.catalog \in Nat /\ cache.value.revision \in Nat
  BY <1>1 DEF CacheRec
<1>3. CASE (cache' = cache \/ cache' = [cache EXCEPT !.fresh = FALSE]) /\ reader' = reader
  <2>1. cache' \in CacheRec /\ cache'.value = cache.value /\ cache'.lock = cache.lock
    BY <1>1, <1>3 DEF CacheRec
  <2>2. CacheForward
    BY <1>2, <2>1 DEF CacheForward
  <2>3. \A h \in Readers : reader[h].catalog \in Nat
    BY <1>1 DEF ReaderRec
  <2>4. CacheOK'
    BY <1>1, <1>2, <1>3, <2>1, <2>3 DEF CacheOK
  <2> QED BY <1>1, <1>3, <2>1, <2>2, <2>4 DEF ServingOK
<1>4. CASE /\ cache' = [value |-> NoValue, fresh |-> FALSE, lock |-> None]
           /\ reader' = [h \in Readers |-> Waiting]
  <2>1. /\ cache' \in CacheRec /\ cache'.value = NoValue /\ NoValue.catalog = 0 /\ NoValue.revision = 0
        /\ reader' \in [Readers -> ReaderRec] /\ \A h \in Readers : reader'[h].pc = "idle"
    BY <1>4 DEF CacheRec, ReaderRec, NoValue, Waiting
  <2>2. CacheOK'
    BY <2>1 DEF CacheOK
  <2> QED BY <2>1, <2>2 DEF ServingOK, CacheForward
<1> QED BY <1>3, <1>4

LEMMA ReaderSteps ==
  ASSUME CatalogAssumption, CatalogInv, NEW h \in Readers, ReaderStep(h)
  PROVE  ServingOK' /\ CacheForward /\ UNCHANGED <<bucket, catalogBroker, handler, catalogFaults>>
<1>1. /\ cache \in CacheRec /\ reader \in [Readers -> ReaderRec] /\ CacheOK /\ Marked \in Nat /\ index.revision \in Nat
      /\ index.ids \in SUBSET Products /\ None \notin Readers /\ catalogFaults \in 0..MaxCatalogFaults
  BY CatalogParts, CatalogTypes, MarkedIsNat DEF ServingOK, CatalogInv, CatalogAssumption
<1>2. /\ cache.value.catalog \in Nat /\ cache.value.revision \in Nat /\ \A g \in Readers : reader[g].catalog \in Nat
      /\ cache.value.catalog <= Marked /\ cache.value.revision <= index.revision
      /\ \A g \in Readers :
            /\ reader[g].pc \in {"snapshot", "products"} => cache.lock = g
            /\ reader[g].pc = "products" => reader[g].catalog \in cache.value.catalog..Marked
  BY <1>1 DEF CacheRec, ReaderRec, CacheOK
<1>3. UNCHANGED <<bucket, catalogBroker, handler, catalogFaults>>
  BY DEF ReaderStep, NeedValue, TakeLock, ReadSnapshot, ReadProducts
<1>4. Marked' = Marked /\ index' = index /\ catalogFaults' = catalogFaults
  BY <1>3 DEF Marked, bucket
<1>5. CASE NeedValue(h)
  <2>1. cache' = cache /\ reader' = [reader EXCEPT ![h].pc = "lock"]
    BY <1>5 DEF NeedValue
  <2>2. /\ reader' \in [Readers -> ReaderRec] /\ reader'[h].pc = "lock"
        /\ \A g \in Readers : g # h => reader'[g] = reader[g]
    BY <1>1, <2>1 DEF ReaderRec
  <2>3. CacheOK'
    BY <1>2, <1>4, <2>1, <2>2 DEF CacheOK
  <2> QED BY <1>1, <1>2, <1>3, <1>4, <2>1, <2>2, <2>3 DEF ServingOK, CacheForward
<1>6. CASE TakeLock(h)
  <2>1. PICK pc \in {"idle", "snapshot"} : /\ reader' = [reader EXCEPT ![h].pc = pc]
                                          /\ cache' = IF pc = "idle" THEN cache ELSE Locked(h)
    BY <1>6 DEF TakeLock
  <2>2. /\ reader' \in [Readers -> ReaderRec] /\ reader'[h].pc = pc
        /\ \A g \in Readers : g # h => reader'[g] = reader[g]
    BY <1>1, <2>1 DEF ReaderRec
  <2>3. cache.lock = None /\ \A g \in Readers : reader[g].pc \notin {"snapshot", "products"}
    BY <1>1, <1>2, <1>6 DEF TakeLock
  <2>4. cache' \in CacheRec /\ cache'.value = cache.value /\ (pc = "snapshot" => cache'.lock = h)
    BY <1>1, <2>1 DEF Locked, CacheRec
  <2>5. CacheOK'
    BY <1>2, <1>4, <2>2, <2>3, <2>4 DEF CacheOK
  <2> QED BY <1>1, <1>2, <1>3, <1>4, <2>2, <2>4, <2>5 DEF ServingOK, CacheForward
<1>7. CASE ReadSnapshot(h)
  <2>1. reader[h].pc = "snapshot" /\ cache.lock = h
    BY <1>2, <1>7 DEF ReadSnapshot
  <2>2. \A g \in Readers : g # h => reader[g].pc \notin {"snapshot", "products"}
    BY <1>2, <2>1
  <2>3. CASE revisions["catalog"] = 0
    <3>1. reader' = [reader EXCEPT ![h] = Waiting] /\ cache' = [cache EXCEPT !.lock = None]
      BY <1>7, <2>3 DEF ReadSnapshot
    <3>2. /\ reader' \in [Readers -> ReaderRec] /\ reader'[h].pc = "idle"
          /\ \A g \in Readers : g # h => reader'[g] = reader[g]
          /\ cache' \in CacheRec /\ cache'.value = cache.value
      BY <1>1, <3>1 DEF ReaderRec, CacheRec, Waiting
    <3>3. CacheOK'
      BY <1>2, <1>4, <2>2, <3>2 DEF CacheOK
    <3> QED BY <1>1, <1>2, <1>3, <1>4, <3>2, <3>3 DEF ServingOK, CacheForward
  <2>4. CASE revisions["catalog"] # 0
    <3>1. Marked = record["catalog"].version
      <4>1. revisions["catalog"] \in Nat
        BY CatalogTypes DEF CatalogInv, Keys
      <4> QED BY <2>4, <4>1 DEF Marked
    <3>2. reader' = [reader EXCEPT ![h] = [pc |-> "products", catalog |-> Marked]] /\ cache' = cache
      BY <1>7, <2>4, <3>1 DEF ReadSnapshot
    <3>3. /\ reader' \in [Readers -> ReaderRec] /\ reader'[h].pc = "products" /\ reader'[h].catalog = Marked
          /\ \A g \in Readers : g # h => reader'[g] = reader[g]
      BY <1>1, <3>2 DEF ReaderRec
    <3>4. CacheOK'
      BY <1>1, <1>2, <1>4, <2>1, <2>2, <3>2, <3>3 DEF CacheOK
    <3> QED BY <1>1, <1>2, <1>3, <1>4, <3>2, <3>3, <3>4 DEF ServingOK, CacheForward
  <2> QED BY <2>3, <2>4
<1>8. CASE ReadProducts(h)
  <2>1. /\ reader[h].pc = "products" /\ cache.lock = h
        /\ reader[h].catalog \in cache.value.catalog..Marked
    BY <1>2, <1>8 DEF ReadProducts
  <2>2. \A g \in Readers : g # h => reader[g].pc \notin {"snapshot", "products"}
    BY <1>2, <2>1
  <2>3. /\ reader' = [reader EXCEPT ![h] = Waiting]
        /\ \/ cache' = [value |-> [ids |-> index.ids, catalog |-> reader[h].catalog,
                                   revision |-> index.revision],
                        fresh |-> TRUE, lock |-> None]
           \/ cache' = [cache EXCEPT !.lock = None]
    BY <1>8 DEF ReadProducts
  <2>4. /\ reader' \in [Readers -> ReaderRec] /\ reader'[h].pc = "idle"
        /\ \A g \in Readers : g # h => reader'[g] = reader[g]
    BY <1>1, <2>3 DEF ReaderRec, Waiting
  <2>5. /\ cache' \in CacheRec
        /\ \/ cache'.value.catalog = reader[h].catalog /\ cache'.value.revision = index.revision
           \/ cache'.value = cache.value
    <3>1. CASE cache' = [cache EXCEPT !.lock = None]
      BY <1>1, <3>1 DEF CacheRec
    <3>2. CASE cache' = [value |-> [ids |-> index.ids, catalog |-> reader[h].catalog,
                                    revision |-> index.revision],
                         fresh |-> TRUE, lock |-> None]
      <4>1. reader[h].catalog \in Nat /\ index.ids \in SUBSET Products /\ index.revision \in Nat
        BY <1>1 DEF ReaderRec
      <4> QED BY <3>2, <4>1 DEF CacheRec
    <3> QED BY <2>3, <3>1, <3>2
  <2>6. /\ cache'.value.catalog >= cache.value.catalog /\ cache'.value.revision >= cache.value.revision
        /\ cache'.value.catalog <= Marked /\ cache'.value.revision <= index.revision
    BY <1>1, <1>2, <2>1, <2>5
  <2>7. CacheOK'
    BY <1>4, <2>2, <2>4, <2>6 DEF CacheOK
  <2> QED BY <1>1, <1>3, <1>4, <2>4, <2>5, <2>6, <2>7 DEF ServingOK, CacheForward
<1> QED BY <1>5, <1>6, <1>7, <1>8 DEF ReaderStep

LEMMA BucketStays ==
  ASSUME BucketOK, UNCHANGED <<bucket, handler>>, Broker', catalogQueued \subseteq catalogQueued',
         catalogGiven \subseteq catalogGiven'
  PROVE  BucketOK' /\ (KeptOK => KeptOK')
<1>1. record' = record /\ revisions' = revisions /\ index' = index /\ handler' = handler
  BY DEF bucket
<1>2. SeedingOK' /\ WritesOK' /\ (ReconciledOK => ReconciledOK')
  BY <1>1, HandlersLegal DEF BucketOK
<1>3. RecordsOK'
  BY <1>1 DEF BucketOK, RecordsOK
<1>4. \A p : Pending(p) => Pending(p)'
  BY <1>1 DEF Pending, InHand
<1>5. StoredMeansIndexed => StoredMeansIndexed'
  BY <1>1, <1>4 DEF StoredMeansIndexed, IsActive, Seeding
<1> QED BY <1>1, <1>2, <1>3, <1>5 DEF BucketOK, KeptOK

LEMMA CatalogSteps ==
  ASSUME CatalogAssumption, CatalogInv, [CatalogNext]_catalogVars
  PROVE  /\ CatalogInv' /\ RecordsRise /\ CacheForward
         /\ RemovedForGood /\ KeptInv => KeptInv'
<1>1. /\ BucketOK /\ ServingOK /\ Broker /\ Marked \in Nat
      /\ index.revision \in Nat /\ catalogFaults \in 0..MaxCatalogFaults /\ MaxCatalogFaults \in Nat
  BY CatalogParts, MarkedIsNat, CatalogTypes DEF CatalogInv, BucketOK, ServingOK, CatalogAssumption
<1>2. SUFFICES /\ BucketOK' /\ ServingOK' /\ RecordsRise /\ CacheForward
               /\ RemovedForGood /\ KeptOK => KeptOK'
  BY CatalogParts
<1>3. BucketOK' => index'.revision \in Nat
  BY DEF BucketOK
<1>4. ASSUME NEW r \in CatalogReplicas, ReplicaStep(r) \/ CallFails(r) \/ CatalogRestart(r)
      PROVE  /\ BucketOK' /\ RecordsRise /\ index'.revision >= index.revision
             /\ RemovedForGood /\ KeptOK => KeptOK'
  <2>1. CASE CreateIndex(r)
    <3>1. UNCHANGED <<record, revisions>>
      BY <2>1 DEF CreateIndex
    <3> QED BY <2>1, <3>1, CreateIndexKeeps, RecordsStay
  <2>2. CASE PutRecord(r)
    BY <1>1, <2>2, PutRecordKeeps
  <2>3. CASE PutIndex(r)
    <3>1. UNCHANGED <<record, revisions>>
      BY <2>3 DEF PutIndex
    <3> QED BY <2>3, <3>1, PutIndexKeeps, RecordsStay
  <2>4. CASE EnsureIndex(r) \/ ListKeys(r) \/ \E p \in Products : ReadLegacy(r, p)
    <3>1. UNCHANGED bucket
      BY <2>4 DEF EnsureIndex, ListKeys, ReadLegacy
    <3>2. UNCHANGED <<record, revisions>> /\ index' = index
      BY <3>1 DEF bucket
    <3> QED BY <1>1, <2>4, <3>1, <3>2, SeedingMoves, MovesKeep, RecordsStay
  <2>5. CASE (\E e \in Events : CatalogFetch(r, e)) \/ GetRecord(r) \/ GetProduct(r) \/ GetIndex(r) \/ Finish(r)
    <3>1. UNCHANGED bucket
      BY <2>5 DEF CatalogFetch, GetRecord, GetProduct, GetIndex, Finish
    <3>2. UNCHANGED <<record, revisions>> /\ index' = index
      BY <3>1 DEF bucket
    <3> QED BY <1>1, <2>5, <3>1, <3>2, HandlingMoves, MovesKeep, RecordsStay
  <2>6. CASE CallFails(r) \/ CatalogRestart(r)
    <3>1. UNCHANGED bucket
      BY <2>6 DEF CallFails, CatalogRestart
    <3>2. UNCHANGED <<record, revisions>> /\ index' = index
      BY <3>1 DEF bucket
    <3> QED BY <1>1, <2>6, <3>1, <3>2, FailingMoves, MovesKeep, RecordsStay
  <2> QED BY <1>4, <2>1, <2>2, <2>3, <2>4, <2>5, <2>6 DEF ReplicaStep
<1>5. ASSUME NEW r \in CatalogReplicas, ReplicaStep(r) \/ CallFails(r) \/ CatalogRestart(r)
      PROVE  /\ catalogFaults' \in 0..MaxCatalogFaults
             /\ \/ (cache' = cache \/ cache' = [cache EXCEPT !.fresh = FALSE]) /\ reader' = reader
                \/ /\ cache' = [value |-> NoValue, fresh |-> FALSE, lock |-> None]
                   /\ reader' = [h \in Readers |-> Waiting]
  <2>1. CASE ReplicaStep(r)
    <3>1. catalogFaults' = catalogFaults /\ reader' = reader
              /\ (cache' = cache \/ cache' = [cache EXCEPT !.fresh = FALSE])
      BY <2>1 DEF ReplicaStep, EnsureIndex, ListKeys, CreateIndex, ReadLegacy, CatalogFetch, GetRecord, PutRecord,
                  GetProduct, GetIndex, PutIndex, Finish, serving
    <3> QED BY <1>1, <3>1
  <2>2. CASE CallFails(r)
    BY <1>1, <2>2 DEF CallFails, serving
  <2>3. CASE CatalogRestart(r)
    BY <1>1, <2>3 DEF CatalogRestart
  <2> QED BY <1>5, <2>1, <2>2, <2>3
<1>6. ASSUME RecordsRise, BucketOK', ServingOK \/ ServingOK' PROVE Marked' \in Nat /\ Marked' >= Marked
  <2>1. Marked' >= Marked
    BY <1>6 DEF RecordsRise
  <2>2. /\ record' \in [Keys -> Events \cup Legacy \cup {None}] /\ revisions' \in [Keys -> Nat]
        /\ "catalog" \in Keys /\ RecordsOK'
    BY <1>6 DEF BucketOK, Keys
  <2>3. revisions'["catalog"] > 0 => record'["catalog"] \in Events \cup Legacy
    BY <2>2 DEF RecordsOK
  <2> QED BY <2>1, <2>2, <2>3, EventFacts DEF Marked
<1>7. ASSUME NEW r \in CatalogReplicas, ReplicaStep(r) \/ CallFails(r) \/ CatalogRestart(r)
      PROVE  ServingOK' /\ CacheForward
  BY <1>1, <1>3, <1>4, <1>5, <1>6, <1>7, ServingKept
<1>8. ASSUME UNCHANGED bucket PROVE RecordsRise /\ Marked' = Marked /\ index' = index
  BY <1>8, RecordsStay DEF bucket, Marked
<1>9. ASSUME NEW e \in Events, CatalogRedeliver(e)
      PROVE  BucketOK' /\ ServingOK' /\ RecordsRise /\ CacheForward /\ (KeptOK => KeptOK')
  <2>1. /\ UNCHANGED <<bucket, handler>> /\ catalogQueued' = catalogQueued \cup {e} /\ catalogGiven' = catalogGiven
        /\ cache' = cache /\ reader' = reader /\ catalogFaults' \in 0..MaxCatalogFaults
    BY <1>1, <1>9 DEF CatalogRedeliver, serving
  <2>2. Broker'
    BY <1>1, <2>1 DEF Broker
  <2>3. BucketOK' /\ (KeptOK => KeptOK')
    BY <1>1, <2>1, <2>2, BucketStays
  <2> QED BY <1>1, <1>8, <2>1, <2>3, ServingKept
<1>10. ASSUME UNCHANGED <<bucket, handler, catalogBroker>>
       PROVE  BucketOK' /\ (KeptOK => KeptOK') /\ RecordsRise
  <2>1. Broker' /\ catalogQueued' = catalogQueued /\ catalogGiven' = catalogGiven
    BY <1>1, <1>10 DEF Broker, catalogBroker
  <2> QED BY <1>1, <1>8, <1>10, <2>1, BucketStays
<1>11. ASSUME NEW h \in Readers, ReaderStep(h)
       PROVE  BucketOK' /\ ServingOK' /\ RecordsRise /\ CacheForward /\ (KeptOK => KeptOK')
  BY <1>10, <1>11, ReaderSteps
<1>12. CASE CacheExpires \/ UNCHANGED catalogVars
  <2>1. /\ UNCHANGED <<bucket, handler, catalogBroker>> /\ reader' = reader /\ catalogFaults' = catalogFaults
        /\ cache' = cache \/ cache' = [cache EXCEPT !.fresh = FALSE]
    BY <1>12 DEF CacheExpires, catalogVars, serving
  <2> QED BY <1>1, <1>8, <1>10, <2>1, ServingKept
<1> QED BY <1>4, <1>7, <1>9, <1>11, <1>12 DEF CatalogNext

\* The shared catalog (catalog_kv.py, nats_events.py), for any replicas, readers,
\* products, events and faults: a write that passes the revision check was decided
\* on the present value, the migration misses no active product, and the cache is
\* never newer than the bucket.
THEOREM CatalogInvariant ==
  ASSUME CatalogAssumption PROVE CatalogSpec => []CatalogInv
<1>1. CatalogInit => CatalogInv
  BY CatalogInitInv DEF KeptInv
<1>2. CatalogInv /\ [CatalogNext]_catalogVars => CatalogInv'
  BY CatalogSteps
<1> QED BY <1>1, <1>2, PTL DEF CatalogSpec

\* What is stored and what is cached never goes back to an older version: neither
\* a product's record nor the marker, and not the value the handlers of a replica
\* answer from, unless it starts again.
THEOREM CatalogGoesForward ==
  ASSUME CatalogAssumption PROVE CatalogSpec => VersionsRise /\ CacheNeverRewinds
<1>1. CatalogInv /\ [CatalogNext]_catalogVars => RecordsRise /\ CacheForward
  BY CatalogSteps
<1>2. CatalogInv /\ [CatalogNext]_catalogVars =>
         [\A k \in Keys : revisions[k] > 0 =>
             revisions'[k] > 0 /\ record'[k].version >= record[k].version]_catalogVars
  BY <1>1 DEF RecordsRise
<1>3. CatalogInv /\ [CatalogNext]_catalogVars =>
         [\/ cache'.value = NoValue
          \/ /\ cache'.value.catalog >= cache.value.catalog
             /\ cache'.value.revision >= cache.value.revision]_catalogVars
  BY <1>1 DEF CacheForward
<1> QED BY <1>2, <1>3, CatalogInvariant, PTL DEF CatalogSpec, VersionsRise, CacheNeverRewinds

\* If a removed product is not announced again, every active product is in the index
\* or has an event that is still to be handled or was given up, and no version falls.
THEOREM CatalogIsKept ==
  ASSUME CatalogAssumption, RemovedForGood PROVE CatalogSpec => CatalogKept
<1>1. CatalogInit => KeptInv
  BY CatalogInitInv
<1>2. KeptInv /\ [CatalogNext]_catalogVars => KeptInv'
  BY CatalogSteps DEF KeptInv
<1>3. KeptInv => CatalogTypeOK /\ StoredMeansIndexed
  BY DEF KeptInv, CatalogInv
<1> QED BY <1>1, <1>2, <1>3, CatalogGoesForward, PTL DEF CatalogSpec, CatalogKept

=============================================================================
