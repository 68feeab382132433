------------------------ MODULE CartAggregateProofs ------------------------
(***************************************************************************)
(* Proofs about CartAggregate for any replicas, commands, retry limits and *)
(* faults.                                                                 *)
(***************************************************************************)
EXTENDS CartAggregate, TLAPS

----------------------------------------------------------------------------
(* The transitions                                                         *)

\* An applied transition has the next version, a rejection the same one, and a
\* clear is applied only to the version it names (RedisAggregateCartStore).
LEMMA TransitionOK ==
  ASSUME NEW k \in Carts, NEW v \in Nat, NEW c \in Commands, NEW f \in BOOLEAN,
         NEW a, a = Transition(k, v, c, f)
  PROVE  /\ a \in Answers
         /\ a.kind # "none"
         /\ Applied(a) => a.version = v + 1
         /\ ~Applied(a) => a.version = v
         /\ a.kind = "cleared" => c.kind = "clear" /\ c.expected = v
<1>1. EmptyCart \in Carts
  BY QuantityAssumption DEF EmptyCart, Carts
<1>2. Rejection(v) \in Answers
  BY <1>1 DEF Rejection, Answers
<1>3. CASE c.kind # "add"
  BY <1>1, <1>2, <1>3, CommandsAssumption
     DEF Transition, Clear, Rejection, Answers, Applied
<1>4. CASE c.kind = "add"
  <2>1. c.product \in Products /\ c.quantity \in Int
    BY <1>4, CommandsAssumption
  <2>2. CASE c.quantity > 0 /\ f /\ k[c.product] + c.quantity <= QuantityLimit
    <3>1. [k EXCEPT ![c.product] = k[c.product] + c.quantity] \in Carts
      BY <2>1, <2>2, QuantityAssumption DEF Carts
    <3> QED BY <1>4, <2>2, <3>1 DEF Transition, AddItem, Answers, Applied
  <2>3. CASE ~(c.quantity > 0 /\ f /\ k[c.product] + c.quantity <= QuantityLimit)
    BY <1>2, <1>4, <2>3 DEF Transition, AddItem, Rejection, Applied
  <2> QED BY <2>2, <2>3
<1> QED BY <1>3, <1>4

\* The initial values are well typed.
LEMMA EmptyOK ==
  /\ EmptyCart \in Carts
  /\ NoAnswer \in Answers
  /\ EmptyView \in [version : Nat, cart : Carts]
  BY QuantityAssumption DEF EmptyCart, Carts, NoAnswer, Answers, EmptyView

----------------------------------------------------------------------------
(* What is left unchanged by the steps of each group                       *)

\* The steps that write the aggregate: Commit and CommitReplyLost.
Writes(r) == CommitGuard(r) /\ WriteAnswer(r) /\ UNCHANGED <<sent, published>>

\* Only the commit script writes the cart, its version and the answers.
LEMMA OnlyCommitsWriteCart ==
  ASSUME CartNext
  PROVE  UNCHANGED store \/ \E r \in Replicas : Writes(r)
<1>1. ASSUME NEW r \in Replicas, Commit(r) \/ CommitReplyLost(r)
      PROVE  Writes(r)
  BY <1>1 DEF Commit, CommitReplyLost, Writes, broker
<1>2. (\E r \in Replicas : Commit(r) \/ CommitReplyLost(r)) \/ UNCHANGED store
  BY DEF CartNext, ReplicaStep, CheckProduct, Load, CommitDuplicate, CommitConflict,
     Publish, Ack, Abandon, StoreFails, Deliver, Send, Redeliver, Project, ProjectAgain,
     CatalogEvent
<1> QED BY <1>1, <1>2

\* What a write stores.
LEMMA WriteFacts ==
  ASSUME CartInv, NEW r \in Replicas, Writes(r)
  PROVE  \E c \in Commands, a \in Answers :
           /\ c = replica[r].command /\ c \in sent
           /\ journal[c].kind = "none" /\ a.kind # "none"
           /\ journal' = [journal EXCEPT ![c] = a]
           /\ a = Transition(cart, version, c, replica[r].found)
           /\ Applied(a) => a.version = version + 1 /\ version' = version + 1 /\ cart' = a.cart
           /\ ~Applied(a) => a.version = version /\ version' = version /\ cart' = cart
           /\ a.kind = "cleared" => c.kind = "clear" /\ c.expected = version
           /\ UNCHANGED <<sent, published>>
<1> DEFINE x == replica[r]
           a == Transition(x.cart, x.version, x.command, x.found)
<1>1. /\ x.pc = "commit" /\ x.command \in sent /\ sent \in SUBSET Commands
      /\ x.version = version /\ x.cart = cart /\ version \in Nat /\ cart \in Carts
      /\ x.found \in BOOLEAN /\ journal[x.command].kind = "none"
  BY DEF CartInv, CartTypeOK, ReplicaStates, ReplicaOK, Writes, CommitGuard
<1>2. /\ a \in Answers /\ a.kind # "none"
      /\ Applied(a) => a.version = version + 1
      /\ ~Applied(a) => a.version = version
      /\ a.kind = "cleared" => x.command.kind = "clear" /\ x.command.expected = version
  <2> HIDE DEF x
  <2> QED BY <1>1, TransitionOK
<1>3. /\ journal' = [journal EXCEPT ![x.command] = a]
      /\ version' = IF Applied(a) THEN version + 1 ELSE version
      /\ cart' = IF Applied(a) THEN a.cart ELSE cart
      /\ UNCHANGED <<sent, published>>
  BY DEF Writes, WriteAnswer
<1>4. a = Transition(cart, version, x.command, x.found)
  BY <1>1
<1> HIDE DEF a
<1> QED BY <1>1, <1>2, <1>3, <1>4

----------------------------------------------------------------------------
(* Type correctness                                                        *)

\* Every step keeps the types.
LEMMA TypeStep ==
  ASSUME CartInv, [CartNext]_cartVars
  PROVE  CartTypeOK'
<1> USE DEF CartTypeOK
<1>a. CartTypeOK
  BY DEF CartInv
<1>b. /\ Idle \in ReplicaStates
      /\ \A c \in Commands, f \in BOOLEAN, n \in 0..(MaximumStoreAttempts - 1) :
           Loading(c, f, n) \in ReplicaStates
  <2>1. Idle \in ReplicaStates
    BY EmptyOK, StoreAssumption DEF Idle, ReplicaStates
  <2>2. ASSUME NEW c \in Commands, NEW f \in BOOLEAN,
               NEW n \in 0..(MaximumStoreAttempts - 1)
        PROVE  Loading(c, f, n) \in ReplicaStates
    BY <2>1 DEF Loading, ReplicaStates
  <2> QED BY <2>1, <2>2
<1>c. \A r \in Replicas : replica[r].pc # "idle" => replica[r].command \in Commands
  BY <1>a DEF CartInv, ReplicaOK
<1>e. \A r \in Replicas : \A pc \in {"publish", "ack"} :
        [replica[r] EXCEPT !.pc = pc] \in ReplicaStates
  BY <1>a DEF ReplicaStates
<1>1. CASE UNCHANGED cartVars
  BY <1>a, <1>1 DEF cartVars, store, broker, readers
<1>2. ASSUME NEW c \in Commands, Send(c) \/ Redeliver(c) \/ Project(c) \/ ProjectAgain(c)
      PROVE  CartTypeOK'
  <2>1. CASE Send(c)
    BY <1>a, <2>1 DEF Send, store, readers
  <2>2. CASE Redeliver(c)
    BY <1>a, <2>2, StoreAssumption DEF Redeliver, store, readers
  <2>3. CASE Project(c)
    <3>1. journal[c] \in Answers
      BY <1>a
    <3>2. view' \in [version : Nat, cart : Carts]
      BY <1>a, <2>3, <3>1 DEF Project, Answers
    <3> QED BY <1>a, <2>3, <3>2 DEF Project, store, broker
  <2>4. CASE ProjectAgain(c)
    BY <1>a, <2>4, StoreAssumption DEF ProjectAgain, store, broker
  <2> QED BY <1>2, <2>1, <2>2, <2>3, <2>4
<1>3. ASSUME NEW p \in Products, CatalogEvent(p)
      PROVE  CartTypeOK'
  BY <1>a, <1>3, StoreAssumption DEF CatalogEvent, store, broker, readers
<1>4. ASSUME NEW r \in Replicas, NEW c \in Commands, Deliver(r, c)
      PROVE  CartTypeOK'
  <2>1. 0 \in 0..(MaximumStoreAttempts - 1)
    BY StoreAssumption
  <2>2. replica' = [replica EXCEPT ![r] =
          [Loading(c, FALSE, 0) EXCEPT !.pc = IF c.kind = "add" THEN "check" ELSE "load"]]
    BY <1>4 DEF Deliver
  <2>3. [Loading(c, FALSE, 0) EXCEPT !.pc = IF c.kind = "add" THEN "check" ELSE "load"]
          \in ReplicaStates
    BY <1>b, <2>1 DEF ReplicaStates
  <2>4. replica' \in [Replicas -> ReplicaStates]
    BY <1>a, <2>2, <2>3
  <2> QED BY <1>a, <1>4, <2>4 DEF Deliver, store, readers
<1>5. ASSUME NEW r \in Replicas, Commit(r) \/ CommitReplyLost(r)
      PROVE  CartTypeOK'
  <2>1. Writes(r)
    BY <1>5 DEF Commit, CommitReplyLost, Writes, broker
  <2>2. cart' \in Carts /\ version' \in Nat /\ journal' \in [Commands -> Answers]
    BY <1>a, <2>1, WriteFacts DEF Answers
  <2>3. CASE Commit(r)
    BY <1>a, <1>e, <2>2, <2>3 DEF Commit, broker, readers
  <2>4. CASE CommitReplyLost(r)
    <3>1. /\ replica[r].pc # "idle" /\ replica[r].found \in BOOLEAN
          /\ replica[r].attempts + 1 \in 0..(MaximumStoreAttempts - 1)
      BY <1>a, <2>4, StoreAssumption DEF CommitReplyLost, CommitGuard, ReplicaStates
    <3> QED BY <1>a, <1>b, <1>c, <2>2, <2>4, <3>1, StoreAssumption
            DEF CommitReplyLost, broker, readers
  <2> QED BY <1>5, <2>3, <2>4
<1>6. ASSUME NEW r \in Replicas, ReplicaStep(r), ~Commit(r)
      PROVE  CartTypeOK'
  <2>1. CASE CheckProduct(r)
    <3>1. replica[r].command \in Commands /\ 0 \in 0..(MaximumStoreAttempts - 1)
      BY <1>c, <2>1, StoreAssumption DEF CheckProduct
    <3>2. (replica[r].command.product \in available) \in BOOLEAN
      OBVIOUS
    <3>3. Loading(replica[r].command, replica[r].command.product \in available, 0)
            \in ReplicaStates
      BY <1>b, <3>1, <3>2, Zenon
    <3> QED BY <1>a, <2>1, <3>3 DEF CheckProduct, store, broker, readers
  <2>2. CASE Load(r)
    <3>1. [replica[r] EXCEPT !.pc = "commit", !.cart = cart, !.version = version]
            \in ReplicaStates
      BY ZenonT(30), <1>a DEF ReplicaStates
    <3> QED BY <1>a, <2>2, <3>1 DEF Load, store, broker, readers
  <2>3. CASE CommitDuplicate(r)
    BY <1>a, <1>e, <2>3 DEF CommitDuplicate, store, broker, readers
  <2>4. CASE CommitConflict(r)
    <3>1. replica[r].command \in sent /\ replica[r].found \in BOOLEAN
      BY <1>a, <2>4 DEF CommitConflict, CartInv, ReplicaOK, ReplicaStates
    <3>2. replica[r].attempts + 1 < MaximumStoreAttempts =>
            replica[r].attempts + 1 \in 0..(MaximumStoreAttempts - 1)
      BY <1>a, StoreAssumption DEF ReplicaStates
    <3> QED BY <1>a, <1>b, <2>4, <3>1, <3>2 DEF CommitConflict, Requeue, store, readers
  <2>5. CASE Publish(r)
    BY <1>a, <1>c, <1>e, <2>5 DEF Publish, store, broker, readers
  <2>6. CASE Ack(r)
    BY <1>a, <1>b, <2>6 DEF Ack, store, broker, readers
  <2> QED BY <1>6, <2>1, <2>2, <2>3, <2>4, <2>5, <2>6 DEF ReplicaStep
<1>7. ASSUME NEW r \in Replicas, Abandon(r)
      PROVE  CartTypeOK'
  <2>1. replica[r].command \in sent
    BY <1>7 DEF Abandon, CartInv, ReplicaOK
  <2> QED BY <1>a, <1>b, <1>7, <2>1, StoreAssumption DEF Abandon, Requeue, store, readers
<1>8. ASSUME NEW r \in Replicas, StoreFails(r)
      PROVE  CartTypeOK'
  <2>1. /\ replica[r].pc # "idle" /\ replica[r].found \in BOOLEAN
        /\ replica[r].attempts + 1 \in 0..(MaximumStoreAttempts - 1)
    BY <1>a, <1>8, StoreAssumption DEF StoreFails, ReplicaStates
  <2> QED BY <1>a, <1>b, <1>c, <1>8, <2>1, StoreAssumption
          DEF StoreFails, store, broker, readers
<1> QED BY <1>1, <1>2, <1>3, <1>4, <1>5, <1>6, <1>7, <1>8 DEF CartNext

----------------------------------------------------------------------------
(* The invariant                                                           *)

\* Seen(v) in the next state, for a v of this one.
SeenNext(v) == v = 0 \/ \E c \in published' : Applied(journal'[c]) /\ journal'[c].version = v

\* An answer is never replaced by a step and none is withdrawn.
LEMMA AnswersKept ==
  ASSUME CartInv, [CartNext]_cartVars
  PROVE  /\ \A c \in Commands : journal[c].kind # "none" => journal'[c] = journal[c]
         /\ published \subseteq published'
<1>1. ASSUME UNCHANGED store
      PROVE  \A c \in Commands : journal[c].kind # "none" => journal'[c] = journal[c]
  BY <1>1 DEF store
<1>2. ASSUME NEW r \in Replicas, Writes(r)
      PROVE  \A c \in Commands : journal[c].kind # "none" => journal'[c] = journal[c]
  BY <1>2, WriteFacts DEF CartInv, CartTypeOK
<1>3. \A c \in Commands : journal[c].kind # "none" => journal'[c] = journal[c]
  BY <1>1, <1>2, OnlyCommitsWriteCart DEF cartVars
<1>4. published \subseteq published'
  BY DEF CartNext, ReplicaStep, CheckProduct, Load, CommitDuplicate, CommitConflict, Commit,
     CommitReplyLost, Publish, Ack, Abandon, StoreFails, Deliver, Send, Redeliver, Project,
     ProjectAgain, CatalogEvent, cartVars
<1> QED BY <1>3, <1>4

\* What a sender saw stays seen.
LEMMA SeenStable ==
  ASSUME CartInv, [CartNext]_cartVars, NEW v, Seen(v)
  PROVE  SeenNext(v)
<1>1. /\ \A c \in published : journal'[c] = journal[c]
      /\ published \subseteq published'
  BY AnswersKept DEF CartInv, CartTypeOK, SentOK
<1> QED BY <1>1 DEF Seen, SeenNext, Done

\* Announced answers and sent clears: SentOK is kept.
LEMMA SentStep ==
  ASSUME CartInv, [CartNext]_cartVars
  PROVE  SentOK'
<1>1. \A c \in Commands : journal[c].kind # "none" => journal'[c] = journal[c]
  BY AnswersKept
<1>2. \A c \in published' : c \in published
        \/ \E r \in Replicas : replica[r].pc = "publish" /\ c = replica[r].command
  BY DEF CartNext, ReplicaStep, CheckProduct, Load, CommitDuplicate, CommitConflict, Commit,
     CommitReplyLost, Publish, Ack, Abandon, StoreFails, Deliver, Send, Redeliver, Project,
     ProjectAgain, CatalogEvent, cartVars
<1>3. \A c \in published' : journal[c].kind # "none" /\ c \in Commands
  BY <1>2 DEF CartInv, CartTypeOK, ReplicaOK, SentOK
<1>4. \A c \in published' : journal'[c].kind # "none"
  BY <1>1, <1>3
<1>5. (\E d \in Commands : Send(d)) \/ sent' = sent
  BY DEF CartNext, ReplicaStep, CheckProduct, Load, CommitDuplicate, CommitConflict, Commit,
     CommitReplyLost, Publish, Ack, Abandon, StoreFails, Deliver, Redeliver, Project,
     ProjectAgain, CatalogEvent, cartVars, broker
<1>6. \A c \in sent' : c \in sent \/ (c.kind = "clear" => Seen(c.expected))
  BY <1>5 DEF Send
<1>7. \A c \in sent' : c.kind = "clear" => Seen(c.expected)
  BY <1>6 DEF CartInv, SentOK
<1>8. \A c \in sent' : c.kind = "clear" => SeenNext(c.expected)
  BY <1>7, SeenStable
<1> QED BY <1>4, <1>8 DEF SentOK, SeenNext, Seen, Done

\* A write adds one version to the history; nothing else touches it.
LEMMA HistoryStep ==
  ASSUME CartInv, [CartNext]_cartVars
  PROVE  HistoryLinear'
<1>1. CASE UNCHANGED store
  BY <1>1 DEF CartInv, HistoryLinear, Done, store
<1>2. ASSUME NEW r \in Replicas, Writes(r)
      PROVE  HistoryLinear'
  <2>1. PICK c \in Commands, a \in Answers :
           /\ journal[c].kind = "none" /\ a.kind # "none"
           /\ journal' = [journal EXCEPT ![c] = a]
           /\ Applied(a) => a.version = version + 1 /\ version' = version + 1 /\ cart' = a.cart
           /\ ~Applied(a) => a.version = version /\ version' = version /\ cart' = cart
    BY <1>2, WriteFacts
  <2> DEFINE done == {d \in Commands : Done(d)}
             done2 == {d \in Commands : Applied(journal'[d])}
  <2>2. /\ version \in Nat /\ journal \in [Commands -> Answers]
        /\ {journal[d].version : d \in done} = 1..version
        /\ \A d, e \in done : journal[d].version = journal[e].version => d = e
        /\ \A d \in done : journal[d].version = version => journal[d].cart = cart
    BY DEF CartInv, CartTypeOK, HistoryLinear
  <2>3. c \notin done /\ journal'[c] = a /\ \A d \in Commands \ {c} : journal'[d] = journal[d]
    BY <2>1, <2>2 DEF Done, Applied
  <2>4. \A d \in done : journal[d].version \in 1..version
    BY <2>2
  <2>5. CASE ~Applied(a)
    <3>1. done2 = done /\ \A d \in done : journal'[d] = journal[d]
      BY <2>3, <2>5 DEF Done
    <3>2. {journal'[d].version : d \in done2} = 1..version'
      BY <2>1, <2>2, <2>5, <3>1
    <3>3. \A d, e \in done2 : journal'[d].version = journal'[e].version => d = e
      BY <2>2, <3>1
    <3>4. \A d \in done2 : journal'[d].version = version' => journal'[d].cart = cart'
      BY <2>1, <2>2, <2>5, <3>1
    <3> QED BY <3>2, <3>3, <3>4 DEF HistoryLinear, Done
  <2>6. CASE Applied(a)
    <3>1. done2 = done \cup {c} /\ \A d \in done : journal'[d] = journal[d]
      BY <2>3, <2>6 DEF Done
    <3>2. journal'[c].version = version + 1 /\ version' = version + 1 /\ journal'[c].cart = cart'
      BY <2>1, <2>3, <2>6
    <3>3. {journal'[d].version : d \in done2} = {journal[d].version : d \in done} \cup {version + 1}
      BY <3>1, <3>2
    <3>4. {journal'[d].version : d \in done2} = 1..version'
      <4>1. (1..version) \cup {version + 1} = 1..(version + 1)
        BY <2>2
      <4> HIDE DEF done, done2
      <4> QED BY <2>2, <3>2, <3>3, <4>1
    <3>5. \A d, e \in done2 : journal'[d].version = journal'[e].version => d = e
      BY <2>2, <2>4, <3>1, <3>2
    <3>6. \A d \in done2 : journal'[d].version = version' => journal'[d].cart = cart'
      BY <2>2, <2>4, <3>1, <3>2
    <3> QED BY <3>4, <3>5, <3>6 DEF HistoryLinear, Done
  <2> QED BY <2>5, <2>6
<1> QED BY <1>1, <1>2, OnlyCommitsWriteCart DEF cartVars

\* A clear is applied to a version its sender saw.
LEMMA ClearStep ==
  ASSUME CartInv, [CartNext]_cartVars
  PROVE  ClearsWhatWasSeen'
<1>1. /\ \A c \in Commands : journal[c].kind # "none" => journal'[c] = journal[c]
      /\ version \in Nat /\ journal \in [Commands -> Answers]
  BY AnswersKept DEF CartInv, CartTypeOK
<1>2. ASSUME NEW c \in Commands, journal'[c].kind = "cleared", journal[c].kind # "none"
      PROVE  SeenNext(journal'[c].version - 1)
  <2>1. journal'[c] = journal[c]
    BY <1>1, <1>2
  <2>2. Seen(journal[c].version - 1)
    BY <1>2, <2>1 DEF CartInv, ClearsWhatWasSeen
  <2>3. SeenNext(journal[c].version - 1)
    BY <1>1, <2>2, SeenStable DEF Answers
  <2> QED BY <2>1, <2>3
<1>3. ASSUME NEW c \in Commands, journal'[c].kind = "cleared", journal[c].kind = "none"
      PROVE  SeenNext(journal'[c].version - 1)
  <2>1. ~UNCHANGED store
    BY <1>3 DEF store
  <2>2. PICK r \in Replicas : Writes(r)
    BY <2>1, OnlyCommitsWriteCart DEF cartVars
  <2>3. PICK d \in Commands, a \in Answers :
           /\ d \in sent
           /\ journal' = [journal EXCEPT ![d] = a]
           /\ Applied(a) => a.version = version + 1
           /\ a.kind = "cleared" => d.kind = "clear" /\ d.expected = version
    BY <2>2, WriteFacts
  <2>4. journal'[c] = a /\ c = d
    BY <1>1, <1>3, <2>3
  <2>5. journal'[c].version - 1 = version /\ Seen(version)
    BY <1>1, <1>3, <2>3, <2>4 DEF CartInv, SentOK, Applied
  <2>6. SeenNext(version)
    BY <2>5, SeenStable
  <2> QED BY <2>5, <2>6
<1>4. \A c \in Commands : journal'[c].kind = "cleared" => SeenNext(journal'[c].version - 1)
  BY <1>2, <1>3
<1> QED BY <1>4 DEF ClearsWhatWasSeen, SeenNext, Seen, Done

\* What the replicas hold in memory stays behind or equal to the stored cart.
LEMMA ReplicaStepOK ==
  ASSUME CartInv, [CartNext]_cartVars
  PROVE  \A r \in Replicas : ReplicaOK(r)'
<1> DEFINE Fine(x) == /\ x.pc # "idle" => x.command \in sent'
                      /\ x.pc = "commit" => /\ x.version <= version'
                                            /\ x.version = version' => x.cart = cart'
                      /\ x.pc \in {"publish", "ack"} => journal'[x.command].kind # "none"
<1>1. /\ version \in Nat /\ version' \in Nat /\ version <= version'
      /\ version' = version => cart' = cart
      /\ sent \subseteq sent' /\ sent \in SUBSET Commands
      /\ replica \in [Replicas -> ReplicaStates]
  <2>1. version' \in Nat
    BY TypeStep DEF CartTypeOK
  <2>2. version \in Nat /\ sent \in SUBSET Commands /\ replica \in [Replicas -> ReplicaStates]
    BY DEF CartInv, CartTypeOK
  <2>3. version <= version' /\ (version' = version => cart' = cart)
    <3>1. CASE UNCHANGED store
      BY <2>2, <3>1 DEF store
    <3>2. CASE \E r \in Replicas : Writes(r)
      BY <2>2, <3>2, WriteFacts
    <3> QED BY <3>1, <3>2, OnlyCommitsWriteCart DEF cartVars
  <2>4. sent \subseteq sent'
    BY DEF CartNext, ReplicaStep, CheckProduct, Load, CommitDuplicate, CommitConflict, Commit,
       CommitReplyLost, Publish, Ack, Abandon, StoreFails, Deliver, Send, Redeliver, Project,
       ProjectAgain, CatalogEvent, cartVars, broker
  <2> QED BY <2>1, <2>2, <2>3, <2>4
<1>2. \A c \in Commands : journal[c].kind # "none" => journal'[c] = journal[c]
  BY AnswersKept
<1>3. \A r \in Replicas : Fine(replica[r])
  BY <1>1, <1>2 DEF CartInv, ReplicaOK, ReplicaStates
<1>4. Fine(Idle)
  BY DEF Idle
<1>5. ASSUME NEW c \in sent', NEW f, NEW n
      PROVE  Fine(Loading(c, f, n))
  BY DEF Loading, Idle
<1>a. \A r \in Replicas : replica[r].pc # "idle" => replica[r].command \in sent'
  BY <1>1 DEF CartInv, ReplicaOK
<1>b. ASSUME NEW r \in Replicas, NEW pc \in {"publish", "ack"}, replica[r].pc # "idle",
             replica' = [replica EXCEPT ![r].pc = pc],
             journal'[replica[r].command].kind # "none"
      PROVE  \E x : replica' = [replica EXCEPT ![r] = x] /\ Fine(x)
  <2> DEFINE x == [replica[r] EXCEPT !.pc = pc]
  <2>1. x.pc = pc /\ x.command = replica[r].command
    BY <1>1 DEF ReplicaStates
  <2>2. replica' = [replica EXCEPT ![r] = x]
    BY <1>b
  <2> HIDE DEF x
  <2>3. Fine(x)
    BY <1>a, <1>b, <2>1
  <2> QED BY <2>2, <2>3
<1>6. \/ replica' = replica
      \/ \E q \in Replicas : \E x : replica' = [replica EXCEPT ![q] = x] /\ Fine(x)
  <2> DEFINE Goal(q) == \E x : replica' = [replica EXCEPT ![q] = x] /\ Fine(x)
  <2> HIDE DEF Fine
  <2>1. ASSUME NEW r \in Replicas, Ack(r) \/ Abandon(r)
        PROVE  Goal(r)
    BY <1>4, <2>1 DEF Ack, Abandon
  <2>2. ASSUME NEW r \in Replicas, CheckProduct(r)
        PROVE  Goal(r)
    BY <1>5, <1>a, <2>2 DEF CheckProduct
  <2>3. ASSUME NEW r \in Replicas, CommitConflict(r)
        PROVE  Goal(r)
    BY <1>4, <1>5, <1>a, <2>3 DEF CommitConflict
  <2>4. ASSUME NEW r \in Replicas, CommitReplyLost(r) \/ StoreFails(r)
        PROVE  Goal(r)
    BY <1>5, <1>a, <2>4 DEF CommitReplyLost, CommitGuard, StoreFails
  <2>5. ASSUME NEW r \in Replicas, NEW c \in Commands, Deliver(r, c)
        PROVE  Goal(r)
    <3> DEFINE x == [Loading(c, FALSE, 0) EXCEPT !.pc = IF c.kind = "add" THEN "check" ELSE "load"]
    <3>1. c \in sent'
      BY <1>1, <2>5 DEF Deliver, CartInv, CartTypeOK
    <3>2. x.pc \in {"check", "load"} /\ x.command = c
      BY DEF Loading, Idle
    <3>3. replica' = [replica EXCEPT ![r] = x]
      BY <2>5 DEF Deliver
    <3> HIDE DEF x
    <3>4. Fine(x)
      BY <3>1, <3>2 DEF Fine
    <3> QED BY <3>3, <3>4
  <2>6. ASSUME NEW r \in Replicas, Load(r)
        PROVE  Goal(r)
    <3> DEFINE x == [replica[r] EXCEPT !.pc = "commit", !.cart = cart, !.version = version]
    <3>1. /\ x.pc = "commit" /\ x.command = replica[r].command
          /\ x.cart = cart /\ x.version = version
      BY <1>1 DEF ReplicaStates
    <3>2. replica' = [replica EXCEPT ![r] = x]
      BY <2>6 DEF Load
    <3>3. x.command \in sent'
      BY <1>a, <2>6, <3>1 DEF Load
    <3> HIDE DEF x
    <3>4. Fine(x)
      BY <1>1, <3>1, <3>3 DEF Fine
    <3> QED BY <3>2, <3>4
  <2>7. ASSUME NEW r \in Replicas, CommitDuplicate(r) \/ Publish(r)
        PROVE  Goal(r)
    <3>1. journal[replica[r].command].kind # "none" /\ replica[r].pc # "idle"
      BY <2>7 DEF CommitDuplicate, Publish, CartInv, ReplicaOK
    <3>2. journal'[replica[r].command].kind # "none"
      BY <1>2, <3>1 DEF CartInv, ReplicaOK, CartTypeOK
    <3> QED BY <1>b, <2>7, <3>1, <3>2 DEF CommitDuplicate, Publish
  <2>8. ASSUME NEW r \in Replicas, Commit(r)
        PROVE  Goal(r)
    <3>1. Writes(r) /\ replica[r].pc # "idle"
      BY <2>8 DEF Commit, Writes, CommitGuard, broker
    <3>2. journal'[replica[r].command].kind # "none"
      BY <3>1, WriteFacts DEF CartInv, CartTypeOK
    <3> QED BY <1>b, <2>8, <3>1, <3>2 DEF Commit
  <2> HIDE DEF Goal
  <2>9. replica' = replica \/ \E q \in Replicas : Goal(q)
    BY <2>1, <2>2, <2>3, <2>4, <2>5, <2>6, <2>7, <2>8
       DEF CartNext, ReplicaStep, Send, Redeliver, Project, ProjectAgain, CatalogEvent, cartVars
  <2> QED BY <2>9 DEF Goal
<1>7. \A r \in Replicas : Fine(replica'[r])
  <2>1. ASSUME NEW q \in Replicas, NEW x, Fine(x), replica' = [replica EXCEPT ![q] = x],
               NEW r \in Replicas
        PROVE  Fine(replica'[r])
    <3>1. CASE r = q
      BY <1>1, <2>1, <3>1
    <3>2. CASE r # q
      BY <1>1, <1>3, <2>1, <3>2
    <3> QED BY <3>1, <3>2
  <2> QED BY <1>3, <1>6, <2>1
<1> QED BY <1>7 DEF ReplicaOK

----------------------------------------------------------------------------
(* The theorems                                                            *)

\* The inductive invariant holds in every reachable state of the replicas.
THEOREM CartInvariant == CartSpec => []CartInv
<1>1. CartInit => CartInv
  <2> SUFFICES ASSUME CartInit PROVE CartInv
    OBVIOUS
  <2>1. Idle \in ReplicaStates
    BY EmptyOK, StoreAssumption DEF Idle, ReplicaStates
  <2>2. CartTypeOK
    BY <2>1, EmptyOK, StoreAssumption DEF CartInit, CartTypeOK
  <2>3. \A r \in Replicas : ReplicaOK(r)
    BY DEF CartInit, ReplicaOK, Idle
  <2>4. SentOK
    BY DEF CartInit, SentOK
  <2>5. \A c \in Commands : ~Done(c) /\ journal[c].kind # "cleared"
    BY DEF CartInit, Done, Applied, NoAnswer
  <2>6. HistoryLinear
    BY <2>5 DEF HistoryLinear, CartInit
  <2>7. ClearsWhatWasSeen
    BY <2>5 DEF ClearsWhatWasSeen
  <2> QED BY <2>2, <2>3, <2>4, <2>6, <2>7 DEF CartInv
<1>2. CartInv /\ [CartNext]_cartVars => CartInv'
  BY TypeStep, SentStep, HistoryStep, ClearStep, ReplicaStepOK DEF CartInv
<1> QED BY <1>1, <1>2, PTL DEF CartSpec

\* Type correctness: among the rest, no command is tried more often than
\* MaximumStoreAttempts allows.
THEOREM CartTypes == CartSpec => []CartTypeOK
  BY CartInvariant, PTL DEF CartInv

\* No cart update is lost or applied twice, for any number of replicas.
THEOREM CartHistory == CartSpec => []HistoryLinear
  BY CartInvariant, PTL DEF CartInv

\* A clear never removes an item its sender did not see.
THEOREM CartClears == CartSpec => []ClearsWhatWasSeen
  BY CartInvariant, PTL DEF CartInv

\* A redelivered command is given the answer of its first delivery.
THEOREM CartAnswers == CartSpec => AnswersStable
<1>1. CartInv /\ [CartNext]_cartVars =>
        [\A c \in Commands : journal[c].kind # "none" => journal'[c] = journal[c]]_cartVars
  BY AnswersKept
<1> QED BY <1>1, CartInvariant, PTL DEF CartSpec, AnswersStable

\* The ledger decides with the same transitions as the replicas.
LEMMA SameTransitions ==
  /\ Ledger!EmptyCart = EmptyCart /\ Ledger!NoAnswer = NoAnswer
  /\ \A a : Ledger!Applied(a) <=> Applied(a)
  /\ \A k, v, c, f : Ledger!Transition(k, v, c, f) = Transition(k, v, c, f)
<1>1. Ledger!EmptyCart = EmptyCart
  BY DEF EmptyCart, Ledger!EmptyCart
<1>2. Ledger!NoAnswer = NoAnswer
  BY <1>1 DEF NoAnswer, Ledger!NoAnswer
<1>3. \A a : Ledger!Applied(a) <=> Applied(a)
  BY DEF Applied, Ledger!Applied
<1>4. \A v : Ledger!Rejection(v) = Rejection(v)
  BY <1>1 DEF Rejection, Ledger!Rejection
<1>5. \A v, c : Ledger!Clear(v, c) = Clear(v, c)
  BY <1>1, <1>4, Zenon DEF Clear, Ledger!Clear
<1>6. \A k, v, c, f : Ledger!AddItem(k, v, c, f) = AddItem(k, v, c, f)
  BY <1>4, Zenon DEF AddItem, Ledger!AddItem
<1>7. \A k, v, c, f : Ledger!Transition(k, v, c, f) = Transition(k, v, c, f)
  BY <1>5, <1>6, Zenon DEF Transition, Ledger!Transition
<1> QED BY <1>1, <1>2, <1>3, <1>7

\* The replicas, their retries and their faults together implement the ledger
\* that answers each command once, atomically.
THEOREM CartRefinesLedger == CartSpec => RefinesLedger
<1>1. CartInit => Ledger!LedgerInit
  BY SameTransitions, Zenon DEF CartInit, Ledger!LedgerInit
<1>2. CartInv /\ [CartNext]_cartVars => [Ledger!LedgerNext]_(Ledger!ledger)
  <2> SUFFICES ASSUME CartInv, [CartNext]_cartVars
               PROVE  [Ledger!LedgerNext]_(Ledger!ledger)
    OBVIOUS
  <2>1. CASE UNCHANGED <<cart, version, journal, published>>
    BY <2>1 DEF Ledger!ledger
  <2>2. ASSUME NEW r \in Replicas, Writes(r)
        PROVE  Ledger!LedgerNext
    <3>1. PICK c \in Commands, a \in Answers :
            /\ c = replica[r].command /\ journal[c].kind = "none"
            /\ journal' = [journal EXCEPT ![c] = a]
            /\ a = Transition(cart, version, c, replica[r].found)
            /\ version' = a.version
            /\ cart' = IF Applied(a) THEN a.cart ELSE cart
            /\ UNCHANGED published
      BY <2>2, WriteFacts
    <3>2. replica[r].found \in BOOLEAN
      BY DEF CartInv, CartTypeOK, ReplicaStates
    <3>3. Ledger!AnswerOnce(c)
      <4>1. /\ a = Ledger!Transition(cart, version, c, replica[r].found)
            /\ cart' = IF Ledger!Applied(a) THEN a.cart ELSE cart
        BY <3>1, SameTransitions, Zenon
      <4> QED BY <3>1, <3>2, <4>1, Zenon DEF Ledger!AnswerOnce
    <3> QED BY <3>3 DEF Ledger!LedgerNext
  <2>3. ASSUME NEW r \in Replicas, Publish(r)
        PROVE  Ledger!LedgerNext
    <3>1. journal[replica[r].command].kind # "none" /\ replica[r].command \in Commands
      BY <2>3 DEF Publish, CartInv, CartTypeOK, ReplicaOK
    <3>2. Ledger!Announce(replica[r].command)
      BY <2>3, <3>1 DEF Publish, Ledger!Announce, store
    <3> QED BY <3>1, <3>2 DEF Ledger!LedgerNext
  <2>4. \/ UNCHANGED <<cart, version, journal, published>>
        \/ \E r \in Replicas : Writes(r) \/ Publish(r)
    <3>1. published' = published \/ \E r \in Replicas : Publish(r)
      BY DEF CartNext, ReplicaStep, CheckProduct, Load, CommitDuplicate, CommitConflict,
         Commit, CommitReplyLost, Ack, Abandon, StoreFails, Deliver, Send, Redeliver, Project,
         ProjectAgain, CatalogEvent, cartVars
    <3> QED BY <3>1, OnlyCommitsWriteCart DEF cartVars, store
  <2> QED BY <2>1, <2>2, <2>3, <2>4
<1> QED BY <1>1, <1>2, CartInvariant, PTL DEF CartSpec, RefinesLedger, Ledger!LedgerSpec

============================================================================
