---------------------------- MODULE ControlProofs ----------------------------
(***************************************************************************)
(* Proofs about what the runs of the benchmark are driven with: the shared *)
(* store, for any number of threads, calls, connections and faults, and    *)
(* the page's sequences, for any number of plans, runs and lost answers.   *)
(***************************************************************************)
EXTENDS SharedStore, RunSequence, FiniteSetTheorems, NaturalsInduction, WellFoundedInduction, TLAPS

----------------------------------------------------------------------------
(* The store: types                                                        *)

LEMMA StoreInitInv ==
  ASSUME StoreAssumption, StoreInit PROVE StoreInv
<1> USE DEF StoreInit, StoreAssumption, C, Threads, Nobody
<1>1. thread \in [Threads -> Coroutines]
  BY DEF NoCall, Coroutines, Replies, Pcs
<1>2. result \in [Threads -> Replies \cup Errors \cup {"closed"}]
  BY DEF Replies
<1>3. ThreadsOK
  BY DEF ThreadsOK, NoCall
<1>4. closed \in BOOLEAN
  BY Zenon DEF StoreInit
<1>5. StoreTypeOK
  BY <1>1, <1>2, <1>3, <1>4 DEF StoreTypeOK
<1>6. IdsOK /\ AttemptsAgree /\ WrittenBefore /\ LockOK /\ AnswersTrue
  BY DEF IdsOK, AttemptsAgree, WrittenBefore, LockOK, AnswersTrue, NoCall
<1>7. StoreIsSafe
  BY DEF StoreIsSafe, WrittenOnce, OneClient, IsInjective, NoCall
<1> QED BY <1>5, <1>6, <1>7 DEF StoreInv

\* The parts of the type invariant, as the steps use them.
LEMMA StoreTypes ==
  ASSUME StoreAssumption, StoreTypeOK
  PROVE  /\ MaxStoreFaults \in Nat /\ MaxCalls \in Nat /\ Nobody \notin Threads
         /\ conns \in Seq({"open", "down", "closed"}) /\ current \in 0..Len(conns) /\ Len(conns) \in Nat
         /\ lock \in Threads \cup {Nobody} /\ thread \in [Threads -> Coroutines]
         /\ wire \subseteq Requests /\ log \in Seq(Threads \X Nat)
         /\ closed \in BOOLEAN /\ shaken \subseteq C /\ storeFaults \in 0..MaxStoreFaults
         /\ result \in [Threads -> Replies \cup Errors \cup {"closed"}]
         /\ ThreadsOK
BY DEF StoreTypeOK, StoreAssumption, Nobody, Threads

\* The shapes in which a coroutine moves: the call itself stays the same.
Kept(t) ==
    /\ thread' \in [Threads -> Coroutines]
    /\ \A u \in Threads \ {t} : thread'[u] = thread[u]
    /\ thread'[t].n = thread[t].n /\ thread'[t].kind = thread[t].kind /\ thread'[t].rev = thread[t].rev

LEMMA MovesPc ==
  ASSUME thread \in [Threads -> Coroutines], NEW t \in Threads, NEW p \in Pcs,
         thread' = [thread EXCEPT ![t].pc = p]
  PROVE  /\ Kept(t) /\ thread'[t].pc = p
         /\ thread'[t].conn = thread[t].conn /\ thread'[t].reply = thread[t].reply
BY DEF Kept, Coroutines

LEMMA MovesConn ==
  ASSUME thread \in [Threads -> Coroutines], NEW t \in Threads, NEW p \in Pcs, NEW c \in Nat,
         thread' = [thread EXCEPT ![t].pc = p, ![t].conn = c]
  PROVE  /\ Kept(t) /\ thread'[t].pc = p
         /\ thread'[t].conn = c /\ thread'[t].reply = thread[t].reply
BY ZenonT(30) DEF Kept, Coroutines

LEMMA MovesReply ==
  ASSUME thread \in [Threads -> Coroutines], NEW t \in Threads, NEW p \in Pcs, NEW c \in Nat,
         thread' = [thread EXCEPT ![t].pc = p, ![t].reply = "none", ![t].conn = c]
  PROVE  /\ Kept(t) /\ thread'[t].pc = p
         /\ thread'[t].conn = c /\ thread'[t].reply = "none"
BY ZenonT(40) DEF Kept, Coroutines, Replies

LEMMA MovesBack ==
  ASSUME thread \in [Threads -> Coroutines], NEW t \in Threads, NEW p \in Pcs, NEW c \in Nat,
         thread' = [thread EXCEPT ![t].pc = p, ![t].conn = c, ![t].reply = "none"]
  PROVE  /\ Kept(t) /\ thread'[t].pc = p
         /\ thread'[t].conn = c /\ thread'[t].reply = "none"
BY ZenonT(40) DEF Kept, Coroutines, Replies

LEMMA Sent ==
  ASSUME thread \in [Threads -> Coroutines], wire \subseteq Requests, NEW t \in Threads, NEW c \in Nat,
         Send(t, c)
  PROVE  /\ Kept(t) /\ thread'[t].pc = "request"
         /\ thread'[t].conn = c /\ thread'[t].reply = "none"
         /\ wire' \subseteq Requests
         /\ \E q \in Requests : /\ wire' = wire \cup {q} /\ q.id = Id(t)
                               /\ q.kind = thread[t].kind /\ q.rev = thread[t].rev
<1>1. /\ Kept(t) /\ thread'[t].pc = "request"
      /\ thread'[t].conn = c /\ thread'[t].reply = "none"
  BY DEF Send, Kept, Coroutines, Replies, Pcs
<1> DEFINE q == [id |-> Id(t), attempt |-> thread[t].attempt + 1, kind |-> thread[t].kind, rev |-> thread[t].rev]
<1>2. q \in Requests /\ q.id = Id(t) /\ q.kind = thread[t].kind /\ q.rev = thread[t].rev
  BY DEF Requests, Id, Coroutines
<1>3. wire' = wire \cup {q}
  BY DEF Send
<1> HIDE DEF q
<1> QED BY <1>1, <1>2, <1>3

LEMMA Returned ==
  ASSUME StoreAssumption, StoreTypeOK, NEW t \in Threads, NEW r \in Replies \cup Errors, Return(t, r)
  PROVE  /\ Kept(t) /\ thread'[t].pc = "idle" /\ thread'[t].reply = "none"
         /\ result' \in [Threads -> Replies \cup Errors \cup {"closed"}]
         /\ \A u \in Threads \ {t} : result'[u] = result[u]
         /\ result'[t] = r
<1>1. Kept(t) /\ thread'[t].pc = "idle" /\ thread'[t].reply = "none"
  BY StoreTypes, MovesReply DEF Return, Pcs
<1>2. result \in [Threads -> Replies \cup Errors \cup {"closed"}] /\ result' = [result EXCEPT ![t] = r]
  BY StoreTypes DEF Return
<1> QED BY <1>1, <1>2

LEMMA Invalidated ==
  ASSUME StoreAssumption, StoreTypeOK, NEW t \in Threads, Invalidate(t)
  PROVE  /\ Kept(t) /\ current' = 0 /\ thread'[t].reply = "none" /\ UNCHANGED result
         /\ \/ thread'[t].pc = "closing" /\ thread'[t].conn = current /\ current \in C
            \/ thread'[t].pc = "sleep" /\ (current = 0 \/ conns[current] = "closed")
<1>1. CASE current # 0 /\ conns[current] # "closed"
  <2>1. current \in C /\ current \in Nat
    BY <1>1, StoreTypes DEF C
  <2>2. thread' = [thread EXCEPT ![t].pc = "closing", ![t].conn = current, ![t].reply = "none"]
    BY <1>1 DEF Invalidate
  <2>3. "closing" \in Pcs
    BY DEF Pcs
  <2>4. /\ Kept(t) /\ thread'[t].pc = "closing"
        /\ thread'[t].conn = current /\ thread'[t].reply = "none"
    BY <2>1, <2>2, <2>3, StoreTypes, MovesBack
  <2> QED BY <2>1, <2>4 DEF Invalidate
<1>2. CASE ~(current # 0 /\ conns[current] # "closed")
  BY <1>2, StoreTypes, MovesBack DEF Invalidate, C, Pcs
<1> QED BY <1>1, <1>2

\* A step of thread t keeps the order of locks and connections.
LEMMA KeptOK ==
  ASSUME StoreAssumption, StoreTypeOK, NEW t \in Threads, Kept(t),
         thread'[t].pc \in {"opening", "request", "closing"} => thread'[t].conn \in C',
         lock' = t <=> thread'[t].pc \in {"connecting", "opening"},
         \A u \in Threads \ {t} : lock' = u <=> lock = u,
         C \subseteq C'
  PROVE  ThreadsOK'
BY StoreTypes DEF ThreadsOK, Kept

LEMMA CallMade ==
  ASSUME StoreAssumption, StoreTypeOK, NEW t \in Threads, NEW kind \in Kinds, Call(t, kind)
  PROVE  /\ thread' \in [Threads -> Coroutines]
         /\ \A u \in Threads \ {t} : thread'[u] = thread[u]
         /\ thread[t].pc = "idle" /\ thread'[t].pc \in {"idle", "start"}
         /\ thread'[t].n = thread[t].n + 1
         /\ \/ thread'[t].rev = thread[t].rev /\ thread'[t].reply = thread[t].reply
            \/ thread'[t].rev = Len(log) /\ thread'[t].reply = "none"
         /\ result' \in [Threads -> Replies \cup Errors \cup {"closed"}]
         /\ \A u \in Threads \ {t} : result'[u] = result[u]
         /\ result'[t] \in {"closed", "none"}
<1>1. /\ thread \in [Threads -> Coroutines] /\ thread[t] \in Coroutines /\ thread[t].pc = "idle"
      /\ thread[t].n < MaxCalls /\ MaxCalls \in Nat /\ Len(log) \in Nat
      /\ kind \in {"update", "get", "put"}
  BY StoreTypes DEF Call, StoreAssumption
<1>2. result \in [Threads -> Replies \cup Errors \cup {"closed"}] /\ closed \in BOOLEAN
  BY StoreTypes
<1>3. /\ result' \in [Threads -> Replies \cup Errors \cup {"closed"}]
      /\ \A u \in Threads \ {t} : result'[u] = result[u]
      /\ result'[t] \in {"closed", "none"}
  BY <1>2 DEF Call, Replies
<1>4. CASE closed
  <2>1. thread' = [thread EXCEPT ![t].n = @ + 1]
    BY <1>4 DEF Call
  <2>2. thread[t].n + 1 \in 0..MaxCalls
    BY <1>1 DEF Coroutines
  <2> QED BY <1>1, <1>3, <2>1, <2>2 DEF Coroutines
<1>5. CASE ~closed
  <2> DEFINE r == [pc |-> "start", kind |-> kind, n |-> thread[t].n + 1, attempt |-> 0, rev |-> Len(log),
                   conn |-> 0, reply |-> "none"]
  <2>1. thread' = [thread EXCEPT ![t] = r]
    BY <1>5 DEF Call, NoCall
  <2>2. thread[t].n + 1 \in 0..MaxCalls
    BY <1>1 DEF Coroutines
  <2>3. r \in Coroutines
    BY <1>1, <2>2 DEF Coroutines, Replies, Pcs
  <2>4. r.pc = "start" /\ r.n = thread[t].n + 1 /\ r.rev = Len(log) /\ r.reply = "none"
    OBVIOUS
  <2> HIDE DEF r
  <2> QED BY <1>1, <1>3, <2>1, <2>3, <2>4
<1> QED BY <1>2, <1>4, <1>5


\* What the steps of a coroutine do to calls, requests and results.
Effects(t) ==
    /\ Kept(t) /\ log' = log /\ closed' = closed
    /\ \/ wire' = wire
       \/ \E q \in Requests : /\ wire' = wire \cup {q} /\ q.id = Id(t)
                             /\ q.kind = thread[t].kind /\ q.rev = thread[t].rev
    /\ \/ thread'[t].reply = "none"
       \/ thread'[t].reply = thread[t].reply /\ thread[t].pc # "request"
    /\ result' \in [Threads -> Replies \cup Errors \cup {"closed"}]
    /\ \A u \in Threads \ {t} : result'[u] = result[u]
    /\ thread'[t].pc = "idle" => result'[t] \in Errors \cup {thread[t].reply}
    /\ storeFaults' \in 0..MaxStoreFaults

LEMMA CoroutineEffects ==
  ASSUME StoreAssumption, StoreTypeOK, NEW t \in Threads, CoroutineStep(t)
  PROVE  Effects(t)
<1> USE StoreTypes
<1>0. /\ Pcs = {"idle", "start", "lock", "connecting", "opening", "request", "closing", "sleep"}
      /\ Errors = {"transient", "unknown", "timeout"}
      /\ current \in Nat /\ thread[t].conn \in Nat /\ thread[t].reply \in Replies
  BY DEF Pcs, Errors, Coroutines
<1>1. CASE Ensure(t)
  <2>1. CASE Send(t, current)
    BY <1>0, <1>1, <2>1, Sent DEF Ensure, Effects
  <2>2. CASE thread' = [thread EXCEPT ![t].pc = "connecting"] /\ UNCHANGED wire
    BY <1>0, <1>1, <2>2, MovesPc DEF Ensure, Effects
  <2>3. CASE thread' = [thread EXCEPT ![t].pc = "lock"] /\ UNCHANGED wire
    BY <1>0, <1>1, <2>3, MovesPc DEF Ensure, Effects
  <2> QED BY <1>1, <2>1, <2>2, <2>3 DEF Ensure, Acquired
<1>2. CASE Acquire(t)
  <2>1. CASE Send(t, current)
    BY <1>0, <1>2, <2>1, Sent DEF Acquire, Effects
  <2>2. CASE thread' = [thread EXCEPT ![t].pc = "connecting"] /\ UNCHANGED wire
    BY <1>0, <1>2, <2>2, MovesPc DEF Acquire, Effects
  <2> QED BY <1>2, <2>1, <2>2 DEF Acquire, Acquired
<1>3. CASE ConnectionOpens(t)
  <2>1. thread' = [thread EXCEPT ![t].pc = "opening", ![t].conn = Len(conns) + 1]
    BY <1>3 DEF ConnectionOpens
  <2>2. Len(conns) + 1 \in Nat /\ "opening" \in Pcs
    BY <1>0
  <2>3. Kept(t) /\ thread'[t].pc = "opening" /\ thread'[t].reply = thread[t].reply
    BY <2>1, <2>2, MovesConn
  <2> QED BY <1>3, <2>3 DEF ConnectionOpens, Effects
<1>4. CASE BucketsOpen(t)
  BY <1>0, <1>4, Sent DEF BucketsOpen, Effects
<1>5. CASE ConnectFails(t)
  BY <1>0, <1>5, Invalidated DEF ConnectFails, Effects, StoreFault
<1>6. CASE BucketsFail(t)
  <2>1. storeFaults' \in 0..MaxStoreFaults
    BY <1>6 DEF BucketsFail, StoreFault
  <2>2. /\ Kept(t) /\ thread'[t].reply = "none" /\ UNCHANGED result
        /\ thread'[t].pc \in {"closing", "sleep"}
    BY <1>6, Invalidated DEF BucketsFail
  <2> QED BY <1>6, <2>1, <2>2 DEF BucketsFail, Effects
<1>7. CASE Reply(t)
  <2>1. PICK r \in Errors \cup {thread[t].reply} : Return(t, r)
    BY <1>0, <1>7 DEF Reply
  <2> QED BY <1>0, <1>7, <2>1, Returned DEF Reply, Effects
<1>8. CASE RequestFails(t)
  <2>1. storeFaults' \in 0..MaxStoreFaults
    BY <1>8 DEF RequestFails, StoreFault
  <2>2. CASE Return(t, "unknown")
    BY <1>0, <1>8, <2>1, <2>2, Returned DEF RequestFails, Effects
  <2>3. CASE Invalidate(t)
    BY <1>0, <1>8, <2>1, <2>3, Invalidated DEF RequestFails, Effects
  <2> QED BY <1>8, <2>2, <2>3 DEF RequestFails
<1>9. CASE ConnectionCloses(t)
  BY <1>0, <1>9, MovesConn DEF ConnectionCloses, Effects
<1>10. CASE Wake(t)
  <2>1. CASE thread' = [thread EXCEPT ![t].pc = "start"] /\ UNCHANGED <<result, storeFaults>>
    BY <1>0, <1>10, <2>1, MovesPc DEF Wake, Effects
  <2>2. CASE StoreFault /\ Return(t, "transient")
    BY <1>0, <1>10, <2>2, Returned DEF Wake, Effects, StoreFault
  <2> QED BY <1>10, <2>1, <2>2 DEF Wake
<1>11. CASE Timeout(t)
  <2>1. storeFaults' \in 0..MaxStoreFaults
    BY <1>11 DEF Timeout, TimesOut, StoreFault
  <2> QED BY <1>0, <1>11, <2>1, Returned DEF Timeout, Effects
<1> QED BY <1>1, <1>2, <1>3, <1>4, <1>5, <1>6, <1>7, <1>8, <1>9, <1>10, <1>11 DEF CoroutineStep


----------------------------------------------------------------------------
(* The store: connections                                                  *)

\* The connections, the lock and the published client after a step.
Connections ==
    /\ conns \in Seq({"open", "down", "closed"}) /\ Len(conns) <= MaxConns
    /\ current \in 0..Len(conns) /\ lock \in Threads \cup {Nobody}
    /\ shaken \subseteq C /\ ThreadsOK /\ LockOK /\ OneClient

\* After a step of thread t a connection is known if it was, unless it was known
\* only to t or as the published one: those two the step must take care of.
LEMMA ClientStep ==
  ASSUME OneClient, NEW t \in Threads, Kept(t), C' = C, closed' = closed, shaken \subseteq shaken',
         \A c \in C : conns[c] = "closed" => conns'[c] = "closed",
         current \in C =>
             \/ conns'[current] = "closed" \/ current = current' \/ current \in shaken'
             \/ thread'[t].pc \in {"opening", "closing"} /\ thread'[t].conn = current,
         Handles(t) =>
             conns'[thread[t].conn] = "closed" \/ thread[t].conn = current' \/ thread[t].conn \in shaken'
  PROVE  OneClient'
<1> SUFFICES ASSUME ~closed, NEW c \in C
             PROVE  \/ conns'[c] = "closed" \/ c = current' \/ c \in shaken'
                    \/ \E u \in Threads : Handles(u)' /\ thread'[u].conn = c
  BY DEF OneClient
<1>1. \A u \in Threads \ {t} : Handles(u) => Handles(u)' /\ thread'[u].conn = thread[u].conn
  BY DEF Kept, Handles
<1>2. CASE \E u \in Threads : Handles(u) /\ thread[u].conn = c
  <2>1. PICK u \in Threads : Handles(u) /\ thread[u].conn = c
    BY <1>2
  <2>2. CASE u = t
    BY <2>1, <2>2 DEF Handles
  <2>3. CASE u # t
    BY <1>1, <2>1, <2>3
  <2> QED BY <2>2, <2>3
<1>3. CASE conns[c] = "closed" \/ c = current \/ c \in shaken
  BY <1>3 DEF Handles
<1> QED BY <1>2, <1>3 DEF OneClient

\* A step of a coroutine that neither opens nor closes a connection.
LEMMA Untouched ==
  ASSUME StoreAssumption, StoreTypeOK, LockOK, OneClient, NEW t \in Threads, Kept(t),
         UNCHANGED <<conns, current, shaken, closed>>, ~Handles(t),
         thread'[t].pc \in {"opening", "request", "closing"} => thread'[t].conn \in C,
         lock' = t <=> thread'[t].pc \in {"connecting", "opening"},
         lock' = lock \/ (lock = Nobody /\ lock' = t /\ ~Usable)
  PROVE  Connections'
<1>1. C' = C /\ Len(conns) <= MaxConns
  BY DEF C, StoreTypeOK
<1>2. \A u \in Threads \ {t} : lock' = u <=> lock = u
  BY StoreTypes
<1>3. ThreadsOK'
  BY <1>1, <1>2, KeptOK
<1>4. LockOK'
  BY <1>1, StoreTypes DEF LockOK, Usable, C
<1>5. OneClient'
  BY <1>1 DEF OneClient, Kept, Handles
<1> QED BY <1>1, <1>3, <1>4, <1>5, StoreTypes DEF Connections

LEMMA CoroutineConnections ==
  ASSUME StoreAssumption, StoreTypeOK, LockOK, OneClient, NEW t \in Threads, CoroutineStep(t)
  PROVE  Connections'
<1> USE StoreTypes
<1>0. /\ Pcs = {"idle", "start", "lock", "connecting", "opening", "request", "closing", "sleep"}
      /\ current \in Nat /\ Len(conns) <= MaxConns /\ MaxConns \in Nat
      /\ thread[t].conn \in Nat
      /\ lock = t <=> thread[t].pc \in {"connecting", "opening"}
      /\ thread[t].pc \in {"opening", "request", "closing"} => thread[t].conn \in C
  BY DEF Pcs, StoreTypeOK, StoreAssumption, ThreadsOK, Coroutines
<1>s. ASSUME Send(t, current), Usable
      PROVE  Kept(t) /\ thread'[t].pc = "request" /\ thread'[t].conn = current /\ current \in C
  BY <1>0, <1>s, Sent DEF Usable, C
<1>1. CASE Ensure(t)
  <2>0. UNCHANGED <<conns, current, shaken, closed>> /\ ~Handles(t) /\ lock # t
    BY <1>0, <1>1 DEF Ensure, Handles
  <2>1. CASE Send(t, current) /\ lock' = lock /\ Usable
    BY <1>s, <2>0, <2>1, Untouched
  <2>2. CASE /\ thread' = [thread EXCEPT ![t].pc = "connecting"]
             /\ lock = Nobody /\ lock' = t /\ ~Usable
    BY <1>0, <2>0, <2>2, MovesPc, Untouched
  <2>3. CASE thread' = [thread EXCEPT ![t].pc = "lock"] /\ lock' = lock
    BY <1>0, <2>0, <2>3, MovesPc, Untouched
  <2> QED BY <1>1, <2>1, <2>2, <2>3 DEF Ensure, Acquired
<1>2. CASE Acquire(t)
  <2>0. UNCHANGED <<conns, current, shaken, closed>> /\ ~Handles(t) /\ lock # t
    BY <1>0, <1>2 DEF Acquire, Handles
  <2>1. CASE Send(t, current) /\ lock' = lock /\ Usable
    BY <1>s, <2>0, <2>1, Untouched
  <2>2. CASE /\ thread' = [thread EXCEPT ![t].pc = "connecting"]
             /\ lock = Nobody /\ lock' = t /\ ~Usable
    BY <1>0, <2>0, <2>2, MovesPc, Untouched
  <2> QED BY <1>2, <2>1, <2>2 DEF Acquire, Acquired
<1>3. CASE ConnectionOpens(t)
  <2>1. thread' = [thread EXCEPT ![t].pc = "opening", ![t].conn = Len(conns) + 1]
    BY <1>3 DEF ConnectionOpens
  <2>2. Len(conns) + 1 \in Nat /\ "opening" \in Pcs
    BY <1>0
  <2>3. Kept(t) /\ thread'[t].pc = "opening" /\ thread'[t].conn = Len(conns) + 1
    BY ZenonT(30), <2>1, <2>2, MovesConn
  <2>4. /\ conns' \in Seq({"open", "down", "closed"}) /\ Len(conns') = Len(conns) + 1
        /\ conns'[Len(conns) + 1] = "open" /\ \A c \in C : conns'[c] = conns[c]
        /\ lock = t /\ lock' = lock /\ current' = current /\ shaken' = shaken /\ closed' = closed
        /\ Len(conns) < MaxConns /\ thread[t].pc = "connecting"
    BY <1>0, <1>3 DEF ConnectionOpens, C
  <2>5. C' = C \cup {Len(conns) + 1}
    BY <2>4 DEF C
  <2>6. ThreadsOK'
    BY <1>0, <2>3, <2>4, <2>5, KeptOK
  <2>7. LockOK'
    <3>1. \A c \in C' : c \in C \/ conns'[c] = "open"
      BY <2>4, <2>5
    <3>2. current = 0 \/ current \in C
      BY DEF C
    <3> QED BY <2>4, <3>1, <3>2 DEF LockOK
  <2>8. OneClient'
    <3> SUFFICES ASSUME ~closed, NEW c \in C'
                 PROVE  \/ conns'[c] = "closed" \/ c = current' \/ c \in shaken'
                        \/ \E u \in Threads : Handles(u)' /\ thread'[u].conn = c
      BY <2>4 DEF OneClient
    <3>1. CASE c = Len(conns) + 1
      BY <2>3, <3>1 DEF Handles
    <3>2. CASE c \in C
      <4>1. \A u \in Threads : Handles(u) => Handles(u)' /\ thread'[u].conn = thread[u].conn
        BY <2>3, <2>4 DEF Handles, Kept
      <4> QED BY <2>4, <3>2, <4>1 DEF OneClient
    <3> QED BY <2>5, <3>1, <3>2
  <2> QED BY <1>0, <2>4, <2>5, <2>6, <2>7, <2>8 DEF Connections
<1>4. CASE BucketsOpen(t)
  <2>1. /\ Kept(t) /\ thread'[t].pc = "request" /\ thread'[t].conn = thread[t].conn
        /\ thread[t].conn \in C /\ lock = t /\ lock' = Nobody /\ current' = thread[t].conn
        /\ conns' = conns /\ shaken' = shaken /\ closed' = closed /\ C' = C
    BY <1>0, <1>4, Sent DEF BucketsOpen, C
  <2>2. ThreadsOK'
    BY <1>0, <2>1, KeptOK
  <2>3. LockOK'
    BY <2>1 DEF LockOK
  <2>4. OneClient'
    <3>1. current \in C => conns'[current] = "closed" \/ current \in shaken'
      BY <1>0, <2>1 DEF LockOK, C
    <3> QED BY <2>1, <3>1, ClientStep
  <2> QED BY <1>0, <2>1, <2>2, <2>3, <2>4 DEF Connections, C
<1>5. CASE ConnectFails(t)
  <2>1. /\ Kept(t) /\ current' = 0 /\ lock = t /\ lock' = Nobody
        /\ \/ thread'[t].pc = "closing" /\ thread'[t].conn = current /\ current \in C
           \/ thread'[t].pc = "sleep" /\ (current = 0 \/ conns[current] = "closed")
        /\ conns' = conns /\ shaken' = shaken /\ closed' = closed /\ C' = C
        /\ thread[t].pc = "connecting"
    BY <1>0, <1>5, Invalidated DEF ConnectFails, C
  <2>2. ThreadsOK'
    BY <1>0, <2>1, KeptOK
  <2>3. LockOK'
    BY <2>1 DEF LockOK
  <2>4. OneClient'
    <3>1. current \in C => \/ conns'[current] = "closed"
                           \/ thread'[t].pc \in {"opening", "closing"} /\ thread'[t].conn = current
      BY <2>1 DEF Handles, C
    <3>2. ~Handles(t)
      BY <2>1 DEF Handles
    <3> QED BY <2>1, <3>1, <3>2, ClientStep
  <2> QED BY <1>0, <2>1, <2>2, <2>3, <2>4 DEF Connections
<1>6. CASE BucketsFail(t)
  <2>1. /\ Kept(t) /\ current' = 0 /\ lock = t /\ lock' = Nobody
        /\ \/ thread'[t].pc = "closing" /\ thread'[t].conn = current /\ current \in C
           \/ thread'[t].pc = "sleep" /\ (current = 0 \/ conns[current] = "closed")
        /\ shaken' = shaken /\ closed' = closed /\ thread[t].conn \in C
    BY <1>0, <1>6, Invalidated DEF BucketsFail
  <2>2. /\ conns' \in Seq({"open", "down", "closed"}) /\ Len(conns') = Len(conns) /\ C' = C
        /\ \A c \in C : conns'[c] = IF c = thread[t].conn THEN "closed" ELSE conns[c]
    BY <1>6, <2>1 DEF BucketsFail, C
  <2>3. ThreadsOK'
    BY <1>0, <2>1, <2>2, KeptOK
  <2>4. LockOK'
    BY <2>1, <2>2 DEF LockOK
  <2>5. OneClient'
    <3>1. current \in C => \/ conns'[current] = "closed"
                           \/ thread'[t].pc \in {"opening", "closing"} /\ thread'[t].conn = current
      BY <2>1, <2>2 DEF Handles, C
    <3>2. conns'[thread[t].conn] = "closed" /\ \A c \in C : conns[c] = "closed" => conns'[c] = "closed"
      BY <2>1, <2>2
    <3> QED BY <2>1, <2>2, <3>1, <3>2, ClientStep
  <2> QED BY <1>0, <2>1, <2>2, <2>3, <2>4, <2>5 DEF Connections
<1>7. CASE Reply(t)
  <2>1. PICK r \in Replies \cup Errors : Return(t, r)
    BY <1>7 DEF Reply, Coroutines, Errors
  <2>2. Kept(t) /\ thread'[t].pc = "idle"
    BY <2>1, Returned
  <2> QED BY <1>0, <1>7, <2>2, Untouched DEF Reply, Handles
<1>8. CASE RequestFails(t)
  <2>1. CASE Return(t, "unknown") /\ UNCHANGED current
    <3>1. Kept(t) /\ thread'[t].pc = "idle"
      BY <2>1, Returned DEF Errors
    <3> QED BY <1>0, <1>8, <2>1, <3>1, Untouched DEF RequestFails, Handles
  <2>2. CASE Invalidate(t)
    <3>1. /\ Kept(t) /\ current' = 0 /\ lock # t /\ lock' = lock
          /\ \/ thread'[t].pc = "closing" /\ thread'[t].conn = current /\ current \in C
             \/ thread'[t].pc = "sleep" /\ (current = 0 \/ conns[current] = "closed")
          /\ conns' = conns /\ shaken' = shaken /\ closed' = closed /\ C' = C
          /\ thread[t].pc = "request"
      BY <1>0, <1>8, <2>2, Invalidated DEF RequestFails, C
    <3>2. ThreadsOK'
      BY <1>0, <3>1, KeptOK
    <3>3. LockOK'
      BY <3>1 DEF LockOK
    <3>4. OneClient'
      <4>1. current \in C => \/ conns'[current] = "closed"
                             \/ thread'[t].pc \in {"opening", "closing"} /\ thread'[t].conn = current
        BY <3>1 DEF Handles, C
      <4>2. ~Handles(t)
        BY <3>1 DEF Handles
      <4> QED BY <3>1, <4>1, <4>2, ClientStep
    <3> QED BY <1>0, <3>1, <3>2, <3>3, <3>4 DEF Connections
  <2> QED BY <1>8, <2>1, <2>2 DEF RequestFails
<1>9. CASE ConnectionCloses(t)
  <2>1. /\ Kept(t) /\ thread'[t].pc = "sleep" /\ thread[t].conn \in C /\ lock # t
        /\ current' = current /\ lock' = lock /\ shaken' = shaken /\ closed' = closed
    BY <1>0, <1>9, MovesConn DEF ConnectionCloses
  <2>2. /\ conns' \in Seq({"open", "down", "closed"}) /\ Len(conns') = Len(conns) /\ C' = C
        /\ \A c \in C : conns'[c] = IF c = thread[t].conn THEN "closed" ELSE conns[c]
    BY <1>9, <2>1 DEF ConnectionCloses, C
  <2>3. ThreadsOK'
    BY <1>0, <2>1, <2>2, KeptOK
  <2>4. LockOK'
    <3>1. current = 0 \/ current \in C
      BY DEF C
    <3> QED BY <2>1, <2>2, <3>1 DEF LockOK
  <2>5. OneClient'
    <3>1. conns'[thread[t].conn] = "closed" /\ \A c \in C : conns[c] = "closed" => conns'[c] = "closed"
      BY <2>1, <2>2
    <3> QED BY <2>1, <2>2, <3>1, ClientStep
  <2> QED BY <1>0, <2>1, <2>2, <2>3, <2>4, <2>5 DEF Connections
<1>10. CASE Wake(t)
  <2>1. Kept(t) /\ thread'[t].pc \in {"start", "idle"}
    BY <1>0, <1>10, MovesPc, Returned DEF Wake, Errors
  <2> QED BY <1>0, <1>10, <2>1, Untouched DEF Wake, Handles
<1>11. CASE Timeout(t)
  <2>1. /\ Kept(t) /\ thread'[t].pc = "idle" /\ conns' = conns /\ current' = current
        /\ closed' = closed /\ C' = C
        /\ lock' = IF lock = t THEN Nobody ELSE lock
        /\ shaken' = IF Handles(t) THEN shaken \cup {thread[t].conn} ELSE shaken
    BY <1>11, Returned DEF Timeout, LockReleased, Errors, C
  <2>2. Handles(t) => thread[t].conn \in C
    BY <1>0 DEF Handles
  <2>3. ThreadsOK'
    BY <1>0, <2>1, KeptOK
  <2>4. LockOK'
    BY <2>1 DEF LockOK
  <2>5. OneClient'
    BY <2>1, ClientStep
  <2> QED BY <1>0, <2>1, <2>2, <2>3, <2>4, <2>5 DEF Connections
<1> QED BY <1>1, <1>2, <1>3, <1>4, <1>5, <1>6, <1>7, <1>8, <1>9, <1>10, <1>11 DEF CoroutineStep


----------------------------------------------------------------------------
(* The store: requests and writes                                          *)

\* What the calls, the requests and the log promise of each other.
Writes ==
    IdsOK /\ AttemptsAgree /\ WrittenBefore /\ AnswersTrue /\ WrittenOnce

LEMMA CoroutineWrites ==
  ASSUME StoreAssumption, StoreTypeOK, Writes, NEW t \in Threads, Effects(t)
  PROVE  Writes'
<1>0. /\ thread \in [Threads -> Coroutines] /\ wire \subseteq Requests /\ log \in Seq(Threads \X Nat)
      /\ log' = log
  BY StoreTypes DEF Effects
<1>1. \A u \in Threads : /\ thread'[u].n = thread[u].n /\ thread'[u].kind = thread[u].kind
                         /\ thread'[u].rev = thread[u].rev
                         /\ u # t => thread'[u] = thread[u] /\ result'[u] = result[u]
  BY DEF Effects, Kept
<1>2. \A q \in wire' : \/ q \in wire
                        \/ /\ q \in Requests /\ q.id = <<t, thread[t].n>> /\ q.id[1] = t /\ q.id[2] = thread[t].n
                           /\ q.kind = thread[t].kind /\ q.rev = thread[t].rev
  BY DEF Effects, Id
<1>3. \A q \in wire' : q \in Requests /\ q.id \in Threads \X Nat /\ q.id[1] \in Threads
  BY <1>0, <1>2 DEF Requests
<1>4. IdsOK'
  <2>1. \A u \in Threads : thread[u].rev <= Len(log) /\ thread[u].n \in Nat
    BY <1>0 DEF Writes, IdsOK, Coroutines
  <2>2. \A q \in wire' : q.id[2] <= thread'[q.id[1]].n /\ q.rev <= Len(log)
    <3> SUFFICES ASSUME NEW q \in wire' PROVE q.id[2] <= thread[q.id[1]].n /\ q.rev <= Len(log)
      BY <1>1, <1>3
    <3>1. CASE q \in wire
      BY <3>1 DEF Writes, IdsOK
    <3>2. CASE q \notin wire
      BY <1>2, <2>1, <3>2
    <3> QED BY <3>1, <3>2
  <2>3. \A i \in 1..Len(log) : log[i][2] <= thread'[log[i][1]].n
    BY <1>0, <1>1 DEF Writes, IdsOK
  <2> QED BY <1>0, <1>1, <2>1, <2>2, <2>3 DEF IdsOK
<1>5. AttemptsAgree'
  <2>1. \A q \in wire : q.id = <<q.id[1], thread[q.id[1]].n>> =>
            q.kind = thread[q.id[1]].kind /\ q.rev = thread[q.id[1]].rev
    BY DEF Writes, AttemptsAgree, Id
  <2>2. \A q \in wire' : q.id = <<q.id[1], thread[q.id[1]].n>> =>
            q.kind = thread[q.id[1]].kind /\ q.rev = thread[q.id[1]].rev
    BY <1>2, <2>1
  <2>3. \A q, r \in wire' : q.id = r.id => q.rev = r.rev
    <3> SUFFICES ASSUME NEW q \in wire', NEW r \in wire', q.id = r.id PROVE q.rev = r.rev
      OBVIOUS
    <3>1. CASE q \in wire /\ r \in wire
      BY <3>1 DEF Writes, AttemptsAgree
    <3>2. CASE q \notin wire \/ r \notin wire
      BY <1>2, <2>2, <3>2
    <3> QED BY <3>1, <3>2
  <2>4. \A q \in wire' : (q.id = Id(q.id[1]))' => q.id = <<q.id[1], thread[q.id[1]].n>>
    BY <1>1, <1>3 DEF Id
  <2> QED BY <1>1, <1>3, <2>2, <2>3, <2>4 DEF AttemptsAgree
<1>6. WrittenBefore'
  <2> SUFFICES ASSUME NEW i \in 1..Len(log)
               PROVE  /\ \A u \in Threads : log[i] = <<u, thread[u].n>> => thread[u].rev = i - 1
                      /\ \A q \in wire' : q.id = log[i] => q.rev = i - 1
    BY <1>0, <1>1 DEF WrittenBefore, Id
  <2>1. \A u \in Threads : log[i] = <<u, thread[u].n>> => thread[u].rev = i - 1
    BY DEF Writes, WrittenBefore, Id
  <2>2. \A q \in wire : q.id = log[i] => q.rev = i - 1
    BY DEF Writes, WrittenBefore
  <2> QED BY <1>2, <2>1, <2>2
<1>7. thread'[t].reply = "none"
  BY DEF Effects, Writes, AnswersTrue
<1>8. AnswersTrue'
  BY <1>0, <1>1, <1>7 DEF Writes, AnswersTrue, Id
<1>9. WrittenOnce'
  <2>1. IsInjective(log)'
    BY <1>0 DEF Writes, WrittenOnce, IsInjective
  <2> SUFFICES ASSUME NEW u \in Threads, thread'[u].kind = "update", thread'[u].pc = "idle"
               PROVE  /\ result'[u] = "ok" => Contains(log, <<u, thread[u].n>>)
                      /\ result'[u] = "conflict" => Len(log) > thread[u].rev
    BY <1>0, <1>1, <2>1 DEF WrittenOnce, Id, Contains
  <2>2. CASE u = t
    <3>1. result'[t] \in Errors \cup {thread[t].reply}
      BY <2>2 DEF Effects
    <3> QED BY <1>1, <2>2, <3>1 DEF Errors, Writes, AnswersTrue, Id
  <2>3. CASE u # t
    BY <1>1, <2>3 DEF Writes, WrittenOnce, Id
  <2> QED BY <2>2, <2>3
<1> QED BY <1>4, <1>5, <1>6, <1>8, <1>9 DEF Writes

LEMMA CallWrites ==
  ASSUME StoreAssumption, StoreTypeOK, Writes, NEW t \in Threads, NEW kind \in Kinds, Call(t, kind)
  PROVE  Writes'
<1>0. /\ thread \in [Threads -> Coroutines] /\ wire \subseteq Requests /\ log \in Seq(Threads \X Nat)
      /\ log' = log /\ wire' = wire /\ Len(log) \in Nat
  BY StoreTypes DEF Call
<1>1. /\ \A u \in Threads \ {t} : thread'[u] = thread[u] /\ result'[u] = result[u]
      /\ thread[t].pc = "idle" /\ thread'[t].n = thread[t].n + 1 /\ thread[t].n \in Nat
      /\ thread'[t].rev = thread[t].rev \/ thread'[t].rev = Len(log)
      /\ thread'[t].reply = "none" /\ result'[t] \in {"closed", "none"}
  BY <1>0, CallMade DEF Writes, AnswersTrue, Coroutines
<1>2. \A q \in wire : /\ q.id \in Threads \X Nat /\ q.id[1] \in Threads /\ q.id[2] <= thread[q.id[1]].n
                      /\ q.id # <<t, thread[t].n + 1>> /\ q.rev <= Len(log)
  BY <1>0, <1>1 DEF Requests, Writes, IdsOK
<1>3. \A i \in 1..Len(log) : /\ log[i] \in Threads \X Nat /\ log[i][1] \in Threads
                             /\ log[i][2] <= thread[log[i][1]].n
                             /\ log[i] # <<t, thread[t].n + 1>>
  BY <1>0, <1>1 DEF Writes, IdsOK
<1>4. IdsOK'
  <2>1. \A u \in Threads : /\ thread[u].rev <= Len(log) /\ thread[u].n \in Nat
                           /\ thread'[u].rev <= Len(log) /\ thread[u].n <= thread'[u].n /\ thread'[u].n \in Nat
    <3>1. \A u \in Threads : thread[u].rev <= Len(log) /\ thread[u].n \in Nat
      BY <1>0 DEF Writes, IdsOK, Coroutines
    <3> QED BY <1>0, <1>1, <3>1
  <2>2. \A q \in wire : q.id[2] <= thread'[q.id[1]].n
    BY <1>2, <2>1
  <2>3. \A i \in 1..Len(log) : log[i][2] <= thread'[log[i][1]].n
    BY <1>3, <2>1
  <2> QED BY <1>0, <1>2, <2>1, <2>2, <2>3 DEF IdsOK
<1>5. AttemptsAgree'
  <2>1. \A q \in wire : q.id = <<q.id[1], thread'[q.id[1]].n>> =>
            q.kind = thread'[q.id[1]].kind /\ q.rev = thread'[q.id[1]].rev
    <3> SUFFICES ASSUME NEW q \in wire, q.id = <<q.id[1], thread'[q.id[1]].n>>
                 PROVE  q.kind = thread'[q.id[1]].kind /\ q.rev = thread'[q.id[1]].rev
      OBVIOUS
    <3>1. q.id[1] # t
      BY <1>1, <1>2
    <3> QED BY <1>1, <1>2, <3>1 DEF Writes, AttemptsAgree, Id
  <2> QED BY <1>0, <2>1 DEF Writes, AttemptsAgree, Id
<1>6. WrittenBefore'
  <2> SUFFICES ASSUME NEW i \in 1..Len(log), NEW u \in Threads, log[i] = <<u, thread'[u].n>>
               PROVE  thread'[u].rev = i - 1
    BY <1>0 DEF Writes, WrittenBefore, Id
  <2>1. u # t
    BY <1>1, <1>3
  <2> QED BY <1>1, <2>1 DEF Writes, WrittenBefore, Id
<1>7. AnswersTrue'
  <2> SUFFICES ASSUME NEW u \in Threads
               PROVE  /\ thread'[u].reply # "none" => thread'[u].pc = "request"
                      /\ thread'[u].kind = "update" =>
                            /\ thread'[u].reply = "ok" => Contains(log, <<u, thread'[u].n>>)
                            /\ thread'[u].reply = "conflict" => Len(log) > thread'[u].rev
    BY <1>0 DEF AnswersTrue, Id, Contains
  <2>1. CASE u = t
    BY <1>1, <2>1
  <2>2. CASE u # t
    BY <1>1, <2>2 DEF Writes, AnswersTrue, Id
  <2> QED BY <2>1, <2>2
<1>8. WrittenOnce'
  BY <1>0, <1>1 DEF Writes, WrittenOnce, Id, IsInjective, Contains
<1> QED BY <1>4, <1>5, <1>6, <1>7, <1>8 DEF Writes


\* The server: a request that is accepted was never written before.
LEMMA ServeWrites ==
  ASSUME StoreAssumption, StoreTypeOK, Writes, NEW q \in wire, Serve(q)
  PROVE  /\ Writes' /\ thread' \in [Threads -> Coroutines] /\ log' \in Seq(Threads \X Nat)
         /\ \A u \in Threads : thread'[u].pc = thread[u].pc /\ thread'[u].conn = thread[u].conn
<1> DEFINE t == q.id[1]
<1>0. /\ thread \in [Threads -> Coroutines] /\ wire \subseteq Requests /\ log \in Seq(Threads \X Nat)
      /\ Len(log) \in Nat /\ q \in Requests /\ q.id \in Threads \X Nat /\ t \in Threads
      /\ q.id = <<t, q.id[2]>> /\ q.rev \in Nat /\ q.rev <= Len(log)
      /\ wire' = wire \ {q} /\ result' = result
  BY StoreTypes, SMTT(30) DEF Requests, Serve, Writes, IdsOK
<1>1. PICK r \in {"ok", "missing", "conflict"} :
         /\ thread' = IF thread[t].pc = "request" /\ Id(t) = q.id /\ thread[t].attempt = q.attempt
                      THEN [thread EXCEPT ![t].reply = r] ELSE thread
         /\ q.kind = "update" /\ q.rev = Len(log) => r = "ok"
         /\ q.kind = "update" /\ q.rev # Len(log) => r = "conflict"
  BY <1>0 DEF Serve, Accepts
<1>2. /\ thread' \in [Threads -> Coroutines]
      /\ \A u \in Threads : /\ thread'[u].pc = thread[u].pc /\ thread'[u].conn = thread[u].conn
                            /\ thread'[u].n = thread[u].n /\ thread'[u].kind = thread[u].kind
                            /\ thread'[u].rev = thread[u].rev
                            /\ \/ thread'[u].reply = thread[u].reply
                               \/ u = t /\ thread'[u].reply = r /\ thread[u].pc = "request" /\ Id(t) = q.id
  <2>1. CASE thread' = thread
    BY <1>0, <2>1
  <2>2. CASE thread' = [thread EXCEPT ![t].reply = r] /\ thread[t].pc = "request" /\ Id(t) = q.id
    <3>1. r \in Replies
      BY DEF Replies
    <3>2. thread' \in [Threads -> Coroutines]
      BY <1>0, <2>2, <3>1, ZenonT(40) DEF Coroutines
    <3>3. /\ thread'[t].pc = thread[t].pc /\ thread'[t].conn = thread[t].conn
          /\ thread'[t].n = thread[t].n /\ thread'[t].kind = thread[t].kind
          /\ thread'[t].rev = thread[t].rev /\ thread'[t].reply = r
      BY <1>0, <2>2 DEF Coroutines
    <3>4. \A u \in Threads \ {t} : thread'[u] = thread[u]
      BY <1>0, <2>2
    <3> QED BY <2>2, <3>2, <3>3, <3>4
  <2> QED BY <1>1, <2>1, <2>2
<1>3. \A p \in wire : p \in Requests /\ p.id \in Threads \X Nat /\ p.id[1] \in Threads /\ p.rev \in Nat
  BY <1>0 DEF Requests
<1> HIDE DEF t
<1>4. q.id[2] <= thread[t].n /\ (q.id = <<t, thread[t].n>> => q.kind = thread[t].kind /\ q.rev = thread[t].rev)
  BY <1>0 DEF Writes, IdsOK, AttemptsAgree, Id, t
<1>5. AttemptsAgree'
  <2>1. \A p \in wire' : p \in wire
    BY <1>0
  <2> QED BY <1>2, <1>3, <2>1 DEF Writes, AttemptsAgree, Id
<1>6. \/ /\ log' = log /\ (q.kind = "update" => r = "conflict" /\ q.rev < Len(log))
      \/ /\ log' = Append(log, q.id) /\ q.kind = "update" /\ q.rev = Len(log) /\ r = "ok"
  BY <1>0, <1>1 DEF Serve, Accepts
<1>7. /\ log' \in Seq(Threads \X Nat) /\ Len(log') \in Nat /\ Len(log') >= Len(log)
      /\ \A i \in 1..Len(log) : log'[i] = log[i]
      /\ \A i \in 1..Len(log') : \/ i \in 1..Len(log)
                                \/ /\ i = Len(log) + 1 /\ log'[i] = q.id
                                   /\ q.kind = "update" /\ q.rev = Len(log) /\ r = "ok"
  <2>1. CASE log' = log
    BY <1>0, <2>1
  <2>2. CASE log' = Append(log, q.id) /\ q.kind = "update" /\ q.rev = Len(log) /\ r = "ok"
    <3>1. /\ log' \in Seq(Threads \X Nat) /\ Len(log') = Len(log) + 1
          /\ \A i \in 1..Len(log) : log'[i] = log[i]
          /\ log'[Len(log) + 1] = q.id
      BY <1>0, <2>2
    <3>2. \A i \in 1..Len(log') : i \in 1..Len(log) \/ i = Len(log) + 1
      BY <1>0, <3>1
    <3> QED BY <1>0, <2>2, <3>1, <3>2
  <2> QED BY <1>6, <2>1, <2>2
<1>8. IdsOK'
  <2>1. \A p \in wire' : p.id[2] <= thread'[p.id[1]].n /\ p.rev <= Len(log')
    BY <1>0, <1>2, <1>3, <1>7 DEF Writes, IdsOK
  <2>2. \A i \in 1..Len(log') : log'[i][2] <= thread'[log'[i][1]].n
    <3> SUFFICES ASSUME NEW i \in 1..Len(log') PROVE log'[i][2] <= thread'[log'[i][1]].n
      OBVIOUS
    <3>1. CASE i \in 1..Len(log)
      BY SMTT(30), <1>0, <1>2, <1>7, <3>1 DEF Writes, IdsOK
    <3>2. CASE i = Len(log) + 1 /\ log'[i] = q.id
      BY <1>0, <1>2, <1>4, <3>2 DEF t
    <3> QED BY <1>7, <3>1, <3>2
  <2>3. \A u \in Threads : thread'[u].rev <= Len(log')
    <3>1. \A u \in Threads : thread[u].rev <= Len(log) /\ thread[u].rev \in Nat
      BY <1>0 DEF Writes, IdsOK, Coroutines
    <3> QED BY <1>0, <1>2, <1>7, <3>1
  <2> QED BY <2>1, <2>2, <2>3 DEF IdsOK
<1>9. WrittenBefore'
  <2> SUFFICES ASSUME NEW i \in 1..Len(log')
               PROVE  /\ \A u \in Threads : log'[i] = <<u, thread[u].n>> => thread[u].rev = i - 1
                      /\ \A p \in wire' : p.id = log'[i] => p.rev = i - 1
    BY <1>2 DEF WrittenBefore, Id
  <2>1. CASE i \in 1..Len(log)
    BY <1>0, <1>7, <2>1 DEF Writes, WrittenBefore, Id
  <2>2. CASE i = Len(log) + 1 /\ log'[i] = q.id /\ q.rev = Len(log)
    <3>1. \A u \in Threads : q.id = <<u, thread[u].n>> => u = t
      BY <1>0
    <3>2. \A p \in wire : p.id = q.id => p.rev = q.rev
      BY DEF Writes, AttemptsAgree
    <3> QED BY <1>0, <1>4, <2>2, <3>1, <3>2
  <2> QED BY <1>7, <2>1, <2>2
<1>10. \A e : Contains(log, e) => Contains(log', e)
  <2> SUFFICES ASSUME NEW e, NEW i \in 1..Len(log), log[i] = e PROVE Contains(log', e)
    BY DEF Contains
  <2>1. i \in 1..Len(log') /\ log'[i] = e
    BY <1>0, <1>7
  <2> QED BY <2>1 DEF Contains
<1>11. r = "ok" /\ q.kind = "update" => Contains(log', q.id)
  <2> SUFFICES ASSUME r = "ok", q.kind = "update" PROVE Contains(log', q.id)
    OBVIOUS
  <2>1. log' = Append(log, q.id)
    BY <1>6
  <2> QED BY <1>0, <2>1 DEF Contains
<1>12. AnswersTrue'
  <2> SUFFICES ASSUME NEW u \in Threads
               PROVE  /\ thread'[u].reply # "none" => thread'[u].pc = "request"
                      /\ thread[u].kind = "update" =>
                            /\ thread'[u].reply = "ok" => Contains(log', <<u, thread[u].n>>)
                            /\ thread'[u].reply = "conflict" => Len(log') > thread[u].rev
    BY <1>2 DEF AnswersTrue, Id
  <2>1. thread[u].rev \in Nat
    BY <1>0 DEF Coroutines
  <2>2. CASE thread'[u].reply = thread[u].reply
    BY <1>0, <1>2, <1>7, <1>10, <2>1, <2>2, SMTT(30) DEF Writes, AnswersTrue, Id
  <2>3. CASE u = t /\ thread'[u].reply = r /\ thread[u].pc = "request" /\ Id(t) = q.id
    <3>1. q.id = <<t, thread[t].n>> /\ q.kind = thread[t].kind /\ q.rev = thread[t].rev
      BY <1>4, <2>3 DEF Id
    <3> QED BY <1>0, <1>2, <1>6, <1>11, <2>3, <3>1
  <2> QED BY <1>2, <2>2, <2>3
<1>13. WrittenOnce'
  <2>1. IsInjective(log)'
    <3>1. \A i \in 1..Len(log) : log[i] = q.id => q.rev = i - 1
      BY DEF Writes, WrittenBefore
    <3>2. \A i, j \in 1..Len(log) : log[i] = log[j] => i = j
      BY <1>0 DEF Writes, WrittenOnce, IsInjective
    <3>3. \A i, j \in 1..Len(log') : log'[i] = log'[j] => i = j
      <4> SUFFICES ASSUME NEW i \in 1..Len(log'), NEW j \in 1..Len(log'), log'[i] = log'[j]
                   PROVE  i = j
        OBVIOUS
      <4>1. CASE i \in 1..Len(log) /\ j \in 1..Len(log)
        BY <1>7, <3>2, <4>1
      <4>2. CASE i \in 1..Len(log) /\ j = Len(log) + 1 /\ log'[j] = q.id /\ q.rev = Len(log)
        BY <1>0, <1>7, <3>1, <4>2
      <4>3. CASE j \in 1..Len(log) /\ i = Len(log) + 1 /\ log'[i] = q.id /\ q.rev = Len(log)
        BY <1>0, <1>7, <3>1, <4>3
      <4> QED BY <1>7, <4>1, <4>2, <4>3
    <3>4. DOMAIN log' = 1..Len(log')
      BY <1>7
    <3> QED BY <3>3, <3>4 DEF IsInjective
  <2>2. \A u \in Threads : thread[u].rev \in Nat
    BY <1>0 DEF Coroutines
  <2>3. \A u \in Threads : thread[u].kind = "update" /\ thread[u].pc = "idle" =>
            /\ result[u] = "ok" => Contains(log, <<u, thread[u].n>>)
            /\ result[u] = "conflict" => Len(log) > thread[u].rev
    BY DEF Writes, WrittenOnce, Id
  <2>4. \A u \in Threads : thread[u].kind = "update" /\ thread[u].pc = "idle" =>
            /\ result[u] = "ok" => Contains(log', <<u, thread[u].n>>)
            /\ result[u] = "conflict" => Len(log') > thread[u].rev
    BY <1>0, <1>7, <1>10, <2>2, <2>3
  <2> QED BY <1>0, <1>2, <2>1, <2>4 DEF WrittenOnce, Id
<1> QED BY <1>2, <1>5, <1>7, <1>8, <1>9, <1>12, <1>13 DEF Writes


----------------------------------------------------------------------------
(* The store: the theorem                                                  *)

\* Steps that leave calls, requests and the log alone.
LEMMA WritesKept ==
  ASSUME Writes, UNCHANGED <<thread, result, log>>, wire' \subseteq wire
  PROVE  Writes'
<1>1. IdsOK'
  BY DEF Writes, IdsOK
<1>2. AttemptsAgree'
  BY DEF Writes, AttemptsAgree, Id
<1>3. WrittenBefore'
  BY DEF Writes, WrittenBefore, Id
<1>4. AnswersTrue' /\ WrittenOnce'
  BY DEF Writes, AnswersTrue, WrittenOnce, Id, IsInjective, Contains
<1> QED BY <1>1, <1>2, <1>3, <1>4 DEF Writes

\* Steps that leave the connections, their users and the lock alone.
LEMMA ConnectionsKept ==
  ASSUME StoreAssumption, StoreTypeOK, LockOK, OneClient, UNCHANGED <<conns, current, lock, shaken, closed>>,
         \A u \in Threads : thread'[u].pc = thread[u].pc /\ thread'[u].conn = thread[u].conn
  PROVE  Connections'
<1>1. C' = C /\ Len(conns) <= MaxConns
  BY DEF C, StoreTypeOK
<1>2. ThreadsOK'
  BY <1>1, StoreTypes DEF ThreadsOK
<1>3. LockOK'
  BY <1>1 DEF LockOK
<1>4. OneClient'
  BY <1>1 DEF OneClient, Handles
<1> QED BY <1>1, <1>2, <1>3, <1>4, StoreTypes DEF Connections

\* The invariant, as the cases below establish it.
Sound ==
    /\ Connections /\ Writes /\ closed \in BOOLEAN
    /\ thread \in [Threads -> Coroutines]
    /\ result \in [Threads -> Replies \cup Errors \cup {"closed"}]
    /\ wire \subseteq Requests /\ log \in Seq(Threads \X Nat) /\ storeFaults \in 0..MaxStoreFaults

LEMMA StoreStep ==
  ASSUME StoreAssumption, StoreInv, [StoreNext]_storeVars
  PROVE  StoreInv'
<1>0. StoreTypeOK /\ Writes /\ LockOK /\ OneClient
  BY DEF StoreInv, StoreIsSafe, Writes
<1> USE <1>0, StoreTypes
<1> SUFFICES Sound'
  BY DEF Sound, StoreInv, StoreTypeOK, StoreIsSafe, Writes, Connections
<1>1. ASSUME NEW t \in Threads, CoroutineStep(t)
      PROVE  Sound'
  <2>1. Effects(t)
    BY <1>1, CoroutineEffects
  <2>2. Writes'
    BY <2>1, CoroutineWrites
  <2>3. Connections'
    BY <1>1, CoroutineConnections
  <2>4. wire' \subseteq Requests
    BY <2>1 DEF Effects
  <2> QED BY <2>1, <2>2, <2>3, <2>4 DEF Effects, Kept, Sound
<1>2. ASSUME NEW t \in Threads, NEW kind \in Kinds, Call(t, kind)
      PROVE  Sound'
  <2>1. Writes'
    BY <1>2, CallWrites
  <2>2. /\ thread' \in [Threads -> Coroutines]
        /\ \A u \in Threads \ {t} : thread'[u] = thread[u]
        /\ thread[t].pc = "idle" /\ thread'[t].pc \in {"idle", "start"}
        /\ result' \in [Threads -> Replies \cup Errors \cup {"closed"}]
    BY <1>2, CallMade
  <2>3. C' = C /\ UNCHANGED <<conns, current, lock, shaken, closed, wire, log, storeFaults>>
    BY <1>2 DEF Call, C
  <2>4. ThreadsOK'
    BY <2>2, <2>3 DEF ThreadsOK
  <2>5. LockOK'
    BY <2>3 DEF LockOK
  <2>6. OneClient'
    <3>1. \A u \in Threads : Handles(u) => Handles(u)' /\ thread'[u].conn = thread[u].conn
      BY <2>2 DEF Handles
    <3> QED BY <2>3, <3>1 DEF OneClient
  <2>7. Connections'
    BY <2>3, <2>4, <2>5, <2>6 DEF Connections, StoreTypeOK
  <2> QED BY <2>1, <2>2, <2>3, <2>7 DEF Sound
<1>3. ASSUME NEW q \in wire, Serve(q)
      PROVE  Sound'
  <2>1. /\ Writes' /\ thread' \in [Threads -> Coroutines] /\ log' \in Seq(Threads \X Nat)
        /\ \A u \in Threads : thread'[u].pc = thread[u].pc /\ thread'[u].conn = thread[u].conn
    BY <1>3, ServeWrites
  <2>2. wire' \subseteq Requests /\ UNCHANGED <<conns, current, lock, shaken, closed, result, storeFaults>>
    BY <1>3 DEF Serve
  <2>3. Connections'
    BY <2>1, <2>2, ConnectionsKept
  <2> QED BY <2>1, <2>2, <2>3 DEF Sound
<1>4. ASSUME NEW q \in wire, Lose(q)
      PROVE  Sound'
  <2>1. /\ wire' \subseteq wire /\ storeFaults' \in 0..MaxStoreFaults
        /\ UNCHANGED <<conns, current, lock, shaken, closed, result, thread, log>>
    BY <1>4 DEF Lose, StoreFault
  <2>2. Connections'
    BY <2>1, ConnectionsKept
  <2> QED BY <2>1, <2>2, WritesKept DEF Sound
<1>5. ASSUME NEW c \in C, Drop(c) \/ Reconnect(c)
      PROVE  Sound'
  <2>1. /\ storeFaults' \in 0..MaxStoreFaults
        /\ UNCHANGED <<current, lock, closed, result, thread, log, wire>>
    BY <1>5 DEF Drop, Reconnect, StoreFault
  <2>2. PICK s \in {"open", "down", "closed"} : conns' = [conns EXCEPT ![c] = s] /\ (s = "down" => c \in shaken')
    BY <1>5 DEF Drop, Reconnect
  <2>3. /\ shaken \subseteq shaken' /\ shaken' \subseteq C /\ c \in shaken' /\ conns[c] # "closed"
    BY <1>5 DEF Drop, Reconnect, LockOK
  <2>4. /\ conns' \in Seq({"open", "down", "closed"}) /\ Len(conns') = Len(conns) /\ C' = C
        /\ \A d \in C \ {c} : conns'[d] = conns[d]
    BY <2>2 DEF C
  <2>5. ThreadsOK'
    BY <2>1, <2>4 DEF ThreadsOK
  <2>6. LockOK'
    <3>1. current = 0 \/ current \in C
      BY DEF C
    <3> QED BY <2>1, <2>2, <2>3, <2>4, <3>1 DEF LockOK
  <2>7. OneClient'
    BY <2>1, <2>3, <2>4 DEF OneClient, Handles
  <2>8. Connections'
    BY <2>1, <2>3, <2>4, <2>5, <2>6, <2>7 DEF Connections, StoreTypeOK
  <2> QED BY <2>1, <2>8, WritesKept DEF Sound
<1>6. CASE Close
  <2>1. /\ closed' = TRUE /\ conns' = [c \in C |-> IF c = current THEN "closed" ELSE conns[c]]
        /\ UNCHANGED <<current, lock, result, thread, log, wire, shaken, storeFaults>>
    BY <1>6 DEF Close
  <2>2. /\ conns' \in Seq({"open", "down", "closed"}) /\ Len(conns') = Len(conns) /\ C' = C
        /\ \A c \in C : conns'[c] = "closed" \/ conns'[c] = conns[c]
    BY <2>1 DEF C
  <2>3. ThreadsOK'
    BY <2>1, <2>2 DEF ThreadsOK
  <2>4. LockOK'
    <3>1. current = 0 \/ current \in C
      BY DEF C
    <3> QED BY <2>1, <2>2, <3>1 DEF LockOK
  <2>5. OneClient'
    BY <2>1 DEF OneClient
  <2>6. Connections'
    BY <2>1, <2>2, <2>3, <2>4, <2>5 DEF Connections, StoreTypeOK
  <2> QED BY <2>1, <2>6, WritesKept DEF Sound
<1>7. CASE UNCHANGED storeVars
  <2>1. /\ UNCHANGED <<conns, current, lock, shaken, closed, result, thread, log, storeFaults>>
        /\ wire' = wire
    BY <1>7 DEF storeVars
  <2>2. Connections'
    BY <2>1, ConnectionsKept
  <2> QED BY <2>1, <2>2, WritesKept DEF Sound
<1> QED BY <1>1, <1>2, <1>3, <1>4, <1>5, <1>6, <1>7 DEF StoreNext

\* The shared store may be retried, for any number of threads, calls,
\* connections, drops, lost requests and time-outs: a write is applied at most
\* once, answers are true, and no connection is left behind but one that dropped
\* or whose coroutine was cancelled.
THEOREM SafeStore ==
  ASSUME StoreAssumption PROVE StoreSpec => []StoreIsSafe
<1>1. StoreInit => StoreInv
  BY StoreInitInv
<1>2. StoreInv /\ [StoreNext]_storeVars => StoreInv'
  BY StoreStep
<1>3. StoreInv => StoreIsSafe
  BY DEF StoreInv
<1> QED BY <1>1, <1>2, <1>3, PTL DEF StoreSpec

----------------------------------------------------------------------------
(* The sequence of runs: the runs of a plan                                *)

\* A set of numbers with a bound has a largest one.
LEMMA LargestExists ==
  ASSUME NEW n \in Nat, NEW S, S \subseteq 0..n, S # {}
  PROVE  \E x \in S : \A y \in S : x >= y
<1> DEFINE T == {k \in Nat : n - k \in S}
<1>1. IsWellFoundedOn(OpToRel(<, Nat), Nat)
  BY NatLessThanWellFounded
<1>2. OpToRel(<, Nat) = {ss \in Nat \X Nat : ss[1] < ss[2]}
  BY DEF OpToRel
<1>3. T \subseteq Nat /\ (\A k \in T : n - k \in S) /\ (\A y \in S : n - y \in T) /\ S \subseteq Int
  OBVIOUS
<1> HIDE DEF T
<1>4. T # {}
  BY <1>3
<1>5. PICK k \in T : \A j \in T : ~(<<j, k>> \in OpToRel(<, Nat))
  BY <1>1, <1>3, <1>4, WFMin
<1>6. \A j \in T : ~(j < k)
  <2> SUFFICES ASSUME NEW j \in T, j < k PROVE FALSE
    OBVIOUS
  <2>1. j \in Nat /\ k \in Nat
    BY <1>3, <1>5
  <2>2. <<j, k>> \in {ss \in Nat \X Nat : ss[1] < ss[2]}
    BY <2>1
  <2> QED BY <1>2, <1>5, <2>2
<1>7. \A y \in S : n - k >= y
  <2> SUFFICES ASSUME NEW y \in S PROVE n - k >= y
    OBVIOUS
  <2>1. ~(n - y < k) /\ y \in Int /\ k \in Nat
    BY <1>3, <1>5, <1>6
  <2> QED BY <2>1
<1> QED BY <1>3, <1>5, <1>7

LEMMA MaxIn ==
  ASSUME NEW n \in Nat, NEW S, S \subseteq 0..n, S # {}
  PROVE  Max(S) \in S
BY LargestExists DEF Max

\* The runs of plan p in the list rs, and those of them that are active.
Of(rs, p) == {i \in 1..Len(rs) : rs[i].plan = p}
Live(rs, p) == {i \in 1..Len(rs) : rs[i].plan = p /\ rs[i].state = "active"}

LEMMA OfFinite ==
  ASSUME NEW rs \in Seq(RunRec), NEW p
  PROVE  IsFiniteSet(Of(rs, p)) /\ Cardinality(Of(rs, p)) \in Nat
<1>1. IsFiniteSet(1..Len(rs)) /\ Of(rs, p) \in SUBSET (1..Len(rs))
  BY FS_Interval DEF Of
<1> QED BY <1>1, FS_Subset, FS_CardinalityType

----------------------------------------------------------------------------
(* The sequence of runs: the steps                                         *)

\* The parts of the invariant in terms of the runs of a plan.
Posted ==
    /\ inFlight <=> post.pc # "none"
    /\ post.pc = "none" => post = NoPost
    /\ post.pc # "none" => post.plan \in 1..Len(plans) /\ plan \in {0, post.plan}
    /\ post.pc \in {"created", "undo"} => post.run \in Of(runs, post.plan)
    /\ post.pc = "undo" => plan = 0
    /\ post.pc = "failed" => post.plan \in excused

Followed ==
    \A p \in 1..Len(plans) : \A i \in Live(runs, p) :
        /\ post.plan = p => \/ post.pc \in {"created", "undo"} /\ i = post.run
                            \/ post.pc = "failed"
        /\ post.plan # p /\ plan = p => i = plans[p].current
        /\ p \in excused \/ plan = p \/ post.plan = p \/ stopping = i
        /\ \A j \in Live(runs, p) : i = j

Counted ==
    \A p \in 1..Len(plans) :
        /\ Cardinality(Of(runs, p)) <= Total
        /\ plan = p /\ post.plan # p => Cardinality(Of(runs, p)) = plans[p].submitted
        /\ post.plan = p /\ post.pc \in {"sent", "refused"} =>
              Cardinality(Of(runs, p)) = plans[p].submitted /\ plans[p].submitted < Total
        /\ post.plan = p /\ post.pc = "created" => Cardinality(Of(runs, p)) = plans[p].submitted + 1
        /\ plans[p].waiting => plans[p].submitted < Total

LEMMA SequenceParts ==
  /\ SequenceInv <=> SequenceTypeOK /\ ListOK /\ Posted /\ Followed /\ Counted
  /\ (SequenceInv <=> SequenceTypeOK /\ ListOK /\ Posted /\ Followed /\ Counted)'
<1>1. \A p : RunsOf(p) = Of(runs, p) /\ ActiveOf(p) = Live(runs, p)
  BY DEF RunsOf, ActiveOf, Of, Live, Ids, ActiveRuns
<1>2. /\ PostOK <=> Posted
      /\ ActiveOK <=> Followed
      /\ CountOK <=> Counted
  BY <1>1 DEF PostOK, Posted, ActiveOK, Followed, CountOK, Counted, Plans
<1>3. SequenceInv <=> SequenceTypeOK /\ ListOK /\ Posted /\ Followed /\ Counted
  BY <1>2 DEF SequenceInv
<1> QED BY <1>3, PTL

LEMMA SequenceTypes ==
  ASSUME SequenceAssumption, SequenceTypeOK
  PROVE  /\ Total \in Nat /\ Total > 0 /\ MaxPlans \in Nat /\ MaxOthers \in Nat /\ MaxSequenceFaults \in Nat
         /\ runs \in Seq(RunRec) /\ Len(runs) \in Nat /\ \A i \in 1..Len(runs) : runs[i] \in RunRec
                /\ runs[i].plan <= Len(plans)
         /\ \A i \in 1..Len(runs) : runs[i].plan \in Nat
         /\ plans \in Seq(PlanRec) /\ Len(plans) \in Nat /\ Len(plans) <= MaxPlans /\ plan \in 0..Len(plans)
         /\ \A p \in 1..Len(plans) : plans[p] \in PlanRec /\ plans[p].current \in 0..Len(runs)
         /\ \A p \in 1..Len(plans) : plans[p].submitted \in 0..Total
         /\ active \in 0..Len(runs) /\ stopping \in 0..Len(runs) /\ inFlight \in BOOLEAN
         /\ post \in PostRec /\ refresh \in RefreshRec
         /\ refresh.pc = "submitting" => post.from = "refresh"
         /\ excused \subseteq 1..Len(plans)
         /\ others \in 0..MaxOthers /\ sequenceFaults \in 0..MaxSequenceFaults
<1>1. Total \in Nat /\ Total > 0 /\ MaxPlans \in Nat /\ MaxOthers \in Nat /\ MaxSequenceFaults \in Nat
  BY DEF SequenceAssumption
<1>2. /\ runs \in Seq(RunRec) /\ \A i \in 1..Len(runs) : runs[i].plan <= Len(plans)
      /\ plans \in Seq(PlanRec) /\ Len(plans) <= MaxPlans /\ plan \in 0..Len(plans)
      /\ \A p \in 1..Len(plans) : plans[p].current <= Len(runs)
      /\ active \in 0..Len(runs) /\ stopping \in 0..Len(runs) /\ inFlight \in BOOLEAN
      /\ post \in PostRec /\ refresh \in RefreshRec
      /\ refresh.pc = "submitting" => post.from = "refresh"
      /\ excused \subseteq 1..Len(plans)
      /\ others \in 0..MaxOthers /\ sequenceFaults \in 0..MaxSequenceFaults
  BY DEF SequenceTypeOK, Ids, Plans
<1>3. \A i \in 1..Len(runs) : runs[i] \in RunRec /\ runs[i].plan \in Nat
  <2>1. \A i \in 1..Len(runs) : runs[i] \in RunRec
    BY <1>2
  <2> QED BY <2>1 DEF RunRec
<1>4. \A p \in 1..Len(plans) : /\ plans[p] \in PlanRec /\ plans[p].current \in Nat
                                 /\ plans[p].submitted \in 0..Total
  <2>1. \A p \in 1..Len(plans) : plans[p] \in PlanRec
    BY <1>2
  <2> QED BY <2>1 DEF PlanRec
<1>5. \A p \in 1..Len(plans) : plans[p].current \in 0..Len(runs)
  BY <1>2, <1>4
<1> QED BY <1>1, <1>2, <1>3, <1>4, <1>5

\* The records of the page's two coroutines.
LEMMA PostShapes ==
  ASSUME SequenceAssumption, SequenceTypeOK
  PROVE  /\ \A c \in {"none", "sent", "created", "refused", "failed", "undo"} :
              /\ [post EXCEPT !.pc = c] \in PostRec
              /\ [post EXCEPT !.pc = c].pc = c /\ [post EXCEPT !.pc = c].plan = post.plan
              /\ [post EXCEPT !.pc = c].from = post.from /\ [post EXCEPT !.pc = c].run = post.run
         /\ NoPost \in PostRec /\ NoPost.pc = "none" /\ NoPost.plan = 0 /\ NoPost.from = "form"
         /\ NoRefresh \in RefreshRec /\ NoRefresh.pc = "idle"
         /\ post.pc \in {"none", "sent", "created", "refused", "failed", "undo"} /\ post.plan \in Nat
         /\ post.run \in Nat
<1>1. post \in PostRec
  BY SequenceTypes
<1>2. << >> \in Seq(RunRec)
  OBVIOUS
<1> QED BY <1>1, <1>2 DEF NoPost, NoRefresh, PostRec, RefreshRec

\* A run is created.
LEMMA RunAdded ==
  ASSUME runs \in Seq(RunRec), NEW q \in Nat, runs' = Append(runs, [plan |-> q, state |-> "active"])
  PROVE  /\ runs' \in Seq(RunRec) /\ Len(runs') = Len(runs) + 1
         /\ \A i \in 1..Len(runs) : runs'[i] = runs[i]
         /\ runs'[Len(runs) + 1].plan = q /\ runs'[Len(runs) + 1].state = "active"
         /\ \A p : p # q => Of(runs', p) = Of(runs, p) /\ Live(runs', p) = Live(runs, p)
         /\ Live(runs', q) = Live(runs, q) \cup {Len(runs) + 1}
         /\ Of(runs', q) = Of(runs, q) \cup {Len(runs) + 1}
         /\ Cardinality(Of(runs', q)) = Cardinality(Of(runs, q)) + 1
<1>1. [plan |-> q, state |-> "active"] \in RunRec
  BY DEF RunRec
<1>2. /\ runs' \in Seq(RunRec) /\ Len(runs') = Len(runs) + 1
      /\ \A i \in 1..Len(runs) : runs'[i] = runs[i]
      /\ runs'[Len(runs) + 1] = [plan |-> q, state |-> "active"]
  BY <1>1
<1>3. runs'[Len(runs) + 1].plan = q /\ runs'[Len(runs) + 1].state = "active"
  BY <1>2
<1>4. 1..Len(runs') = 1..Len(runs) \cup {Len(runs) + 1} /\ Len(runs) + 1 \notin 1..Len(runs)
  BY <1>2
<1>5. /\ \A p : p # q => Of(runs', p) = Of(runs, p) /\ Live(runs', p) = Live(runs, p)
      /\ Live(runs', q) = Live(runs, q) \cup {Len(runs) + 1}
      /\ Of(runs', q) = Of(runs, q) \cup {Len(runs) + 1} /\ Len(runs) + 1 \notin Of(runs, q)
  BY <1>2, <1>3, <1>4 DEF Of, Live
<1>6. Cardinality(Of(runs', q)) = Cardinality(Of(runs, q)) + 1
  BY <1>5, OfFinite, FS_AddElement
<1> QED BY <1>2, <1>3, <1>5, <1>6

\* Run k ends or is stopped.
LEMMA RunOver ==
  ASSUME runs \in Seq(RunRec), NEW k \in Nat, NEW s \in {"ended", "stopped"},
         runs' = [runs EXCEPT ![k].state = IF @ = "active" THEN s ELSE @]
  PROVE  /\ runs' \in Seq(RunRec) /\ Len(runs') = Len(runs)
         /\ \A i \in 1..Len(runs) : /\ runs'[i].plan = runs[i].plan
                                    /\ runs'[i].state = "active" => runs[i].state = "active" /\ i # k
         /\ \A p : Of(runs', p) = Of(runs, p)
         /\ \A p : Live(runs', p) = Live(runs, p) \ {k}
<1>0. \A i \in 1..Len(runs) : runs[i] \in RunRec
  OBVIOUS
<1>1. /\ runs' \in Seq(RunRec) /\ Len(runs') = Len(runs)
      /\ \A i \in 1..Len(runs) : runs'[i].plan = runs[i].plan
      /\ \A i \in 1..Len(runs) : runs'[i].state = IF i = k /\ runs[i].state = "active" THEN s ELSE runs[i].state
  <2>1. CASE k \in 1..Len(runs)
    <3>1. [runs[k] EXCEPT !.state = IF @ = "active" THEN s ELSE @] \in RunRec
      BY <1>0, <2>1 DEF RunRec
    <3>2. runs' = [runs EXCEPT ![k] = [runs[k] EXCEPT !.state = IF @ = "active" THEN s ELSE @]]
      BY <2>1
    <3>3. runs' \in Seq(RunRec) /\ Len(runs') = Len(runs)
      BY <2>1, <3>1, <3>2
    <3> QED BY <1>0, <2>1, <3>2, <3>3 DEF RunRec
  <2>2. CASE k \notin 1..Len(runs)
    <3>1. runs' = runs
      BY <2>2
    <3> QED BY <2>2, <3>1
  <2> QED BY <2>1, <2>2
<1> QED BY <1>1 DEF Of, Live

LEMMA PressStartStep ==
  ASSUME SequenceAssumption, SequenceInv, PressStart
  PROVE  SequenceInv'
<1>0. SequenceTypeOK /\ ListOK /\ Posted /\ Followed /\ Counted
  BY SequenceParts
<1> DEFINE n == Len(plans) + 1
<1>1. /\ plan = 0 /\ ~inFlight /\ Len(plans) < MaxPlans
      /\ plan' = n /\ inFlight' = TRUE /\ plans' = Append(plans, NewPlan)
      /\ UNCHANGED <<runs, active, refresh, stopping, excused, others, sequenceFaults>>
      /\ post' = [pc |-> "sent", plan |-> n, from |-> "form", run |-> 0]
  BY DEF PressStart
<1>2. /\ post.pc = "none" /\ post.plan = 0 /\ refresh.pc # "submitting"
  BY <1>0, <1>1, SequenceTypes DEF Posted, NoPost
<1>3. n \in Nat /\ Len(plans) \in Nat /\ plans \in Seq(PlanRec)
  BY <1>0, SequenceTypes
<1>4. post'.pc = "sent" /\ post'.plan = n /\ post' \in PostRec
  BY <1>1, <1>3 DEF PostRec
<1>5. NewPlan \in PlanRec /\ NewPlan.current = 0 /\ NewPlan.submitted = 0 /\ NewPlan.waiting = FALSE
  BY <1>0, SequenceTypes DEF NewPlan, PlanRec
<1>6. /\ plans' \in Seq(PlanRec) /\ Len(plans') = n /\ plans'[n] = NewPlan
      /\ \A p \in 1..Len(plans) : plans'[p] = plans[p] /\ p # n
      /\ \A p \in 1..n : p \in 1..Len(plans) \/ p = n
  BY <1>1, <1>3, <1>5
<1>7. Of(runs, n) = {} /\ Live(runs, n) = {}
  BY <1>0, <1>3, SequenceTypes, SMTT(30) DEF Of, Live
<1>8. Cardinality(Of(runs, n)) = 0
  BY <1>7, FS_EmptySet
<1> HIDE DEF n
<1>9. SequenceTypeOK' /\ ListOK'
  BY <1>0, <1>1, <1>2, <1>3, <1>4, <1>5, <1>6, SequenceTypes, SMTT(30) DEF SequenceTypeOK, ListOK, Ids, Plans, n
<1>10. Posted'
  BY <1>1, <1>4, <1>6, <1>3 DEF Posted, n
<1>11. Followed'
  BY <1>0, <1>1, <1>2, <1>4, <1>6, <1>7 DEF Followed
<1>12. Counted'
  BY <1>0, <1>1, <1>2, <1>3, <1>4, <1>5, <1>6, <1>8, SequenceTypes DEF Counted
<1> QED BY <1>9, <1>10, <1>11, <1>12, SequenceParts

LEMMA ServerCreatesStep ==
  ASSUME SequenceAssumption, SequenceInv, ServerCreates
  PROVE  SequenceInv'
<1>0. SequenceTypeOK /\ ListOK /\ Posted /\ Followed /\ Counted
  BY SequenceParts
<1> DEFINE n == Len(runs) + 1  q == post.plan
<1>1. /\ post.pc = "sent" /\ post' = [post EXCEPT !.pc = "created", !.run = n]
      /\ runs' = Append(runs, [plan |-> q, state |-> "active"])
      /\ UNCHANGED <<plan, plans, active, inFlight, refresh, stopping, excused, others>>
      /\ sequenceFaults' \in 0..MaxSequenceFaults
  BY <1>0, SequenceTypes DEF ServerCreates, SequenceFault, page
<1>2. q \in 1..Len(plans) /\ plan \in {0, q} /\ inFlight = TRUE
  BY <1>0, <1>1, SequenceTypes DEF Posted
<1>3. n \in Nat /\ Len(plans) \in Nat /\ runs \in Seq(RunRec) /\ q \in Nat /\ Len(runs) \in Nat
  BY <1>0, <1>2, SequenceTypes
<1>4. post'.pc = "created" /\ post'.plan = q /\ post'.run = n /\ post' \in PostRec /\ post'.from = post.from
  BY <1>0, <1>1, <1>3, SequenceTypes DEF PostRec
<1>5. /\ runs' \in Seq(RunRec) /\ Len(runs') = n
      /\ \A i \in 1..Len(runs) : runs'[i] = runs[i]
      /\ runs'[n].plan = q /\ runs'[n].state = "active"
      /\ \A p : p # q => Of(runs', p) = Of(runs, p) /\ Live(runs', p) = Live(runs, p)
      /\ Live(runs', q) = Live(runs, q) \cup {n} /\ Of(runs', q) = Of(runs, q) \cup {n}
      /\ Cardinality(Of(runs', q)) = Cardinality(Of(runs, q)) + 1
  BY <1>1, <1>3, RunAdded
<1>6. Live(runs, q) = {}
  BY <1>0, <1>1, <1>2 DEF Followed
<1>7. Cardinality(Of(runs, q)) = plans[q].submitted /\ plans[q].submitted < Total
  BY <1>0, <1>1, <1>2 DEF Counted
<1>8. \A i \in 1..n : i \in 1..Len(runs) \/ i = n
  BY <1>3
<1> HIDE DEF n, q
<1>9. SequenceTypeOK' /\ ListOK'
  <2>1. \A i \in 1..Len(runs') : runs'[i].plan <= Len(plans')
    BY SMTT(30), <1>0, <1>1, <1>2, <1>5, <1>8, SequenceTypes
  <2>2. \A i \in 0..Len(runs) : i \in 0..Len(runs')
    BY <1>3, <1>5 DEF n
  <2>3. SequenceTypeOK'
    BY <1>0, <1>1, <1>4, <1>5, <2>1, <2>2, SequenceTypes, SMTT(30) DEF SequenceTypeOK, Ids, Plans
  <2>4. ListOK'
    BY SMTT(30), <1>0, <1>1, <1>3, <1>5, SequenceTypes DEF ListOK, RefreshRec, n
  <2> QED BY <2>3, <2>4
<1>10. Posted'
  BY <1>1, <1>2, <1>4, <1>5 DEF Posted
<1>11. Followed'
  BY <1>0, <1>1, <1>2, <1>4, <1>5, <1>6 DEF Followed, q
<1>12. Counted'
  <2>1. \A p \in 1..Len(plans) : plans[p].submitted \in Nat /\ Total \in Nat
    BY <1>0, SequenceTypes
  <2>2. Cardinality(Of(runs', q)) = plans'[q].submitted + 1 /\ Cardinality(Of(runs', q)) <= Total
    BY <1>1, <1>2, <1>5, <1>7, <2>1
  <2> QED BY <1>0, <1>1, <1>2, <1>4, <1>5, <1>7, <2>2 DEF Counted, q
<1> QED BY <1>9, <1>10, <1>11, <1>12, SequenceParts

LEMMA ServerRefusesStep ==
  ASSUME SequenceAssumption, SequenceInv, ServerRefuses
  PROVE  SequenceInv'
<1>0. SequenceTypeOK /\ ListOK /\ Posted /\ Followed /\ Counted
  BY SequenceParts
<1>1. /\ post.pc = "sent" /\ post' = [post EXCEPT !.pc = "refused"]
      /\ UNCHANGED <<runs, plan, plans, active, inFlight, refresh, stopping, excused, others, sequenceFaults>>
  BY DEF ServerRefuses, page
<1>2. /\ post'.pc = "refused" /\ post'.plan = post.plan /\ post'.run = post.run /\ post' \in PostRec
      /\ post'.from = post.from
  BY <1>0, <1>1, PostShapes
<1>9. SequenceTypeOK' /\ ListOK'
  BY <1>0, <1>1, <1>2 DEF SequenceTypeOK, ListOK, Ids, Plans
<1>10. Posted'
  BY <1>0, <1>1, <1>2 DEF Posted
<1>11. Followed'
  BY <1>0, <1>1, <1>2 DEF Followed
<1>12. Counted'
  BY <1>0, <1>1, <1>2 DEF Counted
<1> QED BY <1>9, <1>10, <1>11, <1>12, SequenceParts

LEMMA ListKept ==
  ASSUME SequenceAssumption, SequenceTypeOK, ListOK, refresh'.pc = "listed" => refresh' = refresh,
         Len(runs') \in Nat, Len(runs) <= Len(runs'),
         \A i \in 1..Len(runs) : runs'[i].state = "active" => runs[i].state = "active"
  PROVE  ListOK'
<1> SUFFICES ASSUME refresh'.pc = "listed"
             PROVE  /\ Len(refresh'.list) <= Len(runs')
                    /\ \A i \in 1..Len(refresh'.list) :
                          refresh'.list[i].state # "active" => runs'[i].state # "active"
  BY DEF ListOK
<1>1. refresh' = refresh /\ refresh.list \in Seq(RunRec) /\ Len(runs) \in Nat
  BY SequenceTypes DEF RefreshRec
<1>2. Len(refresh.list) \in Nat
  BY <1>1
<1>3. /\ Len(refresh.list) <= Len(runs)
      /\ \A i \in 1..Len(refresh.list) : refresh.list[i].state # "active" => runs[i].state # "active"
  BY <1>1 DEF ListOK
<1>4. \A i \in 1..Len(refresh.list) : i \in 1..Len(runs)
  BY <1>1, <1>2, <1>3
<1> QED BY <1>1, <1>2, <1>3, <1>4

LEMMA PostFailsStep ==
  ASSUME SequenceAssumption, SequenceInv, PostFails
  PROVE  SequenceInv'
<1>0. SequenceTypeOK /\ ListOK /\ Posted /\ Followed /\ Counted
  BY SequenceParts
<1> DEFINE q == post.plan
<1>1. /\ post.pc = "sent" /\ post' = [post EXCEPT !.pc = "failed"]
      /\ excused' = excused \cup {q}
      /\ runs' = runs \/ runs' = Append(runs, [plan |-> q, state |-> "active"])
      /\ UNCHANGED <<plan, plans, active, inFlight, refresh, stopping, others>>
      /\ sequenceFaults' \in 0..MaxSequenceFaults
  BY SMTT(30), <1>0, SequenceTypes DEF PostFails, SequenceFault, page
<1>2. /\ q \in 1..Len(plans) /\ plan \in {0, q} /\ inFlight = TRUE
      /\ Len(runs) \in Nat /\ runs \in Seq(RunRec) /\ q \in Nat
  BY <1>0, <1>1, SequenceTypes DEF Posted
<1>3. /\ post'.pc = "failed" /\ post'.plan = q /\ post'.run = post.run /\ post' \in PostRec
      /\ post'.from = post.from
  BY <1>0, <1>1, PostShapes
<1>4. Live(runs, q) = {} /\ Cardinality(Of(runs, q)) = plans[q].submitted /\ plans[q].submitted < Total
  BY <1>0, <1>1, <1>2 DEF Followed, Counted
<1>5. /\ runs' \in Seq(RunRec) /\ Len(runs) <= Len(runs') /\ Len(runs') \in Nat
      /\ \A i \in 1..Len(runs) : runs'[i] = runs[i]
      /\ \A i \in 1..Len(runs') : i \in 1..Len(runs) \/ runs'[i].plan = q
      /\ \A p : p # q => Of(runs', p) = Of(runs, p) /\ Live(runs', p) = Live(runs, p)
      /\ \A i, j \in Live(runs', q) : i = j
      /\ Cardinality(Of(runs', q)) \in {Cardinality(Of(runs, q)), Cardinality(Of(runs, q)) + 1}
  <2>1. CASE runs' = runs
    <3> HIDE DEF q
    <3> QED BY <1>2, <1>4, <2>1
  <2>2. CASE runs' = Append(runs, [plan |-> q, state |-> "active"])
    <3> HIDE DEF q
    <3>1. \A i \in 1..(Len(runs) + 1) : i \in 1..Len(runs) \/ i = Len(runs) + 1
      BY <1>2
    <3>2. \A i, j \in {} \cup {Len(runs) + 1} : i = j
      OBVIOUS
    <3> QED BY <1>2, <1>4, <2>2, <3>1, <3>2, RunAdded
  <2> QED BY <1>1, <2>1, <2>2
<1> HIDE DEF q
<1>9. SequenceTypeOK' /\ ListOK'
  <2>1. \A i \in 1..Len(runs') : runs'[i].plan <= Len(plans')
    BY <1>0, <1>1, <1>2, <1>5, SequenceTypes, SMTT(30)
  <2>2. \A i \in 0..Len(runs) : i \in 0..Len(runs')
    BY <1>2, <1>5
  <2>3. SequenceTypeOK'
    BY <1>0, <1>1, <1>2, <1>3, <1>5, <2>1, <2>2, SequenceTypes, SMTT(30) DEF SequenceTypeOK, Ids, Plans
  <2>4. ListOK'
    BY <1>0, <1>1, <1>5, ListKept
  <2> QED BY <2>3, <2>4
<1>10. Posted'
  BY <1>1, <1>2, <1>3 DEF Posted
<1>11. Followed'
  BY <1>0, <1>1, <1>2, <1>3, <1>5 DEF Followed, q
<1>12. Counted'
  <2>1. \A p \in 1..Len(plans) : plans[p].submitted \in Nat /\ Total \in Nat
    BY <1>0, SequenceTypes
  <2>2. Cardinality(Of(runs', q)) <= Total
    BY <1>2, <1>4, <1>5, <2>1
  <2> QED BY <1>0, <1>1, <1>2, <1>3, <1>5, <2>2 DEF Counted, q
<1> QED BY <1>9, <1>10, <1>11, <1>12, SequenceParts

LEMMA SubmittedFacts ==
  ASSUME SequenceAssumption, SequenceTypeOK, Submitted
  PROVE  /\ inFlight' = FALSE /\ post' = NoPost /\ post'.pc = "none" /\ post'.plan = 0 /\ post' \in PostRec
         /\ refresh' \in RefreshRec /\ refresh'.pc # "submitting"
         /\ refresh'.pc = "listed" => refresh' = refresh
<1>1. post.from \in {"form", "refresh"} /\ (refresh.pc = "submitting" => post.from = "refresh")
          /\ refresh \in RefreshRec
  BY SequenceTypes DEF PostRec
<1>2. NoRefresh.pc = "idle" /\ NoRefresh \in RefreshRec /\ NoPost \in PostRec /\ NoPost.pc = "none" /\ NoPost.plan = 0
  BY PostShapes
<1> QED BY <1>1, <1>2 DEF Submitted

LEMMA CreatedStep ==
  ASSUME SequenceAssumption, SequenceInv, Created
  PROVE  SequenceInv'
<1>0. SequenceTypeOK /\ ListOK /\ Posted /\ Followed /\ Counted
  BY SequenceParts
<1> DEFINE q == post.plan  r == post.run
<1>1. /\ post.pc = "created" /\ active' = r
      /\ UNCHANGED <<runs, plan, stopping, excused, others, sequenceFaults>>
  BY DEF Created
<1>2. /\ q \in 1..Len(plans) /\ plan \in {0, q} /\ q # 0 /\ inFlight = TRUE /\ r \in Of(runs, q)
  BY <1>0, <1>1, SequenceTypes DEF Posted
<1>3. r \in 1..Len(runs) /\ r \in 0..Len(runs) /\ r \in Nat /\ q \in Nat
  BY <1>0, <1>2, SequenceTypes, SMTT(30) DEF Of
<1>4. /\ \A i \in Live(runs, q) : i = r
      /\ Cardinality(Of(runs, q)) = plans[q].submitted + 1
      /\ Cardinality(Of(runs, q)) <= Total
  BY <1>0, <1>1, <1>2 DEF Followed, Counted
<1>5. CASE plan # q
  <2>1. plan = 0 /\ post' = [post EXCEPT !.pc = "undo"] /\ UNCHANGED <<plans, inFlight, refresh>>
    BY <1>2, <1>5 DEF Created, Cancelled
  <2>2. /\ post'.pc = "undo" /\ post'.plan = q /\ post'.run = r /\ post' \in PostRec /\ post'.from = post.from
    BY <1>0, <2>1, PostShapes
  <2>9. SequenceTypeOK' /\ ListOK'
    BY <1>0, <1>1, <1>3, <2>1, <2>2 DEF SequenceTypeOK, ListOK, Ids, Plans
  <2>10. Posted'
    BY <1>1, <1>2, <2>1, <2>2 DEF Posted
  <2>11. Followed'
    BY <1>0, <1>1, <2>1, <2>2 DEF Followed
  <2>12. Counted'
    BY <1>0, <1>1, <2>1, <2>2 DEF Counted
  <2> QED BY <2>9, <2>10, <2>11, <2>12, SequenceParts
<1>6. CASE plan = q
  <2> DEFINE new == [current |-> r, submitted |-> plans[q].submitted + 1, waiting |-> FALSE]
  <2>1. Submitted /\ plans' = [plans EXCEPT ![q] = new]
    BY <1>6 DEF Created, Cancelled
  <2>2. /\ inFlight' = FALSE /\ post' = NoPost /\ post'.pc = "none" /\ post'.plan = 0 /\ post' \in PostRec
        /\ refresh' \in RefreshRec /\ refresh'.pc # "submitting"
        /\ refresh'.pc = "listed" => refresh' = refresh
    BY <1>0, <2>1, SubmittedFacts
  <2>3. plans \in Seq(PlanRec) /\ plans[q].submitted \in Nat /\ Total \in Nat
    BY <1>0, <1>2, SequenceTypes
  <2>4. plans[q].submitted + 1 \in 0..Total
    BY <1>4, <2>3
  <2>5. new \in PlanRec /\ new.current = r /\ new.submitted = plans[q].submitted + 1 /\ new.waiting = FALSE
    BY <1>3, <2>4 DEF PlanRec
  <2> HIDE DEF new
  <2>6. /\ plans' \in Seq(PlanRec) /\ Len(plans') = Len(plans)
        /\ plans'[q] = new /\ \A p \in 1..Len(plans) : p # q => plans'[p] = plans[p]
    BY <1>2, <2>1, <2>3, <2>5
  <2> HIDE DEF q, r
  <2>9. SequenceTypeOK' /\ ListOK'
    <3>1. \A p \in 1..Len(plans') : plans'[p].current <= Len(runs')
      <4> SUFFICES ASSUME NEW p \in 1..Len(plans) PROVE plans'[p].current <= Len(runs)
        BY <1>1, <2>6
      <4>1. plans[p].current \in 0..Len(runs) /\ r \in 0..Len(runs) /\ Len(runs) \in Nat
        BY <1>0, <1>3, SequenceTypes
      <4>2. plans'[p].current = plans[p].current \/ plans'[p].current = r
        BY <2>5, <2>6
      <4> QED BY <4>1, <4>2
    <3>2. SequenceTypeOK'
      <4>1. active' \in 0..Len(runs')
        BY <1>1, <1>3 DEF r
      <4> QED BY <1>0, <1>1, <2>2, <2>6, <3>1, <4>1, SequenceTypes DEF SequenceTypeOK, Ids, Plans
    <3>3. ListOK'
      BY <1>0, <1>1, <2>2 DEF ListOK
    <3> QED BY <3>2, <3>3
  <2>10. Posted'
    BY <2>2 DEF Posted
  <2>11. Followed'
    BY <1>0, <1>1, <1>2, <1>4, <1>6, <2>2, <2>5, <2>6 DEF Followed, q
  <2>12. Counted'
    BY <1>0, <1>1, <1>2, <1>4, <1>6, <2>2, <2>5, <2>6 DEF Counted, q
  <2> QED BY <2>9, <2>10, <2>11, <2>12, SequenceParts
<1> QED BY <1>5, <1>6

LEMMA UndoStep ==
  ASSUME SequenceAssumption, SequenceInv, Undo
  PROVE  SequenceInv'
<1>0. SequenceTypeOK /\ ListOK /\ Posted /\ Followed /\ Counted
  BY SequenceParts
<1> DEFINE q == post.plan  r == post.run
<1>1. /\ post.pc = "undo" /\ Submitted
      /\ UNCHANGED <<plan, plans, stopping, others>>
  BY DEF Undo
<1>2. /\ q \in 1..Len(plans) /\ plan = 0 /\ r \in Of(runs, q)
  BY <1>0, <1>1 DEF Posted
<1>3. /\ r \in Nat /\ q \in Nat /\ runs \in Seq(RunRec) /\ Len(runs) \in Nat /\ 0 \in 0..Len(runs)
      /\ \A p \in 1..Len(plans) : p # 0
  BY SMTT(30), <1>0, <1>2, SequenceTypes DEF Of
<1>4. \A i \in Live(runs, q) : i = r
  BY <1>0, <1>1, <1>2 DEF Followed
<1>5. /\ inFlight' = FALSE /\ post' = NoPost /\ post'.pc = "none" /\ post'.plan = 0 /\ post' \in PostRec
      /\ refresh' \in RefreshRec /\ refresh'.pc # "submitting"
      /\ refresh'.pc = "listed" => refresh' = refresh
  BY <1>0, <1>1, SubmittedFacts
<1>6. /\ active' \in 0..Len(runs) /\ excused' \subseteq 1..Len(plans) /\ excused \subseteq excused'
      /\ sequenceFaults' \in 0..MaxSequenceFaults
      /\ runs' \in Seq(RunRec) /\ Len(runs') = Len(runs)
      /\ \A i \in 1..Len(runs) : /\ runs'[i].plan = runs[i].plan
                                 /\ runs'[i].state = "active" => runs[i].state = "active"
      /\ \A p : Of(runs', p) = Of(runs, p)
      /\ \A p : Live(runs', p) \subseteq Live(runs, p)
      /\ q \in excused' \/ Live(runs', q) = {}
  <2>1. CASE /\ runs' = [runs EXCEPT ![r].state = IF @ = "active" THEN "stopped" ELSE @]
             /\ active' = 0 /\ UNCHANGED <<excused, sequenceFaults>>
    <3> HIDE DEF q, r
    <3>1. /\ runs' \in Seq(RunRec) /\ Len(runs') = Len(runs)
          /\ \A i \in 1..Len(runs) : /\ runs'[i].plan = runs[i].plan
                                     /\ runs'[i].state = "active" => runs[i].state = "active" /\ i # r
          /\ \A p : Of(runs', p) = Of(runs, p)
          /\ \A p : Live(runs', p) = Live(runs, p) \ {r}
      BY <1>3, <2>1, RunOver
    <3>2. Live(runs', q) = {}
      BY <1>4, <3>1
    <3>3. excused \subseteq 1..Len(plans) /\ sequenceFaults \in 0..MaxSequenceFaults
      BY <1>0, SequenceTypes
    <3> QED BY <1>3, <2>1, <3>1, <3>2, <3>3
  <2>2. CASE SequenceFault /\ excused' = excused \cup {q} /\ UNCHANGED <<runs, active>>
    <3>1. sequenceFaults' \in 0..MaxSequenceFaults
      BY <1>0, <2>2, SequenceTypes DEF SequenceFault
    <3> QED BY <1>0, <1>2, <2>2, <3>1, SequenceTypes
  <2> QED BY <2>1, <2>2 DEF Undo
<1> HIDE DEF q, r
<1>9. SequenceTypeOK' /\ ListOK'
  <2>1. SequenceTypeOK'
    <3>1. \A i \in 1..Len(runs') : runs'[i].plan <= Len(plans')
      BY <1>0, <1>1, <1>6, SequenceTypes
    <3> QED BY <1>0, <1>1, <1>3, <1>5, <1>6, <3>1, SequenceTypes DEF SequenceTypeOK, Ids, Plans
  <2>2. ListOK'
    BY <1>0, <1>3, <1>5, <1>6, ListKept
  <2> QED BY <2>1, <2>2
<1>10. Posted'
  BY <1>5 DEF Posted
<1>11. Followed'
  BY <1>0, <1>1, <1>2, <1>3, <1>5, <1>6 DEF Followed, q
<1>12. Counted'
  BY <1>0, <1>1, <1>2, <1>3, <1>5, <1>6 DEF Counted
<1> QED BY <1>9, <1>10, <1>11, <1>12, SequenceParts

LEMMA RefusedStep ==
  ASSUME SequenceAssumption, SequenceInv, Refused \/ Failed
  PROVE  SequenceInv'
<1>0. SequenceTypeOK /\ ListOK /\ Posted /\ Followed /\ Counted
  BY SequenceParts
<1> DEFINE q == post.plan
<1>1. /\ post.pc = "refused" \/ (post.pc = "failed" /\ plan' # q)
      /\ Submitted
      /\ plan' \in {0, plan}
      /\ UNCHANGED <<runs, plans, active, stopping, excused, others, sequenceFaults>>
  BY <1>0, SequenceTypes DEF Refused, Failed, Posted
<1>2. /\ q \in 1..Len(plans) /\ plan \in {0, q} /\ (post.pc = "failed" => q \in excused)
      /\ \A p \in 1..Len(plans) : p # 0
  BY <1>0, <1>1, SequenceTypes DEF Posted
<1>5. /\ inFlight' = FALSE /\ post' = NoPost /\ post'.pc = "none" /\ post'.plan = 0 /\ post' \in PostRec
      /\ refresh' \in RefreshRec /\ refresh'.pc # "submitting"
      /\ refresh'.pc = "listed" => refresh' = refresh
  BY <1>0, <1>1, SubmittedFacts
<1>6. post.pc = "refused" => Live(runs, q) = {} /\ Cardinality(Of(runs, q)) = plans[q].submitted
  BY <1>0, <1>2 DEF Followed, Counted
<1> HIDE DEF q
<1>9. SequenceTypeOK' /\ ListOK'
  <2>1. plan' \in 0..Len(plans)
    BY <1>0, <1>1, SequenceTypes
  <2>2. SequenceTypeOK'
    BY <1>0, <1>1, <1>5, <2>1 DEF SequenceTypeOK, Ids, Plans
  <2>3. ListOK'
    BY <1>0, <1>1, <1>5 DEF ListOK
  <2> QED BY <2>2, <2>3
<1>10. Posted'
  BY <1>5 DEF Posted
<1>11. Followed'
  BY <1>0, <1>1, <1>2, <1>5, <1>6 DEF Followed, q
<1>12. Counted'
  BY <1>0, <1>1, <1>2, <1>5, <1>6 DEF Counted, q
<1> QED BY <1>9, <1>10, <1>11, <1>12, SequenceParts

LEMMA RefreshStep ==
  ASSUME SequenceAssumption, SequenceInv, Refresh \/ List \/ RefreshFails
  PROVE  SequenceInv'
<1>0. SequenceTypeOK /\ ListOK /\ Posted /\ Followed /\ Counted
  BY SequenceParts
<1>1. /\ UNCHANGED <<runs, plan, plans, active, inFlight, post, stopping, excused, others>>
      /\ sequenceFaults' \in 0..MaxSequenceFaults
  BY <1>0, SequenceTypes DEF Refresh, List, RefreshFails, SequenceFault, page
<1>2. refresh' \in RefreshRec /\ refresh'.pc # "submitting" /\ (refresh'.pc = "listed" => refresh'.list = runs)
  <2>1. refresh \in RefreshRec /\ runs \in Seq(RunRec) /\ NoRefresh \in RefreshRec /\ NoRefresh.pc = "idle"
    BY <1>0, SequenceTypes, PostShapes
  <2> QED BY <2>1 DEF Refresh, List, RefreshFails, RefreshRec
<1>3. SequenceTypeOK'
  BY <1>0, <1>1, <1>2 DEF SequenceTypeOK, Ids, Plans
<1>4. ListOK'
  BY SMTT(30), <1>0, <1>1, <1>2, SequenceTypes DEF ListOK
<1>5. Posted' /\ Followed' /\ Counted'
  BY <1>0, <1>1 DEF Posted, Followed, Counted
<1> QED BY <1>3, <1>4, <1>5, SequenceParts

LEMMA PressStopStep ==
  ASSUME SequenceAssumption, SequenceInv, PressStop
  PROVE  SequenceInv'
<1>0. SequenceTypeOK /\ ListOK /\ Posted /\ Followed /\ Counted
  BY SequenceParts
<1>1. /\ stopping = 0 /\ plan' = 0 /\ stopping' = IF plan # 0 THEN plans[plan].current ELSE active
      /\ UNCHANGED <<runs, plans, active, inFlight, post, refresh, excused, others, sequenceFaults>>
  BY DEF PressStop
<1>2. stopping' \in 0..Len(runs) /\ 0 \in 0..Len(plans)
  BY <1>0, <1>1, SequenceTypes
<1>3. /\ \A p : \A i \in Live(runs, p) : i # 0
      /\ \A p \in 1..Len(plans) : p # 0
  BY <1>0, SequenceTypes DEF Live
<1>4. SequenceTypeOK' /\ ListOK'
  BY <1>0, <1>1, <1>2 DEF SequenceTypeOK, Ids, Plans, ListOK
<1>5. Posted'
  BY <1>0, <1>1 DEF Posted
<1>6. Followed'
  <2> SUFFICES ASSUME NEW p \in 1..Len(plans), NEW i \in Live(runs, p)
               PROVE  p \in excused \/ post.plan = p \/ stopping' = i
    BY <1>0, <1>1, <1>3 DEF Followed
  <2>1. /\ post.plan # p /\ plan = p => i = plans[p].current
        /\ p \in excused \/ plan = p \/ post.plan = p \/ stopping = i
    BY <1>0 DEF Followed
  <2> QED BY <1>1, <1>3, <2>1
<1>7. Counted'
  BY <1>0, <1>1, <1>3 DEF Counted
<1> QED BY <1>4, <1>5, <1>6, <1>7, SequenceParts

LEMMA StopAnsweredStep ==
  ASSUME SequenceAssumption, SequenceInv, StopAnswered
  PROVE  SequenceInv'
<1>0. SequenceTypeOK /\ ListOK /\ Posted /\ Followed /\ Counted
  BY SequenceParts
<1> DEFINE k == stopping
<1>1. /\ k # 0 /\ stopping' = 0 /\ UNCHANGED <<plan, plans, inFlight, post, refresh, others>>
  BY DEF StopAnswered
<1>2. /\ k \in Nat /\ k \in 1..Len(runs) /\ runs \in Seq(RunRec) /\ Len(runs) \in Nat /\ 0 \in 0..Len(runs)
      /\ runs[k].plan \in 0..Len(plans) /\ excused \subseteq 1..Len(plans) /\ active \in 0..Len(runs)
  BY <1>0, <1>1, SequenceTypes
<1>3. /\ active' \in 0..Len(runs) /\ excused' \subseteq 1..Len(plans) /\ excused \subseteq excused'
      /\ sequenceFaults' \in 0..MaxSequenceFaults
      /\ runs' \in Seq(RunRec) /\ Len(runs') = Len(runs)
      /\ \A i \in 1..Len(runs) : /\ runs'[i].plan = runs[i].plan
                                 /\ runs'[i].state = "active" => runs[i].state = "active"
      /\ \A p : Of(runs', p) = Of(runs, p)
      /\ \A p : Live(runs', p) \subseteq Live(runs, p)
      /\ \A p \in 1..Len(plans) : k \in Live(runs', p) => p \in excused'
  <2>1. CASE /\ runs' = [runs EXCEPT ![k].state = IF @ = "active" THEN "stopped" ELSE @]
             /\ active' = IF active = k THEN 0 ELSE active
             /\ UNCHANGED <<excused, sequenceFaults>>
    <3> HIDE DEF k
    <3>1. /\ runs' \in Seq(RunRec) /\ Len(runs') = Len(runs)
          /\ \A i \in 1..Len(runs) : /\ runs'[i].plan = runs[i].plan
                                     /\ runs'[i].state = "active" => runs[i].state = "active" /\ i # k
          /\ \A p : Of(runs', p) = Of(runs, p)
          /\ \A p : Live(runs', p) = Live(runs, p) \ {k}
      BY <1>2, <2>1, RunOver
    <3>2. sequenceFaults \in 0..MaxSequenceFaults
      BY <1>0, SequenceTypes
    <3> QED BY <1>2, <2>1, <3>1, <3>2
  <2>2. CASE SequenceFault /\ excused' = excused \cup ({runs[k].plan} \ {0}) /\ UNCHANGED <<runs, active>>
    <3>1. sequenceFaults' \in 0..MaxSequenceFaults
      BY <1>0, <2>2, SequenceTypes DEF SequenceFault
    <3>2. excused' \subseteq 1..Len(plans)
      <4>1. runs[k].plan # 0 => runs[k].plan \in 1..Len(plans)
        BY <1>0, <1>2, SequenceTypes
      <4> QED BY <1>2, <2>2, <4>1
    <3>3. \A p \in 1..Len(plans) : k \in Live(runs, p) => p \in excused'
      BY <2>2, <1>0, SequenceTypes DEF Live
    <3> QED BY <1>2, <2>2, <3>1, <3>2, <3>3
  <2> QED BY <2>1, <2>2 DEF StopAnswered
<1> HIDE DEF k
<1>4. SequenceTypeOK'
  <2>1. \A i \in 1..Len(runs') : runs'[i].plan <= Len(plans')
    BY <1>0, <1>1, <1>3, SequenceTypes
  <2> QED BY <1>0, <1>1, <1>2, <1>3, <2>1, SequenceTypes DEF SequenceTypeOK, Ids, Plans
<1>5. ListOK'
  BY <1>0, <1>1, <1>2, <1>3, ListKept
<1>6. Posted'
  BY <1>0, <1>1, <1>3 DEF Posted
<1>7. Followed'
  BY <1>0, <1>1, <1>3 DEF Followed, k
<1>8. Counted'
  BY <1>0, <1>1, <1>3 DEF Counted
<1> QED BY <1>4, <1>5, <1>6, <1>7, <1>8, SequenceParts

LEMMA RunEndsStep ==
  ASSUME SequenceAssumption, SequenceInv, NEW k \in Ids, RunEnds(k)
  PROVE  SequenceInv'
<1>0. SequenceTypeOK /\ ListOK /\ Posted /\ Followed /\ Counted
  BY SequenceParts
<1>1. /\ runs[k].state = "active" /\ runs' = [runs EXCEPT ![k].state = "ended"]
      /\ UNCHANGED <<plan, plans, active, inFlight, post, refresh, stopping, excused, others, sequenceFaults>>
  BY DEF RunEnds, page
<1>2. k \in 1..Len(runs) /\ k \in Nat /\ runs \in Seq(RunRec) /\ Len(runs) \in Nat
  BY <1>0, SequenceTypes DEF Ids
<1>3. runs' = [runs EXCEPT ![k].state = IF @ = "active" THEN "ended" ELSE @]
  BY <1>1, <1>2
<1>4. /\ runs' \in Seq(RunRec) /\ Len(runs') = Len(runs)
      /\ \A i \in 1..Len(runs) : /\ runs'[i].plan = runs[i].plan
                                 /\ runs'[i].state = "active" => runs[i].state = "active" /\ i # k
      /\ \A p : Of(runs', p) = Of(runs, p)
      /\ \A p : Live(runs', p) = Live(runs, p) \ {k}
  BY <1>2, <1>3, RunOver
<1>5. SequenceTypeOK'
  <2>1. \A i \in 1..Len(runs') : runs'[i].plan <= Len(plans')
    BY <1>0, <1>1, <1>4, SequenceTypes
  <2> QED BY <1>0, <1>1, <1>2, <1>4, <2>1, SequenceTypes DEF SequenceTypeOK, Ids, Plans
<1>6. ListOK'
  BY <1>0, <1>1, <1>2, <1>4, ListKept
<1>7. Posted'
  BY <1>0, <1>1, <1>4 DEF Posted
<1>8. Followed'
  <2>1. \A p \in 1..Len(plans) : \A i \in Live(runs', p) : i \in Live(runs, p)
    BY <1>4
  <2>2. \A p \in 1..Len(plans) : \A i \in Live(runs, p) :
           /\ post.plan = p => \/ post.pc \in {"created", "undo"} /\ i = post.run
                               \/ post.pc = "failed"
           /\ post.plan # p /\ plan = p => i = plans[p].current
           /\ p \in excused \/ plan = p \/ post.plan = p \/ stopping = i
           /\ \A j \in Live(runs, p) : i = j
    BY <1>0 DEF Followed
  <2>3. \A p \in 1..Len(plans) : \A i \in Live(runs', p) :
           /\ post.plan = p => \/ post.pc \in {"created", "undo"} /\ i = post.run
                               \/ post.pc = "failed"
           /\ post.plan # p /\ plan = p => i = plans[p].current
           /\ p \in excused \/ plan = p \/ post.plan = p \/ stopping = i
           /\ \A j \in Live(runs', p) : i = j
    BY <2>1, <2>2
  <2>4. /\ post' = post /\ plan' = plan /\ plans' = plans /\ excused' = excused /\ stopping' = stopping
    BY <1>1
  <2> QED BY <2>3, <2>4, Zenon DEF Followed
<1>9. Counted'
  BY <1>0, <1>1, <1>4 DEF Counted
<1> QED BY <1>5, <1>6, <1>7, <1>8, <1>9, SequenceParts

LEMMA OtherStartsStep ==
  ASSUME SequenceAssumption, SequenceInv, OtherStarts
  PROVE  SequenceInv'
<1>0. SequenceTypeOK /\ ListOK /\ Posted /\ Followed /\ Counted
  BY SequenceParts
<1>1. /\ others' \in 0..MaxOthers /\ runs' = Append(runs, [plan |-> 0, state |-> "active"])
      /\ UNCHANGED <<plan, plans, active, inFlight, post, refresh, stopping, excused, sequenceFaults>>
  BY SMTT(30), <1>0, SequenceTypes DEF OtherStarts, page
<1>2. runs \in Seq(RunRec) /\ Len(runs) \in Nat /\ \A p \in 1..Len(plans) : p # 0
  BY <1>0, SequenceTypes
<1>3. /\ runs' \in Seq(RunRec) /\ Len(runs') = Len(runs) + 1
      /\ \A i \in 1..Len(runs) : runs'[i] = runs[i]
      /\ runs'[Len(runs) + 1].plan = 0
      /\ \A p : p # 0 => Of(runs', p) = Of(runs, p) /\ Live(runs', p) = Live(runs, p)
  BY <1>1, <1>2, RunAdded
<1>4. \A i \in 1..(Len(runs) + 1) : i \in 1..Len(runs) \/ i = Len(runs) + 1
  BY <1>2
<1>5. SequenceTypeOK'
  <2>1. \A i \in 1..Len(runs') : runs'[i].plan <= Len(plans')
    BY SMTT(30), <1>0, <1>1, <1>3, <1>4, SequenceTypes
  <2>2. \A i \in 0..Len(runs) : i \in 0..Len(runs')
    BY <1>2, <1>3
  <2>3. \A p \in 1..Len(plans) : plans[p].current <= Len(runs')
    BY SMTT(30), <1>0, <1>2, <1>3, SequenceTypes
  <2>4. active' \in 0..Len(runs') /\ stopping' \in 0..Len(runs')
    BY <1>0, <1>1, <2>2, SequenceTypes
  <2> QED BY <1>0, <1>1, <1>3, <2>1, <2>3, <2>4, SequenceTypes DEF SequenceTypeOK, Ids, Plans
<1>6. ListOK'
  <2>1. Len(runs') \in Nat /\ Len(runs) <= Len(runs')
    BY <1>2, <1>3
  <2> QED BY <1>0, <1>1, <1>3, <2>1, ListKept
<1>7. Posted'
  BY <1>0, <1>1, <1>2, <1>3 DEF Posted
<1>8. Followed'
  BY <1>0, <1>1, <1>2, <1>3 DEF Followed
<1>9. Counted'
  BY <1>0, <1>1, <1>2, <1>3 DEF Counted
<1> QED BY <1>5, <1>6, <1>7, <1>8, <1>9, SequenceParts

LEMMA ListedStep ==
  ASSUME SequenceAssumption, SequenceInv, Listed
  PROVE  SequenceInv'
<1>0. SequenceTypeOK /\ ListOK /\ Posted /\ Followed /\ Counted
  BY SequenceParts
<1> DEFINE list == refresh.list
           run == plans[plan].current
           over == run # 0 /\ Over(list, run)
           waits == over \/ (run = 0 /\ plans[plan].waiting)
<1>1. /\ refresh.pc = "listed" /\ UNCHANGED <<runs, stopping, excused, others, sequenceFaults>>
      /\ active' = IF ActiveRuns(list) = {} THEN 0 ELSE Max(ActiveRuns(list))
  BY DEF Listed
<1>2. list \in Seq(RunRec) /\ Len(runs) \in Nat /\ runs \in Seq(RunRec)
  BY <1>0, SequenceTypes DEF RefreshRec
<1>3. /\ Len(list) \in Nat /\ Len(list) <= Len(runs)
      /\ \A i \in 1..Len(list) : list[i].state # "active" => runs[i].state # "active"
  BY <1>0, <1>1, <1>2 DEF ListOK
<1>4. active' \in 0..Len(runs)
  <2>1. ActiveRuns(list) \subseteq 0..Len(runs)
    BY <1>2, <1>3 DEF ActiveRuns
  <2>2. ActiveRuns(list) # {} => Max(ActiveRuns(list)) \in ActiveRuns(list)
    BY <1>2, <2>1, MaxIn
  <2> QED BY <1>1, <1>2, <2>1, <2>2
<1>5. NoRefresh \in RefreshRec /\ NoRefresh.pc = "idle" /\ \A p \in 1..Len(plans) : p # 0
  BY <1>0, PostShapes, SequenceTypes
<1>6. CASE plan = 0 \/ inFlight
  <2>1. refresh' = NoRefresh /\ UNCHANGED <<plan, plans, inFlight, post>>
    BY <1>6 DEF Listed
  <2>2. SequenceTypeOK' /\ ListOK'
    BY <1>0, <1>1, <1>4, <1>5, <2>1 DEF SequenceTypeOK, Ids, Plans, ListOK
  <2>3. Posted' /\ Followed' /\ Counted'
    BY <1>0, <1>1, <2>1 DEF Posted, Followed, Counted
  <2> QED BY <2>2, <2>3, SequenceParts
<1>7. CASE ~(plan = 0 \/ inFlight)
  <2>0. /\ plan \in 1..Len(plans) /\ post = NoPost /\ post.pc = "none" /\ post.plan = 0 /\ inFlight = FALSE
        /\ plans \in Seq(PlanRec) /\ plans[plan] \in PlanRec /\ run \in 0..Len(runs)
        /\ plans[plan].submitted \in Nat /\ plan \in Nat /\ Total \in Nat /\ plans[plan].waiting \in BOOLEAN
    <3>1. plan \in 1..Len(plans) /\ plans \in Seq(PlanRec) /\ plan \in Nat /\ Total \in Nat
      BY <1>0, <1>7, SequenceTypes
    <3>2. plans[plan] \in PlanRec /\ run \in 0..Len(runs)
      BY <1>0, <3>1, SequenceTypes
    <3>3. plans[plan].submitted \in Nat /\ plans[plan].waiting \in BOOLEAN
      BY <3>1, <3>2 DEF PlanRec
    <3>4. inFlight = FALSE /\ post.pc = "none"
      BY <1>0, <1>7, SequenceTypes DEF Posted
    <3>5. post = NoPost /\ post.plan = 0
      BY <1>0, <3>4, PostShapes DEF Posted
    <3> QED BY <3>1, <3>2, <3>3, <3>4, <3>5
  <2>1. Cardinality(Of(runs, plan)) = plans[plan].submitted
    BY <1>0, <1>5, <2>0 DEF Counted
  <2>2. over \/ run = 0 => Live(runs, plan) = {}
    <3> SUFFICES ASSUME over \/ run = 0, NEW i \in Live(runs, plan) PROVE FALSE
      OBVIOUS
    <3>1. i = run
      BY <1>0, <1>5, <2>0 DEF Followed
    <3>2. i \in 1..Len(runs) /\ runs[i].state = "active"
      BY DEF Live
    <3>3. i # 0
      BY <1>2, <3>2
    <3>4. i <= Len(list) /\ list[i].state # "active"
      BY <3>1, <3>3 DEF Over
    <3>5. i \in 1..Len(list)
      BY <1>2, <1>3, <3>2, <3>4
    <3> QED BY <1>3, <3>2, <3>4, <3>5
  <2>3. ASSUME NEW w \in BOOLEAN,
               plans' = [plans EXCEPT ![plan].current = 0, ![plan].waiting = w]
        PROVE  /\ plans' \in Seq(PlanRec) /\ Len(plans') = Len(plans)
               /\ \A p \in 1..Len(plans) : p # plan => plans'[p] = plans[p]
               /\ plans'[plan].current = 0 /\ plans'[plan].waiting = w
               /\ plans'[plan].submitted = plans[plan].submitted
    <3>1. [plans[plan] EXCEPT !.current = 0, !.waiting = w] \in PlanRec
      BY <2>0, <1>2 DEF PlanRec
    <3>2. plans' = [plans EXCEPT ![plan] = [plans[plan] EXCEPT !.current = 0, !.waiting = w]]
      BY <2>0, <2>3
    <3> QED BY <2>0, <3>1, <3>2 DEF PlanRec
  <2> DEFINE last == \/ run <= Len(list) /\ list[run].state = "stopped"
                     \/ AllSubmitted(plan)
  <2>4. CASE over /\ last
    <3>1. /\ plan' = 0 /\ refresh' = NoRefresh /\ UNCHANGED <<inFlight, post>>
          /\ plans' = [plans EXCEPT ![plan].current = 0]
      BY <1>7, <2>4 DEF Listed
    <3>2. plans' = [plans EXCEPT ![plan].current = 0, ![plan].waiting = plans[plan].waiting]
      BY <2>0, <3>1 DEF PlanRec
    <3>3. /\ plans' \in Seq(PlanRec) /\ Len(plans') = Len(plans)
          /\ \A p \in 1..Len(plans) : p # plan => plans'[p] = plans[p]
          /\ plans'[plan].current = 0 /\ plans'[plan].waiting = plans[plan].waiting
          /\ plans'[plan].submitted = plans[plan].submitted
      BY <2>0, <2>3, <3>2
    <3>4. Live(runs, plan) = {}
      BY <2>2, <2>4
    <3> HIDE DEF list, run, over, waits, last
    <3>5. SequenceTypeOK' /\ ListOK'
      BY <1>0, <1>1, <1>2, <1>4, <1>5, <3>1, <3>3, SequenceTypes, SMTT(30) DEF SequenceTypeOK, Ids, Plans, ListOK
    <3>6. Posted'
      BY <1>0, <1>1, <2>0, <3>1 DEF Posted
    <3>7. Followed'
      BY <1>0, <1>1, <1>5, <2>0, <3>1, <3>3, <3>4 DEF Followed
    <3>8. Counted'
      BY <1>0, <1>1, <1>5, <2>0, <3>1, <3>3 DEF Counted
    <3> QED BY <3>5, <3>6, <3>7, <3>8, SequenceParts
  <2>5. CASE ~(over /\ last) /\ waits
    <3>1. /\ plans' = [plans EXCEPT ![plan].current = 0, ![plan].waiting = TRUE]
          /\ \/ /\ inFlight' = TRUE
                /\ post' = [pc |-> "sent", plan |-> plan, from |-> "refresh", run |-> 0]
                /\ refresh' = [NoRefresh EXCEPT !.pc = "submitting"]
             \/ refresh' = NoRefresh /\ UNCHANGED <<inFlight, post>>
          /\ plan' = plan
      BY <1>7, <2>5 DEF Listed
    <3>2. /\ plans' \in Seq(PlanRec) /\ Len(plans') = Len(plans)
          /\ \A p \in 1..Len(plans) : p # plan => plans'[p] = plans[p]
          /\ plans'[plan].current = 0 /\ plans'[plan].waiting = TRUE
          /\ plans'[plan].submitted = plans[plan].submitted
      BY <2>0, <2>3, <3>1
    <3>3. Live(runs, plan) = {}
      BY <2>2, <2>5
    <3>4. plans[plan].submitted < Total
      <4>1. CASE over
        BY <2>0, <2>5, <4>1 DEF AllSubmitted
      <4>2. CASE plans[plan].waiting
        BY <1>0, <2>0, <4>2 DEF Counted
      <4> QED BY <2>5, <4>1, <4>2
    <3> HIDE DEF list, run, over, waits, last
    <3>5. \A p \in 1..Len(plans) : plans'[p].current <= Len(runs)
      BY SMTT(30), <1>0, <1>2, <3>2, SequenceTypes
    <3>6. CASE refresh' = NoRefresh /\ UNCHANGED <<inFlight, post>>
      <4>1. SequenceTypeOK' /\ ListOK'
        BY <1>0, <1>1, <1>4, <1>5, <3>1, <3>2, <3>5, <3>6 DEF SequenceTypeOK, Ids, Plans, ListOK
      <4>2. Posted'
        BY <1>0, <1>1, <2>0, <3>1, <3>6 DEF Posted
      <4>3. Followed'
        BY <1>0, <1>1, <3>1, <3>2, <3>3, <3>6 DEF Followed
      <4>4. Counted'
        BY <1>0, <1>1, <2>0, <3>1, <3>2, <3>4, <3>6 DEF Counted
      <4> QED BY <4>1, <4>2, <4>3, <4>4, SequenceParts
    <3>7. CASE /\ inFlight' = TRUE
               /\ post' = [pc |-> "sent", plan |-> plan, from |-> "refresh", run |-> 0]
               /\ refresh' = [NoRefresh EXCEPT !.pc = "submitting"]
      <4>0. /\ post' \in PostRec /\ post'.pc = "sent" /\ post'.plan = plan /\ post'.from = "refresh"
            /\ refresh' \in RefreshRec /\ refresh'.pc = "submitting"
        BY <1>5, <2>0, <3>7 DEF PostRec, RefreshRec
      <4>1. SequenceTypeOK' /\ ListOK'
        BY <1>0, <1>1, <1>4, <1>5, <3>1, <3>2, <3>5, <3>7, <4>0 DEF SequenceTypeOK, Ids, Plans, ListOK
      <4>2. Posted'
        BY <2>0, <3>1, <3>2, <3>7, <4>0 DEF Posted
      <4>3. Followed'
        BY <1>0, <1>1, <1>5, <2>0, <3>1, <3>2, <3>3, <4>0 DEF Followed
      <4>4. Counted'
        BY <1>0, <1>1, <1>5, <2>0, <2>1, <3>1, <3>2, <3>4, <4>0 DEF Counted
      <4> QED BY <4>1, <4>2, <4>3, <4>4, SequenceParts
    <3> QED BY <3>1, <3>6, <3>7
  <2>6. CASE ~(over /\ last) /\ ~waits
    <3>1. refresh' = NoRefresh /\ UNCHANGED <<plan, plans, inFlight, post>>
      BY <1>7, <2>6 DEF Listed
    <3>2. SequenceTypeOK' /\ ListOK'
      BY <1>0, <1>1, <1>4, <1>5, <3>1 DEF SequenceTypeOK, Ids, Plans, ListOK
    <3>3. Posted' /\ Followed' /\ Counted'
      BY <1>0, <1>1, <3>1 DEF Posted, Followed, Counted
    <3> QED BY <3>2, <3>3, SequenceParts
  <2> QED BY <2>4, <2>5, <2>6
<1> QED BY <1>6, <1>7

LEMMA SequenceStart ==
  ASSUME SequenceAssumption, SequenceInit
  PROVE  SequenceInv
<1>1. SequenceTypeOK
  <2>1. << >> \in Seq(RunRec) /\ << >> \in Seq(PlanRec) /\ Len(runs) = 0 /\ Len(plans) = 0
    BY DEF SequenceInit
  <2>2. MaxPlans \in Nat /\ MaxOthers \in Nat /\ MaxSequenceFaults \in Nat
    BY DEF SequenceAssumption
  <2>3. NoPost \in PostRec /\ NoRefresh \in RefreshRec /\ NoRefresh.pc = "idle"
    BY <2>1 DEF NoPost, NoRefresh, PostRec, RefreshRec
  <2>4. runs = << >> /\ plan = 0 /\ plans = << >> /\ active = 0 /\ inFlight = FALSE
    BY DEF SequenceInit
  <2>5. post = NoPost /\ refresh = NoRefresh /\ stopping = 0 /\ excused = {} /\ others = 0 /\ sequenceFaults = 0
    BY DEF SequenceInit
  <2>6. /\ runs \in Seq(RunRec) /\ \A i \in Ids : runs[i].plan <= Len(plans)
        /\ plans \in Seq(PlanRec) /\ \A p \in Plans : plans[p].current <= Len(runs)
    BY <2>1, <2>4 DEF Ids, Plans
  <2>7. /\ Len(plans) <= MaxPlans /\ plan \in 0..Len(plans) /\ active \in 0..Len(runs) /\ stopping \in 0..Len(runs)
        /\ others \in 0..MaxOthers /\ sequenceFaults \in 0..MaxSequenceFaults
    BY <2>1, <2>2, <2>4, <2>5
  <2> QED BY <2>3, <2>4, <2>5, <2>6, <2>7 DEF SequenceTypeOK
<1>2. ListOK /\ PostOK /\ ActiveOK /\ CountOK
  BY DEF SequenceInit, ListOK, PostOK, ActiveOK, CountOK, Plans, NoPost, NoRefresh
<1> QED BY <1>1, <1>2 DEF SequenceInv

LEMMA SequenceObeysInv ==
  ASSUME SequenceAssumption, SequenceInv
  PROVE  SequenceObeys
<1>1. ASSUME NEW p \in Plans
      PROVE  Cardinality(RunsOf(p) \cap ActiveRuns(runs)) <= 1
  <2>1. \A i, j \in RunsOf(p) \cap ActiveRuns(runs) : i = j
    BY DEF SequenceInv, ActiveOK, ActiveOf
  <2>2. CASE RunsOf(p) \cap ActiveRuns(runs) = {}
    BY <2>2, FS_EmptySet
  <2>3. CASE RunsOf(p) \cap ActiveRuns(runs) # {}
    <3>1. PICK i : RunsOf(p) \cap ActiveRuns(runs) = {i}
      BY <2>1, <2>3
    <3>2. Cardinality({i}) = 1
      BY FS_Singleton
    <3> QED BY <3>1, <3>2
  <2> QED BY <2>2, <2>3
<1>2. OneAtATime
  BY <1>1 DEF OneAtATime, SequenceInv, CountOK
<1>3. StopSticks
  BY DEF StopSticks, SequenceInv, ActiveOK, ActiveOf
<1> QED BY <1>2, <1>3 DEF SequenceObeys

\* The page (the scripts of app.py) never has two runs of a sequence at work,
\* never submits more than the user asked for, and after a stop nothing of the
\* sequence is left at work, for every length of a sequence and any number of
\* sequences, runs of other users and failed calls.
THEOREM SequenceObeyed ==
  ASSUME SequenceAssumption
  PROVE  SequenceSpec => []SequenceObeys
<1>1. SequenceInit => SequenceInv
  BY SequenceStart
<1>2. SequenceInv /\ [SequenceNext]_sequenceVars => SequenceInv'
  <2> SUFFICES ASSUME SequenceInv, [SequenceNext]_sequenceVars PROVE SequenceInv'
    OBVIOUS
  <2>1. CASE PressStart
    BY <2>1, PressStartStep
  <2>2. CASE PressStop
    BY <2>2, PressStopStep
  <2>3. CASE StopAnswered
    BY <2>3, StopAnsweredStep
  <2>4. CASE OtherStarts
    BY <2>4, OtherStartsStep
  <2>5. CASE Answers
    BY <2>5, ServerCreatesStep, ServerRefusesStep, PostFailsStep, CreatedStep, UndoStep, RefusedStep DEF Answers
  <2>6. CASE Refreshing
    BY <2>6, RefreshStep, ListedStep DEF Refreshing
  <2>7. CASE \E i \in Ids : RunEnds(i)
    BY <2>7, RunEndsStep
  <2>8. CASE UNCHANGED sequenceVars
    <3>1. UNCHANGED <<runs, plan, plans, active, inFlight, post, refresh, stopping, excused, others, sequenceFaults>>
      BY <2>8 DEF sequenceVars
    <3>2. SequenceTypeOK /\ ListOK /\ Posted /\ Followed /\ Counted
      BY SequenceParts
    <3>3. SequenceTypeOK' /\ ListOK' /\ Posted' /\ Followed' /\ Counted'
      BY <3>1, <3>2 DEF SequenceTypeOK, ListOK, Posted, Followed, Counted, Ids, Plans
    <3> QED BY <3>3, SequenceParts
  <2> QED BY <2>1, <2>2, <2>3, <2>4, <2>5, <2>6, <2>7, <2>8 DEF SequenceNext
<1>3. SequenceInv => SequenceObeys
  BY SequenceObeysInv
<1> QED BY <1>1, <1>2, <1>3, PTL DEF SequenceSpec

=============================================================================
