---------------------------- MODULE SharedStore ----------------------------
(***************************************************************************)
(* NatsSharedStore (shared_store.py): threads call a synchronous facade,   *)
(* whose coroutines share one event loop and one NATS connection.  A       *)
(* coroutine runs to its next await; requests that were sent may be        *)
(* carried out after their caller has given up.  The bucket is one KV      *)
(* record with compare-and-set; connections drop, reconnect and give up.   *)
(***************************************************************************)
EXTENDS Naturals, Sequences, FiniteSets, SequencesExt

CONSTANTS
    ThreadCount,   \* threads that use the store
    Kinds,         \* "update": create, update; "get": get, keys, get_object,
                   \* delete_object; "put": put_object, ready
    MaxCalls,      \* bound on calls of a thread
    MaxConns,      \* bound on connections
    MaxStoreFaults,     \* bound on lost or slow calls
    Troubles       \* "drop": connections may drop; "timeout": callers may give up

StoreAssumption ==
    /\ Kinds \subseteq {"update", "get", "put"}
    /\ {ThreadCount, MaxCalls, MaxConns, MaxStoreFaults} \subseteq Nat /\ Troubles \subseteq {"drop", "timeout"}

VARIABLES
    current,       \* _connection with _kv, _objects and the table _errors (0: None)
    conns,         \* state of every connection
    lock,          \* holder of _connect_lock
    thread,          \* each thread's call and its coroutine
    result,        \* result of each thread's last call
    wire,          \* requests on their way: [id, attempt, kind, rev]
    log,           \* writes of the record, in order; its length is the revision
    closed,        \* _closed, and the loop is stopped
    shaken,        \* history: connections that dropped, or whose coroutine was
                   \* cancelled while it opened or closed them
    storeFaults

storeVars == <<current, conns, lock, thread, result, wire, log, closed, shaken, storeFaults>>

C == 1..Len(conns)
Threads == 1..ThreadCount
Nobody == 0
NoCall == [pc |-> "idle", kind |-> "put", n |-> 0, attempt |-> 0, rev |-> 0, conn |-> 0, reply |-> "none"]
Id(t) == <<t, thread[t].n>>
StoreFault == storeFaults < MaxStoreFaults /\ storeFaults' = storeFaults + 1
Errors == {"transient", "unknown", "timeout"}
Replies == {"none", "ok", "missing", "conflict"}

\* The coroutine of the thread opens or closes the connection of its call.
Handles(t) == thread[t].pc \in {"opening", "closing"}

Pcs == {"idle", "start", "lock", "connecting", "opening", "request", "closing", "sleep"}
Coroutines == [pc : Pcs, kind : {"update", "get", "put"}, n : 0..MaxCalls,
               attempt : Nat, rev : Nat, conn : Nat, reply : Replies]
Requests == [id : Threads \X Nat, attempt : Nat, kind : {"update", "get", "put"}, rev : Nat]

\* A call that uses a connection has one, and the coroutine that connects has
\* the lock.
ThreadsOK ==
    \A t \in Threads :
        /\ thread[t].pc \in {"opening", "request", "closing"} => thread[t].conn \in C
        /\ lock = t <=> thread[t].pc \in {"connecting", "opening"}

StoreTypeOK ==
    /\ conns \in Seq({"open", "down", "closed"}) /\ Len(conns) <= MaxConns
    /\ current \in 0..Len(conns)
    /\ lock \in Threads \cup {Nobody}
    /\ thread \in [Threads -> Coroutines]
    /\ result \in [Threads -> Replies \cup Errors \cup {"closed"}]
    /\ wire \subseteq Requests /\ log \in Seq(Threads \X Nat)
    /\ closed \in BOOLEAN /\ shaken \subseteq C
    /\ storeFaults \in 0..MaxStoreFaults
    /\ ThreadsOK

StoreInit ==
    /\ current = 0 /\ conns = << >> /\ lock = Nobody
    /\ thread = [t \in Threads |-> NoCall]
    /\ result = [t \in Threads |-> "none"]
    /\ wire = {} /\ log = << >> /\ closed = FALSE /\ shaken = {} /\ storeFaults = 0

----------------------------------------------------------------------------
(* A call: connect, send, and recover                                      *)

\* _call: the coroutine is put on the loop.  Writes are conditional on the
\* revision the caller has read.
Call(t, kind) ==
    /\ thread[t].pc = "idle" /\ thread[t].n < MaxCalls
    /\ IF closed
       THEN /\ result' = [result EXCEPT ![t] = "closed"]
            /\ thread' = [thread EXCEPT ![t].n = @ + 1]
       ELSE /\ result' = [result EXCEPT ![t] = "none"]
            /\ thread' = [thread EXCEPT ![t] = [NoCall EXCEPT !.pc = "start", !.kind = kind,
                                                         !.n = thread[t].n + 1, !.rev = Len(log)]]
    /\ UNCHANGED <<current, conns, lock, wire, log, closed, shaken, storeFaults>>

\* The future has a result.
Return(t, r) ==
    /\ thread' = [thread EXCEPT ![t].pc = "idle", ![t].reply = "none", ![t].conn = 0]
    /\ result' = [result EXCEPT ![t] = r]

Usable == current # 0 /\ conns[current] = "open"

\* operation(): the request is sent on connection c.
Send(t, c) ==
    /\ thread' = [thread EXCEPT ![t].pc = "request", ![t].conn = c, ![t].attempt = @ + 1, ![t].reply = "none"]
    /\ wire' = wire \cup {[id |-> Id(t), attempt |-> thread[t].attempt + 1,
                           kind |-> thread[t].kind, rev |-> thread[t].rev]}

\* Mutant of Acquired: the connection is not looked at again under the lock.
AcquiredBlind(t) == lock' = t /\ thread' = [thread EXCEPT ![t].pc = "connecting"] /\ UNCHANGED wire

\* _ensure_connected under the lock: another coroutine may have connected.
Acquired(t) ==
    IF Usable
    THEN Send(t, current) /\ UNCHANGED lock
    ELSE /\ lock' = t
         /\ thread' = [thread EXCEPT ![t].pc = "connecting"]
         /\ UNCHANGED wire

\* An attempt of _with_recovery.
Ensure(t) ==
    /\ ~closed /\ thread[t].pc = "start"
    /\ IF Usable THEN Send(t, current) /\ UNCHANGED lock
       ELSE IF lock = Nobody THEN Acquired(t)
       ELSE thread' = [thread EXCEPT ![t].pc = "lock"] /\ UNCHANGED <<lock, wire>>
    /\ UNCHANGED <<current, conns, result, log, closed, shaken, storeFaults>>

Acquire(t) ==
    /\ ~closed /\ thread[t].pc = "lock" /\ lock = Nobody
    /\ Acquired(t)
    /\ UNCHANGED <<current, conns, result, log, closed, shaken, storeFaults>>

ConnectionOpens(t) ==
    /\ ~closed /\ thread[t].pc = "connecting" /\ Len(conns) < MaxConns
    /\ conns' = Append(conns, "open")
    /\ thread' = [thread EXCEPT ![t].pc = "opening", ![t].conn = Len(conns) + 1]
    /\ UNCHANGED <<current, lock, result, wire, log, closed, shaken, storeFaults>>

\* Both buckets are bound: the handles are published, the lock is released
\* and the request is sent.
BucketsOpen(t) ==
    /\ ~closed /\ thread[t].pc = "opening" /\ conns[thread[t].conn] = "open"
    /\ current' = thread[t].conn
    /\ lock' = Nobody
    /\ Send(t, thread[t].conn)
    /\ UNCHANGED <<conns, result, log, closed, shaken, storeFaults>>

\* _invalidate_connection: the handles go at once, the connection is closed.
Invalidate(t) ==
    /\ current' = 0
    /\ IF current # 0 /\ conns[current] # "closed"
       THEN thread' = [thread EXCEPT ![t].pc = "closing", ![t].conn = current, ![t].reply = "none"]
       ELSE thread' = [thread EXCEPT ![t].pc = "sleep", ![t].conn = 0, ![t].reply = "none"]
    /\ UNCHANGED result

ConnectFails(t) ==
    /\ ~closed /\ thread[t].pc = "connecting" /\ StoreFault
    /\ lock' = Nobody
    /\ Invalidate(t)
    /\ UNCHANGED <<conns, wire, log, closed, shaken>>

\* A bucket cannot be bound: the new connection is closed.
BucketsFail(t) ==
    /\ ~closed /\ thread[t].pc = "opening"
    /\ IF conns[thread[t].conn] = "open" THEN StoreFault ELSE UNCHANGED storeFaults
    /\ conns' = [conns EXCEPT ![thread[t].conn] = "closed"]
    /\ lock' = Nobody
    /\ Invalidate(t)
    /\ UNCHANGED <<wire, log, closed, shaken>>

\* The answer is no exception, or one that the table of errors names: a table
\* that another coroutine's _invalidate_connection has emptied raises KeyError.
Reply(t) ==
    /\ ~closed /\ thread[t].pc = "request" /\ thread[t].reply # "none" /\ conns[thread[t].conn] = "open"
    /\ Return(t, IF thread[t].reply = "ok" \/ current # 0 THEN thread[t].reply ELSE "unknown")
    /\ UNCHANGED <<current, conns, lock, wire, log, closed, shaken, storeFaults>>

\* No answer: the connection is gone, the request was lost, or it takes too
\* long.  `except self._errors[...]' looks into the table first.
RequestFails(t) ==
    /\ ~closed /\ thread[t].pc = "request"
    /\ \/ conns[thread[t].conn] # "open" /\ UNCHANGED storeFaults
       \/ /\ conns[thread[t].conn] = "open" /\ thread[t].reply = "none"
          /\ \A q \in wire : ~(q.id = Id(t) /\ q.attempt = thread[t].attempt)
          /\ UNCHANGED storeFaults
       \/ conns[thread[t].conn] = "open" /\ StoreFault
    /\ IF current = 0 /\ thread[t].kind # "put"
       THEN Return(t, "unknown") /\ UNCHANGED current
       ELSE Invalidate(t)
    /\ UNCHANGED <<conns, lock, wire, log, closed, shaken>>

\* connection.close() returns or takes more than two seconds.
ConnectionCloses(t) ==
    /\ ~closed /\ thread[t].pc = "closing"
    /\ conns' = [conns EXCEPT ![thread[t].conn] = "closed"]
    /\ thread' = [thread EXCEPT ![t].pc = "sleep", ![t].conn = 0]
    /\ UNCHANGED <<current, lock, result, wire, log, closed, shaken, storeFaults>>

\* The next attempt, unless there is no time left.
Wake(t) ==
    /\ ~closed /\ thread[t].pc = "sleep"
    /\ \/ /\ thread' = [thread EXCEPT ![t].pc = "start"]
          /\ UNCHANGED <<result, storeFaults>>
       \/ StoreFault /\ Return(t, "transient")
    /\ UNCHANGED <<current, conns, lock, wire, log, closed, shaken>>

\* Mutant of LockReleased: a cancelled coroutine keeps the lock.
LockReleasedNever(t) == lock

\* `async with' leaves the lock with the coroutine.
LockReleased(t) == IF lock = t THEN Nobody ELSE lock

\* Mutant of TimesOut: the thread waits for the loop, which may be stopped.
TimesOutRunning(t) == ~closed /\ "timeout" \in Troubles /\ StoreFault

\* result(timeout=operation_timeout): the calling thread has waited too long.
\* Once the loop is stopped, or the lock is lost, there is no other way.
TimesOut(t) ==
    IF closed \/ (thread[t].pc = "lock" /\ lock # Nobody /\ thread[lock].pc = "idle")
    THEN UNCHANGED storeFaults
    ELSE "timeout" \in Troubles /\ StoreFault

\* The coroutine is cancelled where it waits.
Timeout(t) ==
    /\ thread[t].pc # "idle" /\ TimesOut(t)
    /\ Return(t, "timeout")
    /\ lock' = LockReleased(t)
    /\ shaken' = IF Handles(t) THEN shaken \cup {thread[t].conn} ELSE shaken
    /\ UNCHANGED <<current, conns, wire, log, closed>>

\* close(), by whoever owns the store.
Close ==
    /\ ~closed /\ closed' = TRUE
    /\ conns' = [c \in C |-> IF c = current THEN "closed" ELSE conns[c]]
    /\ UNCHANGED <<current, lock, thread, result, wire, log, shaken, storeFaults>>

----------------------------------------------------------------------------
(* NATS                                                                    *)

\* Mutant of Accepts: the write is not conditional.
AcceptsAny(q) == TRUE

\* create (revision 0) and update are compare-and-set.
Accepts(q) == q.rev = Len(log)

\* The server carries a request out; an answer finds its call if that still waits.
Serve(q) ==
    /\ q \in wire
    /\ wire' = wire \ {q}
    /\ log' = IF q.kind = "update" /\ Accepts(q) THEN Append(log, q.id) ELSE log
    /\ LET t == q.id[1]
           answers == CASE q.kind = "update" -> {IF Accepts(q) THEN "ok" ELSE "conflict"}
                        [] q.kind = "get" -> {"ok", "missing"}
                        [] OTHER -> {"ok"}
           waits == thread[t].pc = "request" /\ Id(t) = q.id /\ thread[t].attempt = q.attempt
       IN  \E r \in answers : thread' = IF waits THEN [thread EXCEPT ![t].reply = r] ELSE thread
    /\ UNCHANGED <<current, conns, lock, result, closed, shaken, storeFaults>>

Lose(q) ==
    /\ q \in wire /\ StoreFault
    /\ wire' = wire \ {q}
    /\ UNCHANGED <<current, conns, lock, thread, result, log, closed, shaken>>

\* The client library: a dropped connection reconnects or gives up.
Drop(c) ==
    /\ "drop" \in Troubles /\ c \in C /\ conns[c] = "open" /\ StoreFault
    /\ conns' = [conns EXCEPT ![c] = "down"]
    /\ shaken' = shaken \cup {c}
    /\ UNCHANGED <<current, lock, thread, result, wire, log, closed>>

Reconnect(c) ==
    /\ c \in C /\ conns[c] = "down"
    /\ \E s \in {"open", "closed"} : conns' = [conns EXCEPT ![c] = s]
    /\ UNCHANGED <<current, lock, thread, result, wire, log, closed, shaken, storeFaults>>

----------------------------------------------------------------------------

CoroutineStep(t) ==
    \/ Ensure(t) \/ Acquire(t) \/ ConnectionOpens(t) \/ BucketsOpen(t) \/ ConnectFails(t)
    \/ BucketsFail(t) \/ Reply(t) \/ RequestFails(t) \/ ConnectionCloses(t) \/ Wake(t) \/ Timeout(t)

StoreNext ==
    \/ \E t \in Threads : CoroutineStep(t) \/ \E kind \in Kinds : Call(t, kind)
    \/ \E q \in wire : Serve(q) \/ Lose(q)
    \/ \E c \in C : Drop(c) \/ Reconnect(c)
    \/ Close

\* Every call has its time-out, the loop runs, and the server answers.
StoreFairness ==
    /\ \A t \in Threads : WF_storeVars(CoroutineStep(t))
    /\ WF_storeVars(\E q \in wire : Serve(q))
    /\ \A c \in 1..MaxConns : WF_storeVars(Reconnect(c))

StoreSpec == StoreInit /\ [][StoreNext]_storeVars /\ StoreFairness

----------------------------------------------------------------------------

\* A write is applied at most once although attempts are repeated and late
\* requests are carried out after their caller has given up; a call that
\* returned its revision was applied, and a conflict means that the record has
\* moved past the revision the caller had read.
WrittenOnce ==
    /\ IsInjective(log)
    /\ \A t \in Threads : thread[t].kind = "update" /\ thread[t].pc = "idle" =>
          /\ result[t] = "ok" => Contains(log, Id(t))
          /\ result[t] = "conflict" => Len(log) > thread[t].rev

\* While it is in use the store keeps one client: a connection that is open or
\* reconnecting is the published one, or a coroutine opens or closes it.  Only
\* one that dropped, or whose coroutine was cancelled, may be left behind.
OneClient ==
    ~closed => \A c \in C :
        \/ conns[c] = "closed" \/ c = current \/ c \in shaken
        \/ \E t \in Threads : Handles(t) /\ thread[t].conn = c

\* The store may be retried: what was given up and repeated is written once, and
\* the facade keeps one client.
StoreIsSafe == WrittenOnce /\ OneClient

----------------------------------------------------------------------------
(* The inductive invariant of StoreIsSafe                                  *)

\* What is under way or was written belongs to a call that was made, and no
\* revision is from the future.
IdsOK ==
    /\ \A q \in wire : q.id[2] <= thread[q.id[1]].n /\ q.rev <= Len(log)
    /\ \A i \in 1..Len(log) : log[i][2] <= thread[log[i][1]].n
    /\ \A t \in Threads : thread[t].rev <= Len(log)

\* The attempts of one call are the same request.
AttemptsAgree ==
    /\ \A q \in wire : q.id = Id(q.id[1]) =>
          q.kind = thread[q.id[1]].kind /\ q.rev = thread[q.id[1]].rev
    /\ \A q, r \in wire : q.id = r.id => q.rev = r.rev

\* A call that was written had read the revision before its write, and so have
\* all its attempts that are still under way: the server refuses them.
WrittenBefore ==
    \A i \in 1..Len(log) :
        /\ \A t \in Threads : log[i] = Id(t) => thread[t].rev = i - 1
        /\ \A q \in wire : q.id = log[i] => q.rev = i - 1

\* What the server has answered is true, also before the call returns.
AnswersTrue ==
    \A t \in Threads :
        /\ thread[t].reply # "none" => thread[t].pc = "request"
        /\ thread[t].kind = "update" =>
              /\ thread[t].reply = "ok" => Contains(log, Id(t))
              /\ thread[t].reply = "conflict" => Len(log) > thread[t].rev

\* Whoever has the lock replaces a connection that is gone or was lost.
LockOK ==
    /\ lock # Nobody => current = 0 \/ conns[current] = "closed" \/ current \in shaken
    /\ \A c \in C : conns[c] = "down" => c \in shaken

StoreInv ==
    /\ StoreTypeOK /\ IdsOK /\ AttemptsAgree /\ WrittenBefore /\ AnswersTrue /\ LockOK
    /\ StoreIsSafe

----------------------------------------------------------------------------

\* A call that meets transient failures is repeated, or ends with the failure
\* or the time-out, never with the internal KeyError of an emptied table.
FailuresRetried == \A t \in Threads : result[t] # "unknown"

\* Every call returns to its thread, also when the store is closed meanwhile.
CallReturns == \A t \in Threads : (thread[t].pc # "idle") ~> (thread[t].pc = "idle")

\* Once calls are neither lost nor slow any more, every call that begins ends
\* with an answer of the server: nothing a cancelled call has left behind
\* (the lock, a connection that was lost) stops it, unless the store is closed.
StoreRecovers ==
    \A t \in Threads :
        (storeFaults = MaxStoreFaults /\ ~closed /\ thread[t].pc = "start")
            ~> (closed \/ (thread[t].pc = "idle" /\ result[t] \notin Errors))

=============================================================================
