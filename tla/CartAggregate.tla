---------------------------- MODULE CartAggregate ----------------------------
(***************************************************************************)
(* The cart of ONE user in cartservice: replicas that share a Redis        *)
(* aggregate (state, version, one inbox entry per command) and a durable   *)
(* JetStream consumer.  A replica handles the commands of a cart one after *)
(* the other (AggregatePartitionedDispatcher), so there is one worker per  *)
(* replica.  Every script, lookup and JetStream call is one step.          *)
(*                                                                         *)
(* view is the cart projection of the readers (checkoutservice and the     *)
(* storefront), which events reach in any order.                           *)
(***************************************************************************)
EXTENDS CartTransitions

CONSTANTS
    Replicas,
    NoCommand,              \* an idle replica's command
    MaximumStoreAttempts,   \* 8 in the code
    MaxFaults               \* bound on crashes, lost replies, spurious redeliveries
                            \* and catalog changes

ASSUME StoreAssumption ==
    /\ MaximumStoreAttempts \in Nat \ {0}
    /\ MaxFaults \in Nat
    /\ NoCommand \notin Commands

VARIABLES
    cart, version,   \* the :state and :version keys
    journal,         \* the :inbox entries, one answer per command
    sent, queued, dropped,   \* commands stored / deliverable / given up
    published,       \* commands whose answer is in the events stream
    replica,
    available,       \* products active in the catalog projection
    view, viewed,    \* the readers' projection and the events they acknowledged
    faults

store == <<cart, version, journal>>
broker == <<sent, queued, dropped>>
readers == <<view, viewed>>
cartVars == <<store, broker, published, replica, available, readers, faults>>

Ledger == INSTANCE CartLedger WITH answer <- journal, announced <- published

EmptyView == [version |-> 0, cart |-> EmptyCart]

Idle == [pc |-> "idle", command |-> NoCommand, found |-> FALSE,
         cart |-> EmptyCart, version |-> 0, attempts |-> 0]

\* The command is at one store attempt; the availability was looked up before.
Loading(c, found, attempts) ==
    [Idle EXCEPT !.pc = "load", !.command = c, !.found = found, !.attempts = attempts]

ReplicaStates ==
    [pc : {"idle", "check", "load", "commit", "publish", "ack"},
     command : Commands \cup {NoCommand}, found : BOOLEAN,
     cart : Carts, version : Nat, attempts : 0..(MaximumStoreAttempts - 1)]

CartTypeOK ==
    /\ cart \in Carts
    /\ version \in Nat
    /\ journal \in [Commands -> Answers]
    /\ sent \in SUBSET Commands
    /\ queued \in SUBSET sent
    /\ dropped \in SUBSET sent
    /\ published \in SUBSET Commands
    /\ replica \in [Replicas -> ReplicaStates]
    /\ available \in SUBSET Products
    /\ view \in [version : Nat, cart : Carts]
    /\ viewed \in SUBSET published
    /\ faults \in 0..MaxFaults

CartInit ==
    /\ cart = EmptyCart
    /\ version = 0
    /\ journal = [c \in Commands |-> NoAnswer]
    /\ sent = {} /\ queued = {} /\ dropped = {}
    /\ published = {}
    /\ replica = [r \in Replicas |-> Idle]
    /\ available = Products
    /\ view = EmptyView
    /\ viewed = {}
    /\ faults = 0

Done(c) == Applied(journal[c])

----------------------------------------------------------------------------
(* Senders and readers                                                     *)

\* A version a sender may have seen: the empty cart or an announced snapshot.
Seen(v) == v = 0 \/ \E c \in published : Done(c) /\ journal[c].version = v

\* The frontend publishes an add unconditionally and a clear with the version it
\* has read from the storefront; checkout clears with the version of the order.
Send(c) ==
    /\ c \notin sent
    /\ c.kind = "clear" => Seen(c.expected)
    /\ sent' = sent \cup {c}
    /\ queued' = queued \cup {c}
    /\ UNCHANGED <<store, dropped, published, replica, available, readers, faults>>

\* Mutant of Project: the last event wins.
ProjectLast(c) ==
    /\ c \in published \ viewed
    /\ viewed' = viewed \cup {c}
    /\ view' = IF Done(c) THEN [version |-> journal[c].version, cart |-> journal[c].cart]
               ELSE view
    /\ UNCHANGED <<store, broker, published, replica, available, faults>>

\* ApplyProjection: only a newer snapshot is taken; rejections carry none.
Project(c) ==
    /\ c \in published \ viewed
    /\ viewed' = viewed \cup {c}
    /\ view' = IF Done(c) /\ journal[c].version > view.version
               THEN [version |-> journal[c].version, cart |-> journal[c].cart]
               ELSE view
    /\ UNCHANGED <<store, broker, published, replica, available, faults>>

\* An event is delivered to the readers again.
ProjectAgain(c) ==
    /\ faults < MaxFaults
    /\ c \in viewed
    /\ viewed' = viewed \ {c}
    /\ faults' = faults + 1
    /\ UNCHANGED <<store, broker, published, replica, available, view>>

\* A newer catalog event adds or removes a product; older ones are dropped by
\* RedisCatalogProjection's version test and change nothing.
CatalogEvent(p) ==
    /\ faults < MaxFaults
    /\ available' = IF p \in available THEN available \ {p} ELSE available \cup {p}
    /\ faults' = faults + 1
    /\ UNCHANGED <<store, broker, published, replica, readers>>

----------------------------------------------------------------------------
(* NatsCartCommandWorker and CartCommandProcessor                          *)

\* An add looks its product up before the store attempts begin.
Deliver(r, c) ==
    /\ replica[r].pc = "idle"
    /\ c \in queued
    /\ queued' = queued \ {c}
    /\ replica' = [replica EXCEPT ![r] =
         [Loading(c, FALSE, 0) EXCEPT !.pc = IF c.kind = "add" THEN "check" ELSE "load"]]
    /\ UNCHANGED <<store, sent, dropped, published, available, readers, faults>>

\* AckWait runs out or the acknowledgement was lost.
Redeliver(c) ==
    /\ faults < MaxFaults
    /\ c \in sent \ (queued \cup dropped)
    /\ queued' = queued \cup {c}
    /\ faults' = faults + 1
    /\ UNCHANGED <<store, sent, dropped, published, replica, available, readers>>

\* Redelivered, or given up after the last delivery (MaxDeliver).
Requeue(c) ==
    \/ queued' = queued \cup {c} /\ UNCHANGED dropped
    \/ dropped' = dropped \cup {c} /\ UNCHANGED queued

\* ContainsAsync, once per delivery.
CheckProduct(r) ==
    LET c == replica[r].command IN
    /\ replica[r].pc = "check"
    /\ replica' = [replica EXCEPT ![r] = Loading(c, c.product \in available, 0)]
    /\ UNCHANGED <<store, broker, published, available, readers, faults>>

\* LoadScript: state and version together.
Load(r) ==
    /\ replica[r].pc = "load"
    /\ replica' = [replica EXCEPT ![r].pc = "commit", ![r].cart = cart, ![r].version = version]
    /\ UNCHANGED <<store, broker, published, available, readers, faults>>

\* Mutant of CommitDuplicate: a duplicate is acknowledged without publishing.
CommitDuplicateAck(r) ==
    /\ replica[r].pc = "commit"
    /\ journal[replica[r].command].kind # "none"
    /\ replica' = [replica EXCEPT ![r].pc = "ack"]
    /\ UNCHANGED <<store, broker, published, available, readers, faults>>

\* CommitScript, first branch: the inbox has the command.
CommitDuplicate(r) ==
    /\ replica[r].pc = "commit"
    /\ journal[replica[r].command].kind # "none"
    /\ replica' = [replica EXCEPT ![r].pc = "publish"]
    /\ UNCHANGED <<store, broker, published, available, readers, faults>>

\* Second branch: AggregateConflictException, retried with a fresh cart until
\* the attempts are used up and the command is negatively acknowledged.
CommitConflict(r) ==
    LET x == replica[r] IN
    /\ x.pc = "commit"
    /\ journal[x.command].kind = "none"
    /\ version # x.version
    /\ \/ /\ x.attempts + 1 < MaximumStoreAttempts
          /\ replica' = [replica EXCEPT ![r] = Loading(x.command, x.found, x.attempts + 1)]
          /\ UNCHANGED <<queued, dropped>>
       \/ /\ x.attempts + 1 = MaximumStoreAttempts
          /\ replica' = [replica EXCEPT ![r] = Idle]
          /\ Requeue(x.command)
    /\ UNCHANGED <<store, sent, published, available, readers, faults>>

\* Mutants of CommitGuard: the inbox or the version is not looked at.
CommitGuardNoInbox(r) ==
    /\ replica[r].pc = "commit"
    /\ version = replica[r].version

CommitGuardNoVersion(r) ==
    /\ replica[r].pc = "commit"
    /\ journal[replica[r].command].kind = "none"

CommitGuard(r) ==
    /\ replica[r].pc = "commit"
    /\ journal[replica[r].command].kind = "none"
    /\ version = replica[r].version

\* Third branch: the state and the version are written when the transition
\* advances the version, the answer always.
WriteAnswer(r) ==
    LET x == replica[r]
        a == Transition(x.cart, x.version, x.command, x.found)
    IN  /\ journal' = [journal EXCEPT ![x.command] = a]
        /\ version' = IF Applied(a) THEN version + 1 ELSE version
        /\ cart' = IF Applied(a) THEN a.cart ELSE cart

Commit(r) ==
    /\ CommitGuard(r)
    /\ WriteAnswer(r)
    /\ replica' = [replica EXCEPT ![r].pc = "publish"]
    /\ UNCHANGED <<broker, published, available, readers, faults>>

\* The script ran and its reply was lost: a Dependency error, retried.  (After the
\* last attempt it is Commit and then Abandon.)
CommitReplyLost(r) ==
    LET x == replica[r] IN
    /\ faults < MaxFaults
    /\ CommitGuard(r)
    /\ x.attempts + 1 < MaximumStoreAttempts
    /\ WriteAnswer(r)
    /\ replica' = [replica EXCEPT ![r] = Loading(x.command, x.found, x.attempts + 1)]
    /\ faults' = faults + 1
    /\ UNCHANGED <<broker, published, available, readers>>

\* A script fails without having run: a Dependency error, retried.
StoreFails(r) ==
    LET x == replica[r] IN
    /\ faults < MaxFaults
    /\ x.pc \in {"load", "commit"}
    /\ x.attempts + 1 < MaximumStoreAttempts
    /\ replica' = [replica EXCEPT ![r] = Loading(x.command, x.found, x.attempts + 1)]
    /\ faults' = faults + 1
    /\ UNCHANGED <<store, broker, published, available, readers>>

\* PublishResultAsync: the stored answer, under an id derived from the command.
Publish(r) ==
    /\ replica[r].pc = "publish"
    /\ published' = published \cup {replica[r].command}
    /\ replica' = [replica EXCEPT ![r].pc = "ack"]
    /\ UNCHANGED <<store, broker, available, readers, faults>>

Ack(r) ==
    /\ replica[r].pc = "ack"
    /\ replica' = [replica EXCEPT ![r] = Idle]
    /\ UNCHANGED <<store, broker, published, available, readers, faults>>

\* The handler throws (NakAsync) or the replica stops.
Abandon(r) ==
    /\ faults < MaxFaults
    /\ replica[r].pc \notin {"idle", "ack"}
    /\ Requeue(replica[r].command)
    /\ replica' = [replica EXCEPT ![r] = Idle]
    /\ faults' = faults + 1
    /\ UNCHANGED <<store, sent, published, available, readers>>

----------------------------------------------------------------------------

ReplicaStep(r) ==
    \/ CheckProduct(r) \/ Load(r) \/ CommitDuplicate(r) \/ CommitConflict(r)
    \/ Commit(r) \/ Publish(r) \/ Ack(r)

CartNext ==
    \/ \E r \in Replicas :
         \/ ReplicaStep(r) \/ CommitReplyLost(r) \/ StoreFails(r) \/ Abandon(r)
         \/ \E c \in Commands : Deliver(r, c)
    \/ \E c \in Commands : Send(c) \/ Redeliver(c) \/ Project(c) \/ ProjectAgain(c)
    \/ \E p \in Products : CatalogEvent(p)

CartSpec == CartInit /\ [][CartNext]_cartVars

\* The replicas' loops and the readers' consumers keep running; nobody has to
\* send anything.
CartFairness ==
    /\ \A r \in Replicas : WF_cartVars(ReplicaStep(r))
    /\ WF_cartVars(\E r \in Replicas, c \in Commands : Deliver(r, c))
    /\ WF_cartVars(\E c \in Commands : Project(c))

FairCartSpec == CartSpec /\ CartFairness

----------------------------------------------------------------------------
(* Properties                                                              *)

\* The applied answers are the versions 1..version of one history, each with a
\* snapshot of its own, and the stored cart is the last of them: no update is
\* lost and none is applied twice, whatever the retries and redeliveries.
HistoryLinear ==
    LET done == {c \in Commands : Done(c)} IN
    /\ {journal[c].version : c \in done} = 1..version
    /\ \A c, d \in done : journal[c].version = journal[d].version => c = d
    /\ \A c \in done : journal[c].version = version => journal[c].cart = cart

\* A clear removes only what its sender saw: the cart it empties is the empty
\* one or a snapshot that was announced.
ClearsWhatWasSeen ==
    \A c \in Commands : journal[c].kind = "cleared" => Seen(journal[c].version - 1)

\* An answer is never replaced: a redelivered command is told what the first
\* delivery decided.
AnswersStable ==
    [][\A c \in Commands : journal[c].kind # "none" => journal'[c] = journal[c]]_cartVars

\* The replicas together are one ledger.
RefinesLedger == Ledger!LedgerSpec

\* Every command is answered and the answer is announced, unless the broker gave
\* the command up.
CommandsAnswered ==
    \A c \in Commands : c \in sent ~> c \in published \cup dropped

\* The readers end with the newest cart, unless the answer that produced it was
\* never announced.
ViewCatchesUp ==
    <>[](dropped = {} => view.version = version /\ view.cart = cart)

\* Nothing is left undone: commands are answered and the readers catch up.
CartGoesOn == CommandsAnswered /\ ViewCatchesUp

----------------------------------------------------------------------------
(* The inductive invariant (proved in CartAggregateProofs)                 *)

\* What a replica has in memory: a cart no newer than the stored one, and the
\* same one if of the same version; an answer is stored before it is published.
ReplicaOK(r) ==
    LET x == replica[r] IN
    /\ x.pc # "idle" => x.command \in sent
    /\ x.pc = "commit" => /\ x.version <= version
                          /\ x.version = version => x.cart = cart
    /\ x.pc \in {"publish", "ack"} => journal[x.command].kind # "none"

\* Only answers are announced, and a clear names a version its sender saw.
SentOK ==
    /\ \A c \in published : journal[c].kind # "none"
    /\ \A c \in sent : c.kind = "clear" => Seen(c.expected)

CartInv ==
    /\ CartTypeOK
    /\ \A r \in Replicas : ReplicaOK(r)
    /\ SentOK
    /\ HistoryLinear
    /\ ClearsWhatWasSeen

============================================================================
