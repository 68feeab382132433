------------------------------- MODULE KVLease -------------------------------
(***************************************************************************)
(* The same claim kept in a JetStream KV bucket (kv_lease.go and its twin, *)
(* currencyservice/bootstrap_claim.js): no scripts, so every call reads    *)
(* the record with its revision, decides in the worker and writes with a   *)
(* revision check, up to Retries times.  The time of a call is taken once, *)
(* before its first read.                                                  *)
(***************************************************************************)
EXTENDS Lease

CONSTANT Retries   \* 32 in the code

ASSUME RetriesAssumption == Retries \in Nat \ {0}

VARIABLES
    revision,   \* revision of the key, 0 while it does not exist
    call        \* the call each worker is executing

kvVars == <<leaseVars, revision, call>>

Ops == {"acquire", "renew", "complete"}

NoCall == [op |-> "none", pc |-> "get", now |-> 0, snap |-> NoRecord,
           revision |-> 0, attempt |-> 0]

KVTypeOK ==
    /\ LeaseTypeOK
    /\ revision \in Nat
    /\ \A w \in Workers :
         /\ call[w].op \in Ops \cup {"none"}
         /\ call[w].pc \in {"get", "put"}
         /\ call[w].now \in 0..clock
         /\ call[w].attempt \in 0..(Retries - 1)

KVInit == LeaseInit /\ revision = 0 /\ call = [w \in Workers |-> NoCall]

----------------------------------------------------------------------------

Start(w, op) ==
    /\ call[w].op = "none"
    /\ op = "acquire" <=> Unheld(w)
    /\ op = "renew" => RenewDue(held[w], clock)
    /\ call' = [call EXCEPT ![w] = [NoCall EXCEPT !.op = op, !.now = clock]]
    /\ UNCHANGED <<leaseVars, revision>>

Permitted(w) ==
    IF call[w].op = "acquire" THEN Acquirable(rec, call[w].now)
    ELSE Owns(rec, w, held[w], call[w].now)

\* bucket.Get and the decision: continue with the write...
Get(w) ==
    /\ call[w].op # "none" /\ call[w].pc = "get"
    /\ Permitted(w)
    /\ call' = [call EXCEPT ![w].pc = "put", ![w].snap = rec, ![w].revision = revision]
    /\ UNCHANGED <<leaseVars, revision>>

\* ... or return ErrLeaseHeld, ErrLeaseComplete or ErrLeaseLost.
GetRefused(w) ==
    /\ call[w].op # "none" /\ call[w].pc = "get"
    /\ ~Permitted(w)
    /\ call' = [call EXCEPT ![w] = NoCall]
    /\ held' = [held EXCEPT ![w] = NoLease]
    /\ UNCHANGED <<rec, clock, revision>>

NewRecord(w) ==
    CASE call[w].op = "acquire" -> Acquired(call[w].snap, w, call[w].now)
      [] call[w].op = "renew"   -> Renewed(call[w].snap, call[w].now)
      [] OTHER                  -> Completed(call[w].snap)

\* Mutant of Put: the revision is not compared.
PutAnyRevision(w) ==
    /\ call[w].pc = "put"
    /\ rec' = NewRecord(w)
    /\ revision' = revision + 1
    /\ \/ /\ call[w].op # "complete"
          /\ held' = [held EXCEPT ![w] = LeaseOf(rec')]
       \/ held' = [held EXCEPT ![w] = NoLease]
    /\ call' = [call EXCEPT ![w] = NoCall]
    /\ UNCHANGED clock

\* bucket.Create or bucket.Update succeeds; the caller sees it or an error.
Put(w) ==
    /\ call[w].pc = "put"
    /\ call[w].revision = revision
    /\ rec' = NewRecord(w)
    /\ revision' = revision + 1
    /\ \/ /\ call[w].op # "complete"
          /\ held' = [held EXCEPT ![w] = LeaseOf(rec')]
       \/ held' = [held EXCEPT ![w] = NoLease]
    /\ call' = [call EXCEPT ![w] = NoCall]
    /\ UNCHANGED clock

\* ErrRevisionConflict: read again, or give up after the last attempt.
PutConflict(w) ==
    /\ call[w].pc = "put"
    /\ call[w].revision # revision
    /\ \/ /\ call[w].attempt + 1 < Retries
          /\ call' = [call EXCEPT ![w] = [NoCall EXCEPT !.op = call[w].op,
                         !.now = call[w].now, !.attempt = call[w].attempt + 1]]
          /\ UNCHANGED held
       \/ /\ call[w].attempt + 1 = Retries
          /\ call' = [call EXCEPT ![w] = NoCall]
          /\ held' = [held EXCEPT ![w] = NoLease]
    /\ UNCHANGED <<rec, clock, revision>>

\* The worker stops; a write that is under way is never sent.
Stop(w) ==
    /\ call[w].op # "none" \/ ~Unheld(w)
    /\ call' = [call EXCEPT ![w] = NoCall]
    /\ held' = [held EXCEPT ![w] = NoLease]
    /\ UNCHANGED <<rec, clock, revision>>

KVTick == Tick /\ UNCHANGED <<revision, call>>

KVNext ==
    \/ \E w \in Workers :
         \/ \E op \in Ops : Start(w, op)
         \/ Get(w) \/ GetRefused(w) \/ Put(w) \/ PutConflict(w) \/ Stop(w)
    \/ KVTick

KVSpec == KVInit /\ [][KVNext]_kvVars

----------------------------------------------------------------------------

\* The compare-and-set implementation is the atomic claim: every successful
\* write is one Acquire, Renew or Complete of Lease, although it was decided on
\* a record that was read earlier and at a time taken earlier still.
RefinesLease == LeaseSpec

\* The inductive invariant behind it.  A call that was permitted is still
\* permitted when its revision is the stored one, because then the record is
\* the one it read, the worker's lease has not changed since and neither has
\* the time of the call.
Calls == [op : Ops \cup {"none"}, pc : {"get", "put"}, now : Nat,
          snap : [owner : Workers \cup {Nobody}, token : Nat, until : Times,
                  completed : BOOLEAN],
          revision : Nat, attempt : 0..(Retries - 1)]

CallOK(w) ==
    LET c == call[w] IN
    /\ c.now <= clock
    /\ c.op = "none" => c.pc = "get"
    /\ c.op = "acquire" => Unheld(w)
    /\ c.op \in {"renew", "complete"} => ~Unheld(w)
    /\ c.op = "renew" => RenewDue(held[w], c.now)
    /\ c.pc = "put" /\ c.revision = revision => c.snap = rec /\ Permitted(w)
    /\ c.revision <= revision

KVInv ==
    /\ LeaseInv
    /\ revision \in Nat
    /\ call \in [Workers -> Calls]
    /\ \A w \in Workers : CallOK(w)

============================================================================
