----------------------------- MODULE LeaseProofs -----------------------------
(***************************************************************************)
(* Proofs about the expiring claim of Lease and about the JetStream KV     *)
(* store that implements it, for any set of workers, any lease duration,   *)
(* any retry limit and any clock bound.                                    *)
(***************************************************************************)
EXTENDS KVLease, TLAPS

\* The initial state, where nothing is stored or held, satisfies the invariant.
LEMMA LeaseInitInv == LeaseInit => LeaseInv
  BY LeaseAssumption
  DEF LeaseInit, LeaseInv, LeaseTypeOK, HeldOrExpired, Unheld, NoLease, NoRecord, Times

\* A granted acquire writes a newer token after the old lease ran out.
LEMMA AcquireInv ==
  ASSUME LeaseInv, NEW w \in Workers, NEW now \in 0..clock, Acquire(w, now)
  PROVE  LeaseInv'
<1> USE LeaseAssumption
<1>1. /\ clock \in 0..MaxClock /\ now \in Nat /\ now <= clock
      /\ now + Duration \in Times
      /\ rec.until \in Nat /\ rec.until <= now /\ rec.token \in Nat /\ ~rec.completed
  BY DEF LeaseInv, LeaseTypeOK, Acquire, Acquirable, Times
<1>2. rec' = [owner |-> w, token |-> rec.token + 1, until |-> now + Duration,
              completed |-> FALSE]
  BY <1>1 DEF LeaseInv, LeaseTypeOK, Acquire, Acquired
<1>3. /\ clock' = clock
      /\ \/ held' = [held EXCEPT ![w] = [token |-> rec.token + 1, until |-> now + Duration]]
         \/ held' = held
  BY <1>2 DEF Acquire, LeaseOf
<1>4. LeaseTypeOK'
  BY <1>1, <1>2, <1>3 DEF LeaseInv, LeaseTypeOK
<1>5. ASSUME NEW v \in Workers PROVE HeldOrExpired(v)'
  <2>1. HeldOrExpired(v) /\ held[v] \in [token : Nat, until : Times]
    BY DEF LeaseInv, LeaseTypeOK
  <2>2. CASE v = w /\ held' # held
    BY <1>1, <1>2, <1>3, <2>2 DEF HeldOrExpired, LeaseInv, LeaseTypeOK
  <2>3. CASE v # w \/ held' = held
    <3>1. held'[v] = held[v]
      BY <1>3, <2>3 DEF LeaseInv, LeaseTypeOK
    <3>2. CASE Unheld(v)
      BY <3>1, <3>2 DEF HeldOrExpired, Unheld
    <3>3. CASE ~Unheld(v)
      <4>1. held[v].token \in 1..rec.token /\ held[v].until <= clock
        BY <1>1, <2>1, <3>3 DEF HeldOrExpired, Times
      <4> QED
        BY <1>1, <1>2, <1>3, <3>1, <4>1 DEF HeldOrExpired
    <3> QED BY <3>2, <3>3
  <2> QED BY <2>2, <2>3
<1> QED BY <1>4, <1>5 DEF LeaseInv

\* A renewal moves the stored expiry and the holder's copy together.
LEMMA RenewInv ==
  ASSUME LeaseInv, NEW w \in Workers, NEW now \in 0..clock, Renew(w, now)
  PROVE  LeaseInv'
<1> USE LeaseAssumption
<1>1. /\ clock \in 0..MaxClock /\ now \in Nat /\ now + Duration \in Times
      /\ rec.token \in Nat /\ rec.owner = w /\ rec.token = held[w].token
      /\ ~rec.completed /\ held[w].token \in 1..rec.token
  BY DEF LeaseInv, LeaseTypeOK, Renew, Owns, Times, HeldOrExpired
<1>2. rec' = [owner |-> w, token |-> rec.token, until |-> now + Duration,
              completed |-> FALSE]
  BY <1>1 DEF LeaseInv, LeaseTypeOK, Renew, Renewed
<1>3. /\ clock' = clock
      /\ \/ held' = [held EXCEPT ![w] = [token |-> rec.token, until |-> now + Duration]]
         \/ held' = [held EXCEPT ![w] = NoLease]
  BY <1>2 DEF Renew, LeaseOf
<1>4. LeaseTypeOK'
  BY <1>1, <1>2, <1>3 DEF LeaseInv, LeaseTypeOK, NoLease, Times
<1>5. ASSUME NEW v \in Workers PROVE HeldOrExpired(v)'
  <2>1. HeldOrExpired(v) /\ held[v] \in [token : Nat, until : Times]
    BY DEF LeaseInv, LeaseTypeOK
  <2>2. CASE v = w
    BY <1>1, <1>2, <1>3, <2>2 DEF HeldOrExpired, Unheld, LeaseInv, LeaseTypeOK
  <2>3. CASE v # w
    <3>1. held'[v] = held[v]
      BY <1>3, <2>3 DEF LeaseInv, LeaseTypeOK
    <3> QED
      BY <1>1, <1>2, <1>3, <2>1, <2>3, <3>1 DEF HeldOrExpired, Unheld
  <2> QED BY <2>2, <2>3
<1> QED BY <1>4, <1>5 DEF LeaseInv

\* Completion is written by the holder of the current token, who then drops it.
LEMMA CompleteInv ==
  ASSUME LeaseInv, NEW w \in Workers, NEW now \in 0..clock, Complete(w, now)
  PROVE  LeaseInv'
<1> USE LeaseAssumption
<1>1. /\ rec.token \in Nat /\ rec.owner = w /\ rec.token = held[w].token
      /\ rec' = [owner |-> w, token |-> rec.token, until |-> 0, completed |-> TRUE]
      /\ held' = [held EXCEPT ![w] = NoLease]
      /\ clock' = clock
  BY DEF LeaseInv, LeaseTypeOK, Complete, Owns, Completed
<1>2. LeaseTypeOK'
  BY <1>1 DEF LeaseInv, LeaseTypeOK, NoLease, Times
<1>3. ASSUME NEW v \in Workers PROVE HeldOrExpired(v)'
  <2>1. HeldOrExpired(v) /\ held[v] \in [token : Nat, until : Times]
    BY DEF LeaseInv, LeaseTypeOK
  <2>2. CASE v = w
    BY <1>1, <2>2 DEF HeldOrExpired, Unheld, LeaseInv, LeaseTypeOK
  <2>3. CASE v # w
    <3>1. held'[v] = held[v]
      BY <1>1, <2>3 DEF LeaseInv, LeaseTypeOK
    <3> QED
      BY <1>1, <2>1, <2>3, <3>1 DEF HeldOrExpired, Unheld
  <2> QED BY <2>2, <2>3
<1> QED BY <1>2, <1>3 DEF LeaseInv

\* Dropping a lease preserves the invariant.
LEMMA GiveUpInv == ASSUME LeaseInv, NEW w \in Workers, GiveUp(w) PROVE LeaseInv'
  BY LeaseAssumption
  DEF LeaseInv, LeaseTypeOK, HeldOrExpired, GiveUp, Unheld, NoLease, Times

\* Time only makes leases expire.
LEMMA TickInv == ASSUME LeaseInv, Tick PROVE LeaseInv'
  BY LeaseAssumption DEF LeaseInv, LeaseTypeOK, HeldOrExpired, Tick, Unheld, Times

\* Every step of the claim keeps its invariant.
LEMMA LeaseStepInv == LeaseInv /\ [LeaseNext]_leaseVars => LeaseInv'
<1> SUFFICES ASSUME LeaseInv, [LeaseNext]_leaseVars PROVE LeaseInv'
  OBVIOUS
<1>1. CASE UNCHANGED leaseVars
  BY <1>1 DEF leaseVars, LeaseInv, LeaseTypeOK, HeldOrExpired, Unheld
<1>2. ASSUME NEW w \in Workers, NEW now \in 0..clock, Acquire(w, now) PROVE LeaseInv'
  BY <1>2, AcquireInv
<1>3. ASSUME NEW w \in Workers, NEW now \in 0..clock, Renew(w, now) PROVE LeaseInv'
  BY <1>3, RenewInv
<1>4. ASSUME NEW w \in Workers, NEW now \in 0..clock, Complete(w, now) PROVE LeaseInv'
  BY <1>4, CompleteInv
<1>5. ASSUME NEW w \in Workers, GiveUp(w) PROVE LeaseInv'
  BY <1>5, GiveUpInv
<1>6. CASE Tick
  BY <1>6, TickInv
<1> QED BY <1>1, <1>2, <1>3, <1>4, <1>5, <1>6 DEF LeaseNext

\* The invariant of the claim holds in every reachable state.
THEOREM LeaseInvariant == LeaseSpec => []LeaseInv
  BY LeaseInitInv, LeaseStepInv, PTL DEF LeaseSpec

\* No two workers ever hold an unexpired lease on the item (lease.go).
THEOREM LeaseMutualExclusion == LeaseSpec => []MutualExclusion
<1>1. LeaseInv => MutualExclusion
  <2> SUFFICES ASSUME LeaseInv, NEW v \in Workers, NEW w \in Workers, Live(v), Live(w)
               PROVE  v = w
    BY DEF MutualExclusion
  <2>1. ASSUME NEW u \in Workers, Live(u) PROVE rec.owner = u
    BY <2>1, LeaseAssumption
    DEF LeaseInv, LeaseTypeOK, HeldOrExpired, Unheld, NoLease, Live, Times
  <2> QED BY <2>1
<1> QED BY LeaseInvariant, <1>1, PTL

\* After completion nobody works on the item with an unexpired lease.
THEOREM LeaseCompletionIsFinal == LeaseSpec => []CompletionIsFinal
<1>1. LeaseInv => CompletionIsFinal
  <2>1. ASSUME LeaseInv, NEW w \in Workers, Live(w) PROVE ~rec.completed
    <3>1. ~Unheld(w) /\ ~(held[w].until <= clock)
      BY <2>1, LeaseAssumption DEF LeaseInv, LeaseTypeOK, Unheld, NoLease, Live, Times
    <3> QED BY <2>1, <3>1, Zenon DEF LeaseInv, HeldOrExpired
  <2> QED BY <2>1, Zenon DEF CompletionIsFinal
<1> QED BY LeaseInvariant, <1>1, PTL

\* Tokens fence: they never fall, change with the owner, and stop at completion.
THEOREM LeaseTokensFence == LeaseSpec => TokensFence
<1> DEFINE Fence == /\ rec'.token >= rec.token
                    /\ rec'.owner # rec.owner => rec'.token > rec.token
                    /\ rec.completed => rec' = rec
<1>1. LeaseInv /\ [LeaseNext]_leaseVars => [Fence]_leaseVars
  <2> SUFFICES ASSUME LeaseInv, LeaseNext PROVE Fence
    OBVIOUS
  <2>1. /\ rec \in [owner : Workers \cup {Nobody}, token : Nat, until : Times,
                    completed : BOOLEAN]
    BY DEF LeaseInv, LeaseTypeOK
  <2>2. ASSUME NEW w \in Workers, NEW now \in 0..clock,
               Acquire(w, now) \/ Renew(w, now) \/ Complete(w, now)
        PROVE  Fence
    <3>1. ~rec.completed
      BY <2>2, Zenon DEF Acquire, Renew, Complete, Acquirable, Owns
    <3>2. /\ rec'.token >= rec.token
          /\ rec'.owner # rec.owner => rec'.token > rec.token
      <4>1. CASE rec' = Acquired(rec, w, now)
        BY <2>1, <4>1 DEF Acquired
      <4>2. CASE rec' = Renewed(rec, now)
        BY <2>1, <4>2 DEF Renewed
      <4>3. CASE rec' = Completed(rec)
        BY <2>1, <4>3 DEF Completed
      <4> QED BY <2>2, <4>1, <4>2, <4>3 DEF Acquire, Renew, Complete
    <3> QED BY <3>1, <3>2, Zenon
  <2>3. ASSUME rec' = rec PROVE Fence
    BY <2>1, <2>3
  <2> QED BY <2>2, <2>3 DEF LeaseNext, GiveUp, Tick
<1> QED BY LeaseInvariant, <1>1, PTL DEF LeaseSpec, TokensFence

----------------------------------------------------------------------------
(* The JetStream KV store                                                  *)

\* A worker between calls
LEMMA NoCallForm ==
  /\ NoCall \in Calls
  /\ NoCall.op = "none" /\ NoCall.pc = "get" /\ NoCall.now = 0 /\ NoCall.revision = 0
  BY LeaseAssumption, RetriesAssumption DEF NoCall, NoRecord, Calls, Times

\* Nothing is called before the first acquire.
LEMMA KVInitInv == KVInit => KVInv
<1> SUFFICES ASSUME KVInit PROVE KVInv
  OBVIOUS
<1>1. NoCall \in Calls
  BY NoCallForm
<1>2. call \in [Workers -> Calls] /\ revision = 0 /\ \A w \in Workers : call[w] = NoCall
  BY <1>1 DEF KVInit
<1>3. /\ NoCall.op = "none" /\ NoCall.pc = "get" /\ NoCall.now = 0 /\ NoCall.revision = 0
      /\ clock = 0
  BY NoCallForm DEF KVInit, LeaseInit
<1>4. ASSUME NEW w \in Workers PROVE CallOK(w)
  <2>1. call[w] = NoCall
    BY <1>2
  <2> QED BY <1>2, <1>3, <2>1 DEF CallOK
<1> QED BY <1>2, <1>4, LeaseInitInv DEF KVInv, KVInit

\* A worker that drops what it holds gives up the claim, or had none.
LEMMA DropRefines ==
  ASSUME LeaseInv, NEW w \in Workers, held' = [held EXCEPT ![w] = NoLease],
         UNCHANGED <<rec, clock>>
  PROVE  [LeaseNext]_leaseVars
<1>1. CASE Unheld(w)
  <2>1. held' = held
    BY <1>1 DEF Unheld, LeaseInv, LeaseTypeOK
  <2> QED BY <2>1 DEF leaseVars
<1>2. CASE ~Unheld(w)
  BY <1>2 DEF GiveUp, LeaseNext
<1> QED BY <1>1, <1>2

\* A write that passes the revision check is one atomic operation of the claim,
\* on the record and at the time the call decided with.
LEMMA PutRefines ==
  ASSUME KVInv, NEW w \in Workers, Put(w) PROVE LeaseNext
<1> DEFINE now == call[w].now
<1>1. /\ call[w] \in Calls /\ CallOK(w) /\ call[w].pc = "put" /\ call[w].revision = revision
      /\ LeaseInv
  BY DEF KVInv, Put
<1>2. /\ call[w].snap = rec /\ Permitted(w) /\ now \in 0..clock
      /\ call[w].op \in {"acquire", "renew", "complete"} /\ clock' = clock
  BY <1>1 DEF CallOK, Calls, Ops, LeaseInv, LeaseTypeOK, Put
<1>3. CASE call[w].op = "acquire"
  <2>1. Unheld(w) /\ Acquirable(rec, now) /\ rec' = Acquired(rec, w, now)
    BY <1>1, <1>2, <1>3 DEF CallOK, Permitted, Put, NewRecord
  <2>2. held' = [held EXCEPT ![w] = LeaseOf(rec')] \/ held' = held
    <3>1. \/ held' = [held EXCEPT ![w] = LeaseOf(rec')]
          \/ held' = [held EXCEPT ![w] = NoLease]
      BY DEF Put
    <3>2. [held EXCEPT ![w] = NoLease] = held
      BY <1>1, <2>1 DEF Unheld, LeaseInv, LeaseTypeOK
    <3> QED BY <3>1, <3>2
  <2>3. Acquire(w, now)
    BY <1>2, <2>1, <2>2 DEF Acquire
  <2> QED BY <1>2, <2>3 DEF LeaseNext
<1>4. CASE call[w].op = "renew"
  <2>1. /\ ~Unheld(w) /\ RenewDue(held[w], now) /\ Owns(rec, w, held[w], now)
        /\ rec' = Renewed(rec, now)
    BY <1>1, <1>2, <1>4 DEF CallOK, Permitted, Put, NewRecord
  <2>2. Renew(w, now)
    BY <1>2, <2>1 DEF Renew, Put
  <2> QED BY <1>2, <2>2 DEF LeaseNext
<1>5. CASE call[w].op = "complete"
  <2>1. ~Unheld(w) /\ Owns(rec, w, held[w], now) /\ rec' = Completed(rec)
    BY <1>1, <1>2, <1>5 DEF CallOK, Permitted, Put, NewRecord
  <2>2. Complete(w, now)
    BY <1>2, <1>5, <2>1 DEF Complete, Put
  <2> QED BY <1>2, <2>2 DEF LeaseNext
<1> QED BY <1>2, <1>3, <1>4, <1>5

\* Every step of the KV store is a step of the claim, or none.
LEMMA KVStepRefines == KVInv /\ [KVNext]_kvVars => [LeaseNext]_leaseVars
<1> SUFFICES ASSUME KVInv, [KVNext]_kvVars PROVE [LeaseNext]_leaseVars
  OBVIOUS
<1>1. CASE UNCHANGED kvVars
  BY <1>1 DEF kvVars
<1>2. ASSUME NEW w \in Workers, Get(w) \/ \E op \in Ops : Start(w, op)
      PROVE  [LeaseNext]_leaseVars
  BY <1>2 DEF Get, Start
<1>3. ASSUME NEW w \in Workers, GetRefused(w) \/ PutConflict(w) \/ Stop(w)
      PROVE  [LeaseNext]_leaseVars
  <2>1. CASE held' = [held EXCEPT ![w] = NoLease] /\ UNCHANGED <<rec, clock>>
    BY <2>1, DropRefines DEF KVInv
  <2>2. CASE UNCHANGED <<rec, held, clock>>
    BY <2>2 DEF leaseVars
  <2> QED BY <1>3, <2>1, <2>2 DEF GetRefused, PutConflict, Stop
<1>4. ASSUME NEW w \in Workers, Put(w) PROVE LeaseNext
  BY <1>4, PutRefines
<1>5. CASE KVTick
  BY <1>5 DEF KVTick, LeaseNext
<1> QED BY <1>1, <1>2, <1>3, <1>4, <1>5 DEF KVNext

\* The calls of the other workers stay decided: a write raises the revision,
\* and nothing else touches the record or what another worker holds.
LEMMA OtherCallsOK ==
  ASSUME KVInv, NEW v \in Workers, call'[v] = call[v], held'[v] = held[v],
         clock' \in Nat, clock <= clock',
         \/ revision' = revision /\ rec' = rec
         \/ revision' = revision + 1
  PROVE  CallOK(v)'
<1>1. /\ CallOK(v) /\ call[v] \in Calls /\ revision \in Nat /\ call[v].revision \in Nat
      /\ call[v].now \in Nat /\ clock \in Nat
  BY DEF KVInv, Calls, LeaseInv, LeaseTypeOK
<1>2. call[v].now <= clock' /\ call[v].revision <= revision'
  BY <1>1 DEF CallOK
<1>3. call[v].revision = revision' => revision' = revision /\ rec' = rec
  BY <1>1 DEF CallOK
<1>4. revision' = revision /\ rec' = rec => (Permitted(v) => Permitted(v)')
  BY DEF Permitted
<1> QED BY <1>1, <1>2, <1>3, <1>4 DEF CallOK, Unheld

\* A worker that has no call under way has nothing to decide.
LEMMA NoCallOK ==
  ASSUME KVInv, NEW w \in Workers, call' = [call EXCEPT ![w] = NoCall],
         clock' \in Nat, revision' \in Nat
  PROVE  call' \in [Workers -> Calls] /\ CallOK(w)'
<1>1. call' \in [Workers -> Calls] /\ call'[w] = NoCall
  BY NoCallForm DEF KVInv
<1> QED BY <1>1, NoCallForm DEF CallOK

\* Every step of the KV store keeps its invariant.
LEMMA KVStepInv == KVInv /\ [KVNext]_kvVars => KVInv'
<1> SUFFICES ASSUME KVInv, [KVNext]_kvVars PROVE KVInv'
  OBVIOUS
<1>1. LeaseInv /\ LeaseInv'
  BY KVStepRefines, LeaseStepInv DEF KVInv
<1>2. /\ clock \in Nat /\ clock' \in Nat /\ revision \in Nat
      /\ held \in [Workers -> [token : Nat, until : Times]]
      /\ call \in [Workers -> Calls]
      /\ rec \in [owner : Workers \cup {Nobody}, token : Nat, until : Times,
                  completed : BOOLEAN]
  BY <1>1 DEF LeaseInv, LeaseTypeOK, KVInv
<1>3. CASE UNCHANGED kvVars
  <2>1. UNCHANGED <<rec, held, clock, revision, call>>
    BY <1>3 DEF kvVars, leaseVars
  <2>2. \A v \in Workers : CallOK(v)'
    BY <1>2, <2>1, OtherCallsOK
  <2> QED BY <1>1, <1>2, <2>1, <2>2 DEF KVInv
<1>4. CASE KVTick
  <2>1. UNCHANGED <<rec, held, revision, call>> /\ clock <= clock'
    BY <1>2, <1>4 DEF KVTick, Tick
  <2>2. \A v \in Workers : CallOK(v)'
    BY <1>2, <2>1, OtherCallsOK
  <2> QED BY <1>1, <1>2, <2>1, <2>2 DEF KVInv
<1>5. ASSUME NEW w \in Workers, call' = [call EXCEPT ![w] = NoCall], clock' = clock,
             \/ revision' = revision /\ rec' = rec
             \/ revision' = revision + 1,
             \E l : held' = [held EXCEPT ![w] = l]
      PROVE  KVInv'
  <2>1. revision' \in Nat
    BY <1>2, <1>5
  <2>2. call' \in [Workers -> Calls] /\ CallOK(w)'
    BY <1>2, <1>5, <2>1, NoCallOK
  <2>3. ASSUME NEW v \in Workers, v # w PROVE CallOK(v)'
    <3>1. call'[v] = call[v] /\ held'[v] = held[v] /\ clock <= clock'
      BY <1>2, <1>5, <2>3
    <3> QED BY <1>2, <1>5, <3>1, OtherCallsOK
  <2> QED BY <1>1, <2>1, <2>2, <2>3 DEF KVInv
<1>6. ASSUME NEW w \in Workers, NEW c \in Calls, call' = [call EXCEPT ![w] = c],
             UNCHANGED <<rec, held, clock, revision>>, CallOK(w)'
      PROVE  KVInv'
  <2>1. call' \in [Workers -> Calls]
    BY <1>2, <1>6
  <2>2. ASSUME NEW v \in Workers, v # w PROVE CallOK(v)'
    <3>1. call'[v] = call[v] /\ held'[v] = held[v] /\ clock <= clock'
      BY <1>2, <1>6, <2>2
    <3> QED BY <1>2, <1>6, <3>1, OtherCallsOK
  <2> QED BY <1>1, <1>2, <1>6, <2>1, <2>2 DEF KVInv
<1>7. ASSUME NEW w \in Workers, NEW op \in Ops, Start(w, op) PROVE KVInv'
  <2> DEFINE c == [NoCall EXCEPT !.op = op, !.now = clock]
  <2>1. /\ c \in Calls /\ c.op = op /\ c.pc = "get" /\ c.now = clock /\ c.revision = 0
    BY <1>2, NoCallForm DEF Calls
  <2>2. call' = [call EXCEPT ![w] = c] /\ UNCHANGED <<rec, held, clock, revision>>
    BY <1>7 DEF Start, leaseVars
  <2> HIDE DEF c
  <2>3. call'[w] = c
    BY <1>2, <2>2
  <2>4. /\ op = "acquire" => Unheld(w)
        /\ op \in {"renew", "complete"} => ~Unheld(w)
        /\ op = "renew" => RenewDue(held[w], clock)
    <3>1. Unheld(w) = (held[w] = NoLease)
      BY DEF Unheld
    <3> QED BY <1>7, <3>1 DEF Start
  <2>5. op # "none" /\ c.now <= clock' /\ c.revision <= revision'
    BY <1>2, <2>1, <2>2 DEF Ops
  <2>6. CallOK(w)'
    BY <2>1, <2>2, <2>3, <2>4, <2>5 DEF CallOK, Unheld
  <2> QED BY <1>6, <2>1, <2>2, <2>6
<1>8. ASSUME NEW w \in Workers, Get(w) PROVE KVInv'
  <2> DEFINE c == [call[w] EXCEPT !.pc = "put", !.snap = rec, !.revision = revision]
  <2>1. /\ c \in Calls /\ c.op = call[w].op /\ c.op # "none" /\ c.pc = "put"
        /\ c.now = call[w].now /\ c.snap = rec /\ c.revision = revision
    BY ZenonT(30), <1>2, <1>8 DEF Calls, Get
  <2>2. call' = [call EXCEPT ![w] = c] /\ UNCHANGED <<rec, held, clock, revision>>
    BY <1>2, <1>8 DEF Get, leaseVars
  <2> HIDE DEF c
  <2>3. call'[w] = c /\ Permitted(w)
    BY <1>2, <1>8, <2>2 DEF Get
  <2>4. Permitted(w)'
    BY <2>1, <2>2, <2>3 DEF Permitted
  <2>5. CallOK(w)'
    BY <1>2, <2>1, <2>2, <2>3, <2>4 DEF CallOK, KVInv, Unheld
  <2> QED BY <1>6, <2>1, <2>2, <2>5
<1>9. ASSUME NEW w \in Workers, PutConflict(w) PROVE KVInv'
  <2>1. CASE call' = [call EXCEPT ![w] = NoCall] /\ held' = [held EXCEPT ![w] = NoLease]
    BY <1>5, <1>9, <2>1 DEF PutConflict
  <2>2. CASE /\ call[w].attempt + 1 < Retries
             /\ call' = [call EXCEPT ![w] = [NoCall EXCEPT !.op = call[w].op,
                            !.now = call[w].now, !.attempt = call[w].attempt + 1]]
             /\ UNCHANGED held
    <3> DEFINE c == [NoCall EXCEPT !.op = call[w].op, !.now = call[w].now,
                                   !.attempt = call[w].attempt + 1]
    <3>1. /\ c \in Calls /\ c.op = call[w].op /\ c.now = call[w].now /\ c.pc = "get"
          /\ c.revision = 0
      <4>1. /\ call[w].attempt + 1 \in 0..(Retries - 1) /\ call[w].now \in Nat
            /\ call[w].op \in Ops \cup {"none"}
        BY <1>2, <2>2, RetriesAssumption DEF Calls
      <4> QED BY <4>1, NoCallForm DEF Calls
    <3>2. call' = [call EXCEPT ![w] = c] /\ UNCHANGED <<rec, held, clock, revision>>
      BY <1>9, <2>2 DEF PutConflict
    <3> HIDE DEF c
    <3>3. call'[w] = c
      BY <1>2, <3>2
    <3>4. CallOK(w)'
      BY <1>2, <3>1, <3>2, <3>3 DEF CallOK, KVInv, Unheld
    <3> QED BY <1>6, <3>1, <3>2, <3>4
  <2> QED BY <1>9, <2>1, <2>2 DEF PutConflict
<1>10. ASSUME NEW w \in Workers, GetRefused(w) \/ Put(w) \/ Stop(w) PROVE KVInv'
  BY <1>5, <1>10 DEF GetRefused, Put, Stop
<1> QED BY <1>3, <1>4, <1>7, <1>8, <1>9, <1>10 DEF KVNext

\* The invariant of the KV store holds in every reachable state.
THEOREM KVInvariant == KVSpec => []KVInv
  BY KVInitInv, KVStepInv, PTL DEF KVSpec

\* Type correctness of the KV store
THEOREM KVTypeCorrect == KVSpec => []KVTypeOK
<1>1. KVInv => KVTypeOK
  BY DEF KVInv, KVTypeOK, LeaseInv, CallOK, Calls, LeaseTypeOK
<1> QED BY KVInvariant, <1>1, PTL

\* The compare-and-set store of kv_lease.go implements the atomic claim.
THEOREM KVRefinesLease == KVSpec => RefinesLease
<1>1. KVInit => LeaseInit
  BY DEF KVInit
<1> QED BY KVInvariant, KVStepRefines, <1>1, PTL DEF KVSpec, LeaseSpec, RefinesLease

\* So the KV store excludes two holders of an unexpired lease, completes an item
\* for good and fences with its tokens as well.
THEOREM KVLeaseSafe ==
    KVSpec => []MutualExclusion /\ []CompletionIsFinal /\ TokensFence
  BY KVRefinesLease, LeaseMutualExclusion, LeaseCompletionIsFinal, LeaseTokensFence, PTL
  DEF RefinesLease

============================================================================
