-------------------------------- MODULE Lease --------------------------------
(***************************************************************************)
(* The expiring claim on ONE work item of src/shared/stateless: the state  *)
(* machine of lease.go, whose three Lua scripts are atomic.  A worker      *)
(* supplies the time itself; it may be old when the script runs (a paused  *)
(* worker, a scan that captured `now' before a long loop), never ahead.    *)
(* A script whose reply is lost has run although the worker has no lease.  *)
(* Calls that are refused change nothing and are not actions.              *)
(***************************************************************************)
EXTENDS Naturals

CONSTANTS Workers, Nobody, Duration, MaxClock

ASSUME LeaseAssumption ==
    /\ Nobody \notin Workers
    /\ Duration \in Nat \ {0}
    /\ MaxClock \in Nat

VARIABLES
    rec,    \* the stored record; token 0 means that the key does not exist
    held,   \* the Lease value each worker holds in memory
    clock

leaseVars == <<rec, held, clock>>

Times == 0..(MaxClock + Duration)
NoLease == [token |-> 0, until |-> 0]
NoRecord == [owner |-> Nobody, token |-> 0, until |-> 0, completed |-> FALSE]

LeaseTypeOK ==
    /\ rec \in [owner : Workers \cup {Nobody}, token : Nat, until : Times,
                completed : BOOLEAN]
    /\ held \in [Workers -> [token : Nat, until : Times]]
    /\ clock \in 0..MaxClock

LeaseInit ==
    /\ rec = NoRecord
    /\ held = [w \in Workers |-> NoLease]
    /\ clock = 0

----------------------------------------------------------------------------

\* Mutant of Acquirable: a lease is taken over one tick early.
AcquirableEarly(r, now) == ~r.completed /\ r.until <= now + 1

Acquirable(r, now) == ~r.completed /\ r.until <= now

\* Mutant of Acquired: the token of the previous holder is kept.
AcquiredSameToken(r, w, now) == [r EXCEPT !.owner = w, !.until = now + Duration]

Acquired(r, w, now) ==
    [r EXCEPT !.owner = w, !.token = r.token + 1, !.until = now + Duration]

\* Mutant of Owns: only the expiry is compared.
OwnsUnfenced(r, w, lease, now) == ~r.completed /\ r.until > now

\* The check that Renew and Complete share.
Owns(r, w, lease, now) ==
    /\ ~r.completed
    /\ r.owner = w
    /\ r.token = lease.token
    /\ r.until > now

Renewed(r, now) == [r EXCEPT !.until = now + Duration]

Completed(r) == [r EXCEPT !.completed = TRUE, !.until = 0]

\* renewBootstrapClaim renews only in the second half of the lease.
RenewDue(lease, now) == lease.until <= now + Duration \div 2

LeaseOf(r) == [token |-> r.token, until |-> r.until]

Unheld(w) == held[w] = NoLease

\* acquireLeaseScript; the second disjunct is a lost reply.
Acquire(w, now) ==
    /\ Unheld(w)
    /\ Acquirable(rec, now)
    /\ rec' = Acquired(rec, w, now)
    /\ \/ held' = [held EXCEPT ![w] = LeaseOf(rec')]
       \/ UNCHANGED held
    /\ UNCHANGED clock

\* renewLeaseScript; after a lost reply the caller gives up.
Renew(w, now) ==
    /\ ~Unheld(w)
    /\ RenewDue(held[w], now)
    /\ Owns(rec, w, held[w], now)
    /\ rec' = Renewed(rec, now)
    /\ \/ held' = [held EXCEPT ![w] = LeaseOf(rec')]
       \/ held' = [held EXCEPT ![w] = NoLease]
    /\ UNCHANGED clock

\* completeLeaseScript
Complete(w, now) ==
    /\ ~Unheld(w)
    /\ Owns(rec, w, held[w], now)
    /\ rec' = Completed(rec)
    /\ held' = [held EXCEPT ![w] = NoLease]
    /\ UNCHANGED clock

\* ErrLeaseLost, an error of the worker's own, or its process stops.
GiveUp(w) ==
    /\ ~Unheld(w)
    /\ held' = [held EXCEPT ![w] = NoLease]
    /\ UNCHANGED <<rec, clock>>

Tick ==
    /\ clock < MaxClock
    /\ clock' = clock + 1
    /\ UNCHANGED <<rec, held>>

LeaseNext ==
    \/ \E w \in Workers :
         \/ GiveUp(w)
         \/ \E now \in 0..clock : Acquire(w, now) \/ Renew(w, now) \/ Complete(w, now)
    \/ Tick

LeaseSpec == LeaseInit /\ [][LeaseNext]_leaseVars

----------------------------------------------------------------------------
(* Properties                                                              *)

Live(w) == held[w].until > clock

\* No two workers hold an unexpired lease, however late their calls arrive and
\* whatever replies were lost ("It never steals an unexpired lease").
MutualExclusion ==
    \A v, w \in Workers : Live(v) /\ Live(w) => v = w

\* Once the item is completed nobody works on it with an unexpired lease
\* ("Complete records terminal completion only for the current unexpired
\* fencing token").
CompletionIsFinal ==
    rec.completed => \A w \in Workers : ~Live(w)

\* The fencing token never falls, a change of owner raises it, and a completed
\* item is never claimed again.
TokensFence ==
    [][/\ rec'.token >= rec.token
       /\ rec'.owner # rec.owner => rec'.token > rec.token
       /\ rec.completed => rec' = rec]_leaseVars

\* The inductive invariant behind them: a worker's lease either carries the
\* current token, and then it is the stored claim, or an older one, and then it
\* had expired when the newer claim was granted.
HeldOrExpired(w) ==
    \/ Unheld(w)
    \/ /\ held[w].token \in 1..rec.token
       /\ IF held[w].token = rec.token
          THEN rec.owner = w /\ ~rec.completed /\ held[w].until = rec.until
          ELSE held[w].until <= clock

LeaseInv == LeaseTypeOK /\ \A w \in Workers : HeldOrExpired(w)

============================================================================
