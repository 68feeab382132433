--------------------------- MODULE StatelessStores ---------------------------
(***************************************************************************)
(* The stores of src/shared/stateless, checked side by side: the aggregate *)
(* store with the cart service on top of it, the Redis lease and the       *)
(* JetStream KV lease.  A cart takes no lease, and a work item is claimed  *)
(* in one of the two lease stores, so a behaviour is one of one component  *)
(* and TLC explores the sum of their state spaces, not the product.        *)
(***************************************************************************)
EXTENDS CartAggregate, KVLease

VARIABLE part   \* the component whose behaviour this is

Add(id, p, q) == [id |-> id, kind |-> "add", product |-> p, quantity |-> q, expected |-> 0]
ClearOf(id, v) == [id |-> id, kind |-> "clear", product |-> "none", quantity |-> 0, expected |-> v]

CartProducts == {"p", "q"}

\* Two adds of one product that together exceed the limit of a line, an add of
\* another product, and the clear of a sender who saw version 1.
CartCommands == {Add("a1", "p", 2), Add("a2", "p", 1), Add("b1", "q", 1), ClearOf("c1", 1)}

StoresInit ==
    /\ part \in {"cart", "crashes", "redis", "kv"}
    /\ CartInit /\ KVInit

\* A behaviour of one component; the others keep their initial states.  The
\* cart has all four commands or three of them and a fault.
StoresNext ==
    \/ part = "cart" /\ CartNext /\ UNCHANGED <<part, kvVars, faults>>
    \/ part = "crashes" /\ CartNext /\ Add("b1", "q", 1) \notin sent' /\ UNCHANGED <<part, kvVars>>
    \/ part = "redis" /\ LeaseNext /\ UNCHANGED <<part, revision, call, cartVars>>
    \/ part = "kv" /\ KVNext /\ UNCHANGED <<part, cartVars>>

storesVars == <<part, cartVars, kvVars>>

OfCart == part \in {"cart", "crashes"}

\* CartFairness for the behaviours of the cart.
StoresFairness ==
    /\ \A r \in Replicas : WF_cartVars(OfCart /\ ReplicaStep(r))
    /\ WF_cartVars(OfCart /\ \E r \in Replicas, c \in Commands : Deliver(r, c))
    /\ WF_cartVars(OfCart /\ \E c \in Commands : Project(c))

StoresSpec == StoresInit /\ [][StoresNext]_storesVars /\ StoresFairness

=============================================================================
