--------------------------- MODULE MCCheckoutSaga ---------------------------
(* Bounds and symmetry for model checking CheckoutSaga.                    *)
EXTENDS CheckoutSaga, FiniteSets, TLC

Symmetry == Permutations(Lanes) \cup Permutations(Scanners)

\* At most one version's deadline is claimed in a behaviour: a claim that finds
\* its order gone on writes nothing but its journal entry, and claims of
\* different versions never meet.
OneClaimedDeadline ==
    Cardinality({v \in Versions : \/ lease[v].holder # NoWorker
                                  \/ lease[v].done
                                  \/ Deadline(v) \in processed}) <= 1

============================================================================
