------------------------- MODULE SagaInterleavings --------------------------
(***************************************************************************)
(* The two ways in which the writers of one order race each other, checked *)
(* side by side: two lanes, and a lane with a deadline scanner.            *)
(***************************************************************************)
EXTENDS MCCheckoutSaga

VARIABLE race   \* the writers of this behaviour

interleavingVars == <<vars, race>>

InterleavingInit == Init /\ race \in {"lanes", "timeouts"}

\* Two lanes with up to MaxFaults faults and no scanner; or one lane at a time and
\* the scanners, with one fault.
InterleavingNext ==
    /\ Next /\ UNCHANGED race
    /\ race = "lanes" => \A s \in Scanners : worker'[s] = Idle
    /\ race = "timeouts" =>
          /\ Cardinality({l \in Lanes : worker'[l] # Idle}) <= 1
          /\ faults' <= 1
          /\ OneClaimedDeadline'

InterleavingSpec == InterleavingInit /\ [][InterleavingNext]_interleavingVars

=============================================================================
