----------------------------- MODULE RunControl -----------------------------
(***************************************************************************)
(* The control of benchmark runs, checked side by side: the run records    *)
(* and the lease, the shared store under them, and the page that submits   *)
(* sequences of runs. BenchmarkRuns takes the store as compare-and-set     *)
(* operations and RunSequence takes the API as the runs it has, so a       *)
(* behaviour is one of one component.                                      *)
(***************************************************************************)
EXTENDS BenchmarkRuns, SharedStore, RunSequence, TLC

CONSTANTS
    MaxAsked,      \* bound on stop and status requests
    MaxTrouble     \* bound on these requests and faults together; a fault counts twice

VARIABLES
    part,          \* the component whose behaviour this is
    asked          \* stop and status requests so far

RunSymmetry == Permutations(Runs) \cup Permutations(Calls)

\* Requests that begin with this step.
Asking == {c \in Calls : call[c].pc = "idle" /\ call'[c].pc \in {"stopping", "query"}}

ASSUME RunControlAssumption ==
    /\ RunsAssumption
    /\ MaxAsked \in Nat /\ MaxTrouble \in Nat
    /\ StoreAssumption
    /\ SequenceAssumption

Parts == {"runs", "store", "sequence"}

RunControlInit ==
    /\ part \in Parts
    /\ asked = 0
    /\ RunsInit
    /\ StoreInit
    /\ SequenceInit

\* A behaviour of one component; the others keep their initial states.
RunControlNext ==
    \/ /\ part = "runs" /\ RunsNext
       /\ asked' = asked + Cardinality(Asking)
       /\ asked' <= MaxAsked /\ asked' + 2 * faults' <= MaxTrouble
       /\ UNCHANGED <<part, storeVars, sequenceVars>>
    \/ /\ part = "store" /\ StoreNext
       /\ UNCHANGED <<part, asked, runVars, sequenceVars>>
    \/ /\ part = "sequence" /\ SequenceNext
       /\ UNCHANGED <<part, asked, runVars, storeVars>>

runControlVars == <<part, asked, runVars, storeVars, sequenceVars>>

RunControlSpec == RunControlInit /\ [][RunControlNext]_runControlVars

----------------------------------------------------------------------------

\* Types of the state of the components.
RunControlTypeOK ==
    /\ RunsTypeOK
    /\ StoreTypeOK
    /\ SequenceTypeOK

\* Nobody's workload goes on: a Locust process that runs without the lease of its
\* run has been told to stop, or is watched by a heartbeat that will find out, or
\* its coordinator has failed and its container ends.
WorkloadsWatched == RunControlTypeOK /\ Watched

=============================================================================
