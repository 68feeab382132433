--------------------------- MODULE MetricsGateway ---------------------------
(***************************************************************************)
(* The metrics gateway: one thread per source collects the source's parts  *)
(* (nodes, exporters, Raft endpoints) in an executor, up to a deadline     *)
(* (cluster_metrics.py), and stores the result in a cache that the HTTP    *)
(* handler serves (metrics_server.py).  A request that misses the deadline *)
(* keeps its executor thread until its own time-out.  The cAdvisor         *)
(* counters, which the code deliberately keeps for 30 seconds and merges   *)
(* into the result, are in ResourceUsage.                                  *)
(***************************************************************************)
EXTENDS Naturals, FiniteSets

CONSTANTS
    Sources,
    Parts,
    Executors,     \* threads of a source's executor
    MaxVersion     \* bound on what the parts report, a growing counter

GatewayAssumption == IsFiniteSet(Parts) /\ Executors \in Nat \ {0} /\ MaxVersion \in Nat

Warming == MaxVersion + 1     \* nothing cached, or nothing from this part

VARIABLES
    version,       \* what every part would report now
    collecting,    \* per source: whether its thread is inside collect
    job,           \* per source and part: the request of this collection
    value,         \* per source and part: what the request has read
    late,          \* per source: requests of earlier collections still running
    snapshot,      \* SnapshotCache._values: per source and part the value or Warming
    collectBegun,  \* per source: the version when its collection began,
    asOf,          \* and when the collection in the cache began (history)
    served         \* the last answer of /snapshot, with asOf

gatewayVars == <<version, collecting, job, value, late, snapshot, collectBegun, asOf, served>>

Jobs == {"none", "queued", "running", "done", "failed"}
Values == 0..Warming

GatewayTypeOK ==
    /\ version \in 0..MaxVersion
    /\ collecting \in [Sources -> BOOLEAN]
    /\ job \in [Sources -> [Parts -> Jobs]]
    /\ value \in [Sources -> [Parts -> Values]]
    /\ late \in [Sources -> 0..Executors]
    /\ snapshot \in [Sources -> [Parts -> Values]]
    /\ collectBegun \in [Sources -> 0..MaxVersion] /\ asOf \in [Sources -> 0..MaxVersion]
    /\ served \in [values : [Sources -> [Parts -> Values]], begun : [Sources -> 0..MaxVersion]]
    /\ \A s \in Sources :
          late[s] + Cardinality({p \in Parts : job[s][p] = "running"}) <= Executors

GatewayInit ==
    /\ version = 0
    /\ collecting = [s \in Sources |-> FALSE]
    /\ job = [s \in Sources |-> [p \in Parts |-> "none"]]
    /\ value = [s \in Sources |-> [p \in Parts |-> Warming]]
    /\ late = [s \in Sources |-> 0]
    /\ snapshot = [s \in Sources |-> [p \in Parts |-> Warming]]
    /\ collectBegun = [s \in Sources |-> 0] /\ asOf = [s \in Sources |-> 0]
    /\ served = [values |-> snapshot, begun |-> asOf]

----------------------------------------------------------------------------
(* One source                                                              *)

Running(s) == {p \in Parts : job[s][p] = "running"}

\* A refresh begins: one request per part is submitted.
Collect(s) ==
    /\ ~collecting[s]
    /\ collecting' = [collecting EXCEPT ![s] = TRUE]
    /\ job' = [job EXCEPT ![s] = [p \in Parts |-> "queued"]]
    /\ value' = [value EXCEPT ![s] = [p \in Parts |-> Warming]]
    /\ collectBegun' = [collectBegun EXCEPT ![s] = version]
    /\ UNCHANGED <<version, late, snapshot, asOf, served>>

HasThread(s) == Cardinality(Running(s)) + late[s] < Executors

StartRequest(s, p) ==
    /\ job[s][p] = "queued" /\ HasThread(s)
    /\ job' = [job EXCEPT ![s][p] = "running"]
    /\ value' = [value EXCEPT ![s][p] = version]
    /\ UNCHANGED <<version, collecting, late, snapshot, collectBegun, asOf, served>>

\* The request returns or raises.
Answer(s, p) ==
    /\ job[s][p] = "running"
    /\ \E result \in {"done", "failed"} : job' = [job EXCEPT ![s][p] = result]
    /\ UNCHANGED <<version, collecting, value, late, snapshot, collectBegun, asOf, served>>

\* Mutant of Result: a missing part keeps the value it had.
ResultMerged(s) == [p \in Parts |-> IF job[s][p] = "done" THEN value[s][p] ELSE snapshot[s][p]]

\* What has come in by the deadline; the rest are errors.
Result(s) == [p \in Parts |-> IF job[s][p] = "done" THEN value[s][p] ELSE Warming]

\* Mutant of Publish: the collection waits for all its requests.
PublishAll(s) ==
    /\ collecting[s]
    /\ \A p \in Parts : job[s][p] \in {"done", "failed"}
    /\ collecting' = [collecting EXCEPT ![s] = FALSE]
    /\ snapshot' = [snapshot EXCEPT ![s] = Result(s)]
    /\ asOf' = [asOf EXCEPT ![s] = collectBegun[s]]
    /\ job' = [job EXCEPT ![s] = [p \in Parts |-> "none"]]
    /\ UNCHANGED <<version, value, late, collectBegun, served>>

\* All requests are over or the deadline passes; queued requests are
\* cancelled, running ones go on without a reader.
Publish(s) ==
    /\ collecting[s]
    /\ collecting' = [collecting EXCEPT ![s] = FALSE]
    /\ late' = [late EXCEPT ![s] = @ + Cardinality(Running(s))]
    /\ snapshot' = [snapshot EXCEPT ![s] = Result(s)]
    /\ asOf' = [asOf EXCEPT ![s] = collectBegun[s]]
    /\ job' = [job EXCEPT ![s] = [p \in Parts |-> "none"]]
    /\ UNCHANGED <<version, value, collectBegun, served>>

\* A late request reaches its own time-out; nobody reads its result.
LateEnds(s) ==
    /\ late[s] > 0
    /\ late' = [late EXCEPT ![s] = @ - 1]
    /\ UNCHANGED <<version, collecting, job, value, snapshot, collectBegun, asOf, served>>

----------------------------------------------------------------------------
(* The handler and the world                                               *)

Get ==
    /\ served' = [values |-> snapshot, begun |-> asOf]
    /\ UNCHANGED <<version, collecting, job, value, late, snapshot, collectBegun, asOf>>

Advance ==
    /\ version < MaxVersion
    /\ version' = version + 1
    /\ UNCHANGED <<collecting, job, value, late, snapshot, collectBegun, asOf, served>>

----------------------------------------------------------------------------

SourceStep(s) ==
    \/ Collect(s) \/ Publish(s) \/ LateEnds(s)
    \/ \E p \in Parts : StartRequest(s, p) \/ Answer(s, p)

GatewayNext == Get \/ Advance \/ \E s \in Sources : SourceStep(s)

\* Each source's own thread goes on; requests may hang.
GatewayFairness ==
    /\ \A s \in Sources : WF_gatewayVars(Collect(s)) /\ WF_gatewayVars(Publish(s))

GatewaySpec == GatewayInit /\ [][GatewayNext]_gatewayVars /\ GatewayFairness

----------------------------------------------------------------------------

\* A part that misses the deadline is absent, never old: every value served was
\* read in the collection the answer comes from.
NothingStale ==
    \A s \in Sources, p \in Parts :
        served.values[s][p] # Warming => served.values[s][p] >= served.begun[s]

\* The inductive invariant of NothingStale: a request reads after its collection
\* began, and the cache holds what the requests of one collection have read.
CollectedFresh ==
    \A s \in Sources :
        /\ collectBegun[s] <= version
        /\ \A p \in Parts :
              /\ job[s][p] \in {"running", "done"} => value[s][p] >= collectBegun[s]
              /\ snapshot[s][p] # Warming => snapshot[s][p] >= asOf[s]

GatewayInv == GatewayTypeOK /\ CollectedFresh /\ NothingStale

\* The sources refresh independently: a source whose requests all hang is still
\* published at its deadline, again and again, and keeps no other source back.
RefreshGoesOn == \A s \in Sources : []<><<Publish(s)>>_gatewayVars

=============================================================================
