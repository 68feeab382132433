---------------------------- MODULE WorkerSplit ----------------------------
(***************************************************************************)
(* How a benchmark request is checked and divided among worker processes   *)
(* (config.py).  Rates are whole numbers of 1/Unit orders per second.      *)
(***************************************************************************)
EXTENDS Integers, FiniteSets, FiniteSetsExt

CONSTANTS
    Unit,          \* rate units in one order per second
    MinRate,       \* smallest arrival, saturation and spawn rate
    MaxOpen,       \* MAX_OPEN_ARRIVAL_RATE_PER_WORKER
    MaxClosed,     \* MAX_CLOSED_USERS_PER_WORKER
    MaxUsers,      \* largest number of users
    SpawnDivisor,  \* a worker may have this fraction of the smallest spawn rate
    StepRate,      \* SATURATION_STEP_RATE
    StepSeconds    \* saturation_step_seconds

SplitAssumption ==
    /\ {Unit, MinRate, MaxOpen, MaxClosed, MaxUsers, SpawnDivisor, StepRate, StepSeconds}
          \subseteq Nat \ {0}
    /\ MinRate <= MaxOpen

Workloads == {"open", "fault_tolerance", "saturation", "closed"}

Ceil(a, b) == (a + b - 1) \div b

\* _integer and _number: a value within its bounds (the largest rate and the
\* longest run are beyond the model's).
Integer(value, minimum, maximum) == value \in minimum..maximum
Number(value, minimum) == value >= minimum

\* _from_values: what from_request accepts (metrics: a metrics_url is given).
Valid(c) ==
    /\ c.workload \in Workloads
    /\ c.collect => c.metrics
    /\ Number(c.start, MinRate) /\ Number(c.max, MinRate) /\ c.max >= c.start
    /\ Integer(c.seconds, 1, c.seconds)
    /\ Integer(c.users, 1, MaxUsers)
    /\ Number(c.spawn, MinRate)
    /\ Number(c.rate, MinRate)

StepCount(c) == Ceil(c.seconds, StepSeconds)
EffectiveMax(c) == Min({c.max, c.start + (StepCount(c) - 1) * StepRate})

WorkerCount(c) ==
    LET needed == CASE c.workload \in {"open", "fault_tolerance"} -> Ceil(c.rate, MaxOpen)
                    [] c.workload = "saturation" -> Ceil(EffectiveMax(c), MaxOpen)
                    [] OTHER -> Ceil(c.users, MaxClosed)
    IN  Max({1, needed})

\* Mutant of ForWorker: every worker samples the shared target.
ForWorkerSampling(c, i) ==
    IF c.workload \in {"open", "fault_tolerance"}
    THEN [c EXCEPT !.rate = Min({MaxOpen, c.rate - i * MaxOpen})]
    ELSE c

\* for_worker: rates are cut into full shares and a rest, users divided evenly;
\* a saturation worker keeps the ladder.  A worker's spawn rate is c.spawn
\* divided by the number of workers.
ForWorker(c, i) ==
    LET workers == WorkerCount(c)
        common == [c EXCEPT !.collect = c.collect /\ i = 0]
    IN  CASE c.workload \in {"open", "fault_tolerance"} ->
               [common EXCEPT !.rate = Min({MaxOpen, c.rate - i * MaxOpen})]
          [] c.workload = "saturation" -> common
          [] OTHER -> [common EXCEPT !.users = c.users \div workers
                                              + (IF i < c.users % workers THEN 1 ELSE 0)]

\* from_worker_dict: the checks a worker makes of its share.
Loads(c, workers) ==
    /\ Valid([c EXCEPT !.spawn = MinRate])
    /\ c.spawn * SpawnDivisor >= (IF c.workload = "closed" THEN workers ELSE 1) * MinRate

\* OpenLoopDriver: request i of a worker is due after i/rate seconds. The code's
\* product of i and a floating-point interval may fall short of a whole number
\* where the exact one does not: then a worker has one request more than here.
Arrivals(rate, seconds) == Ceil(rate * seconds, Unit)

\* SaturationDriver: target rate and length of a rung, its requests, and the
\* ordinals worker i of n sends.
TargetRate(c, rung) == Min({c.max, c.start + rung * StepRate})
RungSeconds(c, rung) == Min({StepSeconds, c.seconds - rung * StepSeconds})
Scheduled(c, rung) == Ceil(TargetRate(c, rung) * RungSeconds(c, rung), Unit)

\* Mutant of Ordinals: blocks of equal length, the rest is left out.
OrdinalsBlock(count, i, n) == (i * (count \div n))..((i + 1) * (count \div n) - 1)

Ordinals(count, i, n) == {k \in 0..(count - 1) : k >= i /\ (k - i) % n = 0}

=============================================================================
