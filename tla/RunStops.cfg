SPECIFICATION RunsSpec
CONSTANTS
    Runs = {a, b}
    Calls = {c1, c2}
    NoRun = NoRun
    MaxFaults = 0
INVARIANTS
    OneWorkloadEver
CHECK_DEADLOCK FALSE
