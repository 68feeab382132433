SPECIFICATION LoadProgressSpec
CONSTANTS
    Count = 2
    Concurrency = 2
    Slots = 1
    Inline = FALSE
    Application = "NATS"
    MaxBreaks = 1
    Workers = {"w0", "w1"}
    Coordinator = "w0"
    LastRung = 1
    MaxCompleted = 2
    MaxLadderFaults = 2
    Pods = {}
    Interval = 2
    WarmUp = 1
    End = 6
    MaxTime = 7
    MaxWork = 0
    MaxWorkflowEvents = 1
    MaxFaults = 1
INVARIANTS
    TransactionsAreTrue
    SamplesAccounted
PROPERTIES
    LadderIsReal
    LoadGoesOn
CHECK_DEADLOCK FALSE
