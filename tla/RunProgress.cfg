SPECIFICATION RunProgressSpec
CONSTANTS
    Workers = {"w0", "w1"}
    Coordinator = "w0"
    MaxFaults = 2
    Deployments = 2
    MaxReplicas = 2
    WorkerCount = 2
    MaxErrors = 3
INVARIANTS
    VerdictsAreTrue
    ClusterRestored
PROPERTIES
    RunsEnd
CHECK_DEADLOCK FALSE
