SPECIFICATION StoresSpec
CONSTANTS
    Replicas = {r1, r2}
    NoCommand = NoCommand
    Products <- CartProducts
    Commands <- CartCommands
    QuantityLimit = 2
    MaximumStoreAttempts = 2
    MaxFaults = 1
    Workers = {a, b}
    Nobody = Nobody
    Duration = 2
    MaxClock = 4
    Retries = 2
INVARIANTS
    HistoryLinear
    ClearsWhatWasSeen
    MutualExclusion
    CompletionIsFinal
PROPERTIES
    AnswersStable
    RefinesLedger
    CartGoesOn
    TokensFence
    RefinesLease
CHECK_DEADLOCK FALSE
