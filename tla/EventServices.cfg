SPECIFICATION EventServicesSpec
CONSTANTS
    None = None
    Products = {"o", "p", "q"}
    Events <- BootstrapEvents
    Legacy <- BootstrapLegacy
    CatalogReplicas = {"r1", "r2"}
    CacheHost = "r1"
    Readers = {}
    MaxAttempts = 2
    MaxCatalogFaults = 2
    Triggers <- SessionTriggers
    Sessions = {"s"}
    Replicas = {"r1", "r2"}
    MaxRevision = 2
    MaxFaults = 1
    Consumers = {"catalog", "cart"}
    First = "catalog"
    Workers = 1
    Batch = 1
    Supply = 3
    MaxFlaps = 1
    MaxErrors = 2
    MayClose = TRUE
    Orders = {"o1", "o2"}
    Invalid = {}
    EmailReplicas = {"r1", "r2"}
    FailureMode <- RolloutFailureMode
    Concurrency = 2
    MaxDeliver = 2
    MaxWindows = 1
    MaxEmailFaults = 2
INVARIANTS
    OneGeneration
    ToldBeforeAck
PROPERTIES
    CatalogKept
    SessionKeepsNewest
CHECK_DEADLOCK FALSE
