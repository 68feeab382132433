SPECIFICATION RunControlSpec
CONSTANTS
    Runs = {a, b}
    Calls = {c1, c2}
    NoRun = NoRun
    MaxFaults = 2
    MaxAsked = 2
    MaxTrouble = 4
    ThreadCount = 2
    Kinds = {"update"}
    MaxCalls = 2
    MaxConns = 3
    MaxStoreFaults = 1
    Troubles = {"drop", "timeout"}
    Total = 2
    MaxPlans = 2
    MaxOthers = 1
    MaxSequenceFaults = 1
SYMMETRY RunSymmetry
INVARIANTS
    
    SequenceObeys
    StoreIsSafe
    
PROPERTIES
    LeaseReleases
CHECK_DEADLOCK FALSE
