SPECIFICATION LoadAndReportsSpec
CONSTANTS
    Sources = {"kubernetes"}
    Parts = {"p1", "p2", "p3"}
    Executors = 2
    MaxVersion = 1
    Tasks = {"t1", "t2"}
    MaxPublished = 2
    MaxDrops = 1
INVARIANTS
    NothingStale
    ObservedIsReal
    LoadIsDivided
    ReportIsTrue
CHECK_DEADLOCK FALSE
