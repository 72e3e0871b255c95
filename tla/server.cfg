SPECIFICATION ProcessFairSpec
CONSTANTS
    p1 = p1
    p2 = p2
    server = server
    w1 = w1
    w2 = w2
    None = None
    Calls = {p1, p2}
    Processes = {server, w1, w2}
    Server = server
    MaxStarts <- MCMaxStarts
INVARIANTS
    TableBeforeWork
    FailsOnceAtMost
    ClosedForGood
PROPERTIES
    StopEnds
CHECK_DEADLOCK FALSE
