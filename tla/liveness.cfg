SPECIFICATION FairSpec
CONSTANTS
    None = None
    j1 = j1  j2 = j2  j3 = j3  w1 = w1  w2 = w2
    c1 = c1  c2 = c2  k1 = k1  k2 = k2  d1 = d1
    long = long  short = short  blank = blank  bad = bad
    Jobs = {j1, j2}
    Workers = {w1}
    Clients = {c1, c2}
    Corpora = {k1, k2}
    Docs = {d1}
    Files = {long, short, blank, bad}
    Unreadable = {bad}
    MaxChunks = 2
    ChunkCount <- MCChunkCount
    Requests <- MCFewRequests
    MaxFaults <- MCCallsReturn
INVARIANTS FailedTellsWhy IndexesComplete
PROPERTIES FinalUntilRedelivered EveryJobEnds QueueDrains
CHECK_DEADLOCK FALSE
