SPECIFICATION FairSpec
CONSTANTS
    q1 = q1
    q2 = q2
    q3 = q3
    q4 = q4
    j1 = j1
    j2 = j2
    c1 = c1
    c2 = c2
    k1 = k1
    d1 = d1
    None = None
    Jobs = {j1, j2}
    Clients = {c1, c2}
    Corpora = {k1}
    Docs = {d1}
    MaxChunks = 3
    Queries = {q1, q2, q3, q4}
    MaxConcurrent = 2
    TopK = 1
    ScanLimit = 4
    PageSize = 2
    MaxWrites = 2
    QueryRequests <- MCQueryRequests
    Rank <- MCRank
    Writes <- MCWrites
INVARIANTS
    TypeOK
    PermitsKept
    FirstComeFirstServed
    ScanComplete
    PagesAreNew
PROPERTIES
    EveryQueryEnds
CHECK_DEADLOCK FALSE
