\* The pool with three workers, a host limit in reach, commits and queries that may fail, and a
\* shutdown that may cancel the run.
SPECIFICATION FairSpec
CONSTANTS
    h1 = h1  h2 = h2  h3 = h3  h4 = h4  h5 = h5  h6 = h6  w1 = w1  w2 = w2  w3 = w3
    None = None
    Hosts = {h1, h2, h3, h4, h5, h6}
    Workers = {w1, w2, w3}
    Seeds = {h1, h2}
    Neighbors <- CampusNeighbors
    Infra = {h1, h2, h3}
    Excluded = {h4}
    InScope = {h1, h2, h3, h4, h6}
    MaxDepth = 2
    MaxHosts = 3
    CommitMayFail = TRUE
    ReadMayFail = TRUE
    Cancellable = TRUE
INVARIANTS
    TypeOK JoinMeansDrained CountsAreExact LimitIsExact
    RowShowsScans ExpansionIsClosed ScansStayNear
PROPERTIES
    RunEnds
\* When every worker is dead queue.join() never returns: the system stops.
CHECK_DEADLOCK FALSE
