\* One worker and no failures: the scan is breadth first.
SPECIFICATION FairSpec
CONSTANTS
    h1 = h1  h2 = h2  h3 = h3  h4 = h4  h5 = h5  h6 = h6  w1 = w1  w2 = w2  w3 = w3
    None = None
    Hosts = {h1, h2, h3, h4, h5}
    Workers = {w1}
    Seeds = {h1, h2}
    Neighbors <- DiamondNeighbors
    Infra = {h1, h2, h3, h4}
    Excluded = {}
    InScope = {h1, h2, h3, h4, h5}
    MaxDepth = 2
    MaxHosts = 6
    CommitMayFail = FALSE
    ReadMayFail = FALSE
    Cancellable = FALSE
INVARIANTS ScanIsBreadthFirst
