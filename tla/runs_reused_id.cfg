\* SQLite gives the id of a deleted last row again, to a run a slow delete still means.
SPECIFICATION Spec
CONSTANTS
    MaxRuns = 2
    Deleters = {d1, d2}
    AutoEnabled = TRUE
    ReusesIds = TRUE
    BadNetworks = FALSE
    DbMayFail = FALSE
    None = None
PROPERTIES
    RunningRowKept
