\* A start whose engine cannot be constructed leaves a RUNNING row with no task.
SPECIFICATION Spec
CONSTANTS
    MaxRuns = 3
    Deleters = {d1}
    AutoEnabled = TRUE
    ReusesIds = FALSE
    BadNetworks = TRUE
    DbMayFail = FALSE
    None = None
INVARIANTS
    RunningHasTask
