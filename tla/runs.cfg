\* Runs, scheduler, deletes, crashes, shutdowns and faults, where ids are never reused.
SPECIFICATION MCSpec
CONSTANTS
    MaxRuns = 3
    Deleters = {d1}
    AutoEnabled = TRUE
    ReusesIds = FALSE
    BadNetworks = TRUE
    DbMayFail = TRUE
    None = None
INVARIANTS
    TypeOK SingleRunning SchedulerFollowsRun FaultlessHasTask
PROPERTIES
    RunningRowKept OneEngineAtATime RestartEndsRuns FaultlessRunsEnd FaultlessStop
