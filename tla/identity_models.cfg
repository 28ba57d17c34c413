SPECIFICATION Spec
CONSTANTS
  None = None
  Crew = {w1, w2}
  Machines <- Twins
  Plans <- OneRun
  MaxLosses = 0
  MaxBreaks = 0
  MaxReclassify = 0
INVARIANTS
  HostsApart
CHECK_DEADLOCK FALSE
