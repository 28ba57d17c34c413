SPECIFICATION Spec
CONSTANTS
  None = None
  port1 = port1
  port2 = port2
  Ports = {port1, port2}
  PoeIds = {0, 1, 2}
  Requests = {r1, r2}
  MaxScans = 1
  Crew = {w1, w2}
  Machines <- Campus
  Plans <- Tours
  MaxLosses = 1
  MaxBreaks = 1
  MaxReclassify = 1
  Missing = Missing
  Boxes <- Racks
  MaxCuts = 2
  Depths <- TwoDepths
  Cables <- OneLink
  v1 = v1
  v2 = v2
  Viewers = {v1, v2}
  LogLimit = 1
  MaxTime = 2
  Servers = {s1, s2}
  FromVersions = {0, 2, 9, 12}
  MaxStarts = 3
  Communities = {"public", "secret"}
  DefaultCommunity = "public"
  Switches = {n1}
  Runs = {run1, run2}
  Clerks = {k1}
  MaxDeletes = 1
INVARIANTS
  TypeOK
  PortIsTold
  ConfirmedIsSound
  RowsAreMachines StoredTypesSettle
  StartupIsSound
  ProfilesAreSound
PROPERTIES
  ControlsAreAccounted
  VerdictIsStable
  NothingTakenBack
  AnswersAreTrue
  PageIsSound
  SomeoneServes
CHECK_DEADLOCK FALSE
