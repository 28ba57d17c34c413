SPECIFICATION ControlSpec
CONSTANTS
  None = None
  Ports = {p1, p2}
  PoeIds = {0, 1, 2}
  Requests = {r1}
  MaxScans = 0
PROPERTY PoeShielded
CHECK_DEADLOCK FALSE
