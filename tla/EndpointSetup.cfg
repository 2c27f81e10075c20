CONSTANTS
  BufSize = 48
  ConfigEntries = 2
  EndpointNumbers = {1, 2}
  MaxEndpoints = 3
  MaxInterfaces = 2
  Speeds = {1, 3}
  Intervals = {1, 10, 255}
SPECIFICATION Spec
INVARIANTS WalkSafe RightInterface PollFinds PeriodFits
CHECK_DEADLOCK FALSE
