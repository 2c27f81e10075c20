CONSTANTS
  Buses = 2
  Devices = 2
  Functions = 2
  MaxFunctions = 4
  TableSize = 3
SPECIFICATION Spec
INVARIANTS ScanComplete XhcFound
CHECK_DEADLOCK FALSE
