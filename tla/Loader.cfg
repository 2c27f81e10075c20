CONSTANTS
  PageSize = 2
  Memory = 6
  FileSize = 3
  EntryOffset = 1
  MaxHandles = 2
  MaxModes = 2
  MaxFaults = 1
  MaxChanges = 2
SPECIFICATION Spec
INVARIANTS NoStrayWrite EnteredReady HaltJustified
CHECK_DEADLOCK FALSE
