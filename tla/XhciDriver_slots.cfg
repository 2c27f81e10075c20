SPECIFICATION Spec
CONSTANTS
    MaxPorts = 2
    kDeviceSize = 1
    MaxEndpoints = 1
    MaxFaults = 0
INVARIANTS
    DcbaaFaithful
