SPECIFICATION FairSpec
CONSTANTS
    MaxPorts = 3
    kDeviceSize = 3
    MaxEndpoints = 1
    MaxFaults = 1
PROPERTIES
    WaiterTakesOver
