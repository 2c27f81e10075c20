SPECIFICATION FairSpec
CONSTANTS
    MaxPorts = 3
    kDeviceSize = 3
    MaxEndpoints = 1
    MaxFaults = 0
INVARIANTS
    NoIdleWaiter
    NoMissedPlug
PROPERTIES
    EveryDeviceServed
