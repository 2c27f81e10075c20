SPECIFICATION FairSpec
CONSTANTS
    PoolSize = 131072
    Starts = {2097152, 2097216, 2098176, 2098240, 2101184}
    Sizes = {8, 16, 32, 72, 80, 88, 240, 248, 256, 512, 2304, 3520, 4096}
    Granularity = {0, 64, 4096, 65536}
    Scratchpads = {0, 1, 10, 11, 30, 31, 32}
    DeviceSize = 8
    RingSize = 32
    PtrBytes = 8
    TrbBytes = 16
    RingBytes = 32
    DeviceBytes = 3520
    DriverBytes = 2304
    Endpoints = {1, 2}
    EnoughForBoot = 30
    EnoughForDevices = 10
INVARIANTS
    OwnedBeforeUse
    RunsProgrammed
    BootFits
    DevicesFit
    ExhaustionNoticed
PROPERTIES
    ResetOnlyHalted
    EventuallyRunning
