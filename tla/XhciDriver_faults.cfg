SPECIFICATION FairSpec
CONSTANTS
    MaxPorts = 2
    kDeviceSize = 2
    MaxEndpoints = 2
    MaxFaults = 2
INVARIANTS
    TypeOK
    AddressingExclusive
    SlotBinding
    CommandOwner
    CommandRingBound
    PollOnce
    RequestMatchesPhase
PROPERTIES
    PhaseMonotone
    HealthyPortReleased
