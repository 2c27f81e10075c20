SPECIFICATION FairSpec
CONSTANTS
    Payload = {a, b, c}
    Cleared = Cleared
    RingSegmentSize = 4
INVARIANTS
    RingInv
PROPERTIES
    ImplementsFifo
    NothingStuck
