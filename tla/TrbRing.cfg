SPECIFICATION FairSpec
CONSTANTS
    Payload = {a, b, c}
    Cleared = Cleared
    LinkTarget = LinkTarget
    BufSize = 5
    MaxOutstanding = 3
INVARIANTS
    RingInv
PROPERTIES
    ImplementsFifo
    NothingStuck
