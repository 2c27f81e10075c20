SPECIFICATION Spec
CONSTANTS
    BufSize = 8
    MapSize = 3
    WaiterSize = 2
    None = None
INVARIANTS
    RequestsRemembered
PROPERTIES
    RightCompletion
\* A failed transfer halts the endpoint and the kernel never restarts it.
CHECK_DEADLOCK FALSE
