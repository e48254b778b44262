SPECIFICATION Spec
CONSTANTS
    Callers = {1, 2, 3}
    Workload <- SmallLoads
    MaxRetries = 8
    Usable = {"a", "b", "d", "x"}
    Broken = "x"
    MaxPaths = 3
INVARIANTS
    LimitHeld
    CallsEndClean
    LaunchesAsAsked
    InventoryHolds
CHECK_DEADLOCK FALSE
