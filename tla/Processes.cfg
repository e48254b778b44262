SPECIFICATION ProcessesSpec
CONSTANTS
    Runtime = {"r1", "r2"}
    Process = {1, 2, 3}
    Task = {"t1", "t2"}
    None = None
    Workload <- MCWorkload
    MaxProcesses = 1
    MAX_PARKED_EVENTS = 2
    MAX_PARKED_INTERACTIONS = 1
INVARIANTS
    PoolIsSound
    ParkedWorkIsTold
    TurnsRunAsAsked
    StoppedMeansStopped
    TailnetIsCurrent
    ExchangesAreWhole
    NetworkSettles
    RelayIsBounded
CHECK_DEADLOCK FALSE
