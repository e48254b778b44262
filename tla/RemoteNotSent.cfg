SPECIFICATION Spec
CONSTANTS
    Invocation = {1}
    Workload <- Broken
    MaxConnections = 2
    ReplayLimit = 1
    EVENT_CHANNEL_CAPACITY = 1
CHECK_DEADLOCK FALSE
INVARIANT NotSentIsHonest
