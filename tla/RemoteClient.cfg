SPECIFICATION Spec
CONSTANTS
    Invocation = {1}
    Workload <- AllWorkloads
    MaxConnections = 2
    ReplayLimit = 1
    EVENT_CHANNEL_CAPACITY = 1
CHECK_DEADLOCK FALSE
INVARIANTS EventsInOrder AnswersStand NothingHangs
