SPECIFICATION RecordsSpec
CONSTANTS
    RuntimeId = {"r1"}
    Watched = "r1"
    InvocationId = {1, 2, 3}
    Payload = {"p"}
    Time = {0, 1}
    SchemaVersion = {1}
    ClockMayStepBack = FALSE
    MaxSequence = 3
    max_runtimes = 1
    max_invocations_per_runtime = 2
    max_events_per_invocation = 2
    max_replay_events = 2
    \* Five lines of two streams: the tail and the channel of two overflow.
    Stream = {"stdout", "stderr"}
    max_log_lines = 2
    event_capacity = 2
    MaxLine = 5
INVARIANTS
    RetainedIsAcceptedTail
    DeliveredInOrder
    LossIsReported
    HydrationClosesGap
CHECK_DEADLOCK FALSE
