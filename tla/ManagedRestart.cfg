SPECIFICATION Spec
CONSTANTS
    MaxCalls = 2
    restart_policy = "Never"
CHECK_DEADLOCK FALSE
INVARIANT StoppedIsAsked
