SPECIFICATION Spec
CONSTANTS
    Messages = {"m1"}
    TURN_MESSAGE_QUEUE = 1
    Workload <- SmallLoads
    MAX_CONTINUATIONS = 3
    MAX_OPEN_PERMISSIONS = 2
    MAX_TRACKED_TOOLS = 1
    MAX_RUNNING_TOOLS = 1
    KeepsState <- Kept
    ParseLine <- parse_line
    NewTurn <- New
    Inherit <- Inherits
    TurnStart <- Start
    EncodeInput <- Unsupported
    AskResponse <- Respond
    InteractionAnswered <- AnsweredIn
    HandoffReady <- Never
    CompletionGrace <- Never
    CompletionPending <- Pending
    CanSettle <- Never
    InterruptSettled <- Never
    InterruptRequest <- Interrupt
    BackgroundWork <- Never
    FollowUpPending <- Never
    FinishAfterRetirement <- Finishable
    RetireAfterCompletion <- Retires
    Failed <- HasFailed
    Observe <- See
    ClassifyIdle <- Idle
    ObserveIdle <- IdleState
    IdleWrites <- IdleAnswers
    KeepaliveProbe <- Probe
    Attached <- AttachedTo
    ExitGrace <- Grace
    ExitedOk <- CleanExit
INVARIANTS
    ShownIsOwn
    TurnIsWhole
    NobodyWaits
CHECK_DEADLOCK FALSE
