SPECIFICATION Spec
CONSTANTS
    Messages = {"m1", "stop", "background"}
    TURN_MESSAGE_QUEUE = 1
    KeepsState <- Never
    ClassifyIdle <- Unexpected
    ObserveIdle <- NotAffected
    IdleWrites <- NoFrames
    KeepaliveProbe <- NoFrames
    MAX_TURN_MESSAGES = 3
    MAX_NATIVE_TASKS = 3
    MAX_RETIRED_TASKS = 2
    MAX_WORKFLOW_AGENTS = 2
    WORKFLOW_COUNTER_TICKS = 2
    Workload <- SmallLoads
    ParseLine <- parse_line
    NewTurn <- ClaudeNewTurn
    Inherit <- inherit_retained_handoff
    TurnStart <- ClaudeTurnStart
    EncodeInput <- ClaudeEncode
    AskResponse <- ClaudeResponse
    InteractionAnswered <- NotAffected
    HandoffReady <- retained_handoff_ready
    CompletionGrace <- retained_completion_grace
    CompletionPending <- Never
    CanSettle <- interrupt_request
    InterruptSettled <- retained_interrupt_settled
    InterruptRequest <- ClaudeInterrupt
    BackgroundWork <- retained_background_work
    FollowUpPending <- retained_follow_up_pending
    FinishAfterRetirement <- Never
    RetireAfterCompletion <- Never
    Failed <- FailedResult
    Observe <- ObserveEvent
INVARIANTS
    MessagesAccounted
    HandoffAgreed
    NeverStuck
    ViewAgrees
CHECK_DEADLOCK FALSE
