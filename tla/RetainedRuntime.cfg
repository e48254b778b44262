SPECIFICATION RetainedSpec
CONSTANTS
    h1 = h1
    h2 = h2
    h3 = h3
    Nobody = Nobody
    Call <- MCCall
    InvocationId <- MCCall
    Sender = {"s1"}
    Interrupter = {"i1"}
    Disposer = {"d1"}
    invocation <- MCDistinct
    Kinds <- MCKinds
    addressee <- MCAddressee
    RECENT_INVOCATION_CAPACITY = 3
SYMMETRY MCSymmetry
INVARIANTS
    ConversationIsKept
    CallsEnd
    StreamTellsTurn
    TurnContinues
PROPERTIES
    ImplementsOwnership
CHECK_DEADLOCK FALSE
