CONSTANTS
    c1 = c1
    c2 = c2
    Configured <- MCConfigured
    Supported = {"ethereum", "bnb", "bitcoin", "tron", "solana"}
    Dialed = {"ethereum", "bnb"}
    Calls = {c1, c2}
    Requests <- MCRequests
    MaxSignals = 2
SPECIFICATION Spec
INVARIANTS
    TypeOK
    PanicStaysInCall
    RefusedIffUnsupported
    SuccessIsOfTheNode
    OneAnswerPerItem
    DialEndsInTime
PROPERTIES
    SignalEndsProgram
CHECK_DEADLOCK FALSE
