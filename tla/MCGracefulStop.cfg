CONSTANTS
    c1 = c1
    c2 = c2
    Configured <- MCConfigured
    Supported = {"ethereum", "bnb", "bitcoin", "tron", "solana"}
    Dialed = {"ethereum", "bnb"}
    Calls = {c1, c2}
    Requests <- MCRequests
    MaxSignals = 2
SPECIFICATION Spec
INVARIANTS
    StopIsGraceful
CHECK_DEADLOCK FALSE
