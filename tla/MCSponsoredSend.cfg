CONSTANTS
    r1 = r1
    r2 = r2
    r3 = r3
    s1 = s1
    s2 = s2
    NoRequest = NoRequest
    Requests = {r1, r2, r3}
    Senders = {s1, s2}
    SenderOf <- MCSenderOf3
    Markets <- MCMarkets
    Faults = {}
    MaxUserNonce = 1
    MaxForeign = 0
    DefaultGasTipCap = 10
    DefaultGasFeeCap = 30
SPECIFICATION Spec
INVARIANTS
    TypeOK
    LockDiscipline
    NonceFresh
    SuccessStays
    NoResendAfterMined
PROPERTIES
    ImplementsQueue
