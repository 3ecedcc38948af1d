CONSTANTS
    r1 = r1
    r2 = r2
    r3 = r3
    s1 = s1
    s2 = s2
    NoRequest = NoRequest
    Requests = {r1, r2}
    Senders = {s1}
    SenderOf <- MCSenderOf2
    Markets <- MCLowTip
    Faults = {"stale_view"}
    MaxUserNonce = 0
    MaxForeign = 0
    DefaultGasTipCap = 10
    DefaultGasFeeCap = 30
SPECIFICATION Spec
PROPERTIES
    BumpIncreases
