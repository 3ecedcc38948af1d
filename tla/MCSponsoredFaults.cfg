CONSTANTS
    r1 = r1
    r2 = r2
    r3 = r3
    s1 = s1
    s2 = s2
    NoRequest = NoRequest
    Requests = {r1, r2}
    Senders = {s1}
    SenderOf <- MCSenderOf2
    Markets <- MCRisenMarket
    Faults = {"stale_view", "dup_delivery", "late_delivery", "shared_key"}
    MaxUserNonce = 0
    MaxForeign = 1
    DefaultGasTipCap = 10
    DefaultGasFeeCap = 30
SPECIFICATION FairSpec
INVARIANTS
    NoNonceGap
    PaidOncePerAttempt
PROPERTIES
    ResubmissionOutbids
    EveryCallAnswered
