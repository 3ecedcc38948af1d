CONSTANTS
    w1 = w1
    w2 = w2
    a1 = a1
    Wallets = {w1, w2}
    Batches <- MCBatches
    Accounts = {a1}
    Markets <- MCMarkets
    MaxMoves = 1
    MaxOutside = 1
    MaxFailures = 1
    DefaultGasTipCap = 10
    DefaultGasFeeCap = 30
SPECIFICATION Spec
INVARIANTS
    TypeOK
    AnswersWhatWasSigned
    ReportedStays
    EthReportedStays
PROPERTIES
    EthOnlyNonceGoesStale
    BatchGetsSent
CHECK_DEADLOCK FALSE
