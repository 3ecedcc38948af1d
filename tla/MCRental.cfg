CONSTANTS
    s1 = s1
    q1 = q1
    a1 = a1
    Callers = {s1, q1}
    Work <- MCWork
    Accounts = {a1}
    Trx = 10
    Prices <- MCPrices
    Deposits <- MCDeposits
    Rented = {0, 67925}
    MaxMoves = 1
    MaxBlocks = 2
    Precision = 2000000
    MaxInt64 = 150000
    Unknown = Unknown
SPECIFICATION Spec
INVARIANTS
    ZeroMeansNoRental
CHECK_DEADLOCK FALSE
