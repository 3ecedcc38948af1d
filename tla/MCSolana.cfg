CONSTANTS
    a1 = a1
    b1 = b1
    Callers = {a1, b1}
    Work <- MCWork
    Ledgers <- MCLedgers
    Skipped = Skipped
    Keys = {"k", "p"}
    NoKey = NoKey
    BadKey = BadKey
    Texts = {NoKey, BadKey}
    Garbled = Garbled
    Short = Short
    MaxEntries = 3
    maxConcurrent = 2
    Life = 1
SPECIFICATION Spec
INVARIANTS
    TypeOK
    BlocksAreWhole
    ReceiptsHappened
    SignedByItsSigners
PROPERTIES
    EveryCallEnds
CHECK_DEADLOCK FALSE
