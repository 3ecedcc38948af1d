CONSTANTS
    u1 = u1
    u2 = u2
    usd = usd
    other = other
    entry = entry
    nobody = nobody
    MaxHeight = 3
    Failed = Failed
    TxIds <- MCTxIds
    Tx <- MCTx
    Bodies <- MCBodies
    Tracked = {usd}
    EntryPoint = entry
    Creation = nobody
    MaxReorgs = 1
SPECIFICATION Spec
INVARIANTS
    NativeIsType1
CHECK_DEADLOCK FALSE
