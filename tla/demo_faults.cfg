CONSTANTS
    t1 = t1
    t2 = t2
    Txs <- MCTxs
    Start <- MCStart
    Scripts <- AnyOrder
    Client = 1
    Servers = {2, 3}
    NBlocks = 1
    NIndex = 1
    Strict = FALSE
    MayCancel = TRUE
    MaxLost = 1
    MayReset = TRUE
SPECIFICATION Spec
INVARIANTS NonceUsedOnce PrintedSignatureIsFresh NoServerDies
PROPERTY ImplementsServices
CHECK_DEADLOCK FALSE
