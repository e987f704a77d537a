CONSTANTS
    t1 = t1
    t2 = t2
    Txs <- MCTxs
    Start <- MCStart
    Scripts <- Reuse
    Client = 1
    Servers = {2, 3}
    NBlocks = 1
    NIndex = 1
    Strict = FALSE
    MayCancel = TRUE
    MaxLost = 0
    MayReset = FALSE
SPECIFICATION Spec
INVARIANT PrintedSignaturesVerify
CHECK_DEADLOCK FALSE
