CONSTANTS
    t1 = t1
    t2 = t2
    Txs <- TwoTxs
    Start <- StartApart
    Client = 1
    Servers = {2}
    NBlocks = 2
    NIndex = 3
    Strict = TRUE
    MaxDraw = 4
    MaxPre = 1
    Cancels = TRUE
SPECIFICATION Spec
INVARIANTS TypeOK ClientNonceOnce
CHECK_DEADLOCK FALSE
