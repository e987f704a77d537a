CONSTANTS
    t1 = t1
    t2 = t2
    Txs <- TwoTxs
    Start <- StartApart
    Client = 1
    Servers = {2, 3, 4}
    NBlocks = 1
    NIndex = 2
    Strict = TRUE
    MaxDraw = 2
    MaxPre = 1
    Cancels = FALSE
SPECIFICATION Spec
PROPERTY ImplementsIdealSigner
CHECK_DEADLOCK FALSE
