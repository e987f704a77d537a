CONSTANTS
    t1 = t1
    t2 = t2
    Txs <- OneTx
    Start <- StartOfOne
    Client = 1
    Servers = {2, 3}
    NBlocks = 1
    NIndex = 1
    Strict = TRUE
    MaxDraw = 3
    MaxPre = 1
    Cancels = TRUE
SPECIFICATION Spec
INVARIANTS ServerNonceOnce OneSumPerNonce FinalsAgree
CHECK_DEADLOCK FALSE
