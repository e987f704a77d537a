CONSTANTS
    Players = {p1, p2}
    Txs = {t1}
    NBlocks = 2
    MaxStarts = 3
SPECIFICATION FairSpec
INVARIANTS NonceOnce AddendsSettled FinalsIndependent OnlyLiveAreTimed
PROPERTY SigningCompletes
CHECK_DEADLOCK FALSE
