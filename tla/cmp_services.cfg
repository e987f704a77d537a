SPECIFICATION Spec
CONSTANTS
    FieldP = 43
    CurveA = 0
    CurveB = 7
    Order = 31
    Gx = 2
    Gy = 12
    Players <- MCPlayers
    Share0 <- MCShare0
    MaxDrawn <- MCMaxDrawn
    Draw <- MCDraw
    Hash <- MCHash
    Message <- MCMessage
    Derivation <- MCDerivation
    PositiveR <- MCPositiveR
    Reqs = {"r1", "r2"}
    First <- MCFirst
    Count <- MCCount
    Txs <- MCTxs
    RandR = TRUE
    MaxStops = 1
    NewPlayers = {3, 4}
    MaxSetupStops = 2
    RefreshReqs = {"f1", "f2"}
    Prf <- MCPrf
INVARIANTS
    PresignatureOnce
    SignaturesVerify
    SharesAgree
    OnlineSignaturesGood
    SetupNonceOnce
    FinishedKeysAgree
    AddedUsersHoldTheKey
CHECK_DEADLOCK FALSE
