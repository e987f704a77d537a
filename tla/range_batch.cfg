SPECIFICATION ProofSpec
CONSTANTS
    GroupOrder = 5
    ScalarBits = 3
    EpsilonBits = 4
    LBits = 1
    NuBits = 1
    KappaBits = 3
    BetaBits = 7
    SmallerBits = 8
INVARIANT RangeBatchVerifiesEach
CHECK_DEADLOCK FALSE
