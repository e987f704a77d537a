SPECIFICATION MCSpec
CONSTANTS
    GroupOrder = 5
    ScalarBits = 3
    EpsilonBits = 4
    LBits = 1
    NuBits = 1
    KappaBits = 3
    BetaBits = 7
    SmallerBits = 8
    BlockSize = 3
    Hardened = 50
    Tweak <- MCTweak
    MaxCalls = 3
    FeWide = 12
    FeFold = 3
    PieceBits = 4
    Bits51 = 11
    Fold51 = 3
    ScBits = 2
    ScDigits <- MCScDigits
    GeP = 149
    GeD = 3
    GeSqrtM1 = 105
    GeOrder = 17
    GeBase <- MCGeBase
    GeBits = 8
    GeDigits = 4
    Sha512 <- MCSha512
    Keccak512 <- MCKeccak512
    EdTop = 16
    EdLow = 4
    FieldCalls = 3
    SmallFactor = 9
INVARIANTS
    HonestAccepted
    AlteredRefused
    MtaSharesMultiply
    BatchOddsBounded
    DecryptionTracksPlaintext
    PiecesJoin
    SharesReconstruct
    DerivationsAgree
    EncodingsRoundTrip
    FieldTracksValue
    ScalarsReduce
    PointsTrackAffine
    SignaturesVerify
    AlgebrasAgree
CHECK_DEADLOCK FALSE
