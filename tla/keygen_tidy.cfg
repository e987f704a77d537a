CONSTANTS
    Nodes = {1, 2, 3}
    Tidy = TRUE
    MaxStops = 2
    MaxLives = 3
SPECIFICATION FairSpec
INVARIANTS KeysAgree KeySharesWereCommitted
PROPERTIES KeygenCompletes
CHECK_DEADLOCK FALSE
