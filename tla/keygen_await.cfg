CONSTANTS
    Nodes = {1, 2, 3}
    Tidy = FALSE
    MaxStops = 2
    MaxLives = 2
SPECIFICATION Spec
PROPERTY AwaitMeansEveryone
CHECK_DEADLOCK FALSE
