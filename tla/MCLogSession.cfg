SPECIFICATION FairViewSpec
CONSTANTS
    BatchSize = 3
    MaxQueue = 6
    HighWater = 4
    LowWater = 1
    MaxChunk = 5
    MaxLines = 13
    ViewSize = 5
INVARIANTS
    TypeOK
    ExactAccounting
    FlushPending
    PauseInStep
    NoOrphanStream
    BoundedAndLossless
    ViewAddsUp
    EndDrains
    EndIsSeen
PROPERTIES
    EveryLineAccounted
    ExitCloses
    DeliverySpec
\* a closed session stops for good
CHECK_DEADLOCK FALSE
