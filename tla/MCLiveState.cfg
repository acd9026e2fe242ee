SPECIFICATION FairSpec
CONSTANTS
    Containers = {web, db}
    MaxRooms = 1
    MaxVersion = 2
    MaxCalls = 2
INVARIANTS
    TypeOK
    OneSubscription
    CardInStep
PROPERTY
    Resubscribes
CHECK_DEADLOCK FALSE
