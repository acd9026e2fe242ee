SPECIFICATION FairSpec
CONSTANTS
    Calls = {c1, c2}
    Jobs = {j1}
    TTL = 3
    Margin = 1
    MaxTime = 4
    None = None
INVARIANTS
    TokenShared
PROPERTIES
    EndIsKept
    CallsEnd
CHECK_DEADLOCK FALSE
