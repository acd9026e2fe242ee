SPECIFICATION FairSpec
CONSTANTS
    ClaimSets <- MCClaimSets
    TTL = 2
    RefreshInterval = 1
    MaxPairs = 3
    MaxCalls = 2
INVARIANTS
    SessionKept
    RolesAgree
    LogoutSticks
PROPERTY
    GetsReady
