SPECIFICATION FairSpec
CONSTANTS
    Types = {down, deploy}
    All = All
    Filters = {down}
    Later = Later
    PollLimit = 2
    PageSize = 1
    MaxAlerts = 3
    MaxPolls = 2
INVARIANTS
    AnnouncedOnce
    NothingSkipped
PROPERTY
    AlertIsShown
