SPECIFICATION ButtonSpec
CONSTANTS
    r1 = r1
    r2 = r2
    r3 = r3
    Requests = {r1, r2, r3}
    Containers = {a, b, guarded}
    Protected = {guarded}
    ContainerCooldown = 1
    GlobalLimit = 2
    GlobalWindow = 2
    PruneOver = 1
    None = None
    Mine = a
    MaxTimers = 2
SYMMETRY RequestSymmetry
INVARIANTS
    TypeOK
    CooldownHolds
    BudgetHolds
    ToldAsDone
    ButtonIsTrue
PROPERTY
    RefusedForAReason
