SPECIFICATION Spec
CONSTANTS
    Containers = {c1, c2}
    Coalesce = 2
    Cooldown = 3
    Switchable = {"die"}
    MaxUpdates = 4
    MaxReboots = 1
INVARIANTS
    CooldownHolds
    NoFalseDown
PROPERTIES
    DeathIsTold
