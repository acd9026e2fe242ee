SPECIFICATION Spec
CONSTANTS
    Containers = {c1}
    Coalesce = 2
    Cooldown = 3
    Switchable = {"restart"}
    MaxUpdates = 4
    MaxReboots = 1
PROPERTIES
    DeathIsTold
