SPECIFICATION Spec
CONSTANTS
    Sockets = {s1, s2}
    Containers = {c1, c2}
    Calls = {r1, r2, r3}
    MaxSessions = 1
    None = None
SYMMETRY Symmetry
INVARIANTS
    RegistryIsLive
    SequentialClients
    StreamsFollowSessions
