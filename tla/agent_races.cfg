\* Two API requests against the monitor: every interleaving of register,
\* unregister, start, stop, restart, a dropped request and a failed spawn.
SPECIFICATION Spec
CONSTANTS
    Ids = {a1}
    Callers = {c1, c2}
    Monitor = monitor
    Procs = {p1, p2, p3, p4}
    Configs = {v1}
    None = None
    SpawnMayFail = TRUE
    ProcessesMayExit = TRUE
    RequestsMayBeDropped = TRUE
SYMMETRY Symmetry
INVARIANTS
    TypeOK
    OneOwner
    ChildIffRunning
PROPERTY RefinesOwnership
