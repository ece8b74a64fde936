\* The monitor alone with two deployed agents that crash at any time.
SPECIFICATION DeployedFairSpec
CONSTANTS
    Ids = {a1, a2}
    Callers = {}
    Monitor = monitor
    Procs = {p1, p2, p3}
    Configs = {v1}
    None = None
    SpawnMayFail = FALSE
    ProcessesMayExit = TRUE
    RequestsMayBeDropped = FALSE
PROPERTY CrashRestarted
