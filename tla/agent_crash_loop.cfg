\* An agent whose process always exits, under the monitor alone.
SPECIFICATION DeployedHistorySpec
CONSTANTS
    Ids = {a1}
    Callers = {}
    Monitor = monitor
    Procs = {p1, p2}
    Configs = {v1}
    None = None
    SpawnMayFail = FALSE
    ProcessesMayExit = TRUE
    RequestsMayBeDropped = FALSE
INVARIANT CrashLoopReachesError
