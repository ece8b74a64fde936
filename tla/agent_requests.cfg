\* One request at a time against the monitor: crashes are noticed, requests
\* are answered, an answered stop is not undone, and an agent is not stuck
\* halfway unless a call on it was.
SPECIFICATION FairHistorySpec
CONSTANTS
    Ids = {a1}
    Callers = {c1}
    Monitor = monitor
    Procs = {p1, p2, p3}
    Configs = {v1}
    None = None
    SpawnMayFail = TRUE
    ProcessesMayExit = TRUE
    RequestsMayBeDropped = TRUE
INVARIANTS StopHolds TransientInFlight HealthIsOfTheProcess
PROPERTIES MonitorSparesUndisturbed CrashNoticed CallsReturn
