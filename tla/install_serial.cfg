\* One request at a time, without crashes: spawns, downloads and directory
\* operations fail at every step.
SPECIFICATION InstallFairSpec
CONSTANTS
    Ids = {a1}
    Callers = {c1}
    Monitor = monitor
    Procs = {p1,p2}
    Configs <- MCConfigs
    None = None
    SpawnMayFail = TRUE
    ProcessesMayExit = FALSE
    RequestsMayBeDropped = FALSE
    IOMayFail = TRUE
    Versions <- MCVersions
    PortOf <- MCPortOf
INVARIANTS InstallTypeOK ServesRecorded NothingLeftBehind
PROPERTIES RecordedFilesKept LiveDirUntouched UpgradeRollsBack FlowsEnd
