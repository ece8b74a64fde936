\* A dropped upgrade still unpacks while the next one has been recorded.
SPECIFICATION DeployedOneByOneSpec
CONSTANTS
    Ids = {a1}
    Callers = {c1,c2}
    Monitor = monitor
    Procs = {p1,p2,p3}
    Configs <- MCConfigs
    None = None
    SpawnMayFail = FALSE
    ProcessesMayExit = FALSE
    RequestsMayBeDropped = TRUE
    IOMayFail = FALSE
    Versions <- MCVersions
    PortOf <- MCPortOf
SYMMETRY Symmetry
PROPERTY RecordedFilesKept
