\* A probe that the old version has answered makes the new one healthy.
SPECIFICATION DeployedSpec
CONSTANTS
    Ids = {a1}
    Callers = {c1}
    Monitor = monitor
    Procs = {p1,p2,p3}
    Configs <- MCConfigs
    None = None
    SpawnMayFail = FALSE
    ProcessesMayExit = FALSE
    RequestsMayBeDropped = FALSE
    IOMayFail = FALSE
    Versions <- MCVersions
    PortOf <- MCPortOf
PROPERTY RecordsOnlyHealthy
