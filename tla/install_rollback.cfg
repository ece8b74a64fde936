\* The new version crashes during the health check of an upgrade, which ends
\* without rolling back.
SPECIFICATION DeployedSpec
CONSTANTS
    Ids = {a1}
    Callers = {c1}
    Monitor = monitor
    Procs = {p1,p2,p3}
    Configs <- MCConfigs
    None = None
    SpawnMayFail = FALSE
    ProcessesMayExit = TRUE
    RequestsMayBeDropped = FALSE
    IOMayFail = FALSE
    Versions <- MCVersions
    PortOf <- MCPortOf
PROPERTY UpgradeRollsBack
