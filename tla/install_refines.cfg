\* One request at a time, any of which may be dropped at an await: every
\* step of the installer is a step of the supervisor's specification.
SPECIFICATION InstallSpec
CONSTANTS
    Ids = {a1}
    Callers = {c1}
    Monitor = monitor
    Procs = {p1,p2}
    Configs <- MCConfigs
    None = None
    SpawnMayFail = TRUE
    ProcessesMayExit = FALSE
    RequestsMayBeDropped = TRUE
    IOMayFail = TRUE
    Versions <- MCVersions
    PortOf <- MCPortOf
SYMMETRY Symmetry
PROPERTIES Spec RefinesBlueGreen
