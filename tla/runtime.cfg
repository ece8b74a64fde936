\* The store catalogue and the legacy manager: two tasks at a time, of which
\* the refresh at the start may be one, failures of network and disk, dropped
\* requests and restarts.
SPECIFICATION RuntimeSpec
CONSTANTS
    Apps = {x}
    Callers = {c1, c2}
    Boot = boot
    MaxVersion = 2
    DiskMayFail = TRUE
    MaxBusy = 2
    Procs = {p1, p2}
    None = None
SYMMETRY Symmetry
INVARIANTS AppTypeOK NoStrayProcess
PROPERTIES OnlyWholeBinariesRun RefreshKeepsListed RestartKeepsCatalogue
