SPECIFICATION DbSpec
CONSTANTS
    h1 = h1
    h2 = h2
    p1 = p1
    Conns = {c1}
    Configs <- MCConfigs
    Hosts = {h1}
    Ports = {}
    Unset = Unset
    Dash = Dash
    Tasks = {t1}
    MaxTime = 0
    MaxRev = 0
    Timeouts = {1}
    Default = Default
    Fallback = 2
    MaxStmts = 2
    LogCap = 1
    MaxLog = 1
INVARIANTS
    LogTellsOutcome
PROPERTIES
    CancelStops
    RunEnds
CHECK_DEADLOCK FALSE
