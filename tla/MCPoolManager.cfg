SPECIFICATION Spec
CONSTANTS
    h1 = h1
    h2 = h2
    p1 = p1
    t1 = t1
    t2 = t2
    Conns = {c1}
    Configs <- MCConfigs
    Hosts = {h1}
    Ports = {}
    Unset = Unset
    Dash = Dash
    Tasks = {t1, t2}
    MaxTime = 1
    MaxRev = 1
SYMMETRY Symmetry
INVARIANTS
    OverrideIsolation
    StaleOnlyIfOvertaken
PROPERTIES
    CleansUpExpired
CHECK_DEADLOCK FALSE
