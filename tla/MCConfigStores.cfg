SPECIFICATION Spec
CONSTANTS
    user = user
    workspace = workspace
    Files = {user, workspace}
    Users = {user}
    Tasks = {t1, t2}
    Sections = {s1, s2}
    Values = {v1}
    Mine = Mine
    Unset = Unset
    MaxWrites <- WriteBounds
CONSTRAINT OneStore
SYMMETRY Symmetry
INVARIANTS
    CacheCoherent
PROPERTIES
    SettersKeepOthers
