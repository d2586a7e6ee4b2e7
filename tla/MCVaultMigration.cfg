CONSTANTS
    n1 = n1
    n2 = n2
    v1 = v1
    s1 = s1
    s2 = s2
    Callers = {m, p1}
    Migrator = m
    Names = {n1, n2}
    Passwords = {s1, Sentinel}
    Typed = {s1}
    None = None
    Ref = Ref
    Sentinel = Sentinel
    Tables <- MCTables
    Found <- MCFound
    OldVars <- MCOldVars
    Edits = {x}
    MaxCalls = 2
    MaxRuns = 2
    MaxEdits = 1
SPECIFICATION MigSpec
INVARIANTS
    ReferencesResolve
PROPERTIES
    PasswordsKept
