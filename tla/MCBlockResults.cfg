SPECIFICATION Spec
CONSTANTS
    Callers = {p1, p2}
    Hashes = {h1, h2}
    Aliases = {a1}
    NoAlias = NoAlias
    StaleAfter = 1
    MaxSaves = 2
INVARIANTS
    LockProtects
    LatestUnlessRerun
PROPERTIES
    LockFreed
