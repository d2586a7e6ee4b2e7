SPECIFICATION DbSpec
CONSTANTS
    Procs = {desktop, tui}
    Script <- Migrations
    Releases <- Released
    MaxStarts = 3
    MaxFaults = 1
SYMMETRY Symmetry
INVARIANTS
    WholeUnlessHurt
    FailsOnlySetAside
CHECK_DEADLOCK FALSE
