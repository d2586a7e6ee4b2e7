SPECIFICATION Spec
CONSTANTS
    Lines <- MCLines
    Aliases <- MCAliases
    NoAlias = NoAlias
    Notes <- MCNotes
    MaxDepth = 2
INVARIANTS
    ExecutedInOrder
PROPERTIES
    RunTerminates
CHECK_DEADLOCK FALSE
