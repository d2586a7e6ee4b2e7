SPECIFICATION Spec
CONSTANTS
    Callers = {c1, c2}
    Envs = {dev, prod}
    Keys = {token}
    Values = {v1, v2}
    None = None
    Plain = Plain
    RefText = RefText
    MaxCalls = 5
SYMMETRY Symmetry
INVARIANTS
    ReferencesResolve
    CacheFresh
