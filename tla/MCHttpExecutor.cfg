CONSTANTS
    Calls = {1, 2}
    Requests <- MCRequests
    MaxBody = 2
    Sizes = {1, 2}
    MaxHops = 1
SPECIFICATION Spec
INVARIANTS
    OneLateChunk
    TypeToldOnce
PROPERTIES
    KeepsWireOrder
    CallEnds
