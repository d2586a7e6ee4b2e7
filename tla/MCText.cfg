SPECIFICATION Spec
INVARIANTS
    SplitsAsWritten
    ValuesVerbatim
    FencesAsWritten
    RoundTrips
    RequestSurvives
    RowsReach
    ChangesAsAsked
CHECK_DEADLOCK FALSE
