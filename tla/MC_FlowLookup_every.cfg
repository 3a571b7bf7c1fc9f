CONSTANTS
    W = 12
    FA = FA
    FB = FB
    NotFound = NotFound
    DirectionMismatch = DirectionMismatch
    NoRecord = NoRecord
SPECIFICATION Spec
INVARIANTS
    GetFlowsReturnsEveryRecord
