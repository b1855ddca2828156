CONSTANTS
    Requests <- MCRequests
    NoModel = NoModel
SPECIFICATION Spec
INVARIANTS
    FallbackReachesCpu
