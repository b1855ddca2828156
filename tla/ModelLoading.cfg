CONSTANTS
    Requests <- MCRequests
    NoModel = NoModel
SPECIFICATION Spec
INVARIANTS
    LoadedIsLastSuccess
    StrictRunsOnItsTargets
    DetailIsTruthful
PROPERTIES
    LoadEnds
