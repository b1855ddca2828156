CONSTANTS
    Requests = {r1, r2}
    Serialized = FALSE
    MaxLoads = 2
SPECIFICATION Spec
INVARIANTS
    GateFollowsLifecycle
    CountIsSuccesses
    StatusIsCurrent
PROPERTIES
    InactiveNodeIsQuiet
    RequestsAreAnswered
    TransitionsEnd
CHECK_DEADLOCK FALSE
