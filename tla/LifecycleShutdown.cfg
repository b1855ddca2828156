CONSTANTS
    Requests = {r1, r2}
    Serialized = TRUE
    MaxLoads = 2
SPECIFICATION Spec
PROPERTIES
    AcceptedOnlyWhileActive
CHECK_DEADLOCK FALSE
