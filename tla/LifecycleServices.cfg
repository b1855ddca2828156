CONSTANTS
    Requests = {r1, r2}
    Serialized = TRUE
    MaxLoads = 2
SPECIFICATION Spec
INVARIANTS
    StatusNamesPrimaryState
CHECK_DEADLOCK FALSE
