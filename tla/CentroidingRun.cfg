CONSTANTS
    Payloads = {p1}
    NoError = NoError
    MaxFrames = 3
    BadNames = {1}
SPECIFICATION Spec
INVARIANTS
    ExitAgreesWithReport
    ErrorNamesFirstMissingFrame
    FailureIsOnDisk
    ReportIsNotMisused
PROPERTIES
    RunEnds
CHECK_DEADLOCK FALSE
