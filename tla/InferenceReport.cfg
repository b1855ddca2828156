CONSTANTS
    Payloads = {p1, p2}
    Errors = {e1}
    NoError = NoError
    MaxFrames = 3
SPECIFICATION Spec
INVARIANTS
    PublishedAreAccepted
    SpoolHoldsAccepted
PROPERTIES
    CompleteIsFinal
    ImplementsPublication
