CONSTANTS
    Threads = {t1, t2}
    Devices = {d1, d2}
    Engines = {e1}
    NumSlots = 3
    HostSlots = {2}
    MaxBytes = 2
    None = None
SPECIFICATION Spec
INVARIANTS
    CallersDeviceIsKept
    LoadedIsLastSuccess
    MemoryIsAccounted
    ExecutesOnLiveBuffers
PROPERTIES
    ReleasedOnItsDevice
    CallsReturn
