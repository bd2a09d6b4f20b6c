SPECIFICATION Spec
CONSTANTS
    Devices = {d1}
    NoDevice = NoDevice
    Slots = {s1, s2}
    NoSlot = NoSlot
    MaxEdits = 2
    PushLimit = 2
    Refusable = {1}
    Faults = {"loss", "transient", "worker", "tab", "retry"}
    MaxFaults = 3
SYMMETRY SyncSymmetry
INVARIANTS
    NothingForgotten
    InOrderUnlessFailed
PROPERTIES
    LedgerSpec
