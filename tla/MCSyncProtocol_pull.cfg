SPECIFICATION Spec
CONSTANTS
    Devices = {d1}
    NoDevice = NoDevice
    Slots = {s1, s2}
    NoSlot = NoSlot
    MaxEdits = 1
    PushLimit = 2
    Refusable = {}
    Faults = {}
    MaxFaults = 0
PROPERTIES
    PullKeepsUnsynced
