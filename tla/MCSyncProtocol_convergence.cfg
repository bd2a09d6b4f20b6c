SPECIFICATION FairSpec
CONSTANTS
    Devices = {d1, d2}
    NoDevice = NoDevice
    Slots = {s1, s2}
    NoSlot = NoSlot
    MaxEdits = 2
    PushLimit = 2
    Refusable = {1}
    Faults = {"worker"}
    MaxFaults = 1
PROPERTIES
    Converges
