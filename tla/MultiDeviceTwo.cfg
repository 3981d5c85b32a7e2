\* Two parents wait for each other's devices.
SPECIFICATION FairSpec
CONSTANTS
    p1 = p1
    p2 = p2
    d1 = d1
    d2 = d2
    Parents <- TwoParents
    Subs <- FourSubs
    Devices <- TwoDevices
    None = None
    ParentOf <- FourParentOf
    DeviceOf <- FourDeviceOf
    Malformed = {}
    Mishaps = {}
    MaxCancels = 0
PROPERTIES ParentsFinish
