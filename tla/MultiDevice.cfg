\* One parent, to whose jobs everything happens.
SPECIFICATION FairSpec
CONSTANTS
    p1 = p1
    p2 = p2
    d1 = d1
    d2 = d2
    Parents <- OneParent
    Subs <- ThreeSubs
    Devices <- TwoDevices
    None = None
    ParentOf <- ThreeParentOf
    DeviceOf <- ThreeDeviceOf
    Malformed = {2}
    Mishaps = {"lost", "stopped", "killed"}
    MaxCancels = 2
INVARIANTS TestsHaveDevices NothingLeftQueued
PROPERTIES DevicesAreReleased
