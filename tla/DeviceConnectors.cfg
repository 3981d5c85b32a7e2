SPECIFICATION FairSpec
CONSTANTS
    Keys = {k1, k2}
    MaxTries = 2
    MaxJobs = 1
    Parts <- TwoParts
    MuxHooks = {"setup", "cycle"}
    MuxMedia = {"none", "usb", "other"}
    MaxEvents = 3
    Malformed = {2}
    Unnumbered = {3}
    Clearing = {}
    MaxLogged = 3
    Chips = {c1, c2}
    Blocks <- TwoBlocks
    JobDisks <- DisksOfJobs
    BootEntries <- DiskAndNics
    Nics = {"nic1", "nic2"}
INVARIANTS StagesDone PutBack LogInOrder
PROPERTIES ProvisionedAsAsked WrittenSafely StageEnds
CHECK_DEADLOCK FALSE
