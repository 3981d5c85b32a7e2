\* A job of a multi-device job that is cancelled twice, at any time, while calls
\* fail and commands hang.
SPECIFICATION FairSpec
CONSTANTS
    PhaseSeq <- FivePhases
    Commands = {"provision", "test", "allocate", "reserve", "cleanup"}
    Data = {"provision", "test", "allocate", "reserve"}
    MaxCancels = 2
INVARIANTS StateSaysTrue
PROPERTIES NothingStartsAfterCancel CancelStopsJob
