\* The cleanup of a job that was cancelled, which the comment in process_jobs
\* promises to run.
SPECIFICATION Spec
CONSTANTS
    PhaseSeq <- FivePhases
    Commands = {"provision", "test", "allocate", "reserve", "cleanup"}
    Data = {"provision", "test", "allocate", "reserve"}
    MaxCancels = 1
INVARIANT CleanupIsFinished
