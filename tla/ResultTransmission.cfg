\* Everything fails at times, and the agent is killed.
SPECIFICATION FairTransmission
CONSTANTS
    Jobs = {j1, j2}
    None = None
INVARIANTS OutcomeIsKept ArtifactsAreKept
PROPERTIES OutcomeArrives
