\* Two phases with two fragments, and a poll of either phase or of both; two
\* terminals with a history of two jobs; and a poll with a timer.
SPECIFICATION SystemSpec
CONSTANTS
    PhaseSeq <- TwoPhases
    MaxFragments = 2
    r1 = r1
    r2 = r2
    Runs = {r1, r2}
    Does <- MCDoes
    MaxTries = 2
    HistorySize = 2
    Kills = TRUE
    States = {"unknown", "waiting", "provision", "test", "reserve", "complete", "cancelled"}
    Period = 1
    JoinTimeout = 2
INVARIANTS NothingIsSkipped SuccessMeansReady GivenUpMeansGone FinalsAreTrue LeftAlone CountsDownReservations
PROPERTIES PrintedInOrder PollEnds
