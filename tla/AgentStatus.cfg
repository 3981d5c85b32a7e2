\* Everything happens: failing calls, kills, heartbeats, signals, and commands
\* that are executed at any moment.
SPECIFICATION FairSpec
CONSTANTS
    PhaseSeq <- ThreePhases
    Goals = {"online", "offline", "maintenance"}
INVARIANTS OfflineIsKept
PROPERTIES NoJobWhenOff OffIsReached
