\* Two schedulers, two people, the agent; a start fails, a process stops.
CONSTANTS
    Schedulers = {w1, w2}
    People = {p1, p2}
    None = None
    Edits = {"pause", "resume", "keep"}
    MaxStreak = 2
    MaxRuns = 3
    MaxTime = 2
    Scenarios <- Mixes
SPECIFICATION AutoSpec
INVARIANTS
    TypeOK
    OneRunning
    SlotFiredOnce
    RunFollowsItsTask
SYMMETRY Symmetry
CHECK_DEADLOCK FALSE
