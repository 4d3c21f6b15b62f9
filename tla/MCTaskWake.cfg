\* Assignments, flushes and monitor ticks in any order, calm or with failing posts and handlers that stop.
CONSTANTS
    Tasks = {t1, t2}
    Callers = {c1, c2}
    Monitors = {m1}
    None = None
    MaxAssigned = 2
    Troubles <- CalmOrTroubled
SPECIFICATION FairSpec
INVARIANTS
    TypeOK
    KeptUnlessTrouble
    OneWakePerAssignment
PROPERTIES
    WakesDelivered
CHECK_DEADLOCK FALSE
