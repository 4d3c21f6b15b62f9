\* A post fails once: what becomes of the batch it carried.
CONSTANTS
    Tasks = {t1, t2}
    Callers = {c1, c2}
    Monitors = {m1}
    None = None
    MaxAssigned = 1
    Troubles <- FailingPosts
SPECIFICATION Spec
INVARIANTS
    WakesKept
CHECK_DEADLOCK FALSE
