\* Two tasks that move and stand still, two monitors whose sweeps may stop anywhere.
CONSTANTS
    Tasks = {t1, t2}
    lead = lead
    worker = worker
    Agents = {lead, worker}
    Sweepers = {w1, w2}
    Above <- LeadAbove
    Window = 1
    Horizon = 5
    MaxAge = 6
    MaxStops = 1
    States = {"in_progress", "closed"}
    Kinds = {"move", "heartbeat"}
SPECIFICATION Spec
INVARIANTS
    TypeOK
    StallsEscalate
PROPERTIES
    RemindersApart
    EscalationFollowsNudge
