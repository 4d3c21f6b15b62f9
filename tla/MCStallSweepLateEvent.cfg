\* A task that may be updated while a sweep has yet to record what it posted.
CONSTANTS
    Tasks = {t1}
    lead = lead
    worker = worker
    Agents = {lead, worker}
    Sweepers = {w1}
    Above <- LeadAbove
    Window = 1
    Horizon = 5
    MaxAge = 6
    MaxStops = 0
    States = {"in_progress", "closed"}
    Kinds = {"move"}
SPECIFICATION FairSpec
PROPERTIES
    EveryStallNudged
