\* A task reassigned while the result of its former agent is being written.
CONSTANTS
    Tasks <- OneTask
    Agents = {a1, a2}
    Members = {}
    None = None
    MaxRetries = 1
    Slots = {s1, s2}
    Deciders = {}
    MaxApprovals = 0
    MayStop = {}
    Scope <- Everywhere
    Blockers <- NoBlockers
    MaxActive = 2
    Policy <- OpenPolicy
    Lead = None
    SignOff = {}
    Kinds = {"assign", "result"}
    Replicas = {}
    MaxIncidents = 1
    Deadlines = {}
    MayCrash = FALSE
SPECIFICATION Spec
PROPERTIES
    OnlyAssigneeCompletes
