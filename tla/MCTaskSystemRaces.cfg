\* One task, two requests of any kind in flight, agents deleted meanwhile: every interleaving
\* of their reads and writes.
CONSTANTS
    Tasks <- OneTask
    Agents = {a1, a2}
    Members = {m1}
    None = None
    MaxRetries = 1
    Slots = {s1, s2}
    Deciders = {}
    MaxApprovals = 0
    MayStop = {}
    Scope <- Everywhere
    Blockers <- NoBlockers
    MaxActive = 1
    Policy <- OpenPolicy
    Lead = None
    SignOff = {}
    Kinds = {"claim", "assign", "update", "result", "delete"}
    Replicas = {}
    MaxIncidents = 1
    Deadlines = {}
    MayCrash = FALSE
SPECIFICATION Spec
SYMMETRY Workers
INVARIANTS
    OneAssignee
    LeaseOwnerIsAssignee
PROPERTIES
    ClaimTakesNoLease
