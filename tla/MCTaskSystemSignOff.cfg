\* A project that closes tasks by review and approval only: the results of its lead and of a
\* worker, asks and the decisions of two people interleave; any of them may stop half way.
CONSTANTS
    Tasks <- OneTask
    Agents = {a1, a2}
    Members = {}
    None = None
    MaxRetries = 1
    Slots = {s1}
    Deciders = {d1, d2}
    MaxApprovals = 2
    MayStop = {s1, d1, d2}
    Scope <- Everywhere
    Blockers <- NoBlockers
    MaxActive = 2
    Policy <- StrictPolicy
    Lead = a1
    SignOff = {}
    Kinds = {"claim", "result"}
    Replicas = {}
    MaxIncidents = 1
    Deadlines = {}
    MayCrash = FALSE
SPECIFICATION Spec
INVARIANTS
    DoneWasApproved
    SoleDecider
