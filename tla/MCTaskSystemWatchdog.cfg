\* One task worked its way to the dead-letter state under two watchdogs that may crash.
CONSTANTS
    Tasks <- OneTask
    Agents = {a1}
    Members = {}
    None = None
    MaxRetries = 1
    Slots = {s1}
    Deciders = {}
    MaxApprovals = 0
    MayStop = {}
    Scope <- Everywhere
    Blockers <- NoBlockers
    MaxActive = 2
    Policy <- OpenPolicy
    Lead = None
    SignOff = {}
    Kinds = {"claim", "update", "result", "heartbeat", "archive"}
    Replicas = {w1, w2}
    MaxIncidents = 2
    Deadlines = {"unclaimed_stale"}
    MayCrash = TRUE
SPECIFICATION FairSpec
INVARIANTS
    TypeOK
    OneOpenIncident
    DeadLetterExhausted
PROPERTIES
    ReclaimsCharged
    ExpiredLeaseRecovered
    StaleIncidentsResolved
