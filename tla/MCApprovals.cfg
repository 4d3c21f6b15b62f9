\* Two overlapping asks, two people deciding, the expiry sweep; one handler of each kind may
\* stop half way.
CONSTANTS
    Tasks <- TwoTasks
    Agents = {}
    Members = {}
    None = None
    MaxRetries = 0
    Slots = {s1, s2}
    Deciders = {d1, d2}
    MaxApprovals = 2
    MayStop = {s2, d2}
SPECIFICATION ApprovalsFairSpec
INVARIANTS
    OnePending
    AsksGoOn
PROPERTIES
    ImplementsOneAsk
    ApprovedCloses
CHECK_DEADLOCK FALSE
