\* A host, its daemon and two dispatches.
CONSTANTS
    MaxDispatches = 2
    MaxAttempts = 2
    MaxJobs = 3
    Scenarios <- Mixes
SPECIFICATION FairSpec
INVARIANTS
    TypeOK
    RunsOnce
    OneUnitAtATime
    OneJobSent
    AgentKeepsItsToken
    RemovedStaysGone
PROPERTIES
    JobsSettle
    TokensRevoked
CHECK_DEADLOCK FALSE
