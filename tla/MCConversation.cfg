\* Prompts, posts of replies, stops, resends and failures, in several mixes.
CONSTANTS
    MaxMsgs = 2
    MaxStops = 1
    MaxAttempts = 2
    Scenarios <- Conversations
SPECIFICATION Spec
INVARIANTS
    TypeOK
    OneReplyADay
PROPERTIES
    NoLateReply
    ParkedNotRerun
    EveryPromptSettles
CHECK_DEADLOCK FALSE
