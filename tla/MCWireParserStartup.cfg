SPECIFICATION Spec
CONSTANTS
    Conversations <- AllConversations
    MaxChunk = 4
    MaxBuffer = 7
    Retain = 2
    Swallow = 5
    MaxFaults = 1
INVARIANT StartupIsSeen
CHECK_DEADLOCK FALSE
