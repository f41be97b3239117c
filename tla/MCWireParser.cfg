SPECIFICATION Spec
CONSTANTS
    Conversations <- AllConversations
    MaxChunk = 4
    MaxBuffer = 7
    Retain = 2
    Swallow = 5
    MaxFaults = 2
INVARIANTS TypeOK EventsAreMessages  NothingIsMadeUp WholeMessagesAreSeen
CHECK_DEADLOCK FALSE
