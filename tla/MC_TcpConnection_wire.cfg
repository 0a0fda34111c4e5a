SPECIFICATION FairSpec
CONSTANTS
    Base = 16
    MaxPayload = 160
    Cuts = {0, 7, 30, 200}
    Conversations <- AllTalk
INVARIANTS
    PacketsArriveAsSent
    OneWriteAtATime
PROPERTIES
    EverythingArrives
CHECK_DEADLOCK FALSE
