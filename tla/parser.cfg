SPECIFICATION Spec
CONSTANTS
    Base = 3
    Size <- SizeTwoTypes
    Forwarded = {1}
    Feeds <- Framed
    MaxPayload = 4
    MaxFrames = 3
INVARIANTS CallsStayInFrame ReportExplainsBytes FeedDelivered
CHECK_DEADLOCK FALSE
