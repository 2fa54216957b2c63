SPECIFICATION ReplySpec
CONSTANTS
    Window = 1
    TokenLife = 6
    HandlerTimeout = 2
    VoiceTimeout = 3
    PurgeTimeout = 5
    RequestTimeout = 3
    Slack = 1
    MaxRetries = 2
    MaxMessages = 2
    MaxChunks = 4
    MaxFaults = 2
INVARIANTS StaysPrivate CompleteOrMarked
PROPERTIES CommandAnswered
CHECK_DEADLOCK FALSE
