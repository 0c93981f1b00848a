\* One request that sends a message.
CONSTANTS
    MaxRequests = 1
    MaxTurns = 1
    Keys = {k1}
    Payloads = {p1}
    None = None
SPECIFICATION ChatSafety
CHECK_DEADLOCK FALSE
INVARIANT AnsweredIsCompleted
