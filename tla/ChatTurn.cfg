\* Three requests, each of which sends a message or resumes a paused turn.
CONSTANTS
    MaxRequests = 3
    MaxTurns = 2
    Keys = {k1}
    Payloads = {p1, p2}
    None = None
SPECIFICATION ChatSpec
CHECK_DEADLOCK FALSE
INVARIANTS OneAnswerPerKey OnePayloadPerKey FailureLeavesMessage
PROPERTIES ToldIsStored TurnsArePausable PhasesAreValid EveryRequestEnds
