\* The first start and three more requests, served by two processes.
CONSTANTS
    MaxRequests = 4
    Processes = {p1, p2}
SPECIFICATION SandboxSpec
CHECK_DEADLOCK FALSE
INVARIANTS EffectsBeforeCompletion SettledIsQuiet
PROPERTIES RunIsPausable RunnersEnd
