\* Two operations to be confirmed, one of them of a collection; three tasks or requests.
CONSTANTS
    Operations = {info, read, write}
    Info = info
    Gated = {read}
    Confirmed = {read, write}
    Unknown = Unknown
    max_llm_calls = 3
    max_tool_calls_total = 2
    max_retries = 1
    max_steps_without_success = 2
    MAX_FALLBACK_NONCE_STORE_SIZE = 1
    Processes = {p1}
    MaxCalls = 2
    MaxTokens = 2
    MaxExecutions = 3
SPECIFICATION LoopSpec
CHECK_DEADLOCK FALSE
INVARIANTS TypeOK GateHolds ActiveAsReturned FinalRestsOnCalls RunsAreConfirmed
PROPERTIES ExecutionEnds
