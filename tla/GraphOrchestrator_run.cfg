\* Two tasks that may ask for and produce one key.
CONSTANTS
    Tasks = {1, 2}
    Keys = {k1}
    OptionalKeys = {}
    SuccessActions = {"continue", "replan"}
    MaxAttempts = 2
    PlanRevisionLimit = 3
    User = User
    NoResolver = NoResolver
    NoTask = NoTask
SPECIFICATION OrchSpec
CHECK_DEADLOCK FALSE
INVARIANTS RunningOnlyWhileExecuting FailureExhaustsRun PauseKindMatchesPlan RevisionsPaidOnce
PROPERTIES EveryRunEnds Spec
