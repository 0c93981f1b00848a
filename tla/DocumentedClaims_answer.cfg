\* One task asks for a key, the planner asks the user for it.
CONSTANTS
    Tasks = {1, 2}
    Keys = {k1}
    OptionalKeys = {}
    SuccessActions = {"continue"}
    MaxAttempts = 2
    PlanRevisionLimit = 3
    User = User
    NoResolver = NoResolver
    NoTask = NoTask
SPECIFICATION OrchSafety
CHECK_DEADLOCK FALSE
PROPERTY AnswerContinuesRun
