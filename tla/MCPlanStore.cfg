\* Two tasks that exchange one key.
CONSTANTS
    Tasks = {1, 2}
    Keys = {k1}
    OptionalKeys = {}
    SuccessActions = {"continue"}
    MaxAttempts = 2
    User = User
    NoResolver = NoResolver
    MaxRevision = 3
    MaxClaims = 2
SPECIFICATION MCSpec
CHECK_DEADLOCK FALSE
INVARIANTS GraphStaysValid StartedOnInputs ResolvedNeedsHaveSource AttemptFollowsTask NoMutualWait
PROPERTY CompletedIsHistory
