\* Every graph over four ids, dependencies on unknown tasks included.
CONSTANT Ids = {1, 2, 3, 4}
SPECIFICATION SearchSpec
CHECK_DEADLOCK FALSE
INVARIANT VerdictIsRight
PROPERTY SearchEnds
