\* Two runs observe a fact of the user, one of the tenant and a term.
CONSTANTS
    Subjects = {name, base, term}
    Values = {v1}
    Personal = {name}
    Marked = {}
    Terms = {term}
    Sources = {s1, s2}
    Tasks = {t1, t2}
    Support = 2
    max_retries = 1
    MaxRows = 2
    MaxCandidates = 1
    MaxCrashes = 1
    MaxEdits = 1
    None = None
SPECIFICATION MemorySpec
SYMMETRY Symmetry
CHECK_DEADLOCK FALSE
INVARIANTS ConfirmedIsSupported SupportCountsSources OneRowPerFact
