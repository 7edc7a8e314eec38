\* Two commands at a time, with failures, crashes and a new release.
SPECIFICATION Spec
CONSTANTS
    a = a
    b = b
    Callers = {a, b}
    Requests <- MCRequests
    Candidates = 2
    None = None
    MaxCalls = 2
    MaxMishaps = 2
    MaxReleases = 2
SYMMETRY Symmetry
\* Nothing is left to do after MaxCalls commands.
CHECK_DEADLOCK FALSE
INVARIANTS
    CoresWhole
    AnswersHold
