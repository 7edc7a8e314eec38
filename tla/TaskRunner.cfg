\* Three tasks, two at once, beside the files of an earlier one; fewer with events.
SPECIFICATION Spec
CONSTANTS
    Tasks = {t1, t2, t3, t4}
    Earlier = {t4}
    Retain = 1
    MaxLines = 2
    MaxActive = 2
    MaxEvents = 2
    MaxSpent = 3
SYMMETRY Symmetry
\* Nothing has to happen once every task has ended.
CHECK_DEADLOCK FALSE
INVARIANTS
    TypeOK
    CleanStop
    OutcomeLogged
    DiagnosticsTold
    FilesBounded
