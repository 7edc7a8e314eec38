\* Two callers that run and restart at the same time, no faults.
SPECIFICATION Spec
CONSTANTS
    a = a
    b = b
    Callers = {a, b}
    Kinds <- MCTwoStarters
    Configs = {"good", "bad"}
    Valid = {"good"}
    NoConfig = NoConfig
    MaxPids = 6
    MaxCalls = 5
    MaxEdits = 2
    BusyEdits = FALSE
    Forcing = {FALSE}
    SlowProbe = FALSE
    Faults = FALSE
\* Callers stop once the calls are used up.
CHECK_DEADLOCK FALSE
INVARIANTS
    StaysUp
PROPERTIES
    RestartSparesRuntime
