\* Two agents that both stop and route the runtime that one of them starts, with faults.
SPECIFICATION FairSpec
CONSTANTS
    a = a
    b = b
    Callers = {a, b}
    Kinds <- MCTwoRouters
    Configs = {"good", "bad"}
    Valid = {"good"}
    NoConfig = NoConfig
    MaxPids = 3
    MaxCalls = 3
    MaxEdits = 1
    BusyEdits = FALSE
    Forcing = {FALSE, TRUE}
    SlowProbe = FALSE
    Faults = TRUE
\* Callers stop once the calls are used up.
CHECK_DEADLOCK FALSE
INVARIANTS
    StoppedIsDead
PROPERTIES
    StopSparesTakeover
    CallsReturn
