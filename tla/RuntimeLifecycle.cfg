\* One agent and a concurrent config test; processes and tests may fail.
SPECIFICATION Spec
CONSTANTS
    a = a
    b = b
    Callers = {a, b}
    Kinds <- MCAgentAndTester
    Configs = {good, better}
    Valid = {good, better}
    NoConfig = NoConfig
    MaxPids = 3
    MaxCalls = 4
    MaxEdits = 1
    BusyEdits = FALSE
    Forcing = {FALSE, TRUE}
    SlowProbe = TRUE
    Faults = TRUE
SYMMETRY ConfigSymmetry
\* Callers stop once the calls are used up.
CHECK_DEADLOCK FALSE
INVARIANTS
    TypeOK
    OneRuntime
    RunsTestedConfig
    VerdictsAreTrue
