\* Two callers, two plans under one name.
SPECIFICATION Spec
CONSTANTS
    c1 = c1
    c2 = c2
    None = None
    Torn = Torn
    Clients = {c1, c2}
    Names = {"plan"}
    MaxCalls = 3
    MaxMishaps = 2
    MaxSecond = 2
    LocalPacks <- MCLocalPacks
    Builtin <- MCLocalPacks
    DisplayName <- MCDisplayName
    Overlays <- MCOverlays
    Workspaces <- MCWorkspaces
    Deliveries <- MCDeliveries
    Profile <- MCProfile
SYMMETRY Symmetry
\* Nothing is left to do after MaxCalls calls.
CHECK_DEADLOCK FALSE
INVARIANTS
    TypeOK
    AppliesWhole
PROPERTIES
    ReviewedIsApplied
