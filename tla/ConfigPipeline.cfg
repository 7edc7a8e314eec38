\* Two tasks, three patches, two deliveries, two profiles.
SPECIFICATION Spec
CONSTANTS
    c1 = c1
    c2 = c2
    None = None
    Clients = {c1, c2}
    MaxCalls = 3
    LocalPacks <- MCLocalPacks
    DisplayName <- MCDisplayName
    Patches <- MCPatches
    Overlay <- MCOverlay
    HandWritten <- MCHandWritten
    Deliveries <- MCDeliveries
    Builtin <- MCBuiltin
    UserProfiles <- MCUserProfiles
    Cores = {"meta", "smart"}
SYMMETRY Symmetry
\* Nothing is left to do after MaxCalls calls.
CHECK_DEADLOCK FALSE
INVARIANTS
    TypeOK
    ReferencesDefined
    FreshMeansCurrent
PROPERTIES
    RenderRepairs
