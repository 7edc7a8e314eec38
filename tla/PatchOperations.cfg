\* Imports of two releases, lists of one or two operations.
SPECIFICATION OpsSpec
CONSTANTS
    None = None
    Text <- MCText
    Drafts <- MCDrafts
    Registries <- MCRegistries
    Releases <- MCReleases
    Unit = 4
    OpenEnd = 3
    FirstUser = 12
    OrderLimit = 24
    MaxCalls = 3
\* Nothing is left to do after MaxCalls calls.
CHECK_DEADLOCK FALSE
INVARIANTS
    DraftsApply
    PlacedAsAsked
    LoadsUnlessCollision
