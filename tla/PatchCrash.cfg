\* The server may die between any two steps, and starts again.
SPECIFICATION FairSpec
CONSTANTS
    Clients = {c1, c2}
    PatchIds = {"p", "q"}
    Slugs = {"s1", "s2"}
    Orders = {"o1", "o2"}
    Revs = {1, 2}
    Record <- MCRecord
    Requests <- MCRequests
    Installed <- MCInstalled
    Nobody = Nobody
    NoDraft = NoDraft
    MaxDrafts = 1
    MaxCrashes = 1
    IOFaults = FALSE
CHECK_DEADLOCK FALSE
INVARIANTS OneFileWhenIdle
PROPERTIES CallsReturn
