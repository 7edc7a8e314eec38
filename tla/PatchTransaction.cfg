\* Two concurrent clients, files that cannot be written, no crash.
SPECIFICATION Spec
CONSTANTS
    Clients = {c1, c2}
    PatchIds = {"p", "q"}
    Slugs = {"s1", "s2"}
    Orders = {"o1", "o2"}
    Revs = {1, 2}
    Record <- MCRecord
    Requests <- MCRequests
    Installed <- MCInstalled
    Nobody = Nobody
    NoDraft = NoDraft
    MaxDrafts = 2
    MaxCrashes = 0
    IOFaults = TRUE
SYMMETRY ClientSymmetry
\* Agents may stop calling once the drafts are used up.
CHECK_DEADLOCK FALSE
INVARIANTS
    TypeOK
    CommitsOnReviewedBase
    AppliesWhatWasReviewed
    LoadsWhenIdle
PROPERTIES
    UntouchedPatchesSurvive
    AppliesAtomically
