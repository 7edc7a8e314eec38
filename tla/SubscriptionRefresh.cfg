\* Two refreshes that may overlap; one process that dies or one write that fails.
SPECIFICATION Spec
CONSTANTS
    Calls = {c1, c2}
    Sources = {s1, s2}
    Merged = merged
    Workers = 1
    MaxServed = 2
    MaxRefreshes = 2
    MaxConfigures = 1
    MaxFaults = 1
SYMMETRY Symmetry
\* Nothing has to happen once the refreshes are used up.
CHECK_DEADLOCK FALSE
INVARIANTS
    TypeOK
    QuietAfterReturn
    ReadersSeeWholeFiles
    ArtifactsLead
PROPERTIES
    SoleRefreshRepairs
