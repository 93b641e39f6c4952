\* One request with two images; three admin requests that may overlap on them;
\* a reader.  Failing transactions, queries and removals.
SPECIFICATION Spec
CONSTANTS
    r1 = r1
    u1 = u1
    u2 = u2
    o1 = o1
    o2 = o2
    o3 = o3
    v1 = v1
    Req = {r1}
    Url = {u1, u2}
    Op = {o1, o2, o3}
    View = {v1}
    NoPath = NoPath
    MaxCrash = 0
    Faults = {"db", "query", "remove"}
SYMMETRY Symmetry
INVARIANTS
    ReadyHasFile
    MissingOnlyIfDeleted
    WholeInv
PROPERTIES
    SavedWhole
    ReplacedOnlyIfRaced
    ShowsGallery
