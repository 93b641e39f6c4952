\* One request with one image, two admin requests on it or on the request; every fault
\* and two crashes, each followed by a start-up that clears tmp/ and may itself fail.
\* No symmetry: liveness is checked.
SPECIFICATION FairSpec
CONSTANTS
    o1 = o1
    o2 = o2
    r1 = r1
    u1 = u1
    Req = {r1}
    Url = {u1}
    Op = {o1, o2}
    View = {}
    NoPath = NoPath
    MaxCrash = 2
    Faults = {"db", "query", "remove", "syncdir", "disconnect", "crash"}
INVARIANTS
    FilesExplained
    WholeInv
    ToldResolvable
PROPERTIES
    ShowsGallery
    HandlersEnd
