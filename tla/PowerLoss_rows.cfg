\* One request with one image, two admin requests; failures, and two crashes or
\* losses of power in any order.
SPECIFICATION SpecP
CONSTANTS
    r1 = r1
    u1 = u1
    o1 = o1
    o2 = o2
    Req = {r1}
    Url = {u1}
    Op = {o1, o2}
    View = {}
    Faults = {"db", "query", "remove", "syncdir", "disconnect", "crash"}
    MaxCrash = 2
    NoPath = NoPath
INVARIANTS
    DanglingWasDeleted
