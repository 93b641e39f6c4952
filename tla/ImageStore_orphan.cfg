\* One request whose image failed, two admin requests, no fault.
SPECIFICATION Spec
CONSTANTS
    o1 = o1
    o2 = o2
    r1 = r1
    u1 = u1
    Req = {r1}
    Url = {u1}
    Op = {o1, o2}
    View = {}
    NoPath = NoPath
    MaxCrash = 0
    Faults = {}
INVARIANTS
    NoOrphanWithoutFailure
