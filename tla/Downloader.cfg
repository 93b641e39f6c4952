\* Three calls, two slots, one policy change; no symmetry, liveness is checked.
SPECIFICATION FairSpec
CONSTANTS
    c1 = c1
    c2 = c2
    c3 = c3
    Call = {c1, c2, c3}
    Workers = 2
    MaxUpdates = 1
    Policies <- MCPolicies
INVARIANTS
    TypeOK
    SlotsHeld
    WithinSnapshot
    RetriesJustified
PROPERTIES
    CallsReturn
