\* Four attempts of one host and one of another, two failures per window; two handlers
\* of the data plane and one of the admin plane, two passwords, any number of starts;
\* two saves of any form, which may overlap, be refused or cancelled, and a crash.
SPECIFICATION ProcessSpec
CONSTANTS
    a1 = a1
    a2 = a2
    a3 = a3
    a4 = a4
    b1 = b1
    d1 = d1
    d2 = d2
    s1 = s1
    s2 = s2
    Attempt = {a1, a2, a3, a4, b1}
    Host = {"h1", "h2"}
    HostOf <- TwoHosts
    Limit = 2
    Window = 2
    Handler = {d1, d2, a1}
    PlaneOf <- MCPlaneOf
    Password = {"old", "new"}
    None = None
    Key <- MCKey
    Val <- MCVal
    Valid <- MCValid
    Forms <- AnyForm
    Save = {s1, s2}
    MayCancel = TRUE
    MaxCrash = 1
INVARIANTS
    ProcessTypeOK
    OverrunBounded
    CleanExit
    LiveLoads
    WholeVersions
    LiveWhenCalm
PROPERTIES
    NotForgotten
    LockoutEnds
    EndsWhenTold
