\* A generation without and one with a key, an edit with a key, a list of models, two
\* connections; limits on both sides of the head's length, bodies shorter, as long and
\* longer than them, 7 being the largest int64; images below, at and above the threshold and a retry on a disk for some
\* of them; answers of three entries, two URLs among them; addresses of two and four bits:
\* 127.0.0.0/8 is 1x, ::ffff:0:0/96 is 01xx.
SPECIFICATION PlaneSpec
CONSTANTS
    plain = plain
    keyed = keyed
    form = form
    models = models
    Request = {plain, keyed, form, models}
    PathOf <- MCPathOf
    Keyed = {keyed, form}
    MaxIdle = 2
    small = small
    fits = fits
    large = large
    retry = retry
    Generating = {small, fits, large}
    Retrying = {retry}
    SizeOf <- MCSizeOf
    Total = 5
    MinFree = 2
    Source = {s1, s2}
    Bare = Bare
    Empty = Empty
    MaxData = 3
    W4 = 2
    W6 = 4
    Marker <- MCMarker
    Loop4 = 1
    MaxList = 2
    Limits = {1, 2, 3, 4, 5, 7}
    MaxLen = 7
    HeadLen = 3
    Magic = 2
    MaxInt = 7
INVARIANTS
    PlaneTypeOK
    OnceUnlessKeyed
    ExactLimit
    AloneIsSafe
    EveryImageLocal
    AsWritten
