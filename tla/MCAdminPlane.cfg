\* One browser with several tabs, five requests of any kind: two logins, a page, a
\* logout and an action, say.  Pages of two rows, seconds of four instants, five Saves.
SPECIFICATION PlaneSpec
CONSTANTS
    b1 = b1
    q1 = q1
    q2 = q2
    q3 = q3
    q4 = q4
    q5 = q5
    Browser = {b1}
    Request = {q1, q2, q3, q4, q5}
    None = None
    PageSize = 2
    Base = 2
    MaxTime = 4
SYMMETRY Swaps
INVARIANTS
    PlaneTypeOK
    EndsForGood
    OwnForm
    PagesExplained
