------------------------------ MODULE Listing -------------------------------
(****************************************************************************)
(* The admin pages that list requests and images: an administrator goes     *)
(* through the pages while rows are added and deleted.  A page is one       *)
(* query, ORDER BY created_at DESC LIMIT pageSize+1 OFFSET ...; nothing     *)
(* ties one page to the next.  created_at is text, RFC3339Nano, which drops *)
(* the trailing zeros of the fraction: a row is known here by the instant   *)
(* it was stored, counted in the shortest fractions.                        *)
(****************************************************************************)
EXTENDS Naturals, FiniteSets

CONSTANTS PageSize,   \* pageSize, 50
          Base,       \* values of a digit; a second has Base * Base instants
          MaxTime     \* bound: the last instant

VARIABLES
    rows,       \* the instants of the rows stored
    now,        \* time.Now
    saving,     \* the instants of the Saves in progress
    page,       \* the page the administrator looks at, 0 before the first
    shown,      \* the rows on it
    hasNext,    \* it links to a next page
    seen,       \* rows on the pages so far
    twice,      \* ghost: rows shown a second time
    first,      \* ghost: the rows there were at the first page
    added,      \* ghost: rows added since then, or so far
    gone,       \* ghost: rows deleted since then, or so far
    cut         \* ghost: a query broke off unnoticed

vars == <<rows, now, saving, page, shown, hasNext, seen, twice, first, added, gone, cut>>

Instant == 0..MaxTime
Second(t) == t \div (Base * Base)

\* The order of the texts: Z, where the digits end, is greater than every digit.
Text(t) ==
    LET tenths == (t \div Base) % Base
        rest == t % Base
        d1 == IF tenths = 0 /\ rest = 0 THEN Base ELSE tenths
        d2 == IF rest = 0 THEN Base ELSE rest
    IN (Second(t) * (Base + 1) + d1) * (Base + 1) + d2

Key(t) == Text(t)

TypeOK ==
    /\ rows \subseteq Instant /\ first \subseteq Instant
    /\ now \in 0..MaxTime + 1
    /\ page \in Nat
    /\ Cardinality(shown) <= PageSize
    /\ {hasNext, cut} \subseteq BOOLEAN
    /\ UNION {saving, seen, twice, added, gone, shown} \subseteq Instant

\* Rows are stored, and perhaps deleted, before the first page is opened.
Init ==
    /\ now = 0
    /\ rows = {} /\ saving = {}
    /\ page = 0
    /\ shown = {}
    /\ hasNext = FALSE
    /\ seen = {} /\ twice = {} /\ first = {} /\ added = {} /\ gone = {}
    /\ cut = FALSE

Browsing == UNCHANGED <<page, shown, hasNext, seen, twice, first, cut>>

\* audit.Service.Save takes its instant before the first INSERT takes the write lock,
Stamp ==
    /\ now <= MaxTime
    /\ saving' = saving \cup {now}
    /\ now' = now + 1
    /\ UNCHANGED <<rows, added, gone>>
    /\ Browsing

\* so rows are not committed in the order of created_at;
Add ==
    /\ \E t \in saving : /\ saving' = saving \ {t}
                         /\ rows' = rows \cup {t}
                         /\ added' = added \cup {t}
    /\ UNCHANGED <<now, gone>>
    /\ Browsing

\* or Save fails, and nobody has that instant.
Drop ==
    /\ \E t \in saving : saving' = saving \ {t}
    /\ UNCHANGED <<rows, now, added, gone>>
    /\ Browsing

\* deleteRequest, deleteImage.
Delete ==
    /\ \E r \in rows : rows' = rows \ {r} /\ gone' = gone \cup {r}
    /\ UNCHANGED <<now, saving, added>>
    /\ Browsing

\* Mutation: the offset counts the row that only tells of a next page.
OffsetWide(n) == (n - 1) * (PageSize + 1)

Offset(n) == (n - 1) * PageSize

Limit == PageSize + 1

\* The first k rows that the query of page n yields.
Query(n, k) ==
    LET Rank(r) == Cardinality({q \in rows : Key(q) > Key(r)})
    IN {r \in rows : Offset(n) <= Rank(r) /\ Rank(r) < Offset(n) + k}

\* A page from these rows; rows.Err is never asked, fewer rows look like the end.
Shows(n, k) ==
    LET kept == Query(n, k) \cap Query(n, PageSize)
    IN /\ page' = n
       /\ shown' = kept
       /\ hasNext' = (Cardinality(Query(n, k)) > PageSize)
       /\ seen' = seen \cup kept
       /\ twice' = twice \cup (seen \cap kept)
       /\ UNCHANGED <<rows, now, saving>>

\* The administrator opens the first page and follows the links; each page is looked at once.
Open(k) ==
    /\ page = 0
    /\ Shows(1, k)
    /\ first' = rows
    /\ added' = {} /\ gone' = {}

Turn(k) ==
    /\ hasNext
    /\ Shows(page + 1, k)
    /\ UNCHANGED <<first, added, gone>>

Pages ==
    \/ Open(Limit) /\ UNCHANGED cut
    \/ Turn(Limit) /\ UNCHANGED cut

\* The query fails after k rows: the page shows these, with status 200.
BreaksOff == \E k \in 0..PageSize : (Open(k) \/ Turn(k)) /\ Query(page + 1, k) # Query(page + 1, Limit) /\ cut' = TRUE

Next == Stamp \/ Add \/ Drop \/ Delete \/ Pages \/ BreaksOff

Spec == Init /\ [][Next]_vars

-----------------------------------------------------------------------------
(****************************************************************************)
(* Who went through to the last page has seen every row that was there all  *)
(* the time, but for one per row deleted meanwhile (the rows behind it move *)
(* up by one), unless a query broke off.                                    *)
(****************************************************************************)
MissesExplained ==
    page > 0 /\ ~hasNext /\ ~cut => Cardinality((first \ gone) \ seen) <= Cardinality(gone)

\* No more rows are shown twice than were added meanwhile.
RepeatsExplained == Cardinality(twice) <= Cardinality(added)

PagesExplained == MissesExplained /\ RepeatsExplained
=============================================================================
