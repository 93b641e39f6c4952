----------------------------- MODULE MCAdminPlane ----------------------------
(****************************************************************************)
(* AdminSession and Listing for TLC, in one small instance: what an         *)
(* administrator does.  They share no variable; one of them moves while the *)
(* other is at its start, so every behaviour of each is there, but not the  *)
(* product of their states.                                                 *)
(****************************************************************************)
EXTENDS AdminSession, Naturals, TLC

CONSTANTS b1, q1, q2, q3, q4, q5, PageSize, Base, MaxTime

\* There are pages, digits and instants.
ASSUME PagesAssumption == PageSize \in Nat \ {0} /\ Base \in Nat \ {0} /\ MaxTime \in Nat

VARIABLES stored, now, saving, number, shown, hasNext, seen, twice, first, added, gone, cut

pages == <<stored, now, saving, number, shown, hasNext, seen, twice, first, added, gone, cut>>

List == INSTANCE Listing WITH rows <- stored, page <- number

Swaps == Permutations(Request)

PlaneInit == Init /\ List!Init

\* Nobody need look at a list to its end.
Leave == ~List!Init /\ UNCHANGED <<vars, pages>>

PlaneNext ==
    \/ List!Init /\ Next /\ UNCHANGED pages
    \/ Init /\ List!Next /\ UNCHANGED vars
    \/ Leave

PlaneSpec == PlaneInit /\ [][PlaneNext]_<<vars, pages>>

-----------------------------------------------------------------------------
\* The types of both.
PlaneTypeOK == TypeOK /\ List!TypeOK

\* Rows missed are explained by rows deleted, rows shown twice by rows added.
PagesExplained == List!PagesExplained
=============================================================================
