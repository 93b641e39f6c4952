----------------------------- MODULE MCImageStore ----------------------------
(****************************************************************************)
(* Small instances of ImageStore for TLC.                                   *)
(****************************************************************************)
EXTENDS ImageStore, TLC

\* Admin requests and views are interchangeable, and so are requests and URLs.
\* (Not used where liveness is checked.)
Symmetry == Permutations(Req) \cup Permutations(Url) \cup Permutations(Op) \cup Permutations(View)
=============================================================================
