-------------------------- MODULE MCRuntimeSettings --------------------------
(****************************************************************************)
(* Small instances of RuntimeSettings for TLC: two keys, two accepted       *)
(* values and one that LoadRuntime refuses.                                 *)
(****************************************************************************)
EXTENDS RuntimeSettings

MCKey == {"download_attempts", "max_redirects"}
MCVal == {1, 2, 99}
MCValid == {1, 2}
AnyForm == [MCKey -> MCVal]
ValidForm == [MCKey -> MCValid]
=============================================================================
