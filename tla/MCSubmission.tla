---------------------------- MODULE MCSubmission ----------------------------
(* A small instance of Submission for TLC. *)
EXTENDS Submission

CONSTANTS plain, keyed, form, models

MCPathOf == [r \in Request |-> CASE r \in {plain, keyed} -> "generations"
                                 [] r = form -> "edits"
                                 [] r = models -> "models"]
=============================================================================
