----------------------------- MODULE Submission -----------------------------
(****************************************************************************)
(* How often newapi gets a request: the one Do of Models and Image, and     *)
(* what net/http's Transport makes of it when a connection fails.  The      *)
(* transport sends a request again, by itself, when the connection was a    *)
(* kept-alive one and either nothing was written yet, or no byte of a       *)
(* response came and it takes the request for replayable: a GET, or one     *)
(* with an Idempotency-Key.  A body must be one it can rewind.              *)
(****************************************************************************)
EXTENDS Naturals

CONSTANTS Request,    \* requests of the data plane
          PathOf,     \* PathOf[r]: the endpoint r is for
          Keyed,      \* requests with an Idempotency-Key, which copyHeaders passes on
          MaxIdle     \* bound: kept-alive connections in the transport's pool

ASSUME RequestsMeet == /\ PathOf \in [Request -> {"models", "generations", "edits"}]
                       /\ Keyed \subseteq Request
                       /\ MaxIdle \in Nat

VARIABLES
    at,         \* at[r]: "new", "connect", "write", "wait", "answered" or "failed" (502)
    reused,     \* requests on a connection that served others before
    idle,       \* kept-alive connections in the pool
    got         \* got[r]: how often newapi has received r as a whole

sending == <<at, reused, idle, got>>

SubmissionTypeOK ==
    /\ at \in [Request -> {"new", "connect", "write", "wait", "answered", "failed"}]
    /\ reused \subseteq Request
    /\ idle \in 0..MaxIdle
    /\ got \in [Request -> Nat]

SubmissionInit ==
    /\ at = [r \in Request |-> "new"]
    /\ reused = {}
    /\ idle \in 0..MaxIdle
    /\ got = [r \in Request |-> 0]

Goes(r, from, to) == at[r] = from /\ at' = [at EXCEPT ![r] = to]

\* No body, or NewRequest knows how to get it again: a bytes.Reader, not ObserveMultipart's tee.
Rewindable(r) == PathOf[r] # "edits"

\* Request.isReplayable.
Replayable(r) == Rewindable(r) /\ (PathOf[r] = "models" \/ r \in Keyed)

\* Models and Image call Do, once.
Do(r) == Goes(r, "new", "connect") /\ UNCHANGED <<reused, idle, got>>

Reuse(r) ==
    /\ idle > 0
    /\ Goes(r, "connect", "write")
    /\ idle' = idle - 1
    /\ reused' = reused \cup {r}
    /\ UNCHANGED got

Dial(r) ==
    /\ idle = 0
    /\ Goes(r, "connect", "write")
    /\ reused' = reused \ {r}
    /\ UNCHANGED <<idle, got>>

\* The last byte is out: newapi has the request and carries it out.
Write(r) ==
    /\ Goes(r, "write", "wait")
    /\ got' = [got EXCEPT ![r] = @ + 1]
    /\ UNCHANGED <<reused, idle>>

\* The connection broke: nothing written, or only a part.
WriteBreaks(r) ==
    /\ \/ r \in reused /\ Rewindable(r) /\ Goes(r, "write", "connect")
       \/ Goes(r, "write", "failed")
    /\ UNCHANGED <<reused, idle, got>>

\* It broke before the first byte of a response.
WaitBreaks(r) ==
    /\ \/ r \in reused /\ Replayable(r) /\ Goes(r, "wait", "connect")
       \/ Goes(r, "wait", "failed")
    /\ UNCHANGED <<reused, idle, got>>

\* No connection, UPSTREAM_TIMEOUT, or the client has left: an error, never a replay.
Stop(r) ==
    /\ \E from \in {"connect", "write", "wait"} : Goes(r, from, "failed")
    /\ UNCHANGED <<reused, idle, got>>

\* The connection goes back to the pool, if its body was read to the end and there is room.
KeepsAlive == idle' \in {idle} \cup ({idle + 1} \cap 0..MaxIdle)

\* Mutation: a redirect that keeps method and body is followed.
AnsweredAfterRedirects(r) ==
    /\ \/ Goes(r, "wait", "answered")
       \/ Rewindable(r) /\ Goes(r, "wait", "connect")
    /\ KeepsAlive
    /\ UNCHANGED <<reused, got>>

\* newapi answers, with a redirect perhaps: CheckRedirect makes it the response.
Answered(r) == Goes(r, "wait", "answered") /\ KeepsAlive /\ UNCHANGED <<reused, got>>

SubmissionNext ==
    \/ \E r \in Request : \/ Do(r) \/ Reuse(r) \/ Dial(r) \/ Write(r)
                          \/ WriteBreaks(r) \/ WaitBreaks(r) \/ Stop(r) \/ Answered(r)
    \/ (\A r \in Request : at[r] \in {"answered", "failed"}) /\ UNCHANGED sending

SubmissionSpec == SubmissionInit /\ [][SubmissionNext]_sending

-----------------------------------------------------------------------------
(****************************************************************************)
(* Whatever connections fail and however it answers, newapi gets a          *)
(* generation without a key at most once, and an edit even with one: the    *)
(* form streams through and cannot be sent again.                           *)
(****************************************************************************)
OnceUnlessKeyed ==
    \A r \in Request : \/ PathOf[r] = "edits"
                       \/ PathOf[r] = "generations" /\ r \notin Keyed
                       => got[r] <= 1

(****************************************************************************)
(* README.md:10: every generation or edit is submitted to newapi only once. *)
(****************************************************************************)
SubmittedOnce == \A r \in Request : PathOf[r] # "models" => got[r] <= 1
=============================================================================
