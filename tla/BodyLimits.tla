----------------------------- MODULE BodyLimits -----------------------------
(****************************************************************************)
(* The size limits: how ReadJSON (a request), readLimited (a response of    *)
(* newapi) and once with Save (an image) read a body of any length, in      *)
(* reads of any size, that may break off.  All three let one byte more than *)
(* the limit through and look at what they counted; Save first takes the    *)
(* head of the body for detectImage and counts it, too.  Limits are int64:  *)
(* sums wrap.                                                               *)
(****************************************************************************)
EXTENDS Integers

CONSTANTS Limits,     \* values of MAX_..._BYTES
          MaxLen,     \* bound: the longest body
          HeadLen,    \* Save's buffer for detectImage, 512 bytes
          Magic,      \* the shortest head detectImage knows, 3 bytes
          MaxInt      \* the largest int64

ASSUME SizesFit == /\ {MaxLen, HeadLen, Magic, MaxInt} \subseteq Nat
                   /\ Limits \subseteq 1..MaxInt
                   /\ 1 <= Magic /\ Magic <= HeadLen /\ HeadLen <= MaxInt

VARIABLES
    kind,       \* what is read: "request", "response" or "image"
    max,        \* its limit
    body,       \* len bytes come, then it ends whole, short or with a reset; told: ContentLength
    left,       \* bytes of body not read yet
    taken,      \* bytes read: the head and what was copied
    allow,      \* LimitedReader.N
    phase,      \* "start", "head", "copy" or "done"
    verdict     \* "none", "accepted" or "refused"

vars == <<kind, max, body, left, taken, allow, phase, verdict>>

\* A body that breaks off before its Content-Length is short (ErrUnexpectedEOF) or reset.
Body == {b \in [len : 0..MaxLen, told : -1..MaxLen, fate : {"whole", "short", "reset"}] :
            /\ b.told >= b.len \/ b.told = -1
            /\ b.fate = "whole" => b.told \in {b.len, -1}
            /\ b.fate # "whole" => b.told # b.len}

\* Mutation: integers without a width.
WrapNot(x) == x

\* int64 arithmetic.
Wrap(x) == IF x > MaxInt THEN x - 2 * (MaxInt + 1) ELSE x

TypeOK ==
    /\ kind \in {"request", "response", "image"}
    /\ max \in Limits
    /\ body \in Body
    /\ left \in 0..body.len
    /\ taken \in Nat /\ taken + left = body.len
    /\ allow \in (-MaxInt - 1)..MaxInt
    /\ phase \in {"start", "head", "copy", "done"}
    /\ verdict \in {"none", "accepted", "refused"}

Init ==
    /\ kind \in {"request", "response", "image"}
    /\ max \in Limits
    /\ body \in Body
    /\ left = body.len
    /\ taken = 0
    /\ allow = 0
    /\ phase = "start"
    /\ verdict = "none"

Verdict(v) ==
    /\ phase' = "done"
    /\ verdict' = v
    /\ UNCHANGED <<kind, max, body, left, taken, allow>>

\* A Read returns some of what the body still has, and no more than room.
Takes(room) ==
    \E k \in 1..left : /\ k <= room
                       /\ left' = left - k
                       /\ taken' = taken + k

\* max+1 of ReadJSON and readLimited, max-int64(n)+1 of Save.
Room == Wrap(max - taken + 1)

Begin ==
    /\ phase = "start"
    /\ phase' = IF kind = "image" THEN "head" ELSE "copy"
    /\ allow' = IF kind = "image" THEN 0 ELSE Room
    /\ ~(kind = "image" /\ body.told > max)
    /\ UNCHANGED <<kind, max, body, left, taken, verdict>>

\* once: the Content-Length alone says that the image is too large.
ToldTooLarge ==
    /\ phase = "start"
    /\ kind = "image" /\ body.told > max
    /\ Verdict("refused")

\* io.ReadFull(source, first).
ReadHead ==
    /\ phase = "head" /\ taken < HeadLen
    /\ Takes(HeadLen - taken)
    /\ UNCHANGED <<kind, max, body, allow, phase, verdict>>

HeadEnds == phase = "head" /\ (taken = HeadLen \/ left = 0)
HeadServes == taken >= Magic /\ (body.fate = "reset" => taken = HeadLen)

\* A body that ends inside the head, even a short one, goes on to the copy.
Detect ==
    /\ HeadEnds /\ HeadServes
    /\ phase' = "copy"
    /\ allow' = Room
    /\ UNCHANGED <<kind, max, body, left, taken, verdict>>

HeadRefused == HeadEnds /\ ~HeadServes /\ Verdict("refused")

\* io.ReadAll or io.Copy reads through the LimitedReader.
Read ==
    /\ phase = "copy" /\ allow > 0
    /\ Takes(allow)
    /\ allow' = allow - (left - left')
    /\ UNCHANGED <<kind, max, body, phase, verdict>>

\* Mutation: the copy's error is dropped.
BreaksNever == FALSE

\* The reader meets the body's error: every read after the last byte returns it again.
Breaks == allow > 0 /\ body.fate # "whole"

\* An empty JSON request does not parse.
Counts == taken <= max /\ (kind = "request" => taken > 0)

Ends ==
    /\ phase = "copy"
    /\ allow <= 0 \/ left = 0
    /\ Verdict(IF ~Breaks /\ Counts THEN "accepted" ELSE "refused")

Next == Begin \/ ToldTooLarge \/ ReadHead \/ Detect \/ HeadRefused \/ Read \/ Ends
        \/ (phase = "done" /\ UNCHANGED vars)

Spec == Init /\ [][Next]_vars

-----------------------------------------------------------------------------
(****************************************************************************)
(* The limit is exact: a body worth reading is accepted if and only if it   *)
(* is whole and no longer than the limit, however its bytes arrive.  What   *)
(* broke off is never taken for complete, though Save tolerates an          *)
(* unexpected end of the head.  An image may even have the largest limit    *)
(* there is, because its head is taken off before one is added.             *)
(****************************************************************************)
Fits == kind = "image" \/ max < MaxInt
Worth == /\ kind = "image" => body.len >= Magic
         /\ kind = "request" => body.len >= 1
ExactLimit ==
    phase = "done" /\ Fits =>
        (verdict = "accepted" <=> body.fate = "whole" /\ Worth /\ body.len <= max)

(****************************************************************************)
(* A reader takes at most one byte more than the limit from an endless      *)
(* body, or a head of it when the limit is smaller than that.               *)
(****************************************************************************)
TakesLittle == taken <= max + 1 \/ (kind = "image" /\ taken <= HeadLen)
=============================================================================
