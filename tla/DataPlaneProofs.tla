--------------------------- MODULE DataPlaneProofs --------------------------
(****************************************************************************)
(* Proofs about the data plane, for every value of its constants:           *)
(* Submission, BodyLimits, DiskSpace, Rewriting and Allowlist each by       *)
(* itself, and then MCDataPlane, whose behaviours are behaviours of each.   *)
(****************************************************************************)
EXTENDS MCDataPlane, Sequences, TLAPS

-----------------------------------------------------------------------------
(* Submission, for any requests, keys and connections.                      *)

\* What may not be replayed has not reached newapi before its last byte is out.
Early == {"new", "connect", "write"}
SentOnce == \A r \in Request : ~Replayable(r) => /\ got[r] <= 1
                                                 /\ at[r] \in Early => got[r] = 0

SInv == SubmissionTypeOK /\ SentOnce

USE RequestsMeet

\* Nothing has been received before the first step.
LEMMA SendingInit == ASSUME SubmissionInit PROVE SInv
BY DEF SubmissionInit, SInv, SubmissionTypeOK, SentOnce

\* A step from one place to another without newapi's receiving anything.
LEMMA GoesKeepsSending ==
    ASSUME SInv, NEW r \in Request,
           NEW from \in {"new", "connect", "write", "wait"},
           NEW to \in {"connect", "write", "answered", "failed"},
           Goes(r, from, to), got' = got, reused' \subseteq Request, idle' \in 0..MaxIdle,
           to \in Early => from \in Early \/ Replayable(r)
    PROVE  SInv'
<1>1. SubmissionTypeOK'
  BY DEF SInv, SubmissionTypeOK, Goes
<1>2. SentOnce'
  BY DEF SInv, SubmissionTypeOK, SentOnce, Goes, Replayable, Rewindable, Early
<1> QED BY <1>1, <1>2 DEF SInv

\* The last byte is out: newapi has received the request, for the first time unless it may be replayed.
LEMMA WriteKeepsSending == ASSUME SInv, NEW r \in Request, Write(r) PROVE SInv'
<1>1. SubmissionTypeOK'
  BY DEF SInv, SubmissionTypeOK, Write, Goes
<1>2. SentOnce'
  BY DEF SInv, SubmissionTypeOK, SentOnce, Write, Goes, Replayable, Rewindable, Early
<1> QED BY <1>1, <1>2 DEF SInv

\* Every step keeps the invariant.
LEMMA SendingStep == ASSUME SInv, [SubmissionNext]_sending PROVE SInv'
<1> USE DEF Early
<1>1. idle \in 0..MaxIdle /\ reused \subseteq Request
  BY DEF SInv, SubmissionTypeOK
<1>2. ASSUME NEW r \in Request, Do(r) PROVE SInv'
  BY <1>1, <1>2, GoesKeepsSending DEF Do
<1>3. ASSUME NEW r \in Request, Reuse(r) PROVE SInv'
  BY <1>1, <1>3, GoesKeepsSending DEF Reuse
<1>4. ASSUME NEW r \in Request, Dial(r) PROVE SInv'
  BY <1>1, <1>4, GoesKeepsSending DEF Dial
<1>5. ASSUME NEW r \in Request, Write(r) PROVE SInv'
  BY <1>5, WriteKeepsSending
<1>6. ASSUME NEW r \in Request, WriteBreaks(r) PROVE SInv'
  BY <1>1, <1>6, GoesKeepsSending DEF WriteBreaks
<1>7. ASSUME NEW r \in Request, WaitBreaks(r) PROVE SInv'
  BY <1>1, <1>7, GoesKeepsSending DEF WaitBreaks
<1>8. ASSUME NEW r \in Request, Stop(r) PROVE SInv'
  BY <1>1, <1>8, GoesKeepsSending DEF Stop
<1>9. ASSUME NEW r \in Request, Answered(r) PROVE SInv'
  BY <1>1, <1>9, GoesKeepsSending DEF Answered, KeepsAlive
<1>10. CASE UNCHANGED sending
  BY <1>10 DEF SInv, SubmissionTypeOK, SentOnce, Replayable, Rewindable, sending
<1> QED BY <1>2, <1>3, <1>4, <1>5, <1>6, <1>7, <1>8, <1>9, <1>10 DEF SubmissionNext

\* So it always holds.
LEMMA SendingAlways == SubmissionSpec => []SInv
<1>1. SubmissionInit => SInv
  BY SendingInit
<1>2. SInv /\ [SubmissionNext]_sending => SInv'
  BY SendingStep
<1> QED BY <1>1, <1>2, PTL DEF SubmissionSpec

(****************************************************************************)
(* newapi gets an edit, and a generation without an Idempotency-Key, at     *)
(* most once, over any number of connections that may break anywhere.       *)
(****************************************************************************)
THEOREM SentOnceUnlessKeyed == SubmissionSpec => []OnceUnlessKeyed
<1>1. SInv => OnceUnlessKeyed
  BY DEF SInv, SentOnce, OnceUnlessKeyed, Replayable, Rewindable
<1> QED BY <1>1, SendingAlways, PTL

-----------------------------------------------------------------------------
(* BodyLimits, for every limit, length of a body, size of Save's head and   *)
(* width of an integer.                                                     *)

\* What is left to read counts down from the limit and one, whatever was taken
\* as the head; only a limit that is the largest integer wraps, and then
\* nothing is read at all.
Stages ==
    /\ phase # "done" => verdict = "none"
    /\ phase = "start" => taken = 0
    /\ phase = "head" => kind = "image" /\ taken <= HeadLen
    /\ phase = "copy" => /\ IF Fits THEN allow = max + 1 - taken ELSE allow < 0 /\ taken = 0
                         /\ kind = "image" => Magic <= taken

BInv == TypeOK /\ Stages /\ ExactLimit /\ TakesLittle

USE SizesFit

\* What the types say of the sizes, for the arithmetic below.
LEMMA BodyFacts ==
    ASSUME TypeOK
    PROVE  /\ body.len \in Nat /\ left \in Nat /\ taken \in Nat /\ taken = body.len - left
           /\ max \in Nat /\ 1 <= max /\ max <= MaxInt /\ allow \in Int
           /\ body.told \in Int /\ (body.fate = "whole" => body.told \in {body.len, -1})
<1>1. body.len \in 0..MaxLen /\ body.told \in Int
  BY DEF TypeOK, Body
<1>2. body.fate = "whole" => body.told \in {body.len, -1}
  BY DEF TypeOK, Body
<1> QED BY <1>1, <1>2 DEF TypeOK

\* Nothing is read at the start.
LEMMA ReadingInit == ASSUME Init PROVE BInv
<1>1. body.len \in Nat
  BY DEF Init, Body
<1> QED BY <1>1 DEF Init, BInv, TypeOK, Stages, ExactLimit, TakesLittle, Body

\* A verdict keeps the invariant if it is the right one.
LEMMA VerdictKeeps ==
    ASSUME BInv, NEW v \in {"accepted", "refused"}, Verdict(v),
           Fits => (v = "accepted" <=> body.fate = "whole" /\ Worth /\ body.len <= max)
    PROVE  BInv'
<1>1. TypeOK'
  BY DEF BInv, TypeOK, Verdict
<1>2. Stages'
  BY DEF Stages, Verdict
<1>3. ExactLimit' /\ TakesLittle'
  BY DEF BInv, ExactLimit, TakesLittle, Verdict, Fits, Worth
<1> QED BY <1>1, <1>2, <1>3 DEF BInv

\* The room set at the beginning of a copy.
LEMMA RoomIs ==
    ASSUME BInv, taken <= HeadLen, kind # "image" => taken = 0, kind = "image" => Magic <= taken
    PROVE  /\ Room \in (-MaxInt - 1)..MaxInt
           /\ IF Fits THEN Room = max + 1 - taken ELSE Room < 0 /\ taken = 0
<1>1. TypeOK
  BY DEF BInv
<1>2. /\ taken \in Nat /\ max \in Nat /\ 1 <= max /\ max <= MaxInt
      /\ MaxInt \in Nat /\ HeadLen \in Nat /\ Magic \in Nat
      /\ 1 <= Magic /\ HeadLen <= MaxInt
  BY <1>1, BodyFacts
<1> QED BY <1>2 DEF Room, Wrap, Fits

\* The allowance is one more than the limit, or wraps.
LEMMA BeginStep == ASSUME BInv, Begin PROVE BInv'
<1>1. TypeOK /\ Stages /\ taken = 0 /\ phase = "start"
  BY DEF BInv, Begin, Stages
<1>2. CASE kind = "image"
  <2>1. TypeOK'
    BY <1>1, <1>2 DEF Begin, TypeOK
  <2>2. Stages' /\ ExactLimit' /\ TakesLittle'
    BY <1>1, <1>2, BodyFacts DEF Begin, Stages, ExactLimit, TakesLittle
  <2> QED BY <2>1, <2>2 DEF BInv
<1>3. CASE kind # "image"
  <2>1. /\ Room \in (-MaxInt - 1)..MaxInt
        /\ IF Fits THEN Room = max + 1 - taken ELSE Room < 0 /\ taken = 0
    BY <1>1, <1>3, RoomIs
  <2>2. TypeOK'
    BY <1>1, <1>3, <2>1 DEF Begin, TypeOK
  <2>3. Stages' /\ ExactLimit' /\ TakesLittle'
    BY <1>1, <1>3, <2>1, BodyFacts DEF Begin, Stages, ExactLimit, TakesLittle, Fits
  <2> QED BY <2>2, <2>3 DEF BInv
<1> QED BY <1>2, <1>3

\* A Content-Length over the limit is refused unread.
LEMMA ToldStep == ASSUME BInv, ToldTooLarge PROVE BInv'
<1>1. TypeOK
  BY DEF BInv
<1>2. ~(body.fate = "whole" /\ body.len <= max)
  BY <1>1, BodyFacts DEF ToldTooLarge
<1> QED BY <1>2, VerdictKeeps DEF ToldTooLarge

\* The head takes no more than its buffer.
LEMMA ReadHeadStep == ASSUME BInv, ReadHead PROVE BInv'
<1>1. TypeOK /\ Stages /\ kind = "image" /\ taken <= HeadLen /\ phase = "head"
  BY DEF BInv, ReadHead, Stages
<1>2. PICK k \in 1..left : k <= HeadLen - taken /\ left' = left - k /\ taken' = taken + k
  BY DEF ReadHead, Takes
<1>3. TypeOK'
  BY <1>1, <1>2, BodyFacts DEF ReadHead, TypeOK
<1>4. Stages' /\ ExactLimit' /\ TakesLittle'
  BY <1>1, <1>2, BodyFacts DEF ReadHead, Stages, ExactLimit, TakesLittle
<1> QED BY <1>3, <1>4 DEF BInv

\* After the head the allowance is what the limit leaves, and one.
LEMMA DetectStep == ASSUME BInv, Detect PROVE BInv'
<1>1. /\ TypeOK /\ Stages /\ kind = "image" /\ taken <= HeadLen /\ Magic <= taken
      /\ phase = "head"
  BY DEF BInv, Detect, HeadEnds, HeadServes, Stages
<1>2. /\ Room \in (-MaxInt - 1)..MaxInt
      /\ IF Fits THEN Room = max + 1 - taken ELSE Room < 0 /\ taken = 0
  BY <1>1, RoomIs
<1>3. TypeOK'
  BY <1>1, <1>2 DEF Detect, TypeOK
<1>4. Stages' /\ ExactLimit' /\ TakesLittle'
  BY <1>1, <1>2, BodyFacts DEF Detect, Stages, ExactLimit, TakesLittle, Fits
<1> QED BY <1>3, <1>4 DEF BInv

\* A head that does not serve is one of a body not worth reading, or broken.
LEMMA HeadRefusedStep == ASSUME BInv, HeadRefused PROVE BInv'
<1>1. TypeOK /\ kind = "image"
  BY DEF BInv, HeadRefused, HeadEnds, Stages
<1>2. ~(body.fate = "whole" /\ Worth)
  BY <1>1, BodyFacts DEF HeadRefused, HeadEnds, HeadServes, Worth
<1> QED BY <1>2, VerdictKeeps DEF HeadRefused

\* What is read comes off the allowance.
LEMMA ReadStep == ASSUME BInv, Read PROVE BInv'
<1>1. TypeOK /\ Stages /\ phase = "copy" /\ allow > 0
  BY DEF BInv, Read
<1>2. Fits /\ allow = max + 1 - taken
  BY <1>1, BodyFacts DEF Stages
<1>3. PICK k \in 1..left : k <= allow /\ left' = left - k /\ taken' = taken + k
  BY DEF Read, Takes
<1>4. allow' = allow - k
  BY <1>1, <1>3, BodyFacts DEF Read
<1>5. TypeOK'
  BY <1>1, <1>3, <1>4, BodyFacts DEF Read, TypeOK
<1>6. Stages' /\ ExactLimit' /\ TakesLittle'
  BY <1>1, <1>2, <1>3, <1>4, BodyFacts DEF Read, Stages, ExactLimit, TakesLittle, Fits
<1> QED BY <1>5, <1>6 DEF BInv

\* The end of a copy: the reader met the end of the body, or the limit and one.
LEMMA EndsStep == ASSUME BInv, Ends PROVE BInv'
<1> DEFINE ok == ~Breaks /\ Counts
<1>1. TypeOK /\ Stages /\ phase = "copy" /\ (allow <= 0 \/ left = 0)
  BY DEF BInv, Ends
<1>2. ASSUME Fits PROVE ok <=> body.fate = "whole" /\ Worth /\ body.len <= max
  <2>1. allow = max + 1 - taken /\ (kind = "image" => Magic <= taken)
    BY <1>1, <1>2 DEF Stages
  <2>2. kind \in {"request", "response", "image"}
    BY <1>1 DEF TypeOK
  <2>3. CASE left = 0
    BY <1>1, <2>1, <2>2, <2>3, BodyFacts DEF Breaks, Counts, Worth
  <2>4. CASE left # 0
    BY <1>1, <2>1, <2>2, <2>4, BodyFacts DEF Breaks, Counts, Worth
  <2> QED BY <2>3, <2>4
<1>3. Verdict(IF ok THEN "accepted" ELSE "refused")
  BY DEF Ends
<1> HIDE DEF ok
<1>4. CASE ok
  BY <1>2, <1>3, <1>4, VerdictKeeps
<1>5. CASE ~ok
  BY <1>2, <1>3, <1>5, VerdictKeeps
<1> QED BY <1>4, <1>5

\* Every step keeps the invariant.
LEMMA ReadingStep == ASSUME BInv, [Next]_vars PROVE BInv'
<1>1. CASE UNCHANGED vars
  BY <1>1 DEF BInv, TypeOK, Stages, ExactLimit, TakesLittle, Fits, Worth, vars
<1> QED
  BY <1>1, BeginStep, ToldStep, ReadHeadStep, DetectStep, HeadRefusedStep, ReadStep, EndsStep
  DEF Next

\* So it always holds.
LEMMA ReadingAlways == Spec => []BInv
<1>1. Init => BInv
  BY ReadingInit
<1>2. BInv /\ [Next]_vars => BInv'
  BY ReadingStep
<1> QED BY <1>1, <1>2, PTL DEF Spec

(****************************************************************************)
(* BodyLimits keeps its types: in particular no sum leaves its width.       *)
(****************************************************************************)
THEOREM LimitTyping == Spec => []TypeOK
BY ReadingAlways, PTL DEF BInv

(****************************************************************************)
(* ReadJSON, readLimited and Save accept exactly the whole bodies within    *)
(* the limit, whatever the limit (but the largest integer), the length, the *)
(* head and the sizes of the reads.                                         *)
(****************************************************************************)
THEOREM LimitsAreExact == Spec => []ExactLimit
BY ReadingAlways, PTL DEF BInv

(****************************************************************************)
(* No reader takes more than one byte over the limit, or its head.          *)
(****************************************************************************)
THEOREM LittleIsTaken == Spec => []TakesLittle
BY ReadingAlways, PTL DEF BInv

-----------------------------------------------------------------------------
(* DiskSpace, for any writers, sizes, disk and threshold.                   *)

\* A writer that met no other is the only one in progress, and what is free with
\* what it has written is what its Preflight found.
AloneInv ==
    /\ Disk!TypeOK
    /\ \A w, v \in Disk!Busy : w \in alone => w = v
    /\ \A w \in Disk!Busy : stage[w] # "writing" => used[w] = 0
    /\ \A r \in Generating : /\ stage[r] = "new" => used[r] = 0
                             /\ r \in alone /\ r \in Disk!Busy => free + used[r] >= MinFree
    /\ AloneIsSafe

\* Nobody has begun: the disk is as it was.
LEMMA DiskInit == Disk!Init => AloneInv
BY WritersAssumption DEF Disk!Init, AloneInv, Disk!TypeOK, Disk!Busy, Disk!Writer, AloneIsSafe, Disk!AloneIsSafe

\* A writer begins: those in progress are no longer alone.
LEMMA MeetsKeeps ==
    ASSUME AloneInv, NEW w \in Disk!Writer, NEW to \in {"admitted", "writing"},
           Disk!Goes(w, "new", to), Disk!Meets(w), UNCHANGED <<used, free>>,
           IF w \in Generating THEN to = "admitted" /\ free >= MinFree ELSE to = "writing"
    PROVE  AloneInv'
<1> USE DEF AloneInv, Disk!TypeOK
<1>1. Disk!TypeOK'
  BY DEF Disk!Goes, Disk!Meets, Disk!Busy
<1>2. Disk!Busy' = Disk!Busy \cup {w}
  BY DEF Disk!Goes, Disk!Busy
<1>3. alone' = IF Disk!Busy = {} THEN alone ELSE alone \ (Disk!Busy \cup {w})
  BY DEF Disk!Meets
<1>4. \A x, v \in Disk!Busy' : x \in alone' => x = v
  BY <1>2, <1>3
<1>5. \A v \in Disk!Busy' : stage'[v] # "writing" => used'[v] = 0
  BY <1>2 DEF Disk!Goes, Disk!Writer
<1>6. \A r \in Generating : /\ stage'[r] = "new" => used'[r] = 0
                            /\ r \in alone' /\ r \in Disk!Busy' => free' + used'[r] >= MinFree
  BY <1>2, <1>3, WritersAssumption DEF Disk!Goes, Disk!Writer
<1>7. AloneIsSafe'
  BY <1>3 DEF AloneIsSafe, Disk!AloneIsSafe, Disk!Goes, Disk!Writer
<1> QED BY <1>1, <1>4, <1>5, <1>6, <1>7

\* What a writer in progress does: those alone have no other in progress.
LEMMA ProgressKeeps ==
    ASSUME AloneInv, NEW r \in Generating,
           \E from \in {"admitted", "upstream"} :
              Disk!Goes(r, from, IF from = "admitted" THEN "upstream" ELSE "writing"),
           UNCHANGED <<used, free, alone>>
    PROVE  AloneInv'
<1> USE DEF AloneInv, Disk!TypeOK
<1>0. r \in Disk!Writer /\ r \in Disk!Busy
  BY DEF Disk!Writer, Disk!Busy, Disk!Goes
<1>1. Disk!TypeOK'
  BY DEF Disk!Goes
<1>2. Disk!Busy' = Disk!Busy
  BY <1>0 DEF Disk!Goes, Disk!Busy
<1>3. \A v \in Disk!Writer : stage'[v] = stage[v] \/ (v = r /\ stage[r] # "writing" /\ stage'[r] # "new" /\ stage'[r] # "full")
  BY <1>0 DEF Disk!Goes
<1>4. \A v \in Disk!Busy' : stage'[v] # "writing" => used'[v] = 0
  BY <1>2, <1>3 DEF Disk!Busy
<1>5. \A q \in Generating : /\ stage'[q] = "new" => used'[q] = 0
                            /\ q \in alone' /\ q \in Disk!Busy' => free' + used'[q] >= MinFree
  BY <1>2, <1>3 DEF Disk!Writer
<1>6. AloneIsSafe'
  BY <1>3 DEF AloneIsSafe, Disk!AloneIsSafe, Disk!Writer
<1> QED BY <1>1, <1>2, <1>4, <1>5, <1>6

\* What a writer writes is taken from what is free.
LEMMA WriteStep ==
    ASSUME AloneInv, NEW w \in Disk!Writer, Disk!Write(w)
    PROVE  AloneInv'
<1> USE DEF AloneInv, Disk!TypeOK
<1>1. /\ stage' = stage /\ alone' = alone /\ w \in Disk!Busy /\ stage[w] = "writing"
      /\ used' = [used EXCEPT ![w] = @ + 1] /\ free' = free - 1 /\ free > 0 /\ used[w] < SizeOf[w]
  BY DEF Disk!Write, Disk!Busy
<1>2. Disk!TypeOK'
  <2>1. \A v \in Disk!Writer : SizeOf[v] \in Nat
    BY WritersAssumption DEF Disk!Writer
  <2> QED BY <1>1, <2>1
<1>3. Disk!Busy' = Disk!Busy
  BY <1>1 DEF Disk!Busy
<1>4. \A v \in Disk!Busy' : stage'[v] # "writing" => used'[v] = 0
  BY <1>1, <1>3 DEF Disk!Busy
<1>5. \A r \in Generating : /\ stage'[r] = "new" => used'[r] = 0
                            /\ r \in alone' /\ r \in Disk!Busy' => free' + used'[r] >= MinFree
  <2> TAKE r \in Generating
  <2>1. r \in Disk!Writer /\ MinFree \in Nat
    BY WritersAssumption DEF Disk!Writer
  <2>2. CASE r = w
    BY <1>1, <1>3, <2>1, <2>2
  <2>3. CASE r # w
    BY <1>1, <1>3, <2>1, <2>3
  <2> QED BY <2>2, <2>3
<1>6. AloneIsSafe'
  BY <1>1 DEF AloneIsSafe, Disk!AloneIsSafe
<1> QED BY <1>1, <1>2, <1>3, <1>4, <1>5, <1>6

\* A writer ends: stored, refused, dropped, or on a full disk - not if it was alone
\* and its image is no larger than the threshold.
LEMMA LeaveKeeps ==
    ASSUME AloneInv, NEW w \in Disk!Writer, alone' = alone,
           NEW from \in {"new", "admitted", "upstream", "writing", "stored"},
           NEW to \in {"stored", "full", "gone"}, Disk!Goes(w, from, to),
           \/ UNCHANGED <<used, free>> /\ to # "full"
           \/ used' = [used EXCEPT ![w] = 0] /\ free' = free + used[w],
           to = "full" => from = "writing" /\ free = 0 /\ used[w] < SizeOf[w]
    PROVE  AloneInv'
<1> USE DEF AloneInv, Disk!TypeOK
<1>0. /\ w \in Disk!Writer /\ MinFree \in Nat
      /\ \A v \in Disk!Writer : SizeOf[v] \in Nat
  BY WritersAssumption DEF Disk!Writer
<1>1. free' \in Nat /\ free' >= free
  OBVIOUS
<1>2. used' \in [Disk!Writer -> Nat] /\ \A v \in Disk!Writer : v # w => used'[v] = used[v]
  OBVIOUS
<1>3. \A v \in Disk!Writer : used'[v] <= SizeOf[v]
  BY <1>0, <1>2
<1>4. Disk!TypeOK'
  BY <1>1, <1>2, <1>3 DEF Disk!Goes
<1>5. Disk!Busy' = Disk!Busy \ {w}
  BY DEF Disk!Goes, Disk!Busy
<1>6. \A v \in Disk!Writer : v # w => stage'[v] = stage[v]
  BY DEF Disk!Goes
<1>7. stage'[w] = to
  BY DEF Disk!Goes
<1>8. \A v \in Disk!Busy' : stage'[v] # "writing" => used'[v] = 0
  BY <1>2, <1>5, <1>6 DEF Disk!Busy
<1>9. \A r \in Generating : /\ stage'[r] = "new" => used'[r] = 0
                            /\ r \in alone' /\ r \in Disk!Busy' => free' + used'[r] >= MinFree
  <2> TAKE r \in Generating
  <2>1. r \in Disk!Writer
    BY DEF Disk!Writer
  <2>2. CASE r = w
    BY <1>5, <1>7, <2>2
  <2>3. CASE r # w
    BY <1>0, <1>1, <1>2, <1>5, <1>6, <2>1, <2>3
  <2> QED BY <2>2, <2>3
<1>10. AloneIsSafe'
  <2> SUFFICES ASSUME NEW r \in Generating, stage'[r] = "full", SizeOf[r] <= MinFree, r \in alone
               PROVE  FALSE
    BY DEF AloneIsSafe, Disk!AloneIsSafe
  <2>1. r \in Disk!Writer
    BY DEF Disk!Writer
  <2>2. CASE r # w
    BY <1>6, <2>1, <2>2 DEF AloneIsSafe, Disk!AloneIsSafe
  <2>3. CASE r = w
    <3>1. to = "full" /\ r \in Disk!Busy
      BY <1>7, <2>1, <2>3 DEF Disk!Busy, Disk!Goes
    <3>2. free + used[r] >= MinFree
      BY <3>1
    <3> QED BY <1>0, <2>1, <2>3, <3>1, <3>2
  <2> QED BY <2>2, <2>3
<1> QED BY <1>4, <1>5, <1>8, <1>9, <1>10

\* Every step of a writer keeps the invariant.
LEMMA DiskStep == AloneInv /\ [Disk!Next]_disk => AloneInv'
<1> SUFFICES ASSUME AloneInv, [Disk!Next]_disk PROVE AloneInv'
  OBVIOUS
<1> USE DEF Disk!Writer
<1>1. ASSUME NEW r \in Generating, Disk!Preflight(r) PROVE AloneInv'
  BY <1>1, MeetsKeeps DEF Disk!Preflight, Disk!Available
<1>2. ASSUME NEW r \in Generating, Disk!Refused(r) PROVE AloneInv'
  BY <1>2, LeaveKeeps DEF Disk!Refused
<1>3. ASSUME NEW r \in Generating, Disk!CallUpstream(r) \/ Disk!Download(r) PROVE AloneInv'
  BY <1>3, ProgressKeeps DEF Disk!CallUpstream, Disk!Download
<1>4. ASSUME NEW w \in Retrying, Disk!BeginRetry(w) PROVE AloneInv'
  BY <1>4, MeetsKeeps, WritersAssumption DEF Disk!BeginRetry
<1>5. ASSUME NEW w \in Disk!Writer, Disk!Write(w) PROVE AloneInv'
  BY <1>5, WriteStep
<1>6. ASSUME NEW w \in Disk!Writer, Disk!WriteFails(w) PROVE AloneInv'
  BY <1>6, LeaveKeeps DEF Disk!WriteFails
<1>7. ASSUME NEW w \in Disk!Writer, Disk!Stores(w) PROVE AloneInv'
  BY <1>7, LeaveKeeps DEF Disk!Stores
<1>8. ASSUME NEW w \in Disk!Writer, Disk!Drops(w) PROVE AloneInv'
  BY <1>8, LeaveKeeps DEF Disk!Drops
<1>9. CASE UNCHANGED disk
  BY <1>9 DEF disk, AloneInv, Disk!TypeOK, Disk!Busy, AloneIsSafe, Disk!AloneIsSafe
<1> QED BY <1>1, <1>2, <1>3, <1>4, <1>5, <1>6, <1>7, <1>8, <1>9 DEF Disk!Next

\* The invariant holds always.
LEMMA DiskAlways == Disk!Spec => []AloneInv
<1>1. Disk!vars = disk
  BY DEF Disk!vars, disk
<1>2. AloneInv /\ [Disk!Next]_Disk!vars => AloneInv'
  BY <1>1, DiskStep DEF Disk!vars, disk
<1> QED BY <1>2, DiskInit, PTL DEF Disk!Spec

(****************************************************************************)
(* A generation that overlaps no other writer and passed Preflight never    *)
(* meets a full disk with an image within the threshold (images.go:158-167, *)
(* storage.go:35-77), whatever ended before it and whatever is dropped      *)
(* while it runs, for any sizes and threshold.                              *)
(****************************************************************************)
THEOREM AloneAlwaysSafe == Disk!Spec => []AloneIsSafe
<1>1. AloneInv => AloneIsSafe
  BY DEF AloneInv
<1> QED BY <1>1, DiskAlways, PTL

-----------------------------------------------------------------------------
(* Rewriting, for any sources and any number of entries.                    *)

\* The sources Process downloads.
Wanted == IF Answers!Looks /\ resp.parses THEN Answers!URLs(resp.data) ELSE {}

\* Whatever goroutines have returned, the mapping has exactly the other wanted sources.
MappingInv ==
    /\ Answers!TypeOK
    /\ pc \in {"wait", "parse"} => running = {} /\ Answers!Mapped = {}
    /\ pc \in {"download", "saved"} => /\ running \subseteq Wanted
                                       /\ Answers!Mapped = Wanted \ running
    /\ pc = "saved" => running = {} /\ out = Answers!Rewrite

\* A public URL is not empty.
LEMMA PublicUrls == \A u \in Source : Answers!Public(u) # Empty
<1>1. \A u \in Source : [image |-> u] \in [image : Source]
  OBVIOUS
<1> QED BY <1>1, SourceAssumption DEF Answers!Public

\* The entries of an answer.
LEMMA Entries ==
    ASSUME Answers!TypeOK
    PROVE  /\ \E n \in Nat : resp.data \in [1..n -> Source \cup {Bare, Empty}]
           /\ resp.data \in Seq(Source \cup {Bare, Empty})
           /\ DOMAIN resp.data = 1..Len(resp.data)
<1>1. resp.data \in Answers!SeqOf(Source \cup {Bare, Empty}, MaxData)
  BY DEF Answers!TypeOK, Answers!Response
<1>2. PICK n \in 0..MaxData : resp.data \in [1..n -> Source \cup {Bare, Empty}]
  BY <1>1 DEF Answers!SeqOf
<1>3. n \in Nat
  BY <1>2
<1> QED BY <1>2, <1>3

\* No answer has come yet.
LEMMA RewritingInit == Answers!Init => MappingInv
<1> SUFFICES ASSUME Answers!Init PROVE MappingInv
  OBVIOUS
<1>1. <<>> \in [1..0 -> Source \cup {Bare, Empty}]
  OBVIOUS
<1>2. <<>> \in Answers!SeqOf(Source \cup {Bare, Empty}, MaxData)
  <2>1. 0 \in 0..MaxData
    BY SourceAssumption
  <2> QED BY <1>1, <2>1 DEF Answers!SeqOf
<1>3. Answers!TypeOK
  BY <1>2 DEF Answers!Init, Answers!TypeOK, Answers!Response
<1> QED BY <1>3 DEF Answers!Init, MappingInv, Answers!Mapped

\* Rewriting by a mapping that has every wanted source is what the client should get.
LEMMA RewriteIs ==
    ASSUME Answers!TypeOK, Answers!Mapped = Wanted
    PROVE  /\ Len(Answers!Rewrite.data) = Len(resp.data)
           /\ Answers!Rewrite =
                 IF Answers!NamesImages
                 THEN [marshalled |-> TRUE,
                       data |-> [i \in 1..Len(resp.data) |->
                           IF resp.data[i] \in Source THEN Answers!Public(resp.data[i]) ELSE resp.data[i]]]
                 ELSE Answers!Raw
<1>1. DOMAIN resp.data = 1..Len(resp.data) /\ Len(resp.data) \in Nat
  BY Entries
<1>2. Answers!NamesImages <=> Answers!Mapped # {}
  BY DEF Answers!NamesImages, Wanted, Answers!URLs
<1>3. CASE Answers!NamesImages
  <2>1. \A i \in 1..Len(resp.data) : resp.data[i] \in Answers!ToSet(resp.data)
    BY <1>1 DEF Answers!ToSet
  <2>2. \A i \in 1..Len(resp.data) : resp.data[i] \in Answers!Mapped <=> resp.data[i] \in Source
    BY <1>3, <2>1 DEF Answers!NamesImages, Wanted, Answers!URLs
  <2>3. \A i \in 1..Len(resp.data) : resp.data[i] \in Source => mapping[resp.data[i]] = Answers!Public(resp.data[i])
    BY <2>2 DEF Answers!TypeOK, Answers!Mapped
  <2> DEFINE Item(i) == IF resp.data[i] \in Source THEN Answers!Public(resp.data[i]) ELSE resp.data[i]
             local == [i \in 1..Len(resp.data) |-> Item(i)]
  <2>4. Answers!Rewrite = [marshalled |-> TRUE, data |-> local]
    BY <1>1, <1>2, <1>3, <2>2, <2>3 DEF Answers!Rewrite
  <2>5. Len(local) = Len(resp.data)
    <3> HIDE DEF Item
    <3> QED BY <1>1
  <2> QED BY <1>3, <2>4, <2>5
<1>4. CASE ~Answers!NamesImages
  BY <1>2, <1>4 DEF Answers!Rewrite, Answers!Raw
<1> QED BY <1>3, <1>4

\* Nothing is mapped while newapi's answer is received and parsed.
LEMMA ReceiveStep ==
    ASSUME MappingInv, Answers!Receive \/ Answers!Parse
    PROVE  MappingInv'
<1> USE DEF MappingInv
<1>1. CASE Answers!Receive
  <2>1. Answers!TypeOK' /\ Answers!Mapped' = Answers!Mapped
    BY <1>1 DEF Answers!Receive, Answers!TypeOK, Answers!Mapped, Answers!Public
  <2> QED BY <1>1, <2>1 DEF Answers!Receive
<1>2. CASE Answers!Parse
  <2>1. running' = Wanted /\ Wanted \subseteq Source /\ resp' = resp
    BY <1>2 DEF Answers!Parse, Wanted, Answers!URLs
  <2>2. Wanted' = Wanted /\ Answers!Mapped' = {}
    BY <1>2, <2>1 DEF Answers!Parse, Wanted, Answers!Looks, Answers!URLs, Answers!ToSet, Answers!Mapped
  <2>3. Answers!TypeOK'
    BY <1>2, <2>1 DEF Answers!Parse, Answers!TypeOK, Answers!Public
  <2> QED BY <1>2, <2>1, <2>2, <2>3 DEF Answers!Parse
<1> QED BY <1>1, <1>2

\* A goroutine that returns, with an image or without, enters its own source.
LEMMA ReturnStep ==
    ASSUME MappingInv, NEW u \in Source, Answers!Downloaded(u) \/ Answers!DownloadFailed(u)
    PROVE  MappingInv'
<1> USE DEF MappingInv
<1>1. /\ u \in running /\ running' = running \ {u} /\ resp' = resp /\ pc' = pc /\ out' = out
      /\ mapping' = [mapping EXCEPT ![u] = Answers!Public(u)]
      /\ failed' \subseteq failed \cup {u} /\ status' \in {status, "DEGRADED"}
  BY DEF Answers!Downloaded, Answers!DownloadFailed
<1>2. mapping' = [v \in Source |-> IF v = u THEN Answers!Public(u) ELSE mapping[v]]
  BY <1>1 DEF Answers!TypeOK
<1>3. Answers!TypeOK'
  BY <1>1 DEF Answers!TypeOK, Answers!Public
<1>4. pc = "download"
  BY <1>1 DEF Answers!TypeOK
<1>6. Wanted' = Wanted
  BY <1>1 DEF Wanted, Answers!Looks, Answers!URLs, Answers!ToSet
<1>5. Answers!Mapped' = Answers!Mapped \cup {u}
  BY <1>2, PublicUrls DEF Answers!Mapped
<1> QED BY <1>1, <1>3, <1>4, <1>5, <1>6

\* Every step of Process and its goroutines keeps the invariant.
LEMMA RewritingStep == MappingInv /\ [Answers!Next]_answer => MappingInv'
<1> SUFFICES ASSUME MappingInv, [Answers!Next]_answer PROVE MappingInv'
  OBVIOUS
<1>1. CASE Answers!Answer
  <2> USE DEF MappingInv
  <2>1. Answers!Mapped = Wanted /\ resp' = resp /\ mapping' = mapping /\ running' = running
    BY <1>1 DEF Answers!Answer
  <2>2. Wanted' = Wanted /\ Answers!Mapped' = Answers!Mapped
    BY <2>1 DEF Wanted, Answers!Looks, Answers!URLs, Answers!ToSet, Answers!Mapped
  <2>3. out' = Answers!Rewrite /\ Answers!Rewrite' = Answers!Rewrite
    BY <1>1, <2>1, <2>2 DEF Answers!Answer, Answers!Rewrite, Answers!Raw
  <2>4. Answers!TypeOK'
    BY <1>1, <2>1, <2>3, RewriteIs DEF Answers!Answer, Answers!TypeOK, Answers!Public
  <2> QED BY <1>1, <2>1, <2>2, <2>3, <2>4 DEF Answers!Answer
<1>2. CASE UNCHANGED answer
  BY <1>2 DEF answer, MappingInv, Answers!TypeOK, Answers!Public, Answers!Response, Wanted,
              Answers!Looks, Answers!URLs, Answers!ToSet, Answers!Mapped, Answers!Rewrite, Answers!Raw
<1> QED BY <1>1, <1>2, ReceiveStep, ReturnStep DEF Answers!Next

\* The invariant holds always.
LEMMA RewritingAlways == Answers!Spec => []MappingInv
<1>1. MappingInv /\ [Answers!Next]_Answers!vars => MappingInv'
  BY RewritingStep DEF Answers!vars, answer
<1> QED BY <1>1, RewritingInit, PTL DEF Answers!Spec

(****************************************************************************)
(* Whatever newapi answers and in whatever order the downloads return or    *)
(* fail, the client gets a public URL in the place of every source, and     *)
(* nothing else is changed (images.go:33-111, openai_images.go:13-63).      *)
(****************************************************************************)
THEOREM EveryImageAlwaysLocal == Answers!Spec => []EveryImageLocal
<1>1. MappingInv => EveryImageLocal
  <2>1. MappingInv /\ pc = "saved" => Answers!Mapped = Wanted /\ out = Answers!Rewrite /\ Answers!TypeOK
    BY DEF MappingInv
  <2> QED BY <2>1, RewriteIs DEF EveryImageLocal, Answers!EveryImageLocal
<1> QED BY <1>1, RewritingAlways, PTL

-----------------------------------------------------------------------------
(* Allowlist, for addresses of any two lengths, any marker and any list.    *)

\* Lengths, and the two kinds of addresses, which have no member in common.
LEMMA Widths ==
    /\ W4 \in Nat /\ W6 \in Nat /\ 1 <= W4 /\ W4 < W6
    /\ Clients!MarkerLen \in Nat /\ Clients!MarkerLen = W6 - W4 /\ 1 <= Clients!MarkerLen
    /\ Clients!V4 \cap Clients!V6 = {}
<1>1. W4 \in Nat /\ W6 \in Nat /\ 1 <= W4 /\ W4 < W6
  BY WidthsAssumption
<1>2. ASSUME NEW a \in Clients!V4, a \in Clients!V6 PROVE FALSE
  <2>1. DOMAIN a = 1..W4 /\ DOMAIN a = 1..W6
    BY <1>2 DEF Clients!V4, Clients!V6
  <2>2. W6 \in 1..W6 /\ W6 \notin 1..W4
    BY <1>1
  <2> QED BY <2>1, <2>2
<1> QED BY <1>1, <1>2 DEF Clients!MarkerLen

\* An unmapped address says the same as the address, and is not mapped.
LEMMA Unmapped ==
    ASSUME NEW a \in Clients!Addr
    PROVE  /\ Clients!Unmap(a) \in Clients!Addr
           /\ ~Clients!Is4In6(Clients!Unmap(a))
           /\ Clients!Embed(Clients!Unmap(a)) = Clients!Embed(a)
           /\ Clients!Embed(a) \in Clients!V6
           /\ Clients!Is4In6(Clients!Embed(a)) <=> Clients!Unmap(a) \in Clients!V4
<1> USE Widths DEF Clients!Addr
<1>1. CASE a \in Clients!V4
  <2>1. ~Clients!Is4In6(a) /\ Clients!Unmap(a) = a
    BY <1>1 DEF Clients!Is4In6, Clients!Unmap
  <2>2. ASSUME NEW i \in 1..W6, ~(i <= Clients!MarkerLen) PROVE a[i - Clients!MarkerLen] \in Clients!Bit
    <3>1. i - Clients!MarkerLen \in 1..W4
      BY <2>2
    <3> QED BY <1>1, <3>1 DEF Clients!V4
  <2>3. ASSUME NEW i \in 1..W6, i <= Clients!MarkerLen PROVE Marker[i] \in Clients!Bit
    BY <2>3, WidthsAssumption DEF Clients!Bit
  <2>4. Clients!Embed(a) \in Clients!V6
    BY <1>1, <2>2, <2>3 DEF Clients!Embed, Clients!V6
  <2>5. Clients!Is4In6(Clients!Embed(a))
    <3>1. \A i \in 1..Clients!MarkerLen : i \in 1..W6
      OBVIOUS
    <3> QED BY <1>1, <2>4, <3>1 DEF Clients!Is4In6, Clients!Embed
  <2> QED BY <1>1, <2>1, <2>4, <2>5
<1>2. CASE a \in Clients!V6 /\ Clients!Is4In6(a)
  <2> DEFINE u == [i \in 1..W4 |-> a[Clients!MarkerLen + i]]
  <2>1. \A i \in 1..W4 : a[Clients!MarkerLen + i] \in Clients!Bit
    <3>1. \A i \in 1..W4 : Clients!MarkerLen + i \in 1..W6
      OBVIOUS
    <3> QED BY <1>2, <3>1 DEF Clients!V6
  <2>2. Clients!Unmap(a) = u /\ u \in Clients!V4
    BY <1>2, <2>1 DEF Clients!Unmap, Clients!V4
  <2>3. a \notin Clients!V4 /\ Clients!Embed(a) = a
    BY <1>2 DEF Clients!Embed
  <2>4. ASSUME NEW i \in 1..W6
        PROVE  a[i] = IF i <= Clients!MarkerLen THEN Marker[i] ELSE u[i - Clients!MarkerLen]
    <3>1. CASE i <= Clients!MarkerLen
      BY <1>2, <3>1 DEF Clients!Is4In6
    <3>2. CASE ~(i <= Clients!MarkerLen)
      <4>1. i - Clients!MarkerLen \in 1..W4 /\ Clients!MarkerLen + (i - Clients!MarkerLen) = i
        BY <3>2
      <4> QED BY <3>2, <4>1
    <3> QED BY <3>1, <3>2
  <2>5. a = [i \in 1..W6 |-> IF i <= Clients!MarkerLen THEN Marker[i] ELSE u[i - Clients!MarkerLen]]
    BY <1>2, <2>4 DEF Clients!V6
  <2>6. Clients!Embed(u) = a
    BY <2>2, <2>5 DEF Clients!Embed
  <2> QED BY <1>2, <2>2, <2>3, <2>6 DEF Clients!Is4In6
<1>3. CASE a \in Clients!V6 /\ ~Clients!Is4In6(a)
  BY <1>3 DEF Clients!Unmap, Clients!Embed
<1> QED BY <1>1, <1>2, <1>3

\* Of an IPv4 address the embedding has the marker, then its own bits.
LEMMA EmbedBits ==
    ASSUME NEW a \in Clients!V4
    PROVE  /\ \A i \in 1..Clients!MarkerLen : Clients!Embed(a)[i] = Marker[i]
           /\ \A i \in 1..W4 : Clients!Embed(a)[Clients!MarkerLen + i] = a[i]
<1> USE Widths
<1>1. \A i \in 1..Clients!MarkerLen : i \in 1..W6 /\ i <= Clients!MarkerLen
  OBVIOUS
<1>2. \A i \in 1..W4 : /\ Clients!MarkerLen + i \in 1..W6 /\ ~(Clients!MarkerLen + i <= Clients!MarkerLen)
                       /\ (Clients!MarkerLen + i) - Clients!MarkerLen = i
  OBVIOUS
<1> QED BY <1>1, <1>2 DEF Clients!Embed

\* What an entry is made of, and the prefix it is parsed into: the same first bits.
LEMMA Parsed ==
    ASSUME NEW e \in Clients!Entry, NEW p \in Clients!ParseEntry(e)
    PROVE  /\ e.addr \in Clients!Addr /\ e.len # Clients!Bad
           /\ Clients!ParseEntry(e) = {p}
           /\ p.addr = Clients!Unmap(e.addr) /\ p.len \in 0..Clients!BitLen(p.addr)
           /\ Clients!Written(e) = IF p.addr \in Clients!V4 THEN Clients!MarkerLen + p.len ELSE p.len
<1> USE Widths DEF Clients!None, Clients!Bad
<1>1. e.addr \in Clients!Addr /\ (e.len = Clients!None \/ e.len \in 0..Clients!BitLen(e.addr))
  BY DEF Clients!Entry
<1>2. Clients!BitLen(e.addr) \in Nat
  BY DEF Clients!BitLen
<1>3. e.len # Clients!Bad /\ e.len \in Int
  BY <1>1, <1>2
<1> DEFINE q == Clients!Unmap(e.addr)
<1>4. q \in Clients!Addr /\ ~Clients!Is4In6(q)
  BY <1>1, Unmapped
<1>5. \/ e.addr \in Clients!V4 /\ q = e.addr
      \/ e.addr \notin Clients!V4 /\ Clients!Is4In6(e.addr) /\ q \in Clients!V4
      \/ e.addr \notin Clients!V4 /\ ~Clients!Is4In6(e.addr) /\ q = e.addr
  <2>1. CASE Clients!Is4In6(e.addr)
    <3>1. q \in Clients!Addr /\ q = [i \in 1..W4 |-> e.addr[Clients!MarkerLen + i]]
      BY <1>4, <2>1 DEF Clients!Unmap
    <3>2. q \notin Clients!V6
      <4>1. DOMAIN q = 1..W4 /\ W6 \notin 1..W4 /\ W6 \in 1..W6
        BY <3>1
      <4> HIDE DEF q
      <4> QED BY <4>1 DEF Clients!V6
    <3> QED BY <2>1, <3>1, <3>2 DEF Clients!Addr, Clients!Is4In6
  <2>2. CASE ~Clients!Is4In6(e.addr)
    BY <2>2 DEF Clients!Unmap
  <2> QED BY <2>1, <2>2
<1> HIDE DEF q
<1>6. CASE e.len = Clients!None
  <2>1. Clients!ParseEntry(e) = {[addr |-> q, len |-> Clients!BitLen(q)]}
    BY <1>6 DEF Clients!ParseEntry, q
  <2>2. p = [addr |-> q, len |-> Clients!BitLen(q)]
    BY <2>1
  <2>3. Clients!Written(e) = W6
    BY <1>6 DEF Clients!Written
  <2> QED BY <1>1, <1>3, <2>1, <2>2, <2>3 DEF Clients!BitLen, q
<1>7. CASE e.len # Clients!None
  <2>1. e.len \in 0..Clients!BitLen(e.addr)
    BY <1>1, <1>7
  <2>2. ~(Clients!Length(e) < 0)
    BY <1>3, <1>7 DEF Clients!ParseEntry
  <2>3. Clients!ParseEntry(e) = {[addr |-> q, len |-> Clients!Length(e)]}
    BY <1>3, <1>7, <2>2 DEF Clients!ParseEntry, q
  <2>4. p = [addr |-> q, len |-> Clients!Length(e)]
    BY <2>3
  <2>5. Clients!Written(e) = W6 - (Clients!BitLen(e.addr) - e.len)
    BY <1>7 DEF Clients!Written
  <2>6. /\ Clients!Length(e) \in 0..Clients!BitLen(q)
        /\ Clients!Written(e) = IF q \in Clients!V4 THEN Clients!MarkerLen + Clients!Length(e) ELSE Clients!Length(e)
    BY <1>5, <2>1, <2>2, <2>5 DEF Clients!Length, Clients!BitLen, Clients!Is4In6
  <2> QED BY <1>1, <1>3, <2>3, <2>4, <2>6 DEF q
<1> QED BY <1>6, <1>7

\* A parsed entry is good, and its prefix holds a peer exactly if the entry names it.
LEMMA EntryMeaning ==
    ASSUME NEW e \in Clients!Entry, NEW p \in Clients!ParseEntry(e)
    PROVE  /\ Clients!Good(e)
           /\ \A a \in Clients!Addr :
                 Clients!Holds(p, Clients!Unmap(a)) <=> Clients!Names(e, Clients!Embed(a))
<1> USE Widths
<1> DEFINE c == p.addr
           w == Clients!Written(e)
<1>1. /\ e.addr \in Clients!Addr /\ e.len # Clients!Bad
      /\ c = Clients!Unmap(e.addr) /\ p.len \in 0..Clients!BitLen(c)
      /\ w = IF c \in Clients!V4 THEN Clients!MarkerLen + p.len ELSE p.len
  BY Parsed
<1>2. /\ c \in Clients!Addr /\ ~Clients!Is4In6(c) /\ Clients!Embed(c) = Clients!Embed(e.addr)
      /\ Clients!Is4In6(Clients!Embed(e.addr)) <=> c \in Clients!V4
      /\ Clients!Embed(e.addr) \in Clients!V6
  BY <1>1, Unmapped
<1>3. p.len \in Nat /\ (c \in Clients!V4 => p.len <= W4) /\ (c \notin Clients!V4 => p.len <= W6)
  BY <1>1 DEF Clients!BitLen
\* Who agrees with a mapped entry has the marker.
<1>4. ASSUME c \in Clients!V4, NEW n \in Clients!V6, \A i \in 1..w : n[i] = Clients!Embed(e.addr)[i]
      PROVE  Clients!Is4In6(n)
  <2>1. \A i \in 1..Clients!MarkerLen : i \in 1..w
    BY <1>1, <1>3, <1>4
  <2>2. \A i \in 1..Clients!MarkerLen : Clients!Embed(e.addr)[i] = Marker[i]
    BY <1>2, <1>4 DEF Clients!Is4In6
  <2> QED BY <1>4, <2>1, <2>2 DEF Clients!Is4In6
<1>5. Clients!Good(e)
  <2>1. Clients!Embed(e.addr) \in Clients!Mapped => c \in Clients!V4
    BY <1>2 DEF Clients!Mapped
  <2> QED BY <1>1, <1>4, <2>1 DEF Clients!Good, Clients!Reach, Clients!Mapped
<1>6. ASSUME NEW a \in Clients!Addr
      PROVE  Clients!Holds(p, Clients!Unmap(a)) <=> Clients!Names(e, Clients!Embed(a))
  <2> DEFINE u == Clients!Unmap(a)
             n == Clients!Embed(a)
  <2>1. /\ u \in Clients!Addr /\ n = Clients!Embed(u) /\ n \in Clients!V6
        /\ Clients!Is4In6(n) <=> u \in Clients!V4
    BY Unmapped
  <2>2. Clients!Names(e, n) <=> /\ \A i \in 1..w : n[i] = Clients!Embed(c)[i]
                                /\ u \in Clients!V4 => c \in Clients!V4
    BY <1>2, <2>1 DEF Clients!Names, Clients!Reach, Clients!Mapped
  <2>3. Clients!Holds(p, u) <=> /\ c \in Clients!V4 <=> u \in Clients!V4
                                /\ p.len \in 0..Clients!BitLen(u)
                                /\ \A i \in 1..p.len : c[i] = u[i]
    BY DEF Clients!Holds
  <2> SUFFICES Clients!Holds(p, u) <=> Clients!Names(e, n)
    OBVIOUS
  <2> HIDE DEF u, n, c, w
  <2>4. CASE c \in Clients!V4 /\ u \in Clients!V4
    <3>1. /\ \A i \in 1..Clients!MarkerLen : n[i] = Clients!Embed(c)[i]
          /\ \A i \in 1..W4 : /\ n[Clients!MarkerLen + i] = u[i]
                              /\ Clients!Embed(c)[Clients!MarkerLen + i] = c[i]
      BY <2>1, <2>4, EmbedBits
    <3>2. ASSUME \A i \in 1..w : n[i] = Clients!Embed(c)[i], NEW i \in 1..p.len PROVE c[i] = u[i]
      <4>1. Clients!MarkerLen + i \in 1..w /\ i \in 1..W4
        BY <1>1, <1>3, <2>4
      <4> QED BY <3>1, <3>2, <4>1
    <3>3. ASSUME \A i \in 1..p.len : c[i] = u[i], NEW i \in 1..w PROVE n[i] = Clients!Embed(c)[i]
      <4>1. CASE i <= Clients!MarkerLen
        BY <3>1, <4>1
      <4>2. CASE ~(i <= Clients!MarkerLen)
        <5> DEFINE j == i - Clients!MarkerLen
        <5>1. j \in 1..p.len /\ j \in 1..W4 /\ Clients!MarkerLen + j = i
          BY <1>1, <1>3, <2>4, <4>2
        <5> HIDE DEF j
        <5> QED BY <3>1, <3>3, <5>1
      <4> QED BY <4>1, <4>2
    <3>4. p.len \in 0..Clients!BitLen(u)
      BY <1>3, <2>4 DEF Clients!BitLen
    <3> QED BY <2>2, <2>3, <2>4, <3>2, <3>3, <3>4
  <2>5. CASE c \in Clients!V4 /\ u \notin Clients!V4
    BY <1>2, <1>4, <2>1, <2>2, <2>3, <2>5
  <2>6. CASE c \notin Clients!V4 /\ u \in Clients!V4
    BY <2>2, <2>3, <2>6
  <2>7. CASE c \notin Clients!V4 /\ u \notin Clients!V4
    <3>1. n = u /\ Clients!Embed(c) = c
      BY <2>1, <2>7 DEF Clients!Embed
    <3>2. p.len \in 0..Clients!BitLen(u) /\ w = p.len
      BY <1>1, <1>3, <2>7 DEF Clients!BitLen
    <3> QED BY <2>2, <2>3, <2>7, <3>1, <3>2
  <2> QED BY <2>4, <2>5, <2>6, <2>7
<1> QED BY <1>5, <1>6

\* Of the prefixes that are always there, one holds a peer exactly if it is named as written.
LEMMA LoopbackMeaning ==
    /\ \A p \in Clients!Loopback : /\ p.addr \in Clients!Addr /\ ~Clients!Is4In6(p.addr)
                                   /\ p.len \in 0..Clients!BitLen(p.addr)
    /\ \A p \in Clients!Loopback, a \in Clients!Addr :
          Clients!Holds(p, Clients!Unmap(a)) <=> Clients!Embed(a) \in Clients!Reach(p)
<1> USE Widths
<1> DEFINE four == [i \in 1..W4 |-> IF i = 1 THEN Loop4 ELSE 0]
           six == [i \in 1..W6 |-> IF i = W6 THEN 1 ELSE 0]
           lo == [addr |-> four, len |-> 1]
           one == [addr |-> six, len |-> W6]
<1>1. Clients!Loopback = {lo, one}
  BY DEF Clients!Loopback
<1>2. four \in Clients!V4 /\ six \in Clients!V6
  BY WidthsAssumption DEF Clients!V4, Clients!V6, Clients!Bit
<1>3. ~Clients!Is4In6(six)
  <2>1. PICK i \in 1..Clients!MarkerLen : Marker[i] = 1
    BY WidthsAssumption
  <2>2. six[i] = 0
    OBVIOUS
  <2> QED BY <2>1, <2>2 DEF Clients!Is4In6
<1>4. ~Clients!Is4In6(four)
  BY <1>2 DEF Clients!Is4In6
<1> HIDE DEF four, six
<1>5. four \notin Clients!V6 /\ six \notin Clients!V4
  BY <1>2
<1>6. Clients!BitLen(four) = W4 /\ Clients!BitLen(six) = W6
  BY <1>2, <1>5 DEF Clients!BitLen
<1>7. lo \in Clients!Entry /\ one \in Clients!Entry
  BY <1>2, <1>6 DEF Clients!Entry, Clients!Addr
<1>8. lo \in Clients!ParseEntry(lo) /\ one \in Clients!ParseEntry(one)
  BY <1>3, <1>4 DEF Clients!ParseEntry, Clients!Length, Clients!Unmap, Clients!None, Clients!Bad
<1>9. ASSUME NEW a \in Clients!Addr
      PROVE  /\ Clients!Holds(lo, Clients!Unmap(a)) <=> Clients!Names(lo, Clients!Embed(a))
             /\ Clients!Holds(one, Clients!Unmap(a)) <=> Clients!Names(one, Clients!Embed(a))
             /\ Clients!Embed(a) \in Clients!V6
  BY <1>7, <1>8, EntryMeaning, Unmapped
<1>10. ASSUME NEW n \in Clients!V6 PROVE Clients!Names(lo, n) <=> n \in Clients!Reach(lo)
  <2>1. Clients!Embed(four) \in Clients!Mapped
    BY <1>2, <1>4, Unmapped DEF Clients!Mapped, Clients!Addr, Clients!Unmap
  <2> QED BY <2>1 DEF Clients!Names
<1>11. ASSUME NEW n \in Clients!V6 PROVE Clients!Names(one, n) <=> n \in Clients!Reach(one)
  <2>1. ASSUME n \in Clients!Reach(one) PROVE n \notin Clients!Mapped
    <3>1. Clients!Written(one) = W6 /\ Clients!Embed(six) = six
      BY <1>5, <1>6 DEF Clients!Written, Clients!None, Clients!Embed
    <3>2. \A i \in 1..W6 : n[i] = six[i]
      BY <2>1, <3>1 DEF Clients!Reach
    <3>3. \A i \in 1..Clients!MarkerLen : n[i] = six[i]
      BY <3>2
    <3> QED BY <1>2, <1>3, <3>3 DEF Clients!Mapped, Clients!Is4In6
  <2> QED BY <2>1 DEF Clients!Names
<1>12. \A p \in Clients!Loopback : /\ p.addr \in Clients!Addr /\ ~Clients!Is4In6(p.addr)
                                   /\ p.len \in 0..Clients!BitLen(p.addr)
  BY <1>1, <1>2, <1>3, <1>4, <1>6 DEF Clients!Addr
<1>13. ASSUME NEW a \in Clients!Addr
       PROVE  /\ Clients!Holds(lo, Clients!Unmap(a)) <=> Clients!Embed(a) \in Clients!Reach(lo)
              /\ Clients!Holds(one, Clients!Unmap(a)) <=> Clients!Embed(a) \in Clients!Reach(one)
  BY <1>9, <1>10, <1>11
<1> HIDE DEF lo, one
<1> QED BY <1>1, <1>12, <1>13

\* The prefixes are the loopback's and the read entries', all good unless the start ended;
\* the verdict on a peer is what these prefixes say.
PrefixesInv ==
    /\ Clients!TypeOK
    /\ state # "exit" => \A i \in 1..Len(entries) : /\ entries[i] \in Clients!Entry
                                                    /\ Clients!ParseEntry(entries[i]) # {}
    /\ \A p \in prefixes : \/ p \in Clients!Loopback
                           \/ \E i \in 1..Len(entries) : p \in Clients!ParseEntry(entries[i])
    /\ Clients!Loopback \subseteq prefixes
    /\ \A i \in 1..Len(entries) : Clients!ParseEntry(entries[i]) \subseteq prefixes
    /\ passed # "none" => /\ state = "serve" /\ peer \in Clients!Addr
                          /\ (passed = "passed") <=>
                                \E p \in prefixes : Clients!Holds(p, Clients!Unmap(peer))

\* No entry has been read: the prefixes are the loopback ones.
LEMMA PrefixesInit == Clients!Init => PrefixesInv
<1> SUFFICES ASSUME Clients!Init PROVE PrefixesInv
  OBVIOUS
<1> USE DEF Clients!Init
<1>1. Clients!TypeOK
  BY LoopbackMeaning DEF Clients!TypeOK
<1> QED BY <1>1 DEF PrefixesInv

\* An entry adds its own prefixes, or ends the start.
LEMMA ReadEntryKeeps == PrefixesInv /\ Clients!ReadEntry => PrefixesInv'
<1> SUFFICES ASSUME PrefixesInv, Clients!ReadEntry PROVE PrefixesInv'
  OBVIOUS
<1> USE DEF PrefixesInv
<1>1. PICK e \in Clients!Entry \cup {Clients!Malformed} :
          entries' = Append(entries, e) /\ Clients!Parse(e)
  BY DEF Clients!ReadEntry
<1>2. /\ state = "parse" /\ peer' = peer /\ passed' = passed
      /\ entries \in Seq(Clients!Entry \cup {Clients!Malformed})
  BY DEF Clients!ReadEntry, Clients!TypeOK
<1>3. /\ entries' \in Seq(Clients!Entry \cup {Clients!Malformed})
      /\ Len(entries') = Len(entries) + 1 /\ Len(entries) \in Nat
      /\ \A i \in 1..Len(entries) : entries'[i] = entries[i]
      /\ entries'[Len(entries')] = e
  BY <1>1, <1>2
<1>4. passed' = "none"
  BY <1>2 DEF Clients!TypeOK
<1>5. CASE /\ Clients!ParseEntry(e) # {}
           /\ prefixes' = prefixes \cup Clients!ParseEntry(e)
           /\ UNCHANGED state
  <2>1. e \in Clients!Entry
    <3>1. Clients!Malformed.len = Clients!Bad
      BY DEF Clients!Malformed
    <3>2. Clients!ParseEntry(Clients!Malformed) = {}
      BY <3>1 DEF Clients!ParseEntry, Clients!Bad, Clients!None
    <3> QED BY <1>5, <3>2
  <2>2. \A p \in Clients!ParseEntry(e) : p.addr \in Clients!Addr /\ ~Clients!Is4In6(p.addr)
                                         /\ p.len \in 0..Clients!BitLen(p.addr)
    BY <2>1, Parsed, Unmapped
  <2>3. Clients!TypeOK'
    BY <1>2, <1>3, <1>5, <2>2 DEF Clients!TypeOK
  <2>4. \A i \in 1..Len(entries') : i \in 1..Len(entries) \/ i = Len(entries')
    BY <1>3
  <2>5. \A i \in 1..Len(entries') : entries'[i] \in Clients!Entry /\ Clients!ParseEntry(entries'[i]) # {}
    BY <1>2, <1>3, <1>5, <2>1, <2>4
  <2>6. ASSUME NEW p \in prefixes'
        PROVE  p \in Clients!Loopback \/ \E i \in 1..Len(entries') : p \in Clients!ParseEntry(entries'[i])
    <3>1. \A i \in 1..Len(entries) : i \in 1..Len(entries')
      BY <1>3
    <3>2. Len(entries') \in 1..Len(entries')
      BY <1>3
    <3> QED BY <1>3, <1>5, <3>1, <3>2
  <2>7. \A i \in 1..Len(entries') : Clients!ParseEntry(entries'[i]) \subseteq prefixes'
    BY <1>3, <1>5, <2>4
  <2> QED BY <1>4, <1>5, <2>3, <2>5, <2>6, <2>7
<1>6. CASE /\ Clients!ParseEntry(e) = {}
           /\ state' = "exit"
           /\ UNCHANGED prefixes
  <2>1. Clients!TypeOK'
    BY <1>2, <1>3, <1>6 DEF Clients!TypeOK
  <2>2. \A i \in 1..Len(entries') : i \in 1..Len(entries) \/ i = Len(entries')
    BY <1>3
  <2>3. \A i \in 1..Len(entries) : i \in 1..Len(entries')
    BY <1>3
  <2>4. \A p \in prefixes' : p \in Clients!Loopback \/ \E i \in 1..Len(entries') : p \in Clients!ParseEntry(entries'[i])
    BY <1>3, <1>6, <2>3
  <2>5. \A i \in 1..Len(entries') : Clients!ParseEntry(entries'[i]) \subseteq prefixes'
    BY <1>3, <1>6, <2>2
  <2> QED BY <1>4, <1>6, <2>1, <2>4, <2>5
<1> QED BY <1>1, <1>5, <1>6 DEF Clients!Parse

\* Reading the list and checking a peer keep the invariant.
LEMMA PrefixesStep == PrefixesInv /\ [Clients!Next]_clients => PrefixesInv'
<1> SUFFICES ASSUME PrefixesInv, [Clients!Next]_clients PROVE PrefixesInv'
  OBVIOUS
<1>1. CASE Clients!ReadEntry
  BY <1>1, ReadEntryKeeps
<1>2. CASE Clients!Serve
  BY <1>2 DEF PrefixesInv, Clients!Serve, Clients!TypeOK
<1>3. CASE Clients!AllowClients
  BY <1>3 DEF PrefixesInv, Clients!AllowClients, Clients!TypeOK
<1>4. CASE UNCHANGED clients
  BY <1>4 DEF PrefixesInv, clients, Clients!TypeOK
<1> QED BY <1>1, <1>2, <1>3, <1>4 DEF Clients!Next

\* What the prefixes say of a peer is what the entries, as written, say of it.
LEMMA PrefixesSay == PrefixesInv => AsWritten
<1> SUFFICES ASSUME PrefixesInv PROVE AsWritten
  OBVIOUS
<1> USE DEF PrefixesInv
<1>1. ASSUME state = "serve", NEW i \in 1..Len(entries)
      PROVE  /\ Clients!Good(entries[i])
             /\ \A p \in Clients!ParseEntry(entries[i]), a \in Clients!Addr :
                   Clients!Holds(p, Clients!Unmap(a)) <=> Clients!Names(entries[i], Clients!Embed(a))
             /\ Clients!ParseEntry(entries[i]) # {}
  <2>1. entries[i] \in Clients!Entry /\ Clients!ParseEntry(entries[i]) # {}
    BY <1>1
  <2> QED BY <2>1, EntryMeaning
<1>2. ASSUME passed = "passed"
      PROVE  \/ \E p \in Clients!Loopback : Clients!Embed(peer) \in Clients!Reach(p)
             \/ \E i \in 1..Len(entries) : Clients!Names(entries[i], Clients!Embed(peer))
  <2>1. PICK p \in prefixes : Clients!Holds(p, Clients!Unmap(peer))
    BY <1>2
  <2>2. state = "serve" /\ peer \in Clients!Addr
    BY <1>2
  <2>3. CASE p \in Clients!Loopback
    BY <2>1, <2>2, <2>3, LoopbackMeaning
  <2>4. CASE \E i \in 1..Len(entries) : p \in Clients!ParseEntry(entries[i])
    BY <1>1, <2>1, <2>2, <2>4
  <2> QED BY <2>3, <2>4
<1>3. ASSUME passed = "403"
      PROVE  /\ \A p \in Clients!Loopback : Clients!Embed(peer) \notin Clients!Reach(p)
             /\ \A i \in 1..Len(entries) : ~Clients!Names(entries[i], Clients!Embed(peer))
  <2>1. /\ state = "serve" /\ peer \in Clients!Addr
        /\ \A p \in prefixes : ~Clients!Holds(p, Clients!Unmap(peer))
    BY <1>3
  <2>2. \A p \in Clients!Loopback : Clients!Embed(peer) \notin Clients!Reach(p)
    BY <2>1, LoopbackMeaning
  <2>3. ASSUME NEW i \in 1..Len(entries) PROVE ~Clients!Names(entries[i], Clients!Embed(peer))
    <3>1. PICK p \in Clients!ParseEntry(entries[i]) : TRUE
      BY <1>1, <2>1
    <3>2. p \in prefixes
      OBVIOUS
    <3> QED BY <1>1, <2>1, <3>1, <3>2
  <2> QED BY <2>2, <2>3
<1> QED BY <1>1, <1>2, <1>3 DEF AsWritten, Clients!AsWritten

\* The invariant holds always.
LEMMA PrefixesAlways == Clients!Spec => []PrefixesInv
<1>1. Clients!vars = clients
  BY DEF Clients!vars, clients
<1>2. PrefixesInv /\ [Clients!Next]_Clients!vars => PrefixesInv'
  BY <1>1, PrefixesStep DEF Clients!vars, clients
<1> QED BY <1>2, PrefixesInit, PTL DEF Clients!Spec

(****************************************************************************)
(* Whatever the list, the widths and the marker: a peer passes if and only  *)
(* if an entry names it in one of its two forms, and no bad entry is served.*)
(****************************************************************************)
THEOREM WrittenAlwaysMeant == Clients!Spec => []AsWritten
  BY PrefixesAlways, PrefixesSay, PTL

-----------------------------------------------------------------------------
(* The five together.                                                       *)

\* Each component of the plane starts as it does by itself.
LEMMA PlaneStart ==
    PlaneInit => SubmissionInit /\ Init /\ Disk!Init /\ Answers!Init /\ Clients!Init
BY DEF PlaneInit, Unused

\* A step of the plane is a step of one component and none of the others.
LEMMA PlaneStep ==
    ASSUME [PlaneNext]_<<sending, vars, disk, answer, clients>>
    PROVE  /\ [SubmissionNext]_sending /\ [Next]_vars
           /\ [Disk!Next]_Disk!vars /\ [Answers!Next]_Answers!vars /\ [Clients!Next]_Clients!vars
<1>1. Disk!vars = disk /\ Answers!vars = answer /\ Clients!vars = clients
  BY DEF Disk!vars, Answers!vars, Clients!vars, disk, answer, clients
<1>2. /\ disk' = disk => Disk!vars' = Disk!vars
      /\ answer' = answer => Answers!vars' = Answers!vars
      /\ clients' = clients => Clients!vars' = Clients!vars
  BY DEF Disk!vars, Answers!vars, Clients!vars, disk, answer, clients
<1> QED BY <1>2 DEF PlaneNext, Rest

(****************************************************************************)
(* What MCDataPlane shows of a component in its one instance is about that  *)
(* component's own specification: a behaviour of the plane is one of each.  *)
(****************************************************************************)
THEOREM PlaneComponents ==
    PlaneSpec => SubmissionSpec /\ Spec /\ Disk!Spec /\ Answers!Spec /\ Clients!Spec
BY PlaneStart, PlaneStep, PTL
   DEF PlaneSpec, SubmissionSpec, Spec, Disk!Spec, Answers!Spec, Clients!Spec

(****************************************************************************)
(* All five keep their types, whatever the constants: connections never     *)
(* outnumber the pool's bound, no sum of a limit leaves its width, no more  *)
(* is written than an image has, no more is free than there is.             *)
(****************************************************************************)
THEOREM PlaneTyping == PlaneSpec => []PlaneTypeOK
<1>1. SInv => SubmissionTypeOK
  BY DEF SInv
<1>2. BInv => TypeOK
  BY DEF BInv
<1>3. AloneInv => Disk!TypeOK
  BY DEF AloneInv
<1>4. MappingInv => Answers!TypeOK
  BY DEF MappingInv
<1>5. PrefixesInv => Clients!TypeOK
  BY DEF PrefixesInv
<1>6. SubmissionTypeOK /\ TypeOK /\ Disk!TypeOK /\ Answers!TypeOK /\ Clients!TypeOK => PlaneTypeOK
  BY DEF PlaneTypeOK
<1> QED
  BY <1>1, <1>2, <1>3, <1>4, <1>5, <1>6, PlaneComponents, SendingAlways, ReadingAlways,
     DiskAlways, RewritingAlways, PrefixesAlways, PTL
=============================================================================
