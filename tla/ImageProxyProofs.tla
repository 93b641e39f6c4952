-------------------------- MODULE ImageProxyProofs --------------------------
(****************************************************************************)
(* Proofs about ImageProxy, for bodies of any length and any final boundary.*)
(****************************************************************************)
EXTENDS ImageProxy, TLAPS

\* Before Do nothing has been read, parsed, sent or audited.
Quiet ==
    /\ hpc = "start" => exchange = "none"
    /\ hpc \in {"do", "await", "read"} => exchange # "none"
    /\ exchange = "none" => /\ writer = "off" /\ parser = "off" /\ audit = "none"
                            /\ given = 0 /\ sent = 0 /\ eaten = 0

\* Where the write loop stands says how far the upstream is behind what was read,
\* and that the pipe has ended exactly as the loop has.
Forwarded ==
    /\ writer \in {"off", "copy"} => sent = given
    /\ writer \in {"offer", "send"} => given = sent + 1
    /\ writer = "finished" => sent = given /\ given = body.n
    /\ writer = "failed" => sent <= given /\ given <= sent + 1
    /\ pipe = (CASE writer = "finished" -> "eof" [] writer = "failed" -> "broken" [] OTHER -> "open")

\* And how far the parser of an edit is: it is between the two.
Parsed ==
    /\ edit /\ writer \in {"off", "copy", "send", "finished"} => eaten = given
    /\ edit /\ writer = "offer" => eaten = sent
    /\ edit /\ writer = "failed" => sent <= eaten /\ eaten <= given
    /\ writer = "offer" \/ hpc = "await" \/ parser # "off" => edit
    /\ ~edit => eaten = 0

\* What the parser has told, and when: the whole form, or an error.
Whole == body.complete /\ eaten = IF body.stop <= body.n THEN body.stop ELSE body.n
Told ==
    /\ parser = "read" => eaten < body.stop
    /\ parser \in {"off", "read"} => result = "none"
    /\ result = "ok" => Whole
    /\ edit /\ audit = "ok" => result = "ok"

ProxyInv == TypeOK /\ Quiet /\ Forwarded /\ Parsed /\ Told

\* Bodies and their pieces are counted by numbers.
LEMMA Pieces ==
    ASSUME TypeOK
    PROVE  /\ body.n \in Nat /\ body.stop \in Nat /\ 1 <= body.stop /\ body.stop <= body.n + 1
           /\ body.complete \in BOOLEAN
           /\ given \in Nat /\ given <= body.n /\ eaten \in Nat /\ eaten <= body.n
           /\ sent \in Nat /\ sent <= body.n
<1>1. body \in Bodies
  BY DEF TypeOK
<1>2. /\ body.n \in 0..MaxPieces /\ body.stop \in 1..MaxPieces + 1 /\ body.stop <= body.n + 1
      /\ body.complete \in BOOLEAN
  BY <1>1 DEF Bodies
<1>3. body.n \in Nat /\ body.stop \in Nat /\ 1 <= body.stop
  BY <1>2, MaxPiecesNat
<1> QED BY <1>2, <1>3 DEF TypeOK

\* The invariant holds before the request is looked at.
LEMMA StartHolds == Init => ProxyInv
<1> SUFFICES ASSUME Init PROVE ProxyInv
  OBVIOUS
<1> USE DEF Init
<1>1. body.n \in Nat /\ body.stop \in Nat /\ 1 <= body.stop
  <2>1. body.n \in 0..MaxPieces /\ body.stop \in 1..MaxPieces + 1
    BY DEF Bodies
  <2> QED BY <2>1, MaxPiecesNat
<1>2. given \in 0..body.n /\ eaten \in 0..body.n /\ sent \in 0..body.n
  BY <1>1
<1>3. TypeOK
  BY <1>2 DEF TypeOK
<1> QED BY <1>1, <1>3 DEF ProxyInv, Quiet, Forwarded, Parsed, Told

\* A step of the handler, the upstream or the client moves no piece.
LEMMA Elsewhere ==
    ASSUME ProxyInv, TypeOK',
           UNCHANGED <<edit, body, tee, parsing>>,
           hpc' # "start", hpc' = "await" => edit,
           hpc' \in {"do", "await", "read"} => exchange' # "none",
           exchange' = "none" => exchange = "none" /\ audit' = "none",
           edit /\ audit' = "ok" => audit = "ok" \/ result = "ok"
    PROVE  ProxyInv'
<1> USE DEF ProxyInv, tee, parsing
<1>1. Quiet'
  BY DEF Quiet
<1>2. Forwarded'
  BY DEF Forwarded
<1>3. Parsed'
  BY DEF Parsed
<1>4. Told'
  BY DEF Told, Whole
<1> QED BY <1>1, <1>2, <1>3, <1>4

\* The handler's own steps that read nothing of the body.
LEMMA HandlerKeeps ==
    ASSUME ProxyInv, HandlerStep \/ \E code \in {"400", "507"} : Refuse(code)
    PROVE  ProxyInv'
<1>1. TypeOK /\ Quiet /\ Parsed
  BY DEF ProxyInv
<1>2. TypeOK'
  BY <1>1 DEF HandlerStep, Refuse, DoReturns, TakeAudit, GiveUpAudit, ReadResponse, Answers, PastDo,
              TypeOK, client, tee, parsing
<1>3. /\ UNCHANGED <<edit, body, tee, parsing, exchange>>
      /\ hpc' # "start" /\ (hpc' = "await" => edit)
      /\ audit' = audit \/ (hpc = "await" /\ audit' \in {result, "err"})
  BY DEF HandlerStep, Refuse, DoReturns, TakeAudit, GiveUpAudit, ReadResponse, Answers, PastDo, client
<1>4. exchange = "none" => audit' = "none"
  BY <1>1, <1>3 DEF Quiet
<1>5. hpc' # "done" => hpc \in {"do", "await", "read"}
  BY DEF HandlerStep, Refuse, DoReturns, TakeAudit, GiveUpAudit, ReadResponse, Answers, PastDo
<1> QED BY <1>1, <1>2, <1>3, <1>4, <1>5, Elsewhere DEF Quiet

\* Do: the transport and, for an edit, the parser start with nothing read.
LEMMA CallKeeps == ASSUME ProxyInv, CallUpstream PROVE ProxyInv'
<1> USE DEF ProxyInv, CallUpstream, client
<1>1. /\ given = 0 /\ sent = 0 /\ eaten = 0 /\ writer = "off" /\ parser = "off" /\ result = "none"
      /\ body.n \in Nat /\ body.stop \in Nat /\ 1 <= body.stop
  BY Pieces DEF Quiet, Told
<1>2. TypeOK'
  BY DEF TypeOK
<1>3. Quiet' /\ Forwarded' /\ Parsed'
  BY <1>1 DEF Quiet, Forwarded, Parsed
<1>4. Told'
  BY <1>1 DEF Told, Whole
<1> QED BY <1>2, <1>3, <1>4

\* The upstream, the timeout and the client.
LEMMA OutsideKeeps ==
    ASSUME ProxyInv, UpstreamAnswers \/ DoFails \/ ConnEnds \/ Disconnect
    PROVE  ProxyInv'
<1> USE DEF UpstreamAnswers, DoFails, ConnEnds, Disconnect, client, handler
<1>1. TypeOK' /\ TypeOK /\ Quiet /\ Parsed
  BY DEF ProxyInv, TypeOK, tee, parsing
<1>2. UNCHANGED <<edit, body, tee, parsing, hpc, audit>> /\ (exchange' = "none" => exchange = "none")
  OBVIOUS
<1>3. hpc # "start"
  BY <1>1 DEF Quiet
<1> QED BY <1>1, <1>2, <1>3, Elsewhere DEF Quiet, Parsed

\* The transport's next Read of the body.
LEMMA ReadPieceKeeps == ASSUME ProxyInv, ReadPiece PROVE ProxyInv'
<1> USE DEF ProxyInv, ReadPiece, client, handler, parsing
<1>1. /\ writer = "copy" /\ given < body.n /\ given' = given + 1 /\ sent' = sent /\ eaten' = eaten
      /\ body' = body /\ edit' = edit /\ given \in Nat /\ body.n \in Nat
  BY Pieces
<1>2. TypeOK'
  BY <1>1 DEF TypeOK
<1>3. Quiet'
  BY DEF Quiet
<1>4. Forwarded'
  BY <1>1, Pieces DEF Forwarded
<1>5. Parsed'
  BY <1>1 DEF Parsed, Forwarded
<1>6. Told'
  BY DEF Told, Whole
<1> QED BY <1>2, <1>3, <1>4, <1>5, <1>6

\* The body breaks, wherever the loop is.
LEMMA BreakKeeps == ASSUME ProxyInv, ReadError \/ PieceRefused \/ SendFails PROVE ProxyInv'
<1> USE DEF ProxyInv, ReadError, PieceRefused, SendFails, Breaks, client, handler, parsing
<1>1. /\ writer \in {"copy", "offer", "send"} /\ writer' = "failed" /\ pipe' = "broken"
      /\ UNCHANGED <<edit, body, given, sent, parsing, handler, exchange>>
  OBVIOUS
<1>2. TypeOK'
  BY DEF TypeOK
<1>3. Quiet'
  BY <1>1 DEF Quiet
<1>4. Forwarded'
  BY <1>1, Pieces DEF Forwarded
<1>5. Parsed'
  BY <1>1, Pieces DEF Parsed, Forwarded
<1>6. Told'
  BY DEF Told, Whole
<1> QED BY <1>2, <1>3, <1>4, <1>5, <1>6

\* The body ends, whole or cut short.
LEMMA ReadEndKeeps == ASSUME ProxyInv, ReadEnd PROVE ProxyInv'
<1> USE DEF ProxyInv, ReadEnd, client, handler, parsing
<1>1. TypeOK' /\ Quiet' /\ Forwarded'
  BY DEF TypeOK, Quiet, Forwarded
<1>2. Parsed' /\ Told'
  BY DEF Parsed, Told, Whole
<1> QED BY <1>1, <1>2

\* A piece goes to newapi.
LEMMA SendKeeps == ASSUME ProxyInv, Send PROVE ProxyInv'
<1> USE DEF ProxyInv, Send, client, handler, parsing
<1>1. TypeOK'
  BY Pieces DEF TypeOK, Forwarded
<1>2. Quiet' /\ Forwarded'
  BY Pieces DEF Quiet, Forwarded
<1>3. Parsed' /\ Told'
  BY DEF Parsed, Forwarded, Told, Whole
<1> QED BY <1>1, <1>2, <1>3

\* The parser takes a piece from the pipe.
LEMMA TakePieceKeeps == ASSUME ProxyInv, TakePiece PROVE ProxyInv'
<1> USE DEF ProxyInv, TakePiece, client, handler
<1>1. /\ parser = "read" /\ writer = "offer" /\ edit /\ result = "none"
      /\ eaten' = eaten + 1 /\ writer' = "send" /\ eaten = sent /\ given = sent + 1
      /\ UNCHANGED <<edit, body, given, pipe, sent, hpc, audit, exchange>>
  BY DEF Parsed, Forwarded, Told
<1>2. \/ eaten' = body.stop /\ parser' = "told" /\ result' = Verdict
      \/ eaten' # body.stop /\ UNCHANGED <<parser, result>>
  BY DEF Tells
<1>3. Verdict \in {"ok", "err"}
  BY DEF Verdict
<1>4. TypeOK'
  BY <1>1, <1>2, <1>3, Pieces DEF TypeOK
<1>5. Quiet' /\ Forwarded'
  BY <1>1, <1>2 DEF Quiet, Forwarded
<1>6. Parsed'
  BY <1>1, <1>2, Pieces DEF Parsed
<1>7. Told'
  BY <1>1, <1>2, Pieces DEF Told, Whole, Verdict
<1> QED BY <1>4, <1>5, <1>6, <1>7

\* The pipe ends: all of the body has come, or it broke.
LEMMA PipeEndsKeeps == ASSUME ProxyInv, PipeEnds \/ CloseReader PROVE ProxyInv'
<1> USE DEF ProxyInv, PipeEnds, CloseReader, Tells, client, tee, handler
<1>1. /\ UNCHANGED <<edit, body, given, writer, pipe, sent, eaten, hpc, audit, exchange>>
      /\ \/ parser = "read" /\ pipe # "open" /\ parser' = "told"
            /\ result' = (IF pipe = "eof" THEN Verdict ELSE "err")
         \/ parser = "told" /\ parser' = "closed" /\ result' = result
  OBVIOUS
<1>2. TypeOK'
  BY <1>1 DEF TypeOK, Verdict
<1>3. Quiet' /\ Forwarded' /\ Parsed'
  BY <1>1 DEF Quiet, Forwarded, Parsed
<1>4. Told'
  <2>1. pipe = "eof" => writer = "finished" /\ given = body.n
    BY DEF Forwarded
  <2>2. parser # "off" => edit
    BY DEF Parsed
  <2> QED BY <1>1, <2>1, <2>2, Pieces DEF Told, Whole, Parsed, Verdict
<1> QED BY <1>2, <1>3, <1>4

\* Every step keeps the invariant.
LEMMA StepKeeps == ProxyInv /\ [Next]_vars => ProxyInv'
<1> SUFFICES ASSUME ProxyInv, [Next]_vars PROVE ProxyInv'
  OBVIOUS
<1>1. CASE UNCHANGED vars
  BY <1>1 DEF vars, client, tee, parsing, handler, ProxyInv, TypeOK, Quiet, Forwarded, Parsed, Told, Whole
<1> QED
  BY <1>1, HandlerKeeps, CallKeeps, OutsideKeeps, ReadPieceKeeps, BreakKeeps, ReadEndKeeps, SendKeeps,
     TakePieceKeeps, PipeEndsKeeps
  DEF Next, WriteStep, ParserStep, Terminating

\* The invariant holds always.
LEMMA ProxyAlways == Spec => []ProxyInv
BY StartHolds, StepKeeps, PTL DEF Spec

(****************************************************************************)
(* Every reachable state of ImageProxy has the declared types: the loop     *)
(* never reads past the end of the body, nor the parser past what was read. *)
(****************************************************************************)
THEOREM ProxyTyping == Spec => []TypeOK
BY ProxyAlways, PTL DEF ProxyInv

(****************************************************************************)
(* An audit without Err is of the whole form (multipart.go:46-85,           *)
(* proxy.go:103-118): no disconnect, refusal or lost connection, wherever   *)
(* it comes, makes the parser take a cut body for a complete one.           *)
(****************************************************************************)
THEOREM AuditsAreWhole == Spec => []AuditWhole
<1>1. ProxyInv => AuditWhole
  BY DEF ProxyInv, Told, Whole, AuditWhole
<1> QED BY <1>1, ProxyAlways, PTL

(****************************************************************************)
(* The upstream gets only what the parser has taken, and the end of a body  *)
(* only after all of it, for bodies of any length.                          *)
(****************************************************************************)
THEOREM NothingPassesUnseen == Spec => []NothingUnseen
<1>1. ProxyInv => NothingUnseen
  BY Pieces DEF ProxyInv, TypeOK, Forwarded, Parsed, NothingUnseen
<1> QED BY <1>1, ProxyAlways, PTL
=============================================================================
