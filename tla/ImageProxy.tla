------------------------------ MODULE ImageProxy -----------------------------
(****************************************************************************)
(* httpdata.Proxy.Image for one request, with upstream.Client.Do and the    *)
(* tee of requestbody.ObserveMultipart.  Requests share nothing here.       *)
(*                                                                          *)
(* The body of an edit is read by the HTTP transport's write loop through a *)
(* TeeReader: each piece goes into an io.Pipe, where it waits until the     *)
(* parser goroutine has taken it, and only then to the upstream.  The       *)
(* parser may stop before the body ends - at the final boundary, or at a    *)
(* part it cannot read - and then closes its end.  The handler waits for Do *)
(* and then for the parser's audit or the end of the client's connection.   *)
(* The body of a generation is read and parsed before Do.                   *)
(*                                                                          *)
(* A piece is what one Read returns.  net/http's transport and              *)
(* mime/multipart are modelled from how the code relies on them.            *)
(****************************************************************************)
EXTENDS Naturals

CONSTANT MaxPieces    \* bound on the length of a body

ASSUME MaxPiecesNat == MaxPieces \in Nat \ {0}

VARIABLES
    edit,       \* it is an edit (multipart), not a generation (JSON)
    body,       \* the client's body: see Bodies
    given,      \* pieces the write loop has read
    gone,       \* the client has disconnected: r.Context() is done
    hpc,        \* where the handler stands
    reply,      \* what the client is answered; "processed": Process is called
    audit,      \* the handler's audit: none yet, without Err, with Err
    writer,     \* the transport's write loop
    pipe,       \* the pipe's writing end: open, Close, CloseWithError
    parser,     \* the parser goroutine
    eaten,      \* pieces the parser has taken
    result,     \* the channel of capacity 1 the audit is sent on
    exchange,   \* client.Do: not called, running, returned
    conn,       \* the connection to the upstream
    sent        \* pieces the upstream has received

client == <<edit, body, gone>>
tee == <<given, writer, pipe, sent>>
parsing == <<parser, eaten, result>>
handler == <<hpc, reply, audit>>
vars == <<client, tee, parsing, handler, exchange, conn>>

\* The parser stops once it has taken piece stop, with an audit if the form is
\* complete there; stop = n + 1 when it needs the end of the body to stop.
Bodies == {b \in [n : 0..MaxPieces, stop : 1..MaxPieces + 1, complete : BOOLEAN] :
             b.stop <= b.n + 1 /\ (b.n = 0 => ~b.complete)}

TypeOK ==
    /\ edit \in BOOLEAN
    /\ body \in Bodies
    /\ given \in 0..body.n
    /\ gone \in BOOLEAN
    /\ hpc \in {"start", "do", "await", "read", "done"}
    /\ reply \in {"none", "400", "507", "502", "processed"}
    /\ audit \in {"none", "ok", "err"}
    /\ writer \in {"off", "copy", "offer", "send", "finished", "failed"}
    /\ pipe \in {"open", "eof", "broken"}
    /\ parser \in {"off", "read", "told", "closed"}
    /\ eaten \in 0..body.n
    /\ result \in {"none", "ok", "err"}
    /\ exchange \in {"none", "running", "answered", "failed"}
    /\ conn \in {"open", "cut"}
    /\ sent \in 0..body.n

Init ==
    /\ edit \in BOOLEAN
    /\ body \in Bodies
    /\ given = 0
    /\ gone = FALSE
    /\ hpc = "start"
    /\ reply = "none"
    /\ audit = "none"
    /\ writer = "off"
    /\ pipe = "open"
    /\ parser = "off"
    /\ eaten = 0
    /\ result = "none"
    /\ exchange = "none"
    /\ conn = "open"
    /\ sent = 0

Answers(code) == hpc' = "done" /\ reply' = code

-----------------------------------------------------------------------------
(* The handler.                                                             *)

\* 507: preflight failed.  400: not a multipart form, or JSON that ReadJSON refuses.
Refuse(code) ==
    /\ hpc = "start"
    /\ Answers(code)
    /\ UNCHANGED <<client, tee, parsing, audit, exchange, conn>>

\* ObserveMultipart starts the parser, or ReadJSON has read it all; then Do.
CallUpstream ==
    /\ hpc = "start"
    /\ hpc' = "do"
    /\ exchange' = "running"
    /\ writer' = "copy"
    /\ parser' = IF edit THEN "read" ELSE "off"
    /\ audit' = IF edit THEN "none" ELSE "ok"
    /\ UNCHANGED <<client, given, pipe, sent, eaten, result, reply, conn>>

\* Past Do and, for an edit, past the select: 502, or on to the response.
PastDo == IF exchange = "failed" THEN Answers("502") ELSE hpc' = "read" /\ UNCHANGED reply

DoReturns ==
    /\ hpc = "do"
    /\ exchange \in {"answered", "failed"}
    /\ IF edit THEN hpc' = "await" /\ UNCHANGED reply ELSE PastDo
    /\ UNCHANGED <<client, tee, parsing, audit, exchange, conn>>

\* case a := <-observed
TakeAudit ==
    /\ hpc = "await"
    /\ result # "none"
    /\ audit' = result
    /\ PastDo
    /\ UNCHANGED <<client, tee, parsing, exchange, conn>>

\* case <-ctx.Done()
GiveUpAudit ==
    /\ hpc = "await"
    /\ gone
    /\ audit' = "err"
    /\ PastDo
    /\ UNCHANGED <<client, tee, parsing, exchange, conn>>

\* readLimited, then Process; 502 when the response breaks off or is too long.
ReadResponse(code) ==
    /\ hpc = "read"
    /\ Answers(code)
    /\ UNCHANGED <<client, tee, parsing, audit, exchange, conn>>

HandlerStep == \/ DoReturns \/ TakeAudit \/ GiveUpAudit
               \/ \E code \in {"processed", "502"} : ReadResponse(code)

-----------------------------------------------------------------------------
(* The write loop, reading through observedBody and the TeeReader.          *)

\* Mutation: the pipe is left open.
BreaksSilently == writer' = "failed" /\ UNCHANGED pipe /\ conn' = "cut"

\* A broken body: CloseWithError on the pipe, and the transport drops the connection.
Breaks == writer' = "failed" /\ pipe' = "broken" /\ conn' = "cut"

\* Mutation: reads on at the end.
ReadPiecePastEnd ==
    /\ writer = "copy"
    /\ given' = given + 1
    /\ writer' = IF edit THEN "offer" ELSE "send"
    /\ UNCHANGED <<client, pipe, sent, parsing, handler, exchange, conn>>

ReadPiece ==
    /\ writer = "copy"
    /\ given < body.n
    /\ given' = given + 1
    /\ writer' = IF edit THEN "offer" ELSE "send"
    /\ UNCHANGED <<client, pipe, sent, parsing, handler, exchange, conn>>

\* The source's io.EOF: writer.Close, and the upstream sees the end of the body.
ReadEnd ==
    /\ writer = "copy"
    /\ given = body.n
    /\ writer' = "finished"
    /\ pipe' = "eof"
    /\ UNCHANGED <<client, given, sent, parsing, handler, exchange, conn>>

\* Mutation: every error of the source is taken for its end.
ReadErrorAsEnd ==
    /\ writer = "copy"
    /\ edit
    /\ gone \/ hpc = "done"
    /\ given < body.n
    /\ writer' = "finished"
    /\ pipe' = "eof"
    /\ UNCHANGED <<client, given, sent, parsing, handler, exchange, conn>>

\* The client is gone, or the server has closed the body of an answered request.
ReadError ==
    /\ writer = "copy"
    /\ edit
    /\ gone \/ hpc = "done"
    /\ given < body.n
    /\ Breaks
    /\ UNCHANGED <<client, given, sent, parsing, handler, exchange>>

\* The parser has closed its end: Write returns io.ErrClosedPipe, and so does Read.
PieceRefused ==
    /\ writer = "offer"
    /\ parser = "closed"
    /\ Breaks
    /\ UNCHANGED <<client, given, sent, parsing, handler, exchange>>

Send ==
    /\ writer = "send"
    /\ conn = "open"
    /\ sent' = sent + 1
    /\ writer' = "copy"
    /\ UNCHANGED <<client, given, pipe, parsing, handler, exchange, conn>>

\* The connection is gone: the transport closes the body.
SendFails ==
    /\ writer = "send"
    /\ conn = "cut"
    /\ Breaks
    /\ UNCHANGED <<client, given, sent, parsing, handler, exchange>>

WriteStep == ReadEnd \/ PieceRefused \/ SendFails

-----------------------------------------------------------------------------
(* The parser goroutine.                                                    *)

Tells(what) == parser' = "told" /\ result' = what

Verdict == IF body.complete THEN "ok" ELSE "err"

TakePiece ==
    /\ parser = "read"
    /\ writer = "offer"
    /\ eaten' = eaten + 1
    /\ writer' = "send"
    /\ IF eaten' = body.stop THEN Tells(Verdict) ELSE UNCHANGED <<parser, result>>
    /\ UNCHANGED <<client, given, pipe, sent, handler, exchange, conn>>

\* Mutation: an error on the pipe is taken for the end of the form.
PipeEndsQuietly ==
    /\ parser = "read"
    /\ pipe # "open"
    /\ Tells(Verdict)
    /\ UNCHANGED <<client, tee, eaten, handler, exchange, conn>>

\* The pipe has ended: with the body's end, or with an error.
PipeEnds ==
    /\ parser = "read"
    /\ pipe # "open"
    /\ Tells(IF pipe = "eof" THEN Verdict ELSE "err")
    /\ UNCHANGED <<client, tee, eaten, handler, exchange, conn>>

\* reader.Close(), after the audit was sent.
CloseReader ==
    /\ parser = "told"
    /\ parser' = "closed"
    /\ UNCHANGED <<client, tee, eaten, result, handler, exchange, conn>>

ParserStep == TakePiece \/ PipeEnds \/ CloseReader

-----------------------------------------------------------------------------
(* The upstream, the timeout and the client.                                *)

\* Response headers, which may come before the upstream has read the body.
UpstreamAnswers ==
    /\ exchange = "running"
    /\ conn = "open"
    /\ exchange' = "answered"
    /\ UNCHANGED <<client, tee, parsing, handler, conn>>

DoFails ==
    /\ exchange = "running"
    /\ conn = "cut"
    /\ exchange' = "failed"
    /\ UNCHANGED <<client, tee, parsing, handler, conn>>

\* The upstream closes it, UPSTREAM_TIMEOUT expires, or the request's ctx ends.
ConnEnds ==
    /\ exchange # "none"
    /\ conn = "open"
    /\ conn' = "cut"
    /\ UNCHANGED <<client, tee, parsing, handler, exchange>>

Disconnect ==
    /\ hpc \in {"do", "await", "read"}
    /\ ~gone
    /\ gone' = TRUE
    /\ UNCHANGED <<edit, body, tee, parsing, handler, exchange, conn>>

Terminating == /\ hpc = "done"
               /\ writer \in {"off", "finished", "failed"}
               /\ parser \in {"off", "closed"}
               /\ UNCHANGED vars

-----------------------------------------------------------------------------
Next ==
    \/ \E code \in {"400", "507"} : Refuse(code)
    \/ CallUpstream \/ HandlerStep
    \/ ReadPiece \/ ReadError \/ Send \/ WriteStep
    \/ ParserStep
    \/ UpstreamAnswers \/ DoFails \/ ConnEnds \/ Disconnect
    \/ Terminating

Spec == Init /\ [][Next]_vars

\* Goroutines that can run do; UPSTREAM_TIMEOUT ends the exchange even when the
\* upstream neither reads nor answers; a client sends its body or goes away.
\* (The server has no ReadTimeout: without the last, nothing below would end.)
Fairness ==
    /\ WF_vars(HandlerStep)
    /\ WF_vars(WriteStep)
    /\ WF_vars(ParserStep)
    /\ WF_vars(DoFails)
    /\ WF_vars(ConnEnds)
    /\ WF_vars(ReadPiece \/ ReadError)

FairSpec == Spec /\ Fairness

-----------------------------------------------------------------------------
(****************************************************************************)
(* An audit without Err is that of the whole form: the parser never takes a *)
(* body cut short by a disconnect or a lost connection for a complete one.  *)
(****************************************************************************)
AuditWhole ==
    edit /\ audit = "ok" =>
        /\ body.complete
        /\ eaten = IF body.stop <= body.n THEN body.stop ELSE body.n

(****************************************************************************)
(* The upstream never receives a piece of an edit the parser has not taken, *)
(* and sees the end of a body only after all of it: a client's disconnect   *)
(* never looks like the end of a shorter body.                              *)
(****************************************************************************)
NothingUnseen == /\ edit => sent <= eaten
                 /\ writer = "finished" => sent = body.n

(****************************************************************************)
(* Every handler answers, and no parser goroutine is left behind, whenever  *)
(* the parser, the client or the upstream stops first.                      *)
(****************************************************************************)
HandlerReturns == hpc = "do" ~> hpc = "done"
ParserLeaves == parser = "read" ~> parser = "closed"
BothEnd == HandlerReturns /\ ParserLeaves

(****************************************************************************)
(* internal/httpdata/router_test.go:97 "upstream multipart bytes changed":  *)
(* observing a complete form does not disturb it - while the client and the *)
(* connection to the upstream last, its body is forwarded to the end.       *)
(****************************************************************************)
Broken == body.complete /\ writer # "failed" /\ writer' = "failed"
Undisturbed == [][Broken => gone \/ conn = "cut" \/ hpc = "done"]_vars
=============================================================================
