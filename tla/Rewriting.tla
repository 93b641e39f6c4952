------------------------------ MODULE Rewriting -----------------------------
(****************************************************************************)
(* What becomes of newapi's answer: Process parses it, downloads each       *)
(* distinct URL of data[*] in a goroutine of its own, which enters what it  *)
(* got under the mutex, and Rewrite replaces the URLs in a second pass over *)
(* the entries.  ImageStore has the files and rows of it, this module the   *)
(* body the client is sent.                                                 *)
(****************************************************************************)
EXTENDS Sequences, SequencesExt

CONSTANTS Source,     \* image URLs of newapi
          Bare,       \* an entry that is no object, or whose url is no text
          Empty,      \* the empty url
          MaxData     \* bound: the entries of data

VARIABLES
    resp,       \* newapi's answer: 2xx, its Content-Type is JSON, it parses, its entries
    pc,         \* "wait", "parse", "download", "saved"
    running,    \* sources whose goroutine runs
    mapping,    \* mapping[u]: the public URL for u, Empty before there is one
    failed,     \* sources whose image could not be downloaded
    status,     \* of the request row
    out         \* the body sent, as newapi wrote it or marshalled anew

vars == <<resp, pc, running, mapping, failed, status, out>>

Response == [success : BOOLEAN, json : BOOLEAN, parses : BOOLEAN,
             data : SeqOf(Source \cup {Bare, Empty}, MaxData)]

\* The public URL of a record made for u: each has an id of its own.
Public(u) == [image |-> u]

Raw == [marshalled |-> FALSE, data |-> resp.data]

TypeOK ==
    /\ resp \in Response
    /\ running \subseteq Source /\ failed \subseteq Source
    /\ mapping \in [Source -> [image : Source] \cup {Empty}]
    /\ \A u \in Source : mapping[u] \in {Empty, Public(u)}
    /\ pc \in {"wait", "parse", "download", "saved"}
    /\ status \in {"READY", "DEGRADED", "PARSE_FAILED"}
    /\ pc = "saved" => Len(out.data) = Len(resp.data)

Init ==
    /\ resp = [success |-> FALSE, json |-> FALSE, parses |-> FALSE, data |-> <<>>]
    /\ pc = "wait"
    /\ running = {} /\ failed = {}
    /\ mapping = [u \in Source |-> Empty]
    /\ status = "READY"
    /\ out = Raw

Looks == resp.success /\ resp.json

\* URLs, each once: Process starts one goroutine for each.
URLs(data) == ToSet(data) \cap Source

\* newapi answers.
Receive ==
    /\ pc = "wait"
    /\ pc' = "parse"
    /\ resp' \in Response
    /\ UNCHANGED <<running, mapping, failed, status, out>>

Parse ==
    /\ pc = "parse"
    /\ pc' = "download"
    /\ running' = IF Looks /\ resp.parses THEN URLs(resp.data) ELSE {}
    /\ status' = IF Looks /\ ~resp.parses THEN "PARSE_FAILED" ELSE status
    /\ UNCHANGED <<resp, mapping, failed, out>>

\* Mutation: the goroutines share one variable for the source.
DownloadedShared(u) ==
    /\ u \in running
    /\ running' = running \ {u}
    /\ mapping' = [mapping EXCEPT ![u] = Public(Last(SelectSeq(resp.data, LAMBDA v : v \in Source)))]
    /\ UNCHANGED <<resp, pc, failed, status, out>>

Downloaded(u) ==
    /\ u \in running
    /\ running' = running \ {u}
    /\ mapping' = [mapping EXCEPT ![u] = Public(u)]
    /\ UNCHANGED <<resp, pc, failed, status, out>>

\* A failed image has a record and a public URL, too: the placeholder's.
DownloadFailed(u) ==
    /\ u \in running
    /\ running' = running \ {u}
    /\ mapping' = [mapping EXCEPT ![u] = Public(u)]
    /\ failed' = failed \cup {u}
    /\ status' = "DEGRADED"
    /\ UNCHANGED <<resp, pc, out>>

Mapped == {u \in Source : mapping[u] # Empty}

\* Rewrite, if there is anything to rewrite.  Marshalling what was parsed does not fail.
Rewrite ==
    IF Mapped = {} THEN Raw
    ELSE [marshalled |-> TRUE,
          data |-> [i \in DOMAIN resp.data |-> IF resp.data[i] \in Mapped
                        THEN mapping[resp.data[i]] ELSE resp.data[i]]]

\* wg.Wait has returned; the row is stored and the client answered.
Answer ==
    /\ pc = "download" /\ running = {}
    /\ pc' = "saved"
    /\ out' = Rewrite
    /\ UNCHANGED <<resp, running, mapping, failed, status>>

Next == Receive \/ Parse \/ (\E u \in Source : Downloaded(u) \/ DownloadFailed(u)) \/ Answer

Spec == Init /\ [][Next]_vars

-----------------------------------------------------------------------------
(****************************************************************************)
(* The client of a successful answer is sent to the gateway for every       *)
(* image, however often it is named and whether it could be downloaded, at  *)
(* the place where newapi named it; an answer in which there is nothing to  *)
(* replace (an error, another type of content, b64_json, one that does not  *)
(* parse) goes through byte for byte.                                       *)
(****************************************************************************)
NamesImages == Looks /\ resp.parses /\ ToSet(resp.data) \cap Source # {}

EveryImageLocal ==
    pc = "saved" =>
        out = IF NamesImages
              THEN [marshalled |-> TRUE,
                    data |-> [i \in 1..Len(resp.data) |->
                                IF resp.data[i] \in Source THEN Public(resp.data[i]) ELSE resp.data[i]]]
              ELSE Raw
=============================================================================
