------------------------------- MODULE Gallery -------------------------------
(****************************************************************************)
(* What the gateway promises about the image URLs it hands out, with no     *)
(* files, rows, handlers or crashes: the URLs of one response appear all at *)
(* once, each showing the image or the placeholder; a placeholder may be    *)
(* repaired, an image never turns back into a placeholder; only a deletion  *)
(* takes a URL away, and for good; no client is told a URL that shows       *)
(* nothing yet.  ImageStore is shown to implement this module.              *)
(****************************************************************************)
CONSTANTS Req,     \* generation and edit requests
          Url      \* source URLs an upstream response may contain

VARIABLES life,    \* life[<<r, u>>]: what the local URL made for u in r shows
          told     \* the local URLs clients have received

gvars == <<life, told>>

Ids == Req \X Url

Init == /\ life = [i \in Ids |-> "none"]
        /\ told = {}

\* The URLs of response r appear: those in good show the image.
Publish(r, urls, good) ==
    /\ \A u \in Url : life[<<r, u>>] = "none"
    /\ life' = [i \in Ids |-> IF i \notin {r} \X urls THEN life[i]
                              ELSE IF i[2] \in good THEN "image" ELSE "placeholder"]
    /\ UNCHANGED told

\* The client of r receives the response that names them.
Deliver(r) ==
    /\ told' = told \cup {i \in {r} \X Url : life[i] # "none"}
    /\ UNCHANGED life

\* An administrator's retry succeeds.
Repair(i) ==
    /\ life[i] = "placeholder"
    /\ life' = [life EXCEPT ![i] = "image"]
    /\ UNCHANGED told

\* An administrator deletes an image, or a request with its images.
Remove(I) ==
    /\ life' = [i \in Ids |-> IF i \in I /\ life[i] # "none" THEN "gone" ELSE life[i]]
    /\ UNCHANGED told

Next == \/ \E r \in Req : \E urls \in SUBSET Url : \E good \in SUBSET urls :
               Publish(r, urls, good)
        \/ \E r \in Req : Deliver(r) \/ Remove({r} \X Url)
        \/ \E i \in Ids : Repair(i) \/ Remove({i})

Spec == Init /\ [][Next]_gvars

(****************************************************************************)
(* A URL a client holds always shows something, or was deleted.             *)
(****************************************************************************)
ToldShown == \A i \in told : life[i] # "none"
=============================================================================
