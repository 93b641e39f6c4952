----------------------------- MODULE DiskSpace ------------------------------
(****************************************************************************)
(* The free space of the data directory's disk: Image asks Preflight before *)
(* it reads the request, and the images are written once newapi has         *)
(* answered; a retry from the admin pages does not ask.  Space is counted   *)
(* in units; each writer stores one image.                                  *)
(****************************************************************************)
EXTENDS Integers

CONSTANTS Request,    \* requests that generate an image
          Retry,      \* retries of a failed image by an administrator
          Size,       \* Size[w]: units of the image w writes
          Total,      \* units the disk has for the gateway
          MinFree     \* MIN_FREE_BYTES

Writer == Request \cup Retry

VARIABLES
    at,         \* where each writer stands; "full": it met a full disk
    used,       \* used[w]: units w's .part or final file takes
    free,       \* Statfs_t.Bavail * Bsize
    alone       \* writers no other writer has overlapped so far

vars == <<at, used, free, alone>>

\* In progress: from Preflight, or a retry's start, until the file is stored or gone.
Busy == {w \in Writer : at[w] \in {"admitted", "upstream", "writing"}}

TypeOK ==
    /\ at \in [Writer -> {"new", "admitted", "upstream", "writing", "stored", "full", "gone"}]
    /\ used \in [Writer -> Nat] /\ \A w \in Writer : used[w] <= Size[w]
    /\ free \in Nat
    /\ alone \subseteq Writer

Init ==
    /\ at = [w \in Writer |-> "new"]
    /\ used = [w \in Writer |-> 0]
    /\ free = Total
    /\ alone = Writer

Goes(w, from, to) == at[w] = from /\ at' = [at EXCEPT ![w] = to]

\* w begins: those in progress overlap with it.
Meets(w) == alone' = IF Busy = {} THEN alone ELSE alone \ (Busy \cup {w})

\* Mutation: the size of the disk instead of what is available.
OfDisk == Total

\* FreeBytes.
Available == free

Preflight(r) ==
    /\ Available >= MinFree
    /\ Goes(r, "new", "admitted")
    /\ Meets(r)
    /\ UNCHANGED <<used, free>>

\* 507.
Refused(r) == Available < MinFree /\ Goes(r, "new", "gone") /\ UNCHANGED <<used, free, alone>>

\* The request's body has been read, or is its parser's: Do.
CallUpstream(r) == Goes(r, "admitted", "upstream") /\ UNCHANGED <<used, free, alone>>

\* newapi's answer names an image.
Download(r) == Goes(r, "upstream", "writing") /\ UNCHANGED <<used, free, alone>>

\* retryImage.
BeginRetry(w) == Goes(w, "new", "writing") /\ Meets(w) /\ UNCHANGED <<used, free>>

\* io.Copy writes a unit.
Write(w) ==
    /\ at[w] = "writing" /\ used[w] < Size[w]
    /\ free > 0
    /\ used' = [used EXCEPT ![w] = @ + 1]
    /\ free' = free - 1
    /\ UNCHANGED <<at, alone>>

\* ENOSPC: Save removes the .part file, the image is FAILED.
WriteFails(w) ==
    /\ used[w] < Size[w] /\ free = 0
    /\ Goes(w, "writing", "full")
    /\ used' = [used EXCEPT ![w] = 0]
    /\ free' = free + used[w]
    /\ UNCHANGED alone

\* Renamed and committed.
Stores(w) == used[w] = Size[w] /\ Goes(w, "writing", "stored") /\ UNCHANGED <<used, free, alone>>

\* The client leaves, newapi fails, the transaction fails, or the image is deleted later.
Drops(w) ==
    /\ \E from \in {"admitted", "upstream", "writing", "stored"} : Goes(w, from, "gone")
    /\ used' = [used EXCEPT ![w] = 0]
    /\ free' = free + used[w]
    /\ UNCHANGED alone

Next ==
    \/ \E r \in Request : Preflight(r) \/ Refused(r) \/ CallUpstream(r) \/ Download(r)
    \/ \E w \in Retry : BeginRetry(w)
    \/ \E w \in Writer : Write(w) \/ WriteFails(w) \/ Stores(w) \/ Drops(w)

Spec == Init /\ [][Next]_vars

-----------------------------------------------------------------------------
(****************************************************************************)
(* The threshold serves a request that no other overlaps: its image, if no  *)
(* larger than the threshold, never meets a full disk.  (Requests that      *)
(* overlap pass the check together, and a retry passes none.)               *)
(****************************************************************************)
AloneIsSafe ==
    \A r \in Request : at[r] = "full" /\ Size[r] <= MinFree => r \notin alone
=============================================================================
