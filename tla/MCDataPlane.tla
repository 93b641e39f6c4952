----------------------------- MODULE MCDataPlane -----------------------------
(****************************************************************************)
(* Submission, BodyLimits, DiskSpace, Rewriting and Allowlist for TLC, in   *)
(* one small instance: what the data plane does around the images.  They    *)
(* share no variable; one of them moves while the others are at their       *)
(* start, so every behaviour of each is there, but not the product of their *)
(* states.                                                                  *)
(****************************************************************************)
EXTENDS MCSubmission, BodyLimits

CONSTANTS Generating, Retrying, SizeOf,   \* DiskSpace's Request, Retry and Size
          small, fits, large, retry,      \* its writers here, by size
          Total, MinFree,
          Source, Bare, Empty, MaxData,
          W4, W6, Marker, Loop4, MaxList

\* A retry is of an image whose request has ended; sizes are counted in units.
ASSUME WritersAssumption ==
    /\ Generating \cap Retrying = {}
    /\ {Total, MinFree} \subseteq Nat
    /\ SizeOf \in [Generating \cup Retrying -> Nat]

\* IPv4 addresses are shorter than IPv6 addresses, and ::1 is not one of them.
ASSUME WidthsAssumption ==
    /\ {W4, W6} \subseteq Nat \ {0} /\ W4 < W6
    /\ Marker \in [1..(W6 - W4) -> {0, 1}] /\ \E i \in 1..(W6 - W4) : Marker[i] = 1
    /\ Loop4 \in {0, 1}

\* A source is a text that is not empty, and no URL of the gateway is.
ASSUME SourceAssumption == /\ Source \cap {Bare, Empty} = {} /\ Empty \notin [image : Source]
                           /\ MaxData \in Nat

VARIABLES stage, used, free, alone,
          resp, pc, running, mapping, failed, status, out,
          entries, prefixes, state, peer, passed

disk == <<stage, used, free, alone>>
answer == <<resp, pc, running, mapping, failed, status, out>>
clients == <<entries, prefixes, state, peer, passed>>

MCMarker == <<0, 1>>

MCSizeOf == [w \in {small, fits, large, retry} |-> CASE w = small -> 1
                                                     [] w \in {fits, retry} -> 2
                                                     [] w = large -> 3]

Disk == INSTANCE DiskSpace WITH Request <- Generating, Retry <- Retrying,
                                Size <- SizeOf, at <- stage
Answers == INSTANCE Rewriting
Clients == INSTANCE Allowlist WITH list <- entries, verdict <- passed

\* At the start, in one state: the others need no more than one.
Unsent == SubmissionInit /\ idle = 0
Unread == Init /\ kind = "request" /\ max = 1 /\ body.len = 0 /\ body.fate = "whole" /\ body.told = 0
Unused == Disk!Init /\ Answers!Init /\ Clients!Init

PlaneInit == SubmissionInit /\ Init /\ (Unsent \/ Unread) /\ Unused

\* No image need be asked for, no answer rewritten, no peer come.
Rest == ~Unused /\ UNCHANGED <<sending, vars, disk, answer, clients>>

PlaneNext ==
    \/ Unread /\ Unused /\ SubmissionNext /\ UNCHANGED <<vars, disk, answer, clients>>
    \/ Unsent /\ Unused /\ Next /\ UNCHANGED <<sending, disk, answer, clients>>
    \/ Unsent /\ Unread /\ Answers!Init /\ Clients!Init /\ Disk!Next /\ UNCHANGED <<sending, vars, answer, clients>>
    \/ Unsent /\ Unread /\ Disk!Init /\ Clients!Init /\ Answers!Next /\ UNCHANGED <<sending, vars, disk, clients>>
    \/ Unsent /\ Unread /\ Disk!Init /\ Answers!Init /\ Clients!Next /\ UNCHANGED <<sending, vars, disk, answer>>
    \/ Rest

PlaneSpec == PlaneInit /\ [][PlaneNext]_<<sending, vars, disk, answer, clients>>

-----------------------------------------------------------------------------
\* The types of all five.
PlaneTypeOK == SubmissionTypeOK /\ TypeOK /\ Disk!TypeOK /\ Answers!TypeOK /\ Clients!TypeOK

\* DiskSpace: the threshold of free space serves whom nobody overlaps.
AloneIsSafe == Disk!AloneIsSafe

\* Rewriting: the client is sent to the gateway for every image, and for nothing else.
EveryImageLocal == Answers!EveryImageLocal

\* Allowlist: a peer passes if and only if an entry, as written, names it.
AsWritten == Clients!AsWritten
==============================================================================
