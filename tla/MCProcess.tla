------------------------------ MODULE MCProcess ------------------------------
(****************************************************************************)
(* LoginThrottle, LifeCycle and RuntimeSettings for TLC, in one small       *)
(* instance: what the process keeps in memory.  They share no variable, so  *)
(* what one of them can do does not depend on the others, and one of them   *)
(* moves while the others are at their start: every behaviour of each is    *)
(* there, but not the product of their states.                              *)
(****************************************************************************)
EXTENDS LoginThrottle, LifeCycle, MCRuntimeSettings

CONSTANTS a1, b1, d1, d2

TwoHosts == [a \in Attempt |-> IF a = b1 THEN "h2" ELSE "h1"]
MCPlaneOf == [h \in Handler |-> IF h = a1 THEN "admin" ELSE "data"]

\* The accepted values are alike: one of them is the default.
ProcessInit == ThrottleInit /\ LifeInit /\ Init /\ \A k \in Key : stored[k] = 1

ProcessNext ==
    \/ LifeInit /\ Init /\ ThrottleNext /\ UNCHANGED <<life, vars>>
    \/ ThrottleInit /\ Init /\ LifeNext /\ UNCHANGED <<throttle, vars>>
    \/ ThrottleInit /\ LifeInit /\ Next /\ UNCHANGED <<throttle, life>>

ProcessSpec == ProcessInit /\ [][ProcessNext]_<<throttle, life, vars>>
                           /\ ThrottleFairness /\ LifeFairness

\* The types of all three.
ProcessTypeOK == ThrottleTypeOK /\ LifeTypeOK /\ TypeOK
=============================================================================
