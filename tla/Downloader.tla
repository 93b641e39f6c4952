------------------------------ MODULE Downloader -----------------------------
(****************************************************************************)
(* image.Downloader: many Download calls share a semaphore of Workers slots *)
(* and a policy that UpdatePolicy replaces while they run.  A call takes a  *)
(* snapshot of the policy, waits for a slot, and tries up to                *)
(* snapshot.attempts times with a pause in between; it keeps its slot       *)
(* through the pauses and gives it back on every way out.                   *)
(*                                                                          *)
(* What Storage.Save does to the disk is in ImageStore; here a Save that    *)
(* fails is one of the final failures of an attempt.                        *)
(****************************************************************************)
EXTENDS Naturals, FiniteSets, Sequences

CONSTANTS Call,        \* calls of Download
          Workers,     \* capacity of the semaphore (DOWNLOAD_WORKERS)
          Policies,    \* policies an administrator may set: [attempts, maxRedirects]
          MaxUpdates   \* bound on the number of UpdatePolicy calls

\* LoadRuntime lets only such policies through (runtime.go:36, :48).
ASSUME PoliciesAssumption ==
    Policies \subseteq [attempts : 1..10, maxRedirects : 0..20] /\ Policies # {}
ASSUME WorkersAssumption == Workers \in Nat \ {0}
ASSUME MaxUpdatesAssumption == MaxUpdates \in Nat
ASSUME CallFinite == IsFiniteSet(Call)

VARIABLES
    policy,     \* d.policy, under d.mu
    updates,    \* UpdatePolicy calls so far
    slots,      \* len(d.semaphore)
    pc,         \* pc[c]: where call c stands
    snap,       \* snap[c]: its policy, once it has taken one
    hops,       \* hops[c]: redirects followed in the current attempt
    log,        \* log[c]: outcomes of its attempts: result.Attempts
    result,     \* result[c]: what it returned
    done        \* calls whose ctx is done

vars == <<policy, updates, slots, pc, snap, hops, log, result, done>>

\* Outcome of one attempt (once): the third kind is not retried.
Outcome == {"ok", "retry", "final"}

TypeOK ==
    /\ policy \in Policies
    /\ updates \in 0..MaxUpdates
    /\ slots \in 0..Workers
    /\ pc \in [Call -> {"idle", "wait", "attempt", "backoff", "returned"}]
    /\ snap \in [Call -> Policies]
    /\ hops \in [Call -> 0..20]
    /\ log \in [Call -> Seq(Outcome)]
    /\ result \in [Call -> {"none", "stored", "failed", "rejected", "cancelled"}]
    /\ done \subseteq Call

Init ==
    /\ policy \in Policies
    /\ updates = 0
    /\ slots = 0
    /\ pc = [c \in Call |-> "idle"]
    /\ snap = [c \in Call |-> policy]
    /\ hops = [c \in Call |-> 0]
    /\ log = [c \in Call |-> <<>>]
    /\ result = [c \in Call |-> "none"]
    /\ done = {}

Returns(c, what) == /\ pc' = [pc EXCEPT ![c] = "returned"]
                    /\ result' = [result EXCEPT ![c] = what]

\* The deferred receive from the semaphore.
Releases == slots' = slots - 1

\* snapshot(), then url.Parse and validate.
Start(c) ==
    /\ pc[c] = "idle"
    /\ snap' = [snap EXCEPT ![c] = policy]
    /\ \/ Returns(c, "rejected")
       \/ pc' = [pc EXCEPT ![c] = "wait"] /\ UNCHANGED result
    /\ UNCHANGED <<policy, updates, slots, hops, log, done>>

\* Mutation: no semaphore.
AcquireAlways(c) ==
    /\ pc[c] = "wait"
    /\ slots' = slots + 1
    /\ pc' = [pc EXCEPT ![c] = "attempt"]
    /\ UNCHANGED <<policy, updates, snap, hops, log, result, done>>

\* case d.semaphore <- struct{}{}
Acquire(c) ==
    /\ pc[c] = "wait"
    /\ slots < Workers
    /\ slots' = slots + 1
    /\ pc' = [pc EXCEPT ![c] = "attempt"]
    /\ UNCHANGED <<policy, updates, snap, hops, log, result, done>>

\* case <-ctx.Done() of the same select: no slot was taken.
CancelWait(c) ==
    /\ pc[c] = "wait"
    /\ c \in done
    /\ Returns(c, "cancelled")
    /\ UNCHANGED <<policy, updates, slots, snap, hops, log, done>>

\* The server redirects, and CheckRedirect allows one more hop.
Redirect(c) ==
    /\ pc[c] = "attempt"
    /\ c \notin done
    /\ hops[c] < snap[c].maxRedirects
    /\ hops' = [hops EXCEPT ![c] = @ + 1]
    /\ UNCHANGED <<policy, updates, slots, pc, snap, log, result, done>>

Attempts(c, outcome) ==
    /\ pc[c] = "attempt"
    /\ log' = [log EXCEPT ![c] = Append(@, outcome)]
    /\ hops' = [hops EXCEPT ![c] = 0]

\* 2xx and stored.
Succeed(c) ==
    /\ Attempts(c, "ok")
    /\ Returns(c, "stored")
    /\ Releases
    /\ UNCHANGED <<policy, updates, snap, done>>

\* Mutation: the current policy decides, not the snapshot.
FailRetryNow(c) ==
    /\ Attempts(c, "retry")
    /\ Len(log[c]) + 1 < policy.attempts
    /\ pc' = [pc EXCEPT ![c] = "backoff"]
    /\ UNCHANGED <<policy, updates, slots, snap, result, done>>

\* willRetry: network error, a refused or excess redirect, 408, 429 or 5xx, and
\* attempts left.
FailRetry(c) ==
    /\ Attempts(c, "retry")
    /\ Len(log[c]) + 1 < snap[c].attempts
    /\ pc' = [pc EXCEPT ![c] = "backoff"]
    /\ UNCHANGED <<policy, updates, slots, snap, result, done>>

\* Mutation: off by one.
GiveUpEarly(c) ==
    /\ Attempts(c, "retry")
    /\ Len(log[c]) + 2 >= snap[c].attempts
    /\ Returns(c, "failed")
    /\ Releases
    /\ UNCHANGED <<policy, updates, snap, done>>

\* ... and none left.
GiveUp(c) ==
    /\ Attempts(c, "retry")
    /\ Len(log[c]) + 1 >= snap[c].attempts
    /\ Returns(c, "failed")
    /\ Releases
    /\ UNCHANGED <<policy, updates, snap, done>>

\* Another status, too large, or not storable.
FailFinal(c) ==
    /\ Attempts(c, "final")
    /\ Returns(c, "failed")
    /\ Releases
    /\ UNCHANGED <<policy, updates, snap, done>>

\* timer.C: the next attempt.
Wake(c) ==
    /\ pc[c] = "backoff"
    /\ pc' = [pc EXCEPT ![c] = "attempt"]
    /\ UNCHANGED <<policy, updates, slots, snap, hops, log, result, done>>

\* Mutation: a way out that does not release the slot.
CancelBackoffLeaks(c) ==
    /\ pc[c] = "backoff"
    /\ c \in done
    /\ Returns(c, "cancelled")
    /\ UNCHANGED <<policy, updates, slots, snap, hops, log, done>>

CancelBackoff(c) ==
    /\ pc[c] = "backoff"
    /\ c \in done
    /\ Returns(c, "cancelled")
    /\ Releases
    /\ UNCHANGED <<policy, updates, snap, hops, log, done>>

\* The caller's context: its client disconnected.
Cancel(c) ==
    /\ pc[c] \in {"wait", "attempt", "backoff"}
    /\ c \notin done
    /\ done' = done \cup {c}
    /\ UNCHANGED <<policy, updates, slots, pc, snap, hops, log, result>>

UpdatePolicy(p) ==
    /\ updates < MaxUpdates
    /\ p # policy
    /\ policy' = p
    /\ updates' = updates + 1
    /\ UNCHANGED <<slots, pc, snap, hops, log, result, done>>

\* All calls made have returned.
Terminating == (\A c \in Call : pc[c] \in {"idle", "returned"}) /\ UNCHANGED vars

Attempt(c) == Succeed(c) \/ FailRetry(c) \/ GiveUp(c) \/ FailFinal(c)

Next == \/ \E c \in Call : \/ Start(c) \/ Acquire(c) \/ CancelWait(c) \/ Redirect(c) \/ Attempt(c)
                           \/ Wake(c) \/ CancelBackoff(c) \/ Cancel(c)
        \/ \E p \in Policies : UpdatePolicy(p)
        \/ Terminating

Spec == Init /\ [][Next]_vars

\* The client's Timeout ends each attempt, timers fire, and the channel serves
\* its senders in order, so a call that can take a slot does.
Fairness == \A c \in Call : /\ WF_vars(Acquire(c))
                            /\ WF_vars(Attempt(c))
                            /\ WF_vars(Wake(c))
                            /\ WF_vars(CancelWait(c))

FairSpec == Spec /\ Fairness

-----------------------------------------------------------------------------
(****************************************************************************)
(* The semaphore counts the calls between acquire and return, pauses        *)
(* included: no way out leaks a slot or gives one back twice.               *)
(****************************************************************************)
Holding == {c \in Call : pc[c] \in {"attempt", "backoff"}}
SlotsHeld == slots = Cardinality(Holding)

(****************************************************************************)
(* "A running download keeps the snapshot captured at its start"            *)
(* (downloader.go:83-84): a call never makes more attempts, or follows more *)
(* redirects in one, than the policy at its start allows, whatever updates  *)
(* come in between.                                                         *)
(****************************************************************************)
WithinSnapshot == \A c \in Call : /\ Len(log[c]) <= snap[c].attempts
                                  /\ hops[c] <= snap[c].maxRedirects

(****************************************************************************)
(* A call tries again only after a retryable failure, and one that was not  *)
(* cancelled gives up only on success, on a final failure, or with every    *)
(* attempt of its snapshot used: no retry is wasted and none is forgotten.  *)
(****************************************************************************)
RetriesJustified ==
    \A c \in Call :
        /\ \A k \in 1 .. Len(log[c]) - 1 : log[c][k] = "retry"
        /\ result[c] = "stored" <=> log[c] # <<>> /\ log[c][Len(log[c])] = "ok"
        /\ result[c] = "failed" => \/ log[c][Len(log[c])] = "final"
                                   \/ Len(log[c]) = snap[c].attempts

(****************************************************************************)
(* Every call returns: no slot is waited for for ever, and the retry loop   *)
(* ends.                                                                    *)
(****************************************************************************)
CallsReturn == \A c \in Call : pc[c] # "idle" ~> pc[c] = "returned"
=============================================================================
