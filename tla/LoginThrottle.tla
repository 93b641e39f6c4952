--------------------------- MODULE LoginThrottle -----------------------------
(****************************************************************************)
(* admin.Auth.Login and its limit on failures: allowed and failed each take *)
(* a.mu, the slow password check runs between them without it, so several   *)
(* attempts of one host can be past allowed before the first one fails.     *)
(*                                                                          *)
(* An attempt is a POST /login; its name is used again when its failure, if *)
(* any, is off the list, so that the time failed appends can be named after *)
(* the attempt.  age counts how long ago that was, up to Window (15         *)
(* minutes: expired).                                                       *)
(****************************************************************************)
EXTENDS Naturals, FiniteSets

CONSTANTS Attempt,   \* names for POST /login requests
          Host,      \* remote hosts
          HostOf,    \* HostOf[a]: remoteHost(r.RemoteAddr)
          Limit,     \* 5 in the code
          Window     \* 15 minutes, in ticks

ASSUME AttemptFinite == IsFiniteSet(Attempt)
ASSUME HostOfType == HostOf \in [Attempt -> Host]
ASSUME LimitPositive == Limit \in Nat \ {0}
ASSUME WindowPositive == Window \in Nat \ {0}

VARIABLES
    checking,   \* the attempts past allowed, whose password is being checked
    failures,   \* failures[h]: the attempts whose times a.failures[h] holds
    age,        \* age[a]: ticks since failed appended a's time
    peak        \* peak[h]: the most attempts of h that were ever checking together

throttle == <<checking, failures, age, peak>>

ThrottleTypeOK ==
    /\ checking \subseteq Attempt
    /\ failures \in [Host -> SUBSET Attempt]
    /\ age \in [Attempt -> 0..Window]
    /\ peak \in [Host -> Nat]

ThrottleInit ==
    /\ checking = {}
    /\ failures = [h \in Host |-> {}]
    /\ age = [a \in Attempt |-> 0]
    /\ peak = [h \in Host |-> 0]

\* The times after cut.
Recent(h) == {a \in failures[h] : age[a] < Window}
CheckingOf(h) == {a \in checking : HostOf[a] = h}

\* allowed: the list becomes the recent times; fewer than the limit let a in.
Enters(a, room, kept) ==
    LET h == HostOf[a]
        together == Cardinality(CheckingOf(h)) + 1
    IN  /\ a \notin checking \cup Recent(h)
        /\ room
        /\ failures' = [failures EXCEPT ![h] = kept]
        /\ checking' = checking \cup {a}
        /\ peak' = [peak EXCEPT ![h] = IF together > @ THEN together ELSE @]
        /\ UNCHANGED age

\* Mutations: Limit failures let one more in; the list starts afresh.
AllowedAtLimit(a) == Enters(a, Cardinality(Recent(HostOf[a])) <= Limit, Recent(HostOf[a]))
AllowedForgets(a) == Enters(a, Cardinality(Recent(HostOf[a])) < Limit, {})

Allowed(a) == Enters(a, Cardinality(Recent(HostOf[a])) < Limit, Recent(HostOf[a]))

\* Mutation: a refused attempt counts as a failure too.
RefusedCounts(a) ==
    LET h == HostOf[a] IN
    /\ a \notin checking
    /\ Cardinality(Recent(h)) >= Limit
    /\ failures' = [failures EXCEPT ![h] = Recent(h) \cup {a}]
    /\ age' = [age EXCEPT ![a] = 0]
    /\ UNCHANGED <<checking, peak>>

\* "too many login attempts": the list is pruned, nothing is added.
Refused(a) ==
    LET h == HostOf[a] IN
    /\ a \notin checking
    /\ Cardinality(Recent(h)) >= Limit
    /\ failures' = [failures EXCEPT ![h] = Recent(h)]
    /\ UNCHANGED <<checking, age, peak>>

\* No such user, a failing query or a wrong password: failed appends the time.
Fails(a) ==
    /\ a \in checking
    /\ checking' = checking \ {a}
    /\ failures' = [failures EXCEPT ![HostOf[a]] = @ \cup {a}]
    /\ age' = [age EXCEPT ![a] = 0]
    /\ UNCHANGED peak

\* The password is right: a session, or an error storing it.  The list stays.
Succeeds(a) ==
    /\ a \in checking
    /\ checking' = checking \ {a}
    /\ UNCHANGED <<failures, age, peak>>

\* Mutation: expired failures age on.
AgingAll == {a \in Attempt : \E h \in Host : a \in failures[h]}

\* Time passes for every failure that has not expired.
Aging == {a \in Attempt : age[a] < Window /\ \E h \in Host : a \in failures[h]}

Tick ==
    /\ Aging # {}
    /\ age' = [a \in Attempt |-> IF a \in Aging THEN age[a] + 1 ELSE age[a]]
    /\ UNCHANGED <<checking, failures, peak>>

ThrottleNext ==
    \/ \E a \in Attempt : Allowed(a) \/ Refused(a) \/ Fails(a) \/ Succeeds(a)
    \/ Tick

ThrottleSpec == ThrottleInit /\ [][ThrottleNext]_throttle

\* Time passes, and a password check ends.
ThrottleFairness == WF_throttle(Tick) /\ \A a \in Attempt : WF_throttle(Fails(a) \/ Succeeds(a))

-----------------------------------------------------------------------------
(****************************************************************************)
(* What the limit is worth although its check and its count are two         *)
(* critical sections: a host never has more failures inside one window than *)
(* the limit and the attempts it once had past allowed at the same time,    *)
(* less one.  One attempt at a time cannot exceed the limit.                *)
(****************************************************************************)
OverrunBounded ==
    \A h \in Host : Cardinality(failures[h]) + Cardinality(CheckingOf(h)) < Limit + peak[h]

(****************************************************************************)
(* No step drops a failure younger than the window: not a success, not      *)
(* another attempt's pruning, not an attempt of another host.               *)
(****************************************************************************)
NotForgotten == [][\A h \in Host : Recent(h) \subseteq failures'[h]]_throttle

(****************************************************************************)
(* A host is locked out for a window at a time, not for good: however often *)
(* it tries while it is refused, it is let in again.                        *)
(****************************************************************************)
Blocked(h) == Cardinality(Recent(h)) >= Limit
LockoutEnds == \A h \in Host : Blocked(h) ~> ~Blocked(h)
=============================================================================
