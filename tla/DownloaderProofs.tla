--------------------------- MODULE DownloaderProofs --------------------------
(****************************************************************************)
(* Proofs about Downloader, for any finite set of calls, any number of      *)
(* slots, any policies and any number of policy changes.                    *)
(****************************************************************************)
EXTENDS Downloader, FiniteSetTheorems, TLAPS

\* A call that has not returned has attempts left, and only retryable failures
\* behind it; one that waits for a slot or has not begun has none at all.
InProgress(c) ==
    /\ result[c] = "none"
    /\ Len(log[c]) < snap[c].attempts
    /\ \A k \in 1..Len(log[c]) : log[c][k] = "retry"

\* A call that has returned is as RetriesJustified has it.
Returned(c) ==
    /\ Len(log[c]) <= snap[c].attempts
    /\ \A k \in 1 .. Len(log[c]) - 1 : log[c][k] = "retry"
    /\ result[c] # "none"
    /\ result[c] = "stored" <=> log[c] # <<>> /\ log[c][Len(log[c])] = "ok"
    /\ result[c] = "failed" =>
          log[c] # <<>> /\ (log[c][Len(log[c])] = "final" \/ Len(log[c]) = snap[c].attempts)

CallOK(c) ==
    /\ pc[c] \in {"idle", "wait"} => log[c] = <<>> /\ hops[c] = 0
    /\ IF pc[c] = "returned" THEN Returned(c) ELSE InProgress(c)
    /\ hops[c] <= snap[c].maxRedirects

DInv == TypeOK /\ SlotsHeld /\ \A c \in Call : CallOK(c)

\* Policies allow at least one attempt.
LEMMA PolicyShape ==
    \A p \in Policies : p.attempts \in 1..10 /\ p.maxRedirects \in 0..20
BY PoliciesAssumption

\* The invariant holds at the start.
LEMMA DInvInit == Init => DInv
<1> SUFFICES ASSUME Init PROVE DInv
  OBVIOUS
<1>1. TypeOK
  BY PoliciesAssumption, WorkersAssumption, MaxUpdatesAssumption DEF Init, TypeOK
<1>2. Holding = {}
  BY DEF Init, Holding
<1>3. SlotsHeld
  BY <1>2, FS_EmptySet DEF Init, SlotsHeld
<1>4. \A c \in Call : CallOK(c)
  BY PolicyShape DEF Init, CallOK, InProgress
<1> QED BY <1>1, <1>3, <1>4 DEF DInv

\* A call that takes a slot joins the holders.
LEMMA HoldsMore ==
    ASSUME DInv, NEW c \in Call, c \notin Holding, Holding' = Holding \cup {c}, slots' = slots + 1
    PROVE  SlotsHeld'
<1>1. IsFiniteSet(Holding)
  BY CallFinite, FS_Subset DEF Holding
<1>2. Cardinality(Holding \cup {c}) = Cardinality(Holding) + 1
  BY <1>1, FS_AddElement
<1> QED BY <1>2 DEF DInv, SlotsHeld

\* A call that returns its slot leaves them; the count was not zero.
LEMMA HoldsLess ==
    ASSUME DInv, NEW c \in Call, c \in Holding, Holding' = Holding \ {c}, slots' = slots - 1
    PROVE  SlotsHeld' /\ slots' \in 0..Workers
<1>1. IsFiniteSet(Holding)
  BY CallFinite, FS_Subset DEF Holding
<1>2. Cardinality(Holding \ {c}) = Cardinality(Holding) - 1
  BY <1>1, FS_RemoveElement
<1>3. Cardinality(Holding \ {c}) \in Nat
  BY <1>1, FS_Subset, FS_CardinalityType
<1>4. slots \in 0..Workers /\ slots = Cardinality(Holding)
  BY DEF DInv, TypeOK, SlotsHeld
<1>5. slots - 1 \in Nat
  BY <1>2, <1>3, <1>4
<1> QED BY <1>2, <1>4, <1>5, WorkersAssumption DEF SlotsHeld

\* Another outcome at the end of a call's log.
LEMMA LogGrows ==
    ASSUME NEW l \in Seq(Outcome), NEW x \in Outcome
    PROVE  /\ Append(l, x) \in Seq(Outcome)
           /\ Append(l, x) # <<>>
           /\ Len(Append(l, x)) = Len(l) + 1
           /\ Append(l, x)[Len(l) + 1] = x
           /\ \A k \in 1..Len(l) : Append(l, x)[k] = l[k]
OBVIOUS

\* One outcome more: what holds of the calls after a step that ends an attempt.
LEMMA AttemptCall ==
    ASSUME DInv, NEW c \in Call, Attempt(c)
    PROVE  /\ \A d \in Call : CallOK(d)'
           /\ log' \in [Call -> Seq(Outcome)]
           /\ hops' \in [Call -> 0..20]
<1> USE DEF DInv, Attempt
<1>1. \E y \in Outcome : log' = [log EXCEPT ![c] = Append(@, y)]
  BY DEF Succeed, FailRetry, GiveUp, FailFinal, Attempts, Outcome
<1>2. pc[c] = "attempt" /\ hops' = [hops EXCEPT ![c] = 0] /\ UNCHANGED snap
  BY DEF Succeed, FailRetry, GiveUp, FailFinal, Attempts
<1>3. /\ log \in [Call -> Seq(Outcome)] /\ hops \in [Call -> 0..20] /\ snap \in [Call -> Policies]
      /\ pc \in [Call -> {"idle", "wait", "attempt", "backoff", "returned"}]
      /\ result \in [Call -> {"none", "stored", "failed", "rejected", "cancelled"}]
  BY DEF TypeOK
<1>4. log' \in [Call -> Seq(Outcome)]
  BY <1>1, <1>3, LogGrows
<1>5. hops' \in [Call -> 0..20] /\ hops'[c] = 0 /\ snap'[c] = snap[c]
  BY <1>2, <1>3
<1>6. snap[c].attempts \in 1..10 /\ snap[c].maxRedirects \in 0..20
  BY <1>3, PolicyShape
<1>7. InProgress(c)
  BY <1>2 DEF CallOK
<1>8. ASSUME NEW d \in Call, d # c PROVE CallOK(d)'
  <2>1. /\ pc'[d] = pc[d] /\ result'[d] = result[d] /\ log'[d] = log[d]
        /\ hops'[d] = hops[d] /\ snap'[d] = snap[d]
    BY <1>1, <1>2, <1>3, <1>8 DEF Succeed, FailRetry, GiveUp, FailFinal, Returns
  <2> QED BY <2>1 DEF CallOK, InProgress, Returned
<1>9. ASSUME NEW y \in Outcome, log'[c] = Append(log[c], y)
      PROVE  /\ log'[c] # <<>> /\ Len(log'[c]) = Len(log[c]) + 1
             /\ log'[c][Len(log'[c])] = y
             /\ \A k \in 1 .. Len(log'[c]) - 1 : log'[c][k] = "retry"
  BY <1>3, <1>7, <1>9, LogGrows DEF InProgress
<1>10. Len(log[c]) \in Nat /\ Len(log[c]) < snap[c].attempts
  BY <1>3, <1>7 DEF InProgress
<1>11. Len(log[c]) + 1 <= snap'[c].attempts
  <2> DEFINE n == Len(log[c])
             m == snap[c].attempts
  <2>1. n \in Nat /\ m \in Nat /\ n < m
    BY <1>6, <1>10
  <2>2. snap'[c].attempts = m
    BY <1>5
  <2> HIDE DEF n, m
  <2>3. n + 1 <= m
    BY <2>1
  <2> QED BY <2>2, <2>3 DEF n
<1>12. ASSUME pc'[c] = "returned", Returned(c)' PROVE CallOK(c)'
  BY <1>5, <1>6, <1>12 DEF CallOK
<1>13. CASE Succeed(c)
  <2>1. log'[c] = Append(log[c], "ok") /\ pc'[c] = "returned" /\ result'[c] = "stored"
    BY <1>3, <1>13 DEF Succeed, Attempts, Returns
  <2>2. /\ log'[c] # <<>> /\ Len(log'[c]) = Len(log[c]) + 1
        /\ log'[c][Len(log'[c])] = "ok"
        /\ \A k \in 1 .. Len(log'[c]) - 1 : log'[c][k] = "retry"
    BY <1>9, <2>1 DEF Outcome
  <2>3. Len(log'[c]) <= snap'[c].attempts
    BY <1>11, <2>2
  <2>4. Returned(c)'
    BY <2>1, <2>2, <2>3 DEF Returned
  <2> QED BY <1>4, <1>5, <1>8, <1>12, <2>1, <2>4
<1>14. CASE FailRetry(c)
  <2>1. /\ log'[c] = Append(log[c], "retry") /\ pc'[c] = "backoff" /\ result'[c] = "none"
        /\ Len(log[c]) + 1 < snap[c].attempts
    BY <1>3, <1>7, <1>14 DEF FailRetry, Attempts, InProgress
  <2>2. /\ Len(log'[c]) = Len(log[c]) + 1
        /\ log'[c][Len(log'[c])] = "retry"
        /\ \A k \in 1 .. Len(log'[c]) - 1 : log'[c][k] = "retry"
    BY <1>9, <2>1 DEF Outcome
  <2>3. \A k \in 1 .. Len(log'[c]) : log'[c][k] = "retry"
    BY <1>10, <2>2
  <2>4. Len(log'[c]) < snap'[c].attempts
    BY <1>5, <2>1, <2>2
  <2>5. InProgress(c)'
    BY <2>1, <2>3, <2>4 DEF InProgress
  <2>6. hops'[c] <= snap'[c].maxRedirects
    BY <1>5, <1>6
  <2>7. CallOK(c)'
    BY <2>1, <2>5, <2>6 DEF CallOK
  <2> QED BY <1>4, <1>5, <1>8, <2>7
<1>15. CASE GiveUp(c)
  <2>1. /\ log'[c] = Append(log[c], "retry") /\ pc'[c] = "returned" /\ result'[c] = "failed"
        /\ Len(log[c]) + 1 >= snap[c].attempts
    BY <1>3, <1>15 DEF GiveUp, Attempts, Returns
  <2>2. /\ log'[c] # <<>> /\ Len(log'[c]) = Len(log[c]) + 1
        /\ log'[c][Len(log'[c])] = "retry"
        /\ \A k \in 1 .. Len(log'[c]) - 1 : log'[c][k] = "retry"
    BY <1>9, <2>1 DEF Outcome
  <2>3. Len(log'[c]) = snap'[c].attempts /\ Len(log'[c]) <= snap'[c].attempts
    <3> DEFINE n == Len(log[c])
               m == snap[c].attempts
    <3>1. n \in Nat /\ m \in Nat /\ n < m /\ n + 1 >= m
      BY <1>6, <1>10, <2>1
    <3>2. Len(log'[c]) = n + 1 /\ snap'[c].attempts = m
      BY <1>5, <2>2
    <3> HIDE DEF n, m
    <3>3. n + 1 = m /\ m <= m
      BY <3>1
    <3> QED BY <3>2, <3>3
  <2>4. Returned(c)'
    BY <2>1, <2>2, <2>3 DEF Returned
  <2> QED BY <1>4, <1>5, <1>8, <1>12, <2>1, <2>4
<1>16. CASE FailFinal(c)
  <2>1. log'[c] = Append(log[c], "final") /\ pc'[c] = "returned" /\ result'[c] = "failed"
    BY <1>3, <1>16 DEF FailFinal, Attempts, Returns
  <2>2. /\ log'[c] # <<>> /\ Len(log'[c]) = Len(log[c]) + 1
        /\ log'[c][Len(log'[c])] = "final"
        /\ \A k \in 1 .. Len(log'[c]) - 1 : log'[c][k] = "retry"
    BY <1>9, <2>1 DEF Outcome
  <2>3. Len(log'[c]) <= snap'[c].attempts
    BY <1>11, <2>2
  <2>4. Returned(c)'
    BY <2>1, <2>2, <2>3 DEF Returned
  <2> QED BY <1>4, <1>5, <1>8, <1>12, <2>1, <2>4
<1> QED BY <1>13, <1>14, <1>15, <1>16

\* A step that moves no call into or out of its slot.
LEMMA HoldsSame ==
    ASSUME DInv, Holding' = Holding, slots' = slots
    PROVE  SlotsHeld'
BY DEF DInv, SlotsHeld

\* The calls a step of c does not touch are as they were.
LEMMA OthersKeep ==
    ASSUME DInv, NEW c \in Call, CallOK(c)',
           \A d \in Call : d # c => /\ pc'[d] = pc[d] /\ result'[d] = result[d]
                                    /\ log'[d] = log[d] /\ hops'[d] = hops[d]
                                    /\ snap'[d] = snap[d]
    PROVE  \A d \in Call : CallOK(d)'
<1> SUFFICES ASSUME NEW d \in Call, d # c PROVE CallOK(d)'
  OBVIOUS
<1>1. CallOK(d)
  BY DEF DInv
<1> QED BY <1>1 DEF CallOK, InProgress, Returned

\* The types, as facts.
LEMMA Types ==
    ASSUME DInv
    PROVE  /\ policy \in Policies /\ updates \in 0..MaxUpdates /\ slots \in 0..Workers
           /\ pc \in [Call -> {"idle", "wait", "attempt", "backoff", "returned"}]
           /\ snap \in [Call -> Policies] /\ hops \in [Call -> 0..20]
           /\ log \in [Call -> Seq(Outcome)]
           /\ result \in [Call -> {"none", "stored", "failed", "rejected", "cancelled"}]
           /\ done \subseteq Call
           /\ \A d \in Call : /\ snap[d].attempts \in 1..10 /\ snap[d].maxRedirects \in 0..20
                              /\ hops[d] \in 0..20 /\ Len(log[d]) \in Nat
BY PolicyShape DEF DInv, TypeOK

\* Start takes the snapshot of a call that has tried nothing yet.
LEMMA StartStep == ASSUME DInv, NEW c \in Call, Start(c) PROVE DInv'
<1>1. pc[c] = "idle" /\ InProgress(c) /\ log[c] = <<>> /\ hops[c] = 0
  BY DEF Start, DInv, CallOK
<1>2. TypeOK'
  BY Types DEF Start, Returns, TypeOK
<1>3. pc'[c] \in {"wait", "returned"} /\ \A d \in Call : d # c => pc'[d] = pc[d]
  BY Types DEF Start, Returns
<1>4. Holding' = Holding
  BY <1>1, <1>3 DEF Holding
<1>5. SlotsHeld'
  BY <1>4, HoldsSame DEF Start
<1>6. policy.attempts \in 1..10 /\ policy.maxRedirects \in 0..20 /\ snap'[c] = policy
  BY Types, PolicyShape DEF Start
<1>7. log'[c] = <<>> /\ hops'[c] = 0 /\ Len(log'[c]) = 0
  BY <1>1 DEF Start
<1>8. \/ pc'[c] = "returned" /\ result'[c] = "rejected"
      \/ pc'[c] = "wait" /\ result'[c] = "none"
  <2>1. result[c] = "none"
    BY <1>1 DEF InProgress
  <2>2. /\ pc \in [Call -> {"idle", "wait", "attempt", "backoff", "returned"}]
        /\ result \in [Call -> {"none", "stored", "failed", "rejected", "cancelled"}]
    BY Types
  <2>3. CASE Returns(c, "rejected")
    BY <2>2, <2>3 DEF Returns
  <2>4. CASE pc' = [pc EXCEPT ![c] = "wait"] /\ UNCHANGED result
    BY <2>1, <2>2, <2>4
  <2> QED BY <2>3, <2>4 DEF Start
<1>9. Len(log'[c]) < snap'[c].attempts /\ hops'[c] <= snap'[c].maxRedirects
      /\ \A k \in 1..Len(log'[c]) : log'[c][k] = "retry"
  BY <1>6, <1>7
<1>10. CallOK(c)'
  <2>1. CASE pc'[c] = "returned" /\ result'[c] = "rejected"
    <3>1. Returned(c)'
      BY <1>6, <1>7, <1>9, <2>1 DEF Returned
    <3> QED BY <1>9, <2>1, <3>1 DEF CallOK
  <2>2. CASE pc'[c] = "wait" /\ result'[c] = "none"
    <3>1. InProgress(c)'
      BY <1>9, <2>2 DEF InProgress
    <3> QED BY <1>7, <1>9, <2>2, <3>1 DEF CallOK
  <2> QED BY <1>8, <2>1, <2>2
<1>11. \A d \in Call : CallOK(d)'
  BY <1>3, <1>10, OthersKeep, Types DEF Start, Returns
<1> QED BY <1>2, <1>5, <1>11 DEF DInv

\* Acquire counts the slot it takes.
LEMMA AcquireStep == ASSUME DInv, NEW c \in Call, Acquire(c) PROVE DInv'
<1>1. pc[c] = "wait" /\ CallOK(c)
  BY DEF Acquire, DInv
<1>2. pc' = [pc EXCEPT ![c] = "attempt"] /\ slots < Workers /\ slots' = slots + 1
  BY DEF Acquire
<1>3. slots' \in 0..Workers
  BY <1>2, Types, WorkersAssumption
<1>4. TypeOK'
  BY <1>2, <1>3, Types DEF Acquire, TypeOK
<1>5. pc'[c] = "attempt" /\ \A d \in Call : d # c => pc'[d] = pc[d]
  BY <1>2, Types
<1>6. Holding' = Holding \cup {c} /\ c \notin Holding
  BY <1>1, <1>5 DEF Holding
<1>7. SlotsHeld'
  BY <1>2, <1>6, HoldsMore
<1>8. CallOK(c)'
  BY <1>1, <1>5 DEF Acquire, CallOK, InProgress
<1>9. \A d \in Call : CallOK(d)'
  BY <1>5, <1>8, OthersKeep DEF Acquire
<1> QED BY <1>4, <1>7, <1>9 DEF DInv

\* A call cancelled while it waits holds nothing.
LEMMA CancelWaitStep == ASSUME DInv, NEW c \in Call, CancelWait(c) PROVE DInv'
<1>1. pc[c] = "wait" /\ InProgress(c) /\ log[c] = <<>> /\ hops[c] <= snap[c].maxRedirects
  BY DEF CancelWait, DInv, CallOK
<1>2. TypeOK'
  BY Types DEF CancelWait, Returns, TypeOK
<1>3. pc'[c] = "returned" /\ result'[c] = "cancelled"
      /\ \A d \in Call : d # c => pc'[d] = pc[d] /\ result'[d] = result[d]
  BY Types DEF CancelWait, Returns
<1>4. Holding' = Holding
  BY <1>1, <1>3 DEF Holding
<1>5. SlotsHeld'
  BY <1>4, HoldsSame DEF CancelWait
<1>6. Len(log[c]) = 0 /\ 0 <= snap[c].attempts
  <2>1. snap[c].attempts \in 1..10
    BY Types
  <2> QED BY <1>1, <2>1
<1>7. Returned(c)'
  BY <1>1, <1>3, <1>6 DEF CancelWait, Returned
<1>8. CallOK(c)'
  BY <1>1, <1>3, <1>7 DEF CancelWait, CallOK
<1>9. \A d \in Call : CallOK(d)'
  BY <1>3, <1>8, OthersKeep DEF CancelWait
<1> QED BY <1>2, <1>5, <1>9 DEF DInv

\* A redirect is followed only below the snapshot's limit.
LEMMA RedirectStep == ASSUME DInv, NEW c \in Call, Redirect(c) PROVE DInv'
<1>1. pc[c] = "attempt" /\ CallOK(c) /\ hops[c] < snap[c].maxRedirects
  BY DEF Redirect, DInv
<1>2. hops' = [hops EXCEPT ![c] = @ + 1] /\ hops[c] + 1 \in 0..20
  <2>1. hops[c] \in 0..20 /\ snap[c].maxRedirects \in 0..20
    BY Types
  <2> QED BY <1>1, <2>1 DEF Redirect
<1>3. hops' \in [Call -> 0..20]
  BY <1>2, Types
<1>4. TypeOK'
  BY <1>3, Types DEF Redirect, TypeOK
<1>5. SlotsHeld'
  BY HoldsSame DEF Redirect, Holding
<1>6. hops'[c] <= snap[c].maxRedirects /\ \A d \in Call : d # c => hops'[d] = hops[d]
  <2>1. hops \in [Call -> 0..20] /\ hops[c] \in 0..20 /\ snap[c].maxRedirects \in 0..20
    BY Types
  <2>2. hops'[c] = hops[c] + 1 /\ \A d \in Call : d # c => hops'[d] = hops[d]
    BY <1>2, <2>1
  <2> QED BY <1>1, <2>1, <2>2
<1>7. CallOK(c)'
  BY <1>1, <1>6 DEF Redirect, CallOK, InProgress
<1>8. \A d \in Call : CallOK(d)'
  BY <1>6, <1>7, OthersKeep DEF Redirect
<1> QED BY <1>4, <1>5, <1>8 DEF DInv

\* A call that wakes tries again.
LEMMA WakeStep == ASSUME DInv, NEW c \in Call, Wake(c) PROVE DInv'
<1>1. pc[c] = "backoff" /\ CallOK(c)
  BY DEF Wake, DInv
<1>2. TypeOK'
  BY Types DEF Wake, TypeOK
<1>3. pc'[c] = "attempt" /\ \A d \in Call : d # c => pc'[d] = pc[d]
  BY Types DEF Wake
<1>4. Holding' = Holding
  BY <1>1, <1>3 DEF Holding
<1>5. SlotsHeld'
  BY <1>4, HoldsSame DEF Wake
<1>6. CallOK(c)'
  BY <1>1, <1>3 DEF Wake, CallOK, InProgress
<1>7. \A d \in Call : CallOK(d)'
  BY <1>3, <1>6, OthersKeep DEF Wake
<1> QED BY <1>2, <1>5, <1>7 DEF DInv

\* A call cancelled in its pause gives its slot back.
LEMMA CancelBackoffStep == ASSUME DInv, NEW c \in Call, CancelBackoff(c) PROVE DInv'
<1>1. pc[c] = "backoff" /\ InProgress(c) /\ hops[c] <= snap[c].maxRedirects
  BY DEF CancelBackoff, DInv, CallOK
<1>2. pc'[c] = "returned" /\ result'[c] = "cancelled"
      /\ \A d \in Call : d # c => pc'[d] = pc[d] /\ result'[d] = result[d]
  BY Types DEF CancelBackoff, Returns
<1>3. Holding' = Holding \ {c} /\ c \in Holding
  BY <1>1, <1>2 DEF Holding
<1>4. SlotsHeld' /\ slots' \in 0..Workers
  BY <1>3, HoldsLess DEF CancelBackoff, Releases
<1>5. TypeOK'
  BY <1>4, Types DEF CancelBackoff, Returns, TypeOK
<1>6. Returned(c)'
  <2>1. Len(log[c]) \in Nat /\ snap[c].attempts \in 1..10
    BY Types
  <2>2. Len(log[c]) < snap[c].attempts /\ \A k \in 1..Len(log[c]) : log[c][k] = "retry"
    BY <1>1 DEF InProgress
  <2>3. log[c] # <<>> => log[c][Len(log[c])] = "retry"
    <3>1. log[c] \in Seq(Outcome)
      BY Types
    <3> QED BY <2>2, <3>1
  <2>4. Len(log[c]) <= snap[c].attempts
        /\ \A k \in 1 .. Len(log[c]) - 1 : log[c][k] = "retry"
    <3> DEFINE n == Len(log[c])
               m == snap[c].attempts
    <3>1. n \in Nat /\ m \in Nat /\ n < m
      BY <2>1, <2>2
    <3> HIDE DEF n, m
    <3>2. n <= m /\ \A k \in 1 .. n - 1 : k \in 1..n
      BY <3>1
    <3> QED BY <2>2, <3>2 DEF n, m
  <2> QED BY <1>2, <2>3, <2>4 DEF CancelBackoff, Returned
<1>7. CallOK(c)'
  BY <1>1, <1>2, <1>6 DEF CancelBackoff, CallOK
<1>8. \A d \in Call : CallOK(d)'
  BY <1>2, <1>7, OthersKeep DEF CancelBackoff
<1> QED BY <1>4, <1>5, <1>8 DEF DInv

\* The steps that end no attempt and return no call: a context is done, or the
\* policy changes under the calls.
LEMMA ContextStep == ASSUME DInv, NEW c \in Call, Cancel(c) PROVE DInv'
<1>1. TypeOK'
  BY Types DEF Cancel, TypeOK
<1>2. SlotsHeld'
  BY HoldsSame DEF Cancel, Holding
<1>3. \A d \in Call : CallOK(d)'
  BY DEF DInv, Cancel, CallOK, InProgress, Returned
<1> QED BY <1>1, <1>2, <1>3 DEF DInv

\* See above.
LEMMA PolicyStep == ASSUME DInv, NEW p \in Policies, UpdatePolicy(p) PROVE DInv'
<1>1. updates' \in 0..MaxUpdates
  BY Types, MaxUpdatesAssumption DEF UpdatePolicy
<1>2. TypeOK'
  BY <1>1, Types DEF UpdatePolicy, TypeOK
<1>3. SlotsHeld'
  BY HoldsSame DEF UpdatePolicy, Holding
<1>4. \A d \in Call : CallOK(d)'
  BY DEF DInv, UpdatePolicy, CallOK, InProgress, Returned
<1> QED BY <1>2, <1>3, <1>4 DEF DInv

\* An attempt keeps the slot if the call is to try again, and gives it back if not.
LEMMA AttemptStep == ASSUME DInv, NEW c \in Call, Attempt(c) PROVE DInv'
<1>1. /\ \A d \in Call : CallOK(d)'
      /\ log' \in [Call -> Seq(Outcome)] /\ hops' \in [Call -> 0..20]
  BY AttemptCall
<1>2. pc[c] = "attempt" /\ UNCHANGED <<policy, updates, snap, done>>
  BY DEF Attempt, Succeed, FailRetry, GiveUp, FailFinal, Attempts
<1>3. CASE FailRetry(c)
  <2>1. pc'[c] = "backoff" /\ (\A d \in Call : d # c => pc'[d] = pc[d])
    BY <1>3, Types DEF FailRetry
  <2>2. Holding' = Holding
    BY <1>2, <2>1 DEF Holding
  <2>3. SlotsHeld'
    BY <1>3, <2>2, HoldsSame DEF FailRetry
  <2>4. TypeOK'
    BY <1>1, <1>3, Types DEF FailRetry, TypeOK
  <2> QED BY <1>1, <2>3, <2>4 DEF DInv
<1>4. CASE Succeed(c) \/ GiveUp(c) \/ FailFinal(c)
  <2>1. (Returns(c, "stored") \/ Returns(c, "failed")) /\ slots' = slots - 1
    BY <1>4 DEF Succeed, GiveUp, FailFinal, Releases
  <2>2. pc'[c] = "returned" /\ (\A d \in Call : d # c => pc'[d] = pc[d])
    BY <2>1, Types DEF Returns
  <2>3. Holding' = Holding \ {c} /\ c \in Holding
    BY <1>2, <2>2 DEF Holding
  <2>4. SlotsHeld' /\ slots' \in 0..Workers
    BY <2>1, <2>3, HoldsLess
  <2>5. TypeOK'
    BY <1>1, <1>2, <2>1, <2>4, Types DEF Returns, TypeOK
  <2> QED BY <1>1, <2>4, <2>5 DEF DInv
<1> QED BY <1>3, <1>4 DEF Attempt

\* Every step keeps the invariant.
LEMMA DInvStep == DInv /\ [Next]_vars => DInv'
<1> SUFFICES ASSUME DInv, [Next]_vars PROVE DInv'
  OBVIOUS
<1>1. ASSUME NEW c \in Call,
             \/ Start(c) \/ Acquire(c) \/ CancelWait(c) \/ Redirect(c) \/ Attempt(c)
             \/ Wake(c) \/ CancelBackoff(c) \/ Cancel(c)
      PROVE  DInv'
  BY <1>1, StartStep, AcquireStep, CancelWaitStep, RedirectStep, AttemptStep, WakeStep,
     CancelBackoffStep, ContextStep
<1>2. ASSUME NEW p \in Policies, UpdatePolicy(p) PROVE DInv'
  BY <1>2, PolicyStep
<1>3. CASE UNCHANGED vars
  BY <1>3 DEF vars, DInv, TypeOK, SlotsHeld, Holding, CallOK, InProgress, Returned
<1> QED BY <1>1, <1>2, <1>3 DEF Next, Terminating

\* The inductive invariant.
THEOREM DownloaderInvariance == Spec => []DInv
BY DInvInit, DInvStep, PTL DEF Spec

\* The types of Downloader: no call makes the semaphore exceed Workers, or pays
\* back more than it took.
THEOREM DownloaderTyping == Spec => []TypeOK
<1>1. DInv => TypeOK
  BY DEF DInv
<1> QED BY <1>1, DownloaderInvariance, PTL

\* However calls end -- stored, refused, out of attempts, cancelled in the queue
\* or in a pause -- the semaphore counts exactly those between acquire and
\* return (downloader.go:112-118).
THEOREM NoSlotLeaks == Spec => []SlotsHeld
<1>1. DInv => SlotsHeld
  BY DEF DInv
<1> QED BY <1>1, DownloaderInvariance, PTL

\* No policy change reaches a call that runs (downloader.go:83-84).
THEOREM SnapshotsBind == Spec => []WithinSnapshot
<1>1. DInv => WithinSnapshot
  <2> SUFFICES ASSUME DInv, NEW c \in Call
               PROVE  Len(log[c]) <= snap[c].attempts /\ hops[c] <= snap[c].maxRedirects
    BY DEF WithinSnapshot
  <2>1. CallOK(c) /\ Len(log[c]) \in Nat /\ snap[c].attempts \in 1..10
    BY Types DEF DInv
  <2> QED BY <2>1 DEF CallOK, InProgress, Returned
<1> QED BY <1>1, DownloaderInvariance, PTL

\* The retry loop tries again only after a retryable failure and stops for a
\* reason (downloader.go:139-171).
THEOREM RetriesAreJustified == Spec => []RetriesJustified
<1>1. DInv => RetriesJustified
  <2> SUFFICES ASSUME DInv, NEW c \in Call
               PROVE  /\ \A k \in 1 .. Len(log[c]) - 1 : log[c][k] = "retry"
                      /\ result[c] = "stored" <=> log[c] # <<>> /\ log[c][Len(log[c])] = "ok"
                      /\ result[c] = "failed" => \/ log[c][Len(log[c])] = "final"
                                                 \/ Len(log[c]) = snap[c].attempts
    BY DEF RetriesJustified
  <2>1. CallOK(c) /\ log[c] \in Seq(Outcome)
    BY Types DEF DInv
  <2>2. CASE pc[c] = "returned"
    BY <2>1, <2>2 DEF CallOK, Returned
  <2>3. CASE pc[c] # "returned"
    <3>1. result[c] = "none" /\ \A k \in 1..Len(log[c]) : log[c][k] = "retry"
      BY <2>1, <2>3 DEF CallOK, InProgress
    <3>2. log[c] # <<>> => log[c][Len(log[c])] = "retry"
      BY <2>1, <3>1
    <3>3. \A k \in 1 .. Len(log[c]) - 1 : log[c][k] = "retry"
      BY <2>1, <3>1
    <3> QED BY <3>1, <3>2, <3>3
  <2> QED BY <2>2, <2>3
<1> QED BY <1>1, DownloaderInvariance, PTL
=============================================================================
