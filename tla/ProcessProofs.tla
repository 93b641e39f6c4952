---------------------------- MODULE ProcessProofs ----------------------------
(****************************************************************************)
(* Proofs about what the process keeps in memory: RuntimeSettings,          *)
(* LoginThrottle and LifeCycle, for every instance of each, and about their *)
(* composition MCProcess.                                                   *)
(****************************************************************************)
EXTENDS MCProcess, FiniteSetTheorems, TLAPS

-----------------------------------------------------------------------------
(* RuntimeSettings, for any keys, values, forms, number of concurrent saves  *)
(* and crashes.                                                             *)

\* The versions: history ends with what is stored, and what a handler or the
\* Downloader has was stored as some version.
Versioned ==
    /\ Len(history) = version
    /\ version >= 1
    /\ stored = history[version]
    /\ \A s \in Save : /\ ver[s] <= version
                       /\ pc[s] \in {"rows", "apply"} => ver[s] >= 1

\* A handler about to call onRuntime holds rows that load.
LoadedLoads == \A s \in Save : pc[s] = "apply" => Loads(got[s])

SInv == TypeOK /\ Versioned /\ LoadedLoads /\ LiveLoads /\ WholeVersions

\* What is at index v of the history stays there when a version is added.
LEMMA HistoryGrows ==
    ASSUME NEW h \in Seq(Config), NEW c \in Config
    PROVE  /\ Append(h, c) \in Seq(Config)
           /\ Len(Append(h, c)) = Len(h) + 1
           /\ Append(h, c)[Len(h) + 1] = c
           /\ \A v \in 1..Len(h) : Append(h, c)[v] = h[v]
OBVIOUS

\* The first start satisfies the invariant.
LEMMA SInvInit == Init => SInv
<1> SUFFICES ASSUME Init PROVE SInv
  OBVIOUS
<1>1. stored \in Config /\ Loads(stored)
  BY ValidAssumption DEF Init, Config, Loads
<1>2. TypeOK
  BY <1>1, MaxCrashAssumption DEF Init, TypeOK
<1>3. Versioned /\ WholeVersions
  BY DEF Init, Versioned, WholeVersions
<1> QED BY <1>1, <1>2, <1>3 DEF SInv, LoadedLoads, LiveLoads, Init

\* A commit adds a version and touches nothing that was loaded.
LEMMA CommitStep ==
    ASSUME SInv, NEW s \in Save, NEW f \in Forms, Commit(s, f)
    PROVE  SInv'
<1> USE DEF SInv
<1>1. f \in Config /\ history \in Seq(Config) /\ version \in Nat
  BY FormsAssumption DEF Config, TypeOK
<1>2. /\ history' \in Seq(Config)
      /\ Len(history') = version + 1
      /\ history'[version + 1] = f
      /\ \A v \in 1..version : history'[v] = history[v]
  BY <1>1, HistoryGrows DEF Commit, Versioned
<1>3. TypeOK'
  BY <1>1, <1>2 DEF Commit, TypeOK
<1>4. Versioned'
  BY <1>1, <1>2 DEF Commit, Versioned, TypeOK
<1>5. LoadedLoads' /\ LiveLoads'
  BY DEF Commit, LoadedLoads, LiveLoads, TypeOK
<1>6. WholeVersions'
  <2>1. ASSUME NEW t \in Save, pc'[t] = "apply"
        PROVE  \E v \in ver'[t]..version' : got'[t] = history'[v]
    <3>1. pc[t] = "apply" /\ ver'[t] = ver[t] /\ got'[t] = got[t]
      BY <2>1 DEF Commit, TypeOK
    <3>2. PICK v \in ver[t]..version : got[t] = history[v]
      BY <3>1 DEF WholeVersions
    <3>3. v \in 1..version
      BY <3>1, <3>2, <1>1 DEF Versioned, TypeOK
    <3> QED BY <3>1, <3>2, <3>3, <1>1, <1>2 DEF Commit, TypeOK
  <2>2. \E v \in 1..version' : live' = history'[v]
    BY <1>1, <1>2 DEF Commit, WholeVersions
  <2> QED BY <2>1, <2>2 DEF WholeVersions
<1> QED BY <1>3, <1>4, <1>5, <1>6

\* Only handlers move; the tables stay.
LEMMA HandlerStep ==
    ASSUME SInv, NEW s \in Save, Rollback(s) \/ LoadVersion(s) \/ LoadRows(s) \/ LoadFails(s)
    PROVE  SInv'
<1> USE DEF SInv
<1>0. UNCHANGED <<stored, version, live, history>>
  BY DEF Rollback, LoadVersion, LoadRows, LoadFails
<1>1. TypeOK'
  BY DEF TypeOK, Rollback, LoadVersion, LoadRows, LoadFails
<1>2. Versioned'
  BY <1>0 DEF Versioned, TypeOK, Rollback, LoadVersion, LoadRows, LoadFails
<1>3. LoadedLoads' /\ LiveLoads'
  BY <1>0 DEF LoadedLoads, LiveLoads, TypeOK, Loads, Rollback, LoadVersion, LoadRows, LoadFails
<1>4. ASSUME NEW t \in Save, pc'[t] = "apply"
      PROVE  \E v \in ver'[t]..version' : got'[t] = history'[v]
  <2>1. CASE LoadRows(s) /\ t = s
    BY <2>1, <1>0 DEF LoadRows, Versioned, TypeOK
  <2>2. CASE ~(LoadRows(s) /\ t = s)
    <3>1. pc[t] = "apply" /\ ver'[t] = ver[t] /\ got'[t] = got[t]
      BY <1>4, <2>2 DEF TypeOK, Rollback, LoadVersion, LoadRows, LoadFails
    <3> QED BY <1>0, <3>1 DEF WholeVersions
  <2> QED BY <2>1, <2>2
<1>5. WholeVersions'
  BY <1>0, <1>4 DEF WholeVersions
<1> QED BY <1>1, <1>2, <1>3, <1>5

\* onRuntime: what becomes live was loaded.
LEMMA ApplyStep ==
    ASSUME SInv, NEW s \in Save, Apply(s)
    PROVE  SInv'
<1> USE DEF SInv
<1>1. TypeOK' /\ Versioned'
  BY DEF TypeOK, Versioned, Apply
<1>2. LoadedLoads' /\ LiveLoads'
  BY DEF LoadedLoads, LiveLoads, TypeOK, Apply
<1>3. \E v \in 1..version : got[s] = history[v]
  BY DEF Apply, WholeVersions, Versioned, TypeOK
<1>4. WholeVersions'
  BY <1>3 DEF Apply, WholeVersions, TypeOK
<1> QED BY <1>1, <1>2, <1>4

\* A crash loses handlers, a start-up loads what is stored.
LEMMA ProcessStep ==
    ASSUME SInv, Crash \/ Start
    PROVE  SInv'
<1> USE DEF SInv
<1>1. CASE Crash
  <2>1. TypeOK'
    <3>1. up' \in BOOLEAN
      BY <1>1 DEF Crash
    <3>2. crashes' \in 0..MaxCrash
      <4>1. crashes' = crashes + 1 /\ crashes < MaxCrash /\ crashes \in 0..MaxCrash
        BY <1>1 DEF Crash, TypeOK
      <4> QED BY <4>1, MaxCrashAssumption
    <3>3. pc' \in [Save -> {"idle", "version", "rows", "apply", "ok", "refused", "lost"}]
      BY <1>1 DEF Crash, TypeOK
    <3> QED BY <1>1, <3>1, <3>2, <3>3 DEF Crash, TypeOK
  <2>2. \A t \in Save : pc'[t] \in {"rows", "apply"} => FALSE
    BY <1>1 DEF Crash, Busy, TypeOK
  <2> QED BY <1>1, <2>1, <2>2 DEF Crash, Versioned, LoadedLoads, LiveLoads, WholeVersions
<1>2. CASE Start
  <2>1. TypeOK' /\ Versioned' /\ LoadedLoads' /\ LiveLoads'
    BY <1>2 DEF Start, TypeOK, Versioned, LoadedLoads, LiveLoads
  <2>2. WholeVersions'
    BY <1>2 DEF Start, WholeVersions, Versioned, TypeOK
  <2> QED BY <2>1, <2>2
<1> QED BY <1>1, <1>2

\* SInv is inductive.
LEMMA SInvStep == SInv /\ [Next]_vars => SInv'
<1> SUFFICES ASSUME SInv, [Next]_vars PROVE SInv'
  OBVIOUS
<1>1. CASE UNCHANGED vars
  BY <1>1 DEF SInv, TypeOK, Versioned, LoadedLoads, LiveLoads, WholeVersions, vars
<1> QED BY <1>1, CommitStep, HandlerStep, ApplyStep, ProcessStep DEF Next, StartExits, Terminating

(****************************************************************************)
(* The invariant holds in every reachable state.                            *)
(****************************************************************************)
THEOREM SettingsInvariance == Spec => []SInv
BY SInvInit, SInvStep, PTL DEF Spec

(****************************************************************************)
(* Type correctness, for every instance.                                    *)
(****************************************************************************)
THEOREM SettingsTyping == Spec => []TypeOK
<1>1. SInv => TypeOK
  BY DEF SInv
<1> QED BY <1>1, SettingsInvariance, PTL

(****************************************************************************)
(* Whatever is posted, stored or refused, the Downloader only works with    *)
(* values LoadRuntime accepts (runtime.go:28-54, router.go:305-312).        *)
(****************************************************************************)
THEOREM LiveAlwaysLoads == Spec => []LiveLoads
<1>1. SInv => LiveLoads
  BY DEF SInv
<1> QED BY <1>1, SettingsInvariance, PTL

(****************************************************************************)
(* And never with a mixture of two saves, though LoadRuntime reads in two   *)
(* statements (runtime.go:20-23) and saves overlap.                         *)
(****************************************************************************)
THEOREM VersionsAreWhole == Spec => []WholeVersions
<1>1. SInv => WholeVersions
  BY DEF SInv
<1> QED BY <1>1, SettingsInvariance, PTL

\* Of a save that ran alone: nobody else is under way, and it loaded what is stored.
CalmKnows ==
    /\ ~up => Busy = {}
    /\ calm => \A s, t \in Busy : s = t
    /\ calm => \A s \in Save : pc[s] = "apply" => got[s] = stored

\* No save is under way at the start, and what is stored is in force.
LEMMA CalmInit == Init => CalmKnows /\ LiveWhenCalm
BY DEF Init, CalmKnows, LiveWhenCalm, Busy

\* A save makes the rows differ from what is live only while it is under way.
LEMMA CalmStep ==
    TypeOK /\ CalmKnows /\ LiveWhenCalm /\ [Next]_vars => CalmKnows' /\ LiveWhenCalm'
<1> SUFFICES ASSUME TypeOK, CalmKnows, LiveWhenCalm, [Next]_vars
             PROVE  CalmKnows' /\ LiveWhenCalm'
  OBVIOUS
<1> USE DEF TypeOK, CalmKnows, LiveWhenCalm, Busy
<1>1. ASSUME NEW s \in Save, NEW f \in Forms, Commit(s, f) PROVE CalmKnows' /\ LiveWhenCalm'
  <2>1. CASE Busy = {}
    BY <1>1, <2>1 DEF Commit
  <2>2. CASE Busy # {}
    BY <1>1, <2>2 DEF Commit
  <2> QED BY <2>1, <2>2
<1>2. ASSUME NEW s \in Save, Rollback(s) \/ LoadVersion(s) \/ LoadRows(s)
      PROVE  CalmKnows' /\ LiveWhenCalm'
  <2>1. UNCHANGED <<up, stored, live, calm>> /\ Busy' = Busy
    BY <1>2 DEF Rollback, LoadVersion, LoadRows
  <2>2. ASSUME NEW t \in Save, pc'[t] = "apply"
        PROVE  got'[t] = stored \/ (pc[t] = "apply" /\ got'[t] = got[t])
    <3>1. CASE Rollback(s) \/ LoadVersion(s)
      BY <2>2, <3>1 DEF Rollback, LoadVersion
    <3>2. CASE LoadRows(s)
      <4>1. got' = [got EXCEPT ![s] = stored] /\ pc' = [pc EXCEPT ![s] = "apply"]
        BY <3>2 DEF LoadRows
      <4>2. CASE t = s
        BY <4>1, <4>2
      <4>3. CASE t # s
        BY <2>2, <4>1, <4>3
      <4> QED BY <4>2, <4>3
    <3> QED BY <1>2, <3>1, <3>2
  <2> QED BY <2>1, <2>2
<1>3. ASSUME NEW s \in Save, LoadFails(s) PROVE CalmKnows' /\ LiveWhenCalm'
  BY <1>3 DEF LoadFails
<1>4. ASSUME NEW s \in Save, Apply(s) PROVE CalmKnows' /\ LiveWhenCalm'
  <2>1. s \in Busy /\ up
    BY <1>4 DEF Apply
  <2>2. calm => Busy = {s} /\ got[s] = stored
    BY <1>4, <2>1 DEF Apply
  <2>3. Busy' = Busy \ {s}
    BY <1>4 DEF Apply
  <2> QED BY <1>4, <2>1, <2>2, <2>3 DEF Apply
<1>5. CASE Crash
  BY <1>5 DEF Crash
<1>6. CASE Start
  BY <1>6 DEF Start
<1>7. CASE UNCHANGED vars
  BY <1>7 DEF vars
<1> QED BY <1>1, <1>2, <1>3, <1>4, <1>5, <1>6, <1>7 DEF Next, StartExits, Terminating

(****************************************************************************)
(* A save that ran alone and was not refused is live when it ends, and a    *)
(* start makes live what is stored (runtime.go:19-54, router.go:305-312,    *)
(* main.go), for any forms, any number of saves and crashes.                *)
(****************************************************************************)
THEOREM CalmIsLive == Spec => []LiveWhenCalm
BY CalmInit, CalmStep, SettingsTyping, PTL DEF Spec

-----------------------------------------------------------------------------
(* LoginThrottle, for any finite set of attempts, any hosts, any limit and   *)
(* any window.                                                              *)

LInv == ThrottleTypeOK /\ OverrunBounded

\* The lists and the attempts in progress are finite, and sizes follow inclusion.
LEMMA Sizes ==
    ASSUME NEW S \in SUBSET Attempt, NEW T \in SUBSET S
    PROVE  /\ IsFiniteSet(S)
           /\ Cardinality(S) \in Nat
           /\ Cardinality(T) \in Nat
           /\ Cardinality(T) <= Cardinality(S)
BY AttemptFinite, FS_Subset, FS_CardinalityType

\* One attempt more or less, in a list or in progress.
LEMMA OneMore ==
    ASSUME NEW S \in SUBSET Attempt, NEW a \in Attempt
    PROVE  /\ Cardinality(S) \in Nat
           /\ Cardinality(S \cup {a}) \in Nat
           /\ Cardinality(S \cup {a}) <= Cardinality(S) + 1
           /\ a \notin S => Cardinality(S \cup {a}) = Cardinality(S) + 1
           /\ Cardinality(S \ {a}) \in Nat
           /\ Cardinality(S \ {a}) <= Cardinality(S)
           /\ a \in S => Cardinality(S \ {a}) = Cardinality(S) - 1
<1>1. IsFiniteSet(S) /\ Cardinality(S) \in Nat
  BY Sizes
<1>2. IsFiniteSet(S \cup {a}) /\ IsFiniteSet(S \ {a})
  BY <1>1, FS_AddElement, FS_RemoveElement
<1>3. Cardinality(S \cup {a}) \in Nat /\ Cardinality(S \ {a}) \in Nat
  BY <1>2, FS_CardinalityType
<1>4. Cardinality(S \cup {a}) = IF a \in S THEN Cardinality(S) ELSE Cardinality(S) + 1
  BY <1>1, FS_AddElement
<1>5. Cardinality(S \ {a}) = IF a \in S THEN Cardinality(S) - 1 ELSE Cardinality(S)
  BY <1>1, FS_RemoveElement
<1> HIDE DEF Cardinality
<1> QED BY <1>1, <1>3, <1>4, <1>5

\* No list and nobody checking at the start.
LEMMA LInvInit == ThrottleInit => LInv
<1> SUFFICES ASSUME ThrottleInit PROVE LInv
  OBVIOUS
<1>1. ThrottleTypeOK
  BY WindowPositive DEF ThrottleInit, ThrottleTypeOK
<1>2. \A h \in Host : CheckingOf(h) = {} /\ failures[h] = {} /\ peak[h] = 0
  BY DEF ThrottleInit, CheckingOf
<1>3. OverrunBounded
  BY <1>2, FS_EmptySet, LimitPositive DEF OverrunBounded
<1> QED BY <1>1, <1>3 DEF LInv

\* The types survive every step.
LEMMA ThrottleTypeStep == ThrottleTypeOK /\ [ThrottleNext]_throttle => ThrottleTypeOK'
<1> SUFFICES ASSUME ThrottleTypeOK, [ThrottleNext]_throttle PROVE ThrottleTypeOK'
  OBVIOUS
<1> USE DEF ThrottleTypeOK
<1>1. ASSUME NEW a \in Attempt, Allowed(a) PROVE ThrottleTypeOK'
  <2>1. HostOf[a] \in Host /\ CheckingOf(HostOf[a]) \in SUBSET Attempt
    BY HostOfType DEF CheckingOf
  <2>2. Cardinality(CheckingOf(HostOf[a])) \in Nat
    BY <2>1, Sizes
  <2>3. peak' \in [Host -> Nat]
    <3> DEFINE together == Cardinality(CheckingOf(HostOf[a])) + 1
    <3>1. together \in Nat
      BY <2>2
    <3>2. peak' = [peak EXCEPT ![HostOf[a]] = IF together > @ THEN together ELSE @]
      BY <1>1 DEF Allowed, Enters
    <3> HIDE DEF together
    <3> QED BY <3>1, <3>2
  <2>4. failures' \in [Host -> SUBSET Attempt]
    BY <1>1, <2>1 DEF Allowed, Enters, Recent
  <2> QED BY <1>1, <2>3, <2>4 DEF Allowed, Enters
<1>2. ASSUME NEW a \in Attempt, Refused(a) PROVE ThrottleTypeOK'
  BY <1>2, HostOfType DEF Refused, Recent
<1>3. ASSUME NEW a \in Attempt, Fails(a) PROVE ThrottleTypeOK'
  <2>1. failures' \in [Host -> SUBSET Attempt]
    BY <1>3 DEF Fails
  <2>2. age' \in [Attempt -> 0..Window]
    BY <1>3, WindowPositive DEF Fails
  <2> QED BY <1>3, <2>1, <2>2 DEF Fails
<1>4. ASSUME NEW a \in Attempt, Succeeds(a) PROVE ThrottleTypeOK'
  BY <1>4 DEF Succeeds
<1>5. CASE Tick
  <2>1. \A a \in Aging : age[a] + 1 \in 0..Window
    BY WindowPositive DEF Aging
  <2> QED BY <1>5, <2>1 DEF Tick
<1>6. CASE UNCHANGED throttle
  BY <1>6 DEF throttle
<1> QED BY <1>1, <1>2, <1>3, <1>4, <1>5, <1>6 DEF ThrottleNext

\* An attempt joins those being checked; its host's list is below the limit then,
\* and the peak is at least the number checking.
LEMMA AllowedBound ==
    ASSUME LInv, NEW a \in Attempt, Allowed(a)
    PROVE  OverrunBounded'
<1> USE DEF LInv, ThrottleTypeOK
<1> DEFINE h == HostOf[a]
<1>1. h \in Host /\ a \notin CheckingOf(h) /\ CheckingOf(h) \in SUBSET Attempt
  BY HostOfType DEF CheckingOf, Allowed, Enters
<1>2. CheckingOf(h)' = CheckingOf(h) \cup {a}
  BY <1>1 DEF CheckingOf, Allowed, Enters
<1>3. Cardinality(CheckingOf(h)') = Cardinality(CheckingOf(h)) + 1
  BY <1>1, <1>2, OneMore
<1>4. Cardinality(failures'[h]) \in Nat /\ Cardinality(failures'[h]) < Limit
  <2>1. failures'[h] = Recent(h) /\ Recent(h) \in SUBSET Attempt
    BY <1>1 DEF Allowed, Enters, Recent
  <2> QED BY <2>1, Sizes DEF Allowed, Enters
<1>5. peak'[h] \in Nat /\ peak'[h] >= Cardinality(CheckingOf(h)) + 1
  BY <1>1, Sizes DEF Allowed, Enters
<1>6. Cardinality(CheckingOf(h)) \in Nat
  BY <1>1, Sizes
<1>7. Cardinality(failures'[h]) + Cardinality(CheckingOf(h)') < Limit + peak'[h]
  BY <1>3, <1>4, <1>5, <1>6, LimitPositive
<1>8. ASSUME NEW g \in Host, g # h
      PROVE  Cardinality(failures'[g]) + Cardinality(CheckingOf(g)') < Limit + peak'[g]
  <2>1. CheckingOf(g)' = CheckingOf(g) /\ failures'[g] = failures[g] /\ peak'[g] = peak[g]
    BY <1>8 DEF CheckingOf, Allowed, Enters
  <2> QED BY <2>1 DEF OverrunBounded
<1> QED BY <1>7, <1>8 DEF OverrunBounded

\* A refused attempt only prunes.
LEMMA RefusedBound ==
    ASSUME LInv, NEW a \in Attempt, Refused(a)
    PROVE  OverrunBounded'
<1> USE DEF LInv, ThrottleTypeOK
<1> SUFFICES ASSUME NEW h \in Host
             PROVE  Cardinality(failures'[h]) + Cardinality(CheckingOf(h)') < Limit + peak'[h]
  BY DEF OverrunBounded
<1>1. CheckingOf(h)' = CheckingOf(h) /\ peak'[h] = peak[h] /\ failures'[h] \in SUBSET failures[h]
  BY DEF Refused, Recent, CheckingOf
<1>2. failures[h] \in SUBSET Attempt /\ CheckingOf(h) \in SUBSET Attempt
  BY DEF CheckingOf
<1>3. /\ Cardinality(failures'[h]) \in Nat /\ Cardinality(failures[h]) \in Nat
      /\ Cardinality(failures'[h]) <= Cardinality(failures[h])
      /\ Cardinality(CheckingOf(h)) \in Nat
  BY <1>1, <1>2, Sizes
<1>4. Cardinality(failures[h]) + Cardinality(CheckingOf(h)) < Limit + peak[h]
  BY DEF OverrunBounded
<1>5. peak[h] \in Nat
  OBVIOUS
<1> QED BY <1>1, <1>3, <1>4, <1>5, LimitPositive

\* A check that ends leaves the ones in progress, and joins the list if it failed.
LEMMA EndBound ==
    ASSUME LInv, NEW a \in Attempt, Fails(a) \/ Succeeds(a)
    PROVE  OverrunBounded'
<1> USE DEF LInv, ThrottleTypeOK
<1> SUFFICES ASSUME NEW h \in Host
             PROVE  Cardinality(failures'[h]) + Cardinality(CheckingOf(h)') < Limit + peak'[h]
  BY DEF OverrunBounded
<1>1. /\ failures[h] \in SUBSET Attempt /\ CheckingOf(h) \in SUBSET Attempt
      /\ peak[h] \in Nat /\ peak'[h] = peak[h]
  BY DEF CheckingOf, Fails, Succeeds
<1>2. Cardinality(failures[h]) + Cardinality(CheckingOf(h)) < Limit + peak[h]
  BY DEF OverrunBounded
<1>3. CASE h = HostOf[a]
  <2>1. a \in CheckingOf(h) /\ CheckingOf(h)' = CheckingOf(h) \ {a}
    BY <1>3 DEF CheckingOf, Fails, Succeeds
  <2>2. failures'[h] = failures[h] \/ failures'[h] = failures[h] \cup {a}
    BY <1>3 DEF Fails, Succeeds
  <2>3. /\ Cardinality(CheckingOf(h)) \in Nat
        /\ Cardinality(CheckingOf(h)') = Cardinality(CheckingOf(h)) - 1
    BY <1>1, <2>1, OneMore
  <2>4. /\ Cardinality(failures[h]) \in Nat /\ Cardinality(failures'[h]) \in Nat
        /\ Cardinality(failures'[h]) <= Cardinality(failures[h]) + 1
    <3>1. CASE failures'[h] = failures[h]
      <4>1. Cardinality(failures[h]) \in Nat
        BY <1>1, Sizes
      <4> QED BY <3>1, <4>1
    <3>2. CASE failures'[h] = failures[h] \cup {a}
      <4>1. failures[h] \in SUBSET Attempt
        BY <1>1
      <4>2. /\ Cardinality(failures[h]) \in Nat
            /\ Cardinality(failures[h] \cup {a}) \in Nat
            /\ Cardinality(failures[h] \cup {a}) <= Cardinality(failures[h]) + 1
        BY <4>1, OneMore
      <4> QED BY <3>2, <4>2
    <3> QED BY <2>2, <3>1, <3>2
  <2> QED BY <1>1, <1>2, <2>3, <2>4, LimitPositive
<1>4. CASE h # HostOf[a]
  <2>1. CheckingOf(h)' = CheckingOf(h) /\ failures'[h] = failures[h]
    BY <1>4 DEF CheckingOf, Fails, Succeeds
  <2> QED BY <1>1, <1>2, <2>1
<1> QED BY <1>3, <1>4

\* LInv is inductive.
LEMMA LInvStep == LInv /\ [ThrottleNext]_throttle => LInv'
<1> SUFFICES ASSUME LInv, [ThrottleNext]_throttle PROVE LInv'
  OBVIOUS
<1>1. ThrottleTypeOK'
  BY ThrottleTypeStep DEF LInv
<1>2. CASE Tick \/ UNCHANGED throttle
  <2>1. UNCHANGED <<checking, failures, peak>>
    BY <1>2 DEF Tick, throttle
  <2>2. OverrunBounded'
    BY <2>1 DEF LInv, OverrunBounded, CheckingOf
  <2> QED BY <1>1, <2>2 DEF LInv
<1> QED BY <1>1, <1>2, AllowedBound, RefusedBound, EndBound DEF LInv, ThrottleNext

(****************************************************************************)
(* Type correctness, for every instance.                                    *)
(****************************************************************************)
THEOREM ThrottleTyping == ThrottleSpec => []ThrottleTypeOK
<1>1. LInv => ThrottleTypeOK
  BY DEF LInv
<1> QED BY <1>1, LInvInit, LInvStep, PTL DEF ThrottleSpec

(****************************************************************************)
(* Concurrent attempts of one host exceed the limit by at most the number   *)
(* of them that were checked at the same time, less one (auth.go:48-58,     *)
(* 117-135), for every limit and any number of hosts and attempts.          *)
(****************************************************************************)
THEOREM OverrunAlwaysBounded == ThrottleSpec => []OverrunBounded
<1>1. LInv => OverrunBounded
  BY DEF LInv
<1> QED BY <1>1, LInvInit, LInvStep, PTL DEF ThrottleSpec

(****************************************************************************)
(* Whatever attempts of whatever hosts overlap, no failure is forgotten     *)
(* before its window is over (auth.go:121-128).                             *)
(****************************************************************************)
THEOREM NothingForgotten == ThrottleSpec => NotForgotten
<1>1. ThrottleTypeOK /\ [ThrottleNext]_throttle => [\A h \in Host : Recent(h) \subseteq failures'[h]]_throttle
  <2> SUFFICES ASSUME ThrottleTypeOK, [ThrottleNext]_throttle, NEW h \in Host
               PROVE  Recent(h) \subseteq failures'[h]
    OBVIOUS
  <2> USE DEF ThrottleTypeOK, Recent
  <2>1. ASSUME NEW a \in Attempt, Allowed(a) \/ Refused(a) PROVE Recent(h) \subseteq failures'[h]
    BY <2>1 DEF Allowed, Enters, Refused
  <2>2. ASSUME NEW a \in Attempt, Fails(a) \/ Succeeds(a) PROVE Recent(h) \subseteq failures'[h]
    BY <2>2 DEF Fails, Succeeds
  <2>3. CASE Tick \/ UNCHANGED throttle
    BY <2>3 DEF Tick, throttle
  <2> QED BY <2>1, <2>2, <2>3 DEF ThrottleNext
<1> QED BY <1>1, ThrottleTyping, PTL DEF ThrottleSpec, NotForgotten

-----------------------------------------------------------------------------
(* LifeCycle, for any handlers and passwords.                               *)

\* The data plane accepts nobody once its Shutdown has begun, and when that
\* returned without an error nobody is left on it.
DataDone ==
    /\ at \in Closing => lst["data"] # "up"
    /\ at = "closeAdmin" /\ ~e1 => Of("data") = {}

CInv == LifeTypeOK /\ DataDone /\ CleanExit /\ DataSealed

\* Every handler is on one of the two planes.
LEMMA TwoPlanes ==
    ASSUME LifeTypeOK, Of("data") = {}, Of("admin") = {}
    PROVE  active = {}
<1>1. \A h \in active : PlaneOf[h] = "data" \/ PlaneOf[h] = "admin"
  BY PlaneOfType DEF LifeTypeOK
<1> QED BY <1>1 DEF Of

\* The end of the process, whatever its exit status, keeps everything but CleanExit.
LEMMA EndKeeps ==
    ASSUME CInv, NEW s \in {None, "0", "1", "signal"}, Ends(s), s = "0" => active = {}
    PROVE  CInv'
<1>1. LifeTypeOK'
  BY DEF CInv, LifeTypeOK, Ends, Starting, Closing, Plane
<1>2. DataDone' /\ CleanExit' /\ DataSealed'
  BY DEF CInv, DataDone, CleanExit, DataSealed, Ends, Closing
<1> QED BY <1>1, <1>2 DEF CInv

\* Start-up keeps the invariant.
LEMMA StartStep ==
    ASSUME CInv, (\E pw \in Password : Begin(pw)) \/ Advance \/ EnsureAdmin
    PROVE  CInv'
<1> USE DEF CInv, LifeTypeOK, DataDone, CleanExit, DataSealed, Starting, Closing, Plane, After
<1>1. ASSUME NEW pw \in Password, Begin(pw) PROVE CInv'
  BY <1>1 DEF Begin
<1>2. CASE Advance
  BY <1>2 DEF Advance
<1>3. CASE EnsureAdmin
  BY <1>3 DEF EnsureAdmin
<1> QED BY <1>1, <1>2, <1>3

\* The servers keep it: nothing is accepted by a plane that is closed.
LEMMA ServerStep ==
    ASSUME CInv,
           \/ \E p \in Plane : Listen(p)
           \/ \E h \in Handler : Accept(h) \/ Finish(h)
    PROVE  CInv'
<1> USE DEF CInv, DataDone, CleanExit, DataSealed, Closing
<1>1. ASSUME NEW p \in Plane, Listen(p) PROVE CInv'
  <2>1. LifeTypeOK'
    BY <1>1 DEF Listen, LifeTypeOK, Closed
  <2>2. DataDone'
    BY <1>1 DEF Listen, LifeTypeOK, Closed, Of, Plane
  <2> QED BY <1>1, <2>1, <2>2 DEF Listen
<1>2. ASSUME NEW h \in Handler, Accept(h) PROVE CInv'
  <2>1. LifeTypeOK'
    BY <1>2 DEF Accept, LifeTypeOK
  <2>2. at \in {"closeData", "closeAdmin"} => PlaneOf[h] # "data"
    BY <1>2 DEF Accept
  <2>3. PlaneOf[h] \in {"data", "admin"}
    BY PlaneOfType
  <2>4. DataDone' /\ DataSealed'
    BY <1>2, <2>2, <2>3 DEF Accept, Of
  <2> QED BY <1>2, <2>1, <2>4 DEF Accept
<1>3. ASSUME NEW h \in Handler, Finish(h) PROVE CInv'
  <2>1. LifeTypeOK'
    BY <1>3 DEF Finish, LifeTypeOK
  <2> QED BY <1>3, <2>1 DEF Finish, Of
<1> QED BY <1>1, <1>2, <1>3

\* Run's stop keeps it: data.Shutdown closes the listener first.
LEMMA StopStep ==
    ASSUME CInv, Stop \/ DataCloses \/ Deadline
    PROVE  CInv'
<1> USE DEF CInv, DataDone, CleanExit, DataSealed, Closing, Plane
<1>1. CASE Stop
  <2>1. LifeTypeOK'
    BY <1>1 DEF Stop, LifeTypeOK, CloseListener
  <2> QED BY <1>1, <2>1 DEF Stop, LifeTypeOK, CloseListener, Of
<1>2. CASE DataCloses
  <2>1. LifeTypeOK'
    BY <1>2 DEF DataCloses, LifeTypeOK, CloseListener
  <2>2. lst'["data"] # "up"
    BY <1>2 DEF DataCloses, LifeTypeOK, CloseListener
  <2>3. ~e1' => Of("data")' = {}
    BY <1>2 DEF DataCloses, Of
  <2> QED BY <1>2, <2>1, <2>2, <2>3 DEF DataCloses
<1>3. CASE Deadline
  <2>1. LifeTypeOK'
    BY <1>3 DEF Deadline, LifeTypeOK
  <2> QED BY <1>3, <2>1 DEF Deadline, Of
<1> QED BY <1>1, <1>2, <1>3

\* The process ends, or is told to: with status 0 only when both planes are empty.
LEMMA EndStep ==
    ASSUME CInv, Refuse \/ Signal \/ Kill \/ Exits
    PROVE  CInv'
<1>1. CASE Refuse \/ Kill
  BY <1>1, EndKeeps DEF Refuse, Kill
<1>2. CASE Signal
  <2>1. CASE Ends("signal")
    BY <2>1, EndKeeps
  <2>2. CASE ~Ends("signal")
    <3>1. sig' = TRUE /\ UNCHANGED <<at, env, account, lst, active, runErr, e1, deadline, exit,
                                     killed, newcomer>>
      BY <1>2, <2>2 DEF Signal
    <3> QED BY <3>1 DEF CInv, LifeTypeOK, DataDone, CleanExit, DataSealed, Of
  <2> QED BY <2>1, <2>2
<1>3. CASE Exits
  <2>1. PICK s \in {"0", "1"} : Ends(s) /\ (s = "0" => Of("admin") = {} /\ ~e1)
    BY <1>3 DEF Exits
  <2>2. s = "0" => active = {}
    BY <1>3, <2>1, TwoPlanes DEF CInv, DataDone, Exits
  <2> QED BY <2>1, <2>2, EndKeeps
<1> QED BY <1>1, <1>2, <1>3

\* CInv is inductive.
LEMMA CInvStep == CInv /\ [LifeNext]_life => CInv'
<1> SUFFICES ASSUME CInv, [LifeNext]_life PROVE CInv'
  OBVIOUS
<1>1. CASE UNCHANGED life
  BY <1>1 DEF CInv, LifeTypeOK, DataDone, CleanExit, DataSealed, Of, life
<1> QED BY <1>1, StartStep, ServerStep, StopStep, EndStep DEF LifeNext, Main

\* It holds before the first start.
LEMMA CInvInit == LifeInit => CInv
BY DEF LifeInit, CInv, LifeTypeOK, DataDone, CleanExit, DataSealed, Of, Starting, Closing, Plane

(****************************************************************************)
(* Type correctness, for every instance.                                    *)
(****************************************************************************)
THEOREM LifeTyping == LifeSpec => []LifeTypeOK
<1>1. CInv => LifeTypeOK
  BY DEF CInv
<1> QED BY <1>1, CInvInit, CInvStep, PTL DEF LifeSpec

(****************************************************************************)
(* Status 0 is never given to a process that interrupted a handler          *)
(* (app.go:40-51, main.go:85-88), whatever signals, failing listeners and   *)
(* deadlines came together.                                                 *)
(****************************************************************************)
THEOREM ZeroIsClean == LifeSpec => []CleanExit
<1>1. CInv => CleanExit
  BY DEF CInv
<1> QED BY <1>1, CInvInit, CInvStep, PTL DEF LifeSpec

(****************************************************************************)
(* The data plane accepts nobody once the stop has begun.                   *)
(****************************************************************************)
THEOREM DataStaysSealed == LifeSpec => []DataSealed
<1>1. CInv => DataSealed
  BY DEF CInv
<1> QED BY <1>1, CInvInit, CInvStep, PTL DEF LifeSpec

-----------------------------------------------------------------------------
(* The composition: a step of one component leaves the others alone.        *)

(****************************************************************************)
(* Every behaviour of the composed instance is one of each component, so    *)
(* whatever is proved of a component holds in MCProcess.                    *)
(****************************************************************************)
THEOREM ProcessComponents == ProcessSpec => ThrottleSpec /\ LifeSpec /\ Spec
<1>1. ProcessInit => ThrottleInit /\ LifeInit /\ Init
  BY DEF ProcessInit
<1>2. [ProcessNext]_<<throttle, life, vars>> => [ThrottleNext]_throttle /\ [LifeNext]_life /\ [Next]_vars
  BY DEF ProcessNext
<1> QED BY <1>1, <1>2, PTL DEF ProcessSpec, ThrottleSpec, LifeSpec, Spec

(****************************************************************************)
(* The types of all three components, in the composition.                   *)
(****************************************************************************)
THEOREM ProcessTyping == ProcessSpec => []ProcessTypeOK
<1>1. ThrottleTypeOK /\ LifeTypeOK /\ TypeOK => ProcessTypeOK
  BY DEF ProcessTypeOK
<1> QED BY <1>1, ProcessComponents, ThrottleTyping, LifeTyping, SettingsTyping, PTL
=============================================================================
