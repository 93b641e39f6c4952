-------------------------- MODULE ImageStoreProofs ---------------------------
(****************************************************************************)
(* Proofs about ImageStore, for every set of requests, URLs, admin requests *)
(* and faults: types, ReadyHasFile, SavedWhole, FilesExplained,             *)
(* ReplacedOnlyIfRaced.                                                     *)
(****************************************************************************)
EXTENDS ImageStore, TLAPS

(****************************************************************************)
(* Every step keeps the types.                                              *)
(****************************************************************************)
LEMMA DownloadTypes ==
    ASSUME TypeOK, NEW j \in Jobs, DownloadStep(j)
    PROVE  TypeOK'
<1>1. CASE DownloadFails(j)
  BY <1>1 DEF TypeOK, DownloadFails, Moves, reqVars, opVars
<1>2. CASE CreatePart(j)
  BY <1>2 DEF TypeOK, CreatePart, Moves, reqVars, opVars
<1>3. CASE DropPart(j)
  BY <1>3 DEF TypeOK, DropPart, Moves, reqVars, opVars
<1>4. CASE RenamePart(j)
  BY <1>4 DEF TypeOK, RenamePart, Moves, reqVars, opVars
<1>5. CASE SyncDir(j)
  BY <1>5 DEF TypeOK, SyncDir, Moves, reqVars, opVars
<1>6. CASE SyncDirFails(j)
  BY <1>6 DEF TypeOK, SyncDirFails, Moves, reqVars, opVars
<1> QED BY <1>1, <1>2, <1>3, <1>4, <1>5, <1>6 DEF DownloadStep

\* Every step of Process keeps the types.
LEMMA RequestTypes ==
    ASSUME TypeOK, NEW r \in Req,
           \/ \E urls \in SUBSET Url, parsed \in BOOLEAN : StartProcess(r, urls, parsed)
           \/ RequestStep(r)
           \/ Disconnect(r)
    PROVE  TypeOK'
<1>1. ASSUME NEW urls \in SUBSET Url, NEW parsed \in BOOLEAN, StartProcess(r, urls, parsed)
      PROVE  TypeOK'
  BY <1>1 DEF TypeOK, StartProcess, disk, opVars
<1>2. ASSUME NEW u \in Url, AppendRecord(r, u) PROVE TypeOK'
  BY <1>2 DEF TypeOK, AppendRecord, disk, opVars
<1>3. CASE WaitAll(r)
  BY <1>3 DEF TypeOK, WaitAll, disk, opVars
<1>4. CASE SaveCommits(r)
  BY <1>4 DEF TypeOK, SaveCommits, opVars, RowFor, ReadyRow, FailedRow, Row, Jobs
<1>5. CASE SaveFails(r)
  <2>1. held' \in [Req \cup Op -> SUBSET Jobs]
    <3>1. \A i \in {r} \X records[r] : i \in Jobs
      BY DEF TypeOK, Jobs, Ids
    <3> QED BY <1>5, <3>1 DEF TypeOK, SaveFails
  <2> QED BY <2>1, <1>5 DEF TypeOK, SaveFails, disk, opVars
<1>6. CASE AnswerError(r)
  BY <1>6 DEF TypeOK, AnswerError, disk, opVars
<1>7. CASE Respond(r)
  BY <1>7 DEF TypeOK, Respond, disk, opVars
<1>8. CASE Disconnect(r)
  BY <1>8 DEF TypeOK, Disconnect, disk, opVars
<1> QED BY <1>1, <1>2, <1>3, <1>4, <1>5, <1>6, <1>7, <1>8 DEF RequestStep

\* What a delete or a retry is asked for are image ids.
LEMMA DoomedIds == \A x \in Ids \cup Req : Doomed(x) \subseteq Ids
BY DEF Doomed, IdsOf, Ids

\* The paths read from rows are paths of stored files.
LEMMA PathsJobs == TypeOK => \A I \in SUBSET Ids : Paths(I) \subseteq Jobs
BY DEF TypeOK, Paths, Row

\* Every step of an admin request keeps the types.
LEMMA OpTypes ==
    ASSUME TypeOK, NEW o \in Op,
           \/ \E i \in Ids : ReadImagePath(o, i) \/ ReadFailed(o, i)
           \/ \E r \in Req : ReadRequestPaths(o, r)
           \/ OpStep(o)
    PROVE  TypeOK'
<1> USE NamesDistinct
<1>1. ASSUME NEW i \in Ids, ReadImagePath(o, i) PROVE TypeOK'
  <2>1. raced' \subseteq Ids /\ target' \in [Op -> Ids \cup Req \cup {NoPath}]
    BY <1>1, DoomedIds DEF TypeOK, ReadImagePath, Begins
  <2>2. held' \in [Req \cup Op -> SUBSET Jobs]
    BY <1>1, PathsJobs DEF TypeOK, ReadImagePath
  <2> QED BY <2>1, <2>2, <1>1 DEF TypeOK, ReadImagePath, Begins, disk, reqVars
<1>2. ASSUME NEW i \in Ids, ReadFailed(o, i) PROVE TypeOK'
  <2>1. raced' \subseteq Ids /\ target' \in [Op -> Ids \cup Req \cup {NoPath}]
    BY <1>2, DoomedIds DEF TypeOK, ReadFailed, Begins
  <2> QED BY <2>1, <1>2 DEF TypeOK, ReadFailed, Begins, disk, reqVars
<1>3. ASSUME NEW r \in Req, ReadRequestPaths(o, r) PROVE TypeOK'
  <2>1. raced' \subseteq Ids /\ target' \in [Op -> Ids \cup Req \cup {NoPath}]
    BY <1>3, DoomedIds DEF TypeOK, ReadRequestPaths, Begins
  <2>2. held' \in [Req \cup Op -> SUBSET Jobs] /\ missed' \in [Op -> SUBSET Jobs]
    <3>1. Paths(IdsOf(r)) \subseteq Jobs
      BY PathsJobs DEF IdsOf, Ids
    <3> QED BY <3>1, <1>3 DEF TypeOK, ReadRequestPaths
  <2> QED BY <2>1, <2>2, <1>3 DEF TypeOK, ReadRequestPaths, Begins, disk, reqVars
<1>4. CASE DeleteCommits(o)
  <2>1. deleted' \subseteq Ids /\ stranded' \subseteq Jobs /\ missed' \in [Op -> SUBSET Jobs]
    BY <1>4 DEF TypeOK, DeleteCommits
  <2> QED BY <1>4, <2>1 DEF TypeOK, DeleteCommits, reqVars, NoRow, Row
<1>5. CASE DeleteFails(o)
  BY <1>5 DEF TypeOK, DeleteFails, Ends, disk, reqVars
<1>6. CASE AnswerAdmin(o)
  BY <1>6 DEF TypeOK, AnswerAdmin, Ends, disk, reqVars
<1>7. CASE RetryFails(o)
  <2>1. image' \in [Ids -> Row]
    <3>1. \A w \in Row : [w EXCEPT !.error = TRUE] \in Row
      BY DEF Row
    <3>2. \/ image' = image
          \/ image' = [image EXCEPT ![target[o]].error = TRUE]
      BY <1>7 DEF RetryFails
    <3> QED BY <3>1, <3>2 DEF TypeOK
  <2> QED BY <2>1, <1>7 DEF TypeOK, RetryFails, Ends, reqVars
<1>8. CASE RetryCommits(o)
  <2>1. image' \in [Ids -> Row]
    BY <1>8 DEF TypeOK, RetryCommits, ReadyRow, Row, Jobs
  <2> QED BY <2>1, <1>8 DEF TypeOK, RetryCommits, Ends, reqVars
<1>9. CASE RetryRollsBack(o)
  <2>1. held' \in [Req \cup Op -> SUBSET Jobs]
    BY <1>9 DEF TypeOK, RetryRollsBack, Jobs
  <2> QED BY <2>1, <1>9 DEF TypeOK, RetryRollsBack, disk, reqVars
<1> QED BY <1>1, <1>2, <1>3, <1>4, <1>5, <1>6, <1>7, <1>8, <1>9 DEF OpStep

\* TypeOK is inductive.
LEMMA TypeStep == TypeOK /\ [Next]_vars => TypeOK'
<1> SUFFICES ASSUME TypeOK, [Next]_vars PROVE TypeOK'
  OBVIOUS
<1>1. ASSUME NEW h \in Req \cup Op, NEW p \in held[h], RemoveFile(h, p) PROVE TypeOK'
  BY <1>1 DEF TypeOK, RemoveFile, reqVars, opVars
<1>2. ASSUME NEW v \in View, NEW i \in Ids, ReadRow(v, i) PROVE TypeOK'
  <2>1. image[i].path \in Jobs \cup {NoPath}
    BY DEF TypeOK, Row
  <2>2. view' \in [View -> Viewing]
    <3>1. PICK e \in Viewing : view' = [view EXCEPT ![v] = e]
      <4>1. \A w \in {"404", "placeholder"} :
              [at |-> "answered", id |-> i, path |-> NoPath, got |-> w] \in Viewing
        BY DEF Viewing
      <4>2. [at |-> "open", id |-> i, path |-> image[i].path, got |-> ""] \in Viewing
        BY <2>1 DEF Viewing
      <4> QED BY <1>2, <4>1, <4>2 DEF ReadRow, Answer
    <3> QED BY <3>1 DEF TypeOK
  <2> QED BY <1>2, <2>2 DEF TypeOK, ReadRow, disk, reqVars, opVars
<1>3. ASSUME NEW v \in View, OpenFile(v) PROVE TypeOK'
  <2>1. view' \in [View -> Viewing]
    <3> DEFINE e == [view[v] EXCEPT !.at = "answered",
                                    !.got = IF view[v].path \in files THEN "image" ELSE "404"]
    <3>1. view[v] \in Viewing
      BY DEF TypeOK
    <3>2. e \in Viewing
      BY <3>1 DEF Viewing
    <3>3. view' = [view EXCEPT ![v] = e]
      BY <1>3 DEF OpenFile, TypeOK
    <3> QED BY <3>2, <3>3 DEF TypeOK
  <2> QED BY <1>3, <2>1 DEF TypeOK, OpenFile, disk, reqVars, opVars
<1>4. CASE Crash
  <2>1. view' \in [View -> Viewing]
    <3>1. \A w \in Viewing : [w EXCEPT !.at = "lost"] \in Viewing
      BY DEF Viewing
    <3> QED BY <1>4, <3>1 DEF TypeOK, Crash, Dies
  <2>2. crashes' \in 0..MaxCrash
    BY <1>4, MaxCrashNat DEF TypeOK, Crash, Dies
  <2>3. stranded' \subseteq Jobs
    BY <1>4 DEF TypeOK, Crash, Dies
  <2> QED BY <1>4, <2>1, <2>2, <2>3 DEF TypeOK, Crash, Dies, disk
<1>5. CASE Start
  BY <1>5 DEF TypeOK, Start, reqVars, opVars
<1>6. CASE UNCHANGED vars
  BY <1>6 DEF TypeOK, vars, disk, reqVars, opVars
<1>7. CASE StartFails
  <2>1. parts' \subseteq Jobs
    BY <1>7 DEF TypeOK, StartFails
  <2> QED BY <1>7, <2>1 DEF TypeOK, StartFails, reqVars, opVars
<1> QED BY <1>1, <1>2, <1>3, <1>4, <1>5, <1>6, <1>7, DownloadTypes, RequestTypes, OpTypes
        DEF Next, Terminating

\* The initial state is of the declared types.
LEMMA InitTypes == Init => TypeOK
<1>1. Init => image \in [Ids -> Row] /\ view \in [View -> Viewing]
  <2>1. NoRow \in Row
    BY DEF NoRow, Row
  <2>2. [at |-> "idle", id |-> NoPath, path |-> NoPath, got |-> ""] \in Viewing
    BY DEF Viewing
  <2>3. SUFFICES ASSUME Init PROVE image \in [Ids -> Row] /\ view \in [View -> Viewing]
    OBVIOUS
  <2>4. image \in [Ids -> Row]
    BY <2>1, <2>3 DEF Init
  <2>5. view \in [View -> Viewing]
    BY <2>2, <2>3 DEF Init
  <2> QED BY <2>4, <2>5
<1>2. 0 \in 0..MaxCrash
  BY MaxCrashNat
<1>3. SUFFICES ASSUME Init PROVE TypeOK
  OBVIOUS
<1> QED BY <1>1, <1>2, <1>3 DEF Init, TypeOK

(****************************************************************************)
(* Type correctness: every reachable state of ImageStore is of the declared *)
(* types, whatever the instance.                                            *)
(****************************************************************************)
THEOREM Typing == Spec => []TypeOK
BY InitTypes, TypeStep, PTL DEF Spec

-----------------------------------------------------------------------------
(* The kinds of steps, and what each kind leaves alone.                     *)

\* What the inductive invariant speaks of.
core == <<request, image, files, dl, rpc, resp, records, status, opc, kind, target, held, missed,
          deleted, committed>>

RequestAct(r) ==
    \/ \E urls \in SUBSET Url, parsed \in BOOLEAN : StartProcess(r, urls, parsed)
    \/ RequestStep(r)

OpBegins(o) ==
    \/ \E i \in Ids : ReadImagePath(o, i) \/ ReadFailed(o, i)
    \/ \E r \in Req : ReadRequestPaths(o, r)

\* The kinds of steps there are; a step that is none of them changes nothing the invariant speaks of.
LEMMA StepKinds ==
    ASSUME [Next]_vars
    PROVE  \/ \E j \in Jobs : DownloadStep(j)
           \/ \E r \in Req : RequestAct(r)
           \/ \E h \in Req \cup Op : \E p \in held[h] : RemoveFile(h, p)
           \/ \E o \in Op : OpBegins(o) \/ OpStep(o)
           \/ Crash
           \/ UNCHANGED core
<1>1. ASSUME NEW r \in Req, Disconnect(r) PROVE UNCHANGED core
  BY <1>1 DEF Disconnect, core, disk, opVars
<1>2. ASSUME NEW v \in View, (\E i \in Ids : ReadRow(v, i)) \/ OpenFile(v) PROVE UNCHANGED core
  BY <1>2 DEF ReadRow, OpenFile, core, disk, reqVars, opVars
<1>3. ASSUME Start \/ StartFails \/ UNCHANGED vars PROVE UNCHANGED core
  BY <1>3 DEF Start, StartFails, vars, core, disk, reqVars, opVars
<1> QED BY <1>1, <1>2, <1>3 DEF Next, RequestAct, OpBegins, Terminating

\* A download touches its own progress and the file system.
LEMMA DownloadFrame ==
    ASSUME NEW j \in Jobs, DownloadStep(j)
    PROVE  /\ UNCHANGED <<request, image, rpc, resp, records, status, opc, kind, target, held, missed, deleted,
                        committed>>
           /\ Running(j)
           /\ \E s \in {"err", "part", "moved", "ok"} : dl' = [dl EXCEPT ![j] = s]
           /\ dl[j] \in {"get", "part", "moved"}
BY DEF DownloadStep, DownloadFails, CreatePart, DropPart, RenamePart, SyncDir, SyncDirFails,
       Moves, reqVars, opVars

\* Process touches no file and no admin request.
LEMMA RequestFrame ==
    ASSUME NEW r \in Req, RequestAct(r)
    PROVE  UNCHANGED <<files, opc, kind, target, missed, deleted>>
BY DEF RequestAct, StartProcess, RequestStep, AppendRecord, WaitAll, SaveCommits, SaveFails,
       AnswerError, Respond, disk, opVars

\* Removing a file touches no row.
LEMMA RemoveFrame ==
    ASSUME NEW h \in Req \cup Op, NEW p \in held[h], RemoveFile(h, p)
    PROVE  UNCHANGED <<request, image, dl, rpc, resp, records, status, opc, kind, target, missed, deleted,
                       committed>>
BY DEF RemoveFile, reqVars, opVars

\* The first step of an admin request only reads the database.
LEMMA BeginFrame ==
    ASSUME NEW o \in Op, OpBegins(o)
    PROVE  UNCHANGED <<request, image, files, rpc, resp, records, status, deleted, committed>>
BY DEF OpBegins, ReadImagePath, ReadFailed, ReadRequestPaths, Begins, disk, reqVars

\* The later steps of an admin request touch no file and no Process.
LEMMA OpStepFrame ==
    ASSUME NEW o \in Op, OpStep(o)
    PROVE  /\ UNCHANGED <<files, dl, rpc, resp, records, status, kind, target, committed>>
           /\ opc[o] \in {"delete", "retry", "remove"}
           /\ \/ opc' = [opc EXCEPT ![o] = "done"]
              \/ opc[o] # "remove" /\ opc' = [opc EXCEPT ![o] = "remove"]
BY DEF OpStep, DeleteCommits, DeleteFails, AnswerAdmin, RetryFails, RetryCommits, RetryRollsBack,
       Ends, disk, reqVars

\* A crash leaves the disk as it is.
LEMMA CrashFrame ==
    Crash => UNCHANGED <<request, image, files, dl, resp, records, status, kind, target, deleted, committed>>
BY DEF Crash, Dies, disk

\* Rows appear, change and disappear in four transactions only.
LEMMA RowFrame ==
    ASSUME [Next]_vars
    PROVE  \/ UNCHANGED <<request, image, committed>>
           \/ \E r \in Req : SaveCommits(r)
           \/ \E o \in Op : DeleteCommits(o) \/ RetryFails(o) \/ RetryCommits(o)
<1>1. ASSUME NEW r \in Req, RequestAct(r), ~SaveCommits(r)
      PROVE  UNCHANGED <<request, image, committed>>
  BY <1>1 DEF RequestAct, StartProcess, RequestStep, AppendRecord, WaitAll, SaveFails,
              AnswerError, Respond, disk
<1>2. ASSUME NEW o \in Op, DeleteFails(o) \/ AnswerAdmin(o) \/ RetryRollsBack(o)
      PROVE  UNCHANGED <<request, image, committed>>
  BY <1>2 DEF DeleteFails, AnswerAdmin, RetryRollsBack, disk, reqVars
<1> QED BY <1>1, <1>2, StepKinds, DownloadFrame, RemoveFrame, BeginFrame, CrashFrame DEF OpStep, core

\* Committed requests stay committed.
LEMMA CommittedGrows == [Next]_vars => committed \subseteq committed'
BY RowFrame DEF SaveCommits, DeleteCommits, RetryFails, RetryCommits, reqVars

\* What is deleted counts as deleted ever after.
LEMMA DeletedGrows == [Next]_vars => deleted \subseteq deleted'
<1>1. ASSUME NEW o \in Op, OpStep(o) PROVE deleted \subseteq deleted'
  BY <1>1 DEF OpStep, DeleteCommits, DeleteFails, AnswerAdmin, RetryFails, RetryCommits, RetryRollsBack,
              Ends
<1> QED BY <1>1, StepKinds, DownloadFrame, RequestFrame, RemoveFrame, BeginFrame, CrashFrame DEF core

\* An admin request keeps its kind and target from its first step on, and
\* done is its last stage.
LEMMA OpFrame ==
    ASSUME TypeOK, [Next]_vars
    PROVE  \A o \in Op : opc[o] # "idle" =>
              /\ kind'[o] = kind[o] /\ target'[o] = target[o]
              /\ opc[o] = "done" => opc'[o] = "done"
<1> DEFINE Keeps == \A o \in Op : opc[o] # "idle" =>
                       /\ kind'[o] = kind[o] /\ target'[o] = target[o]
                       /\ opc[o] = "done" => opc'[o] = "done"
<1>1. CASE UNCHANGED <<opc, kind, target>>
  BY <1>1
<1>2. ASSUME NEW q \in Op, OpBegins(q) PROVE Keeps
  <2>1. ASSUME NEW at, NEW k, NEW x, Begins(q, at, k, x) PROVE Keeps
    BY <2>1 DEF TypeOK, Begins
  <2> QED BY <1>2, <2>1 DEF OpBegins, ReadImagePath, ReadFailed, ReadRequestPaths
<1>3. ASSUME NEW q \in Op, OpStep(q) PROVE Keeps
  BY <1>3, OpStepFrame DEF TypeOK
<1>4. CASE Crash
  BY <1>4 DEF TypeOK, Crash, Dies
<1> QED BY <1>1, <1>2, <1>3, <1>4, StepKinds, DownloadFrame, RequestFrame, RemoveFrame DEF core

\* A failed retry touches the error of a row only.
LEMMA FailLeavesRow ==
    ASSUME TypeOK, NEW o \in Op, RetryFails(o), NEW i \in Ids
    PROVE  image'[i].status = image[i].status /\ image'[i].path = image[i].path
<1>1. image \in [Ids -> Row]
  BY DEF TypeOK
<1>2. CASE image' = [image EXCEPT ![target[o]].error = TRUE]
  BY ONLY <1>1, <1>2, i \in Ids DEF Row
<1> QED BY <1>2 DEF RetryFails

-----------------------------------------------------------------------------
(* The conjuncts of OwnInv, one lemma each.                                 *)

\* The answer of a committed request does not change any more.
LEMMA RespFixed ==
    ASSUME OwnInv, [Next]_vars, NEW r \in committed PROVE resp'[r] = resp[r]
<1> USE DEF OwnInv
<1>1. ASSUME NEW q \in Req, NEW urls \in SUBSET Url, NEW parsed \in BOOLEAN,
             StartProcess(q, urls, parsed)
      PROVE  resp'[r] = resp[r]
  BY <1>1 DEF StartProcess, CommittedStage, TypeOK
<1>2. ASSUME NEW q \in Req, RequestStep(q) PROVE resp' = resp
  BY <1>2 DEF RequestStep, AppendRecord, WaitAll, SaveCommits, SaveFails, AnswerError, Respond
<1> QED BY <1>1, <1>2, StepKinds, DownloadFrame, RemoveFrame, BeginFrame, OpStepFrame, CrashFrame
        DEF RequestAct, core

\* A row names a file exactly when it is READY.
LEMMA RowShapeStep == OwnInv /\ [Next]_vars => RowShape'
<1> SUFFICES ASSUME OwnInv, [Next]_vars PROVE RowShape'
  OBVIOUS
<1> USE NamesDistinct DEF OwnInv
<1>1. CASE UNCHANGED <<request, image, committed>>
  BY <1>1, RespFixed DEF RowShape
<1>2. ASSUME NEW r \in Req, SaveCommits(r) PROVE RowShape'
  BY <1>2 DEF RowShape, Gathered, GatheredOf, TypeOK, SaveCommits, RowFor, ReadyRow, FailedRow, Jobs, Ids
<1>3. ASSUME NEW o \in Op, DeleteCommits(o) PROVE RowShape'
  BY <1>3 DEF RowShape, DeleteCommits, NoRow, reqVars
<1>4. ASSUME NEW o \in Op, RetryFails(o) PROVE RowShape'
  BY <1>4 DEF RowShape, TypeOK, RetryFails, reqVars, Row
<1>5. ASSUME NEW o \in Op, RetryCommits(o) PROVE RowShape'
  BY <1>5 DEF RowShape, TypeOK, RetryCommits, ReadyRow, reqVars, Jobs
<1> QED BY <1>1, <1>2, <1>3, <1>4, <1>5, RowFrame

\* A row only ever names a file of its own.
LEMMA RowOwnsPathStep == OwnInv /\ [Next]_vars => RowOwnsPath'
<1> SUFFICES ASSUME OwnInv, [Next]_vars,
                    NEW i \in Ids, NEW p \in Jobs, image'[i].path = p
             PROVE  Owner(p)' = i /\ (p \in Op => opc'[p] = "done")
  BY DEF RowOwnsPath
<1> USE NamesDistinct DEF OwnInv
<1>1. CASE image[i].path = p
  BY <1>1, OpFrame DEF RowOwnsPath, Owner, Jobs
<1>2. CASE image[i].path # p
  <2>1. ASSUME NEW r \in Req, SaveCommits(r) PROVE p = i
    BY <2>1, <1>2 DEF TypeOK, SaveCommits, RowFor, ReadyRow, FailedRow, Jobs
  <2>2. ASSUME NEW o \in Op, DeleteCommits(o) PROVE FALSE
    BY <2>2, <1>2 DEF TypeOK, DeleteCommits, NoRow
  <2>3. ASSUME NEW o \in Op, RetryFails(o) PROVE FALSE
    BY <2>3, <1>2, FailLeavesRow
  <2>4. ASSUME NEW o \in Op, RetryCommits(o)
        PROVE  p = o /\ target[o] = i /\ target' = target /\ opc'[o] = "done"
    BY <2>4, <1>2 DEF TypeOK, RetryCommits, ReadyRow, Ends
  <2> QED BY <1>2, <2>1, <2>2, <2>3, <2>4, RowFrame DEF Owner, Jobs
<1> QED BY <1>1, <1>2

\* Committed requests are past Save.
LEMMA CommittedStageStep == OwnInv /\ [Next]_vars => CommittedStage'
<1> SUFFICES ASSUME OwnInv, [Next]_vars PROVE CommittedStage'
  OBVIOUS
<1> USE DEF OwnInv
<1>1. ASSUME NEW r \in Req, SaveCommits(r) PROVE CommittedStage'
  BY <1>1 DEF CommittedStage, TypeOK, SaveCommits
<1>2. ASSUME NEW r \in Req, RequestAct(r), ~SaveCommits(r) PROVE CommittedStage'
  <2>1. UNCHANGED <<request, committed>>
    BY <1>2 DEF RequestAct, StartProcess, RequestStep, AppendRecord, WaitAll, SaveFails,
                AnswerError, Respond, disk
  <2>2. \/ rpc' = rpc
        \/ rpc[r] \notin {"respond", "done", "lost"} /\ \E s : rpc' = [rpc EXCEPT ![r] = s]
        \/ rpc' = [rpc EXCEPT ![r] = "done"]
    BY <1>2 DEF RequestAct, StartProcess, RequestStep, AppendRecord, WaitAll, SaveFails,
                AnswerError, Respond
  <2> QED BY <2>1, <2>2 DEF CommittedStage, TypeOK
<1>3. ASSUME NEW o \in Op, OpStep(o) PROVE CommittedStage'
  <2>1. \/ request' = request
        \/ \E r \in Req : request' = [request EXCEPT ![r] = "absent"]
    BY <1>3 DEF OpStep, DeleteCommits, DeleteFails, AnswerAdmin, RetryFails, RetryCommits,
                RetryRollsBack, disk
  <2> QED BY <1>3, <2>1, OpStepFrame DEF CommittedStage, TypeOK
<1>4. CASE Crash
  BY <1>4 DEF CommittedStage, TypeOK, Crash, Dies, disk
<1>5. CASE UNCHANGED <<request, committed, rpc>>
  BY <1>5 DEF CommittedStage
<1> QED BY <1>1, <1>2, <1>3, <1>4, <1>5, StepKinds, DownloadFrame, RemoveFrame, BeginFrame DEF core

\* Process loses no record and no failure.
LEMMA GatheredStep == OwnInv /\ [Next]_vars => Gathered'
<1> SUFFICES ASSUME OwnInv, [Next]_vars, NEW q \in Req PROVE GatheredOf(q)'
  BY DEF Gathered
<1> USE NamesDistinct DEF OwnInv
<1>0. GatheredOf(q)
  BY DEF Gathered
<1>u. \A u \in Url : <<q, u>> \in Jobs /\ <<q, u>> \in Ids
  BY DEF Jobs, Ids
<1>1. ASSUME NEW j \in Jobs, DownloadStep(j) PROVE GatheredOf(q)'
  <2>1. \A u \in Url : dl[<<q, u>>] \in {"idle", "ok", "err"} => dl'[<<q, u>>] = dl[<<q, u>>]
    BY <1>1, <1>u, DownloadFrame DEF TypeOK
  <2>2. UNCHANGED <<rpc, resp, records, status, committed>>
    BY <1>1, DownloadFrame
  <2>3. records[q] \subseteq Url
    BY DEF TypeOK
  <2> QED BY <1>0, <2>1, <2>2, <2>3 DEF GatheredOf
<1>2. ASSUME NEW r \in Req, RequestAct(r) PROVE GatheredOf(q)'
  <2>1. CASE q # r
    <3>1. /\ rpc'[q] = rpc[q] /\ resp'[q] = resp[q]
          /\ records'[q] = records[q] /\ status'[q] = status[q]
          /\ q \in committed' <=> q \in committed
          /\ \A u \in Url : dl'[<<q, u>>] = dl[<<q, u>>]
      <4>1. ASSUME NEW urls \in SUBSET Url, NEW parsed \in BOOLEAN, StartProcess(r, urls, parsed)
            PROVE  /\ rpc'[q] = rpc[q] /\ resp'[q] = resp[q] /\ status'[q] = status[q]
                   /\ UNCHANGED <<records, committed>>
                   /\ \A u \in Url : dl'[<<q, u>>] = dl[<<q, u>>]
        <5>1. \A u \in Url : <<q, u>> \notin {r} \X urls
          BY <2>1
        <5>2. \A u \in Url : dl'[<<q, u>>] = dl[<<q, u>>]
          BY <1>u, <4>1, <5>1 DEF StartProcess
        <5> QED BY <2>1, <4>1, <5>2 DEF StartProcess, TypeOK
      <4>2. ASSUME RequestStep(r)
            PROVE  /\ rpc'[q] = rpc[q] /\ resp' = resp /\ dl' = dl
                   /\ records'[q] = records[q] /\ status'[q] = status[q]
                   /\ q \in committed' <=> q \in committed
        <5>1. ASSUME NEW u \in Url, AppendRecord(r, u)
              PROVE  /\ UNCHANGED <<rpc, resp, dl, committed>>
                     /\ records'[q] = records[q] /\ status'[q] = status[q]
          BY <2>1, <5>1 DEF AppendRecord, TypeOK
        <5>2. CASE WaitAll(r) \/ SaveCommits(r) \/ SaveFails(r) \/ AnswerError(r) \/ Respond(r)
          BY <2>1, <5>2 DEF WaitAll, SaveCommits, SaveFails, AnswerError, Respond, TypeOK
        <5> QED BY <4>2, <5>1, <5>2 DEF RequestStep
      <4> QED BY <1>2, <4>1, <4>2 DEF RequestAct
    <3>2. records[q] \subseteq Url
      BY DEF TypeOK
    <3> QED BY <1>0, <3>1, <3>2 DEF GatheredOf
  <2>2. ASSUME q = r, NEW urls \in SUBSET Url, NEW parsed \in BOOLEAN,
               StartProcess(r, urls, parsed)
        PROVE  GatheredOf(q)'
    <3>1. q \notin committed' /\ records'[q] = {}
      BY <1>0, <2>2 DEF StartProcess, CommittedStage, GatheredOf
    <3>2. rpc'[q] = "process" /\ status'[q] # "DEGRADED"
      BY <2>2 DEF StartProcess, TypeOK
    <3> QED BY <3>1, <3>2 DEF GatheredOf
  <2>3. ASSUME q = r, NEW u \in Url, AppendRecord(r, u) PROVE GatheredOf(q)'
    <3>1. /\ rpc' = rpc /\ rpc[q] = "process" /\ resp' = resp /\ dl' = dl
          /\ records'[q] = records[q] \cup {u} /\ u \in resp[q]
          /\ dl[<<q, u>>] \in {"ok", "err"}
          /\ status'[q] = IF dl[<<q, u>>] = "err" THEN "DEGRADED" ELSE status[q]
      BY <2>3 DEF AppendRecord, TypeOK
    <3>2. q \notin committed'
      BY <2>3 DEF AppendRecord, CommittedStage
    <3> QED BY <1>0, <3>1, <3>2 DEF GatheredOf
  <2>4. CASE q = r /\ (WaitAll(r) \/ SaveCommits(r) \/ SaveFails(r) \/ AnswerError(r) \/ Respond(r))
    <3>1. UNCHANGED <<resp, records, status, dl>>
      BY <2>4 DEF WaitAll, SaveCommits, SaveFails, AnswerError, Respond
    <3>2. \/ rpc[q] = "process" /\ rpc'[q] = "save" /\ records[q] = resp[q]
          \/ rpc[q] = "save" /\ rpc'[q] \notin {"idle", "process", "save"}
          \/ rpc'[q] = "done" /\ committed' = committed
      BY <2>4 DEF WaitAll, SaveCommits, SaveFails, AnswerError, Respond, TypeOK
    <3> QED BY <1>0, <3>1, <3>2 DEF GatheredOf
  <2> QED BY <1>2, <2>1, <2>2, <2>3, <2>4 DEF RequestAct, RequestStep
<1>3. ASSUME NEW o \in Op, OpBegins(o) PROVE GatheredOf(q)'
  <2>1. \A i \in Ids : dl'[i] = dl[i]
    <3>1. dl' = dl \/ dl' = [dl EXCEPT ![o] = "get"]
      BY <1>3 DEF OpBegins, ReadImagePath, ReadFailed, ReadRequestPaths
    <3> QED BY <3>1 DEF TypeOK, Jobs
  <2>2. records[q] \subseteq Url
    BY DEF TypeOK
  <2> QED BY <1>0, <1>3, <1>u, <2>1, <2>2, BeginFrame DEF GatheredOf
<1>4. CASE Crash
  <2>1. rpc'[q] \in {rpc[q], "lost"} /\ UNCHANGED <<resp, records, status, committed, dl>>
    BY <1>4, CrashFrame DEF Crash, Dies
  <2> QED BY <1>0, <2>1 DEF GatheredOf
<1>5. CASE UNCHANGED <<rpc, resp, records, status, committed, dl>>
  BY <1>0, <1>5 DEF GatheredOf
<1> QED BY <1>1, <1>2, <1>3, <1>4, <1>5, StepKinds, RemoveFrame, OpStepFrame DEF core

\* Admin handlers know what they work on.
LEMMA OpKnowsStep == OwnInv /\ [Next]_vars => OpKnows'
<1> SUFFICES ASSUME OwnInv, [Next]_vars PROVE OpKnows'
  OBVIOUS
<1> USE NamesDistinct DEF OwnInv
<1>1. CASE UNCHANGED <<opc, kind, target>>
  BY <1>1, CommittedGrows DEF OpKnows, Doomed
<1>2. ASSUME NEW o \in Op, NEW i \in Ids, ReadImagePath(o, i) PROVE OpKnows'
  <2>1. i[1] \in committed /\ Doomed(i) = {i}
    BY <1>2 DEF ReadImagePath, RowShape, Doomed, Jobs
  <2> QED BY <1>2, <2>1 DEF OpKnows, TypeOK, ReadImagePath, Begins, reqVars, Deletes, Doomed
<1>3. ASSUME NEW o \in Op, NEW i \in Ids, ReadFailed(o, i) PROVE OpKnows'
  BY <1>3 DEF OpKnows, TypeOK, ReadFailed, Begins, reqVars, Deletes, Doomed
<1>4. ASSUME NEW o \in Op, NEW r \in Req, ReadRequestPaths(o, r) PROVE OpKnows'
  <2>1. \A i \in Doomed(r) : i[1] \in committed
    BY <1>4 DEF ReadRequestPaths, CommittedStage, Doomed, IdsOf
  <2> QED BY <1>4, <2>1 DEF OpKnows, TypeOK, ReadRequestPaths, Begins, reqVars, Deletes, Doomed
<1>5. ASSUME NEW o \in Op, OpStep(o) PROVE OpKnows'
  BY <1>5, OpStepFrame DEF OpKnows, TypeOK, Deletes, Doomed
<1>6. CASE Crash
  BY <1>6 DEF OpKnows, TypeOK, Crash, Dies, Doomed
<1> QED BY <1>1, <1>2, <1>3, <1>4, <1>5, <1>6, StepKinds, DownloadFrame, RequestFrame, RemoveFrame
        DEF core, OpBegins

\* Deleted rows stay deleted.
LEMMA DeletedForGoodStep == OwnInv /\ [Next]_vars => DeletedForGood'
<1> SUFFICES ASSUME OwnInv, [Next]_vars,
                    NEW o \in Op, opc'[o] = "remove", kind'[o] \in Deletes,
                    NEW i \in Doomed(target'[o])
             PROVE  image'[i].status = "absent" /\ i \in deleted'
  BY DEF DeletedForGood, Doomed
<1> USE NamesDistinct DEF OwnInv
<1>1. CASE opc[o] = "remove"
  <2>1. /\ i \in Ids /\ i[1] \in committed /\ image[i].status = "absent" /\ i \in deleted'
    BY <1>1, OpFrame, DeletedGrows, DoomedIds DEF OpKnows, DeletedForGood
  <2>2. ASSUME NEW r \in Req, SaveCommits(r) PROVE image'[i] = image[i]
    BY <2>1, <2>2 DEF SaveCommits, CommittedStage
  <2>3. ASSUME NEW q \in Op, DeleteCommits(q) PROVE image'[i].status = "absent"
    BY <2>1, <2>3 DEF DeleteCommits, NoRow
  <2>4. ASSUME NEW q \in Op, RetryFails(q) \/ RetryCommits(q) PROVE image'[i] = image[i]
    BY <2>1, <2>4 DEF RetryFails, RetryCommits, TypeOK
  <2> QED BY <2>1, <2>2, <2>3, <2>4, RowFrame
<1>2. CASE opc[o] # "remove"
  <2>1. ASSUME NEW q \in Op, OpStep(q) PROVE q = o /\ (DeleteCommits(o) \/ RetryRollsBack(o))
    <3>1. q = o
      BY <1>2, <2>1, OpStepFrame DEF TypeOK
    <3> QED BY <2>1, <3>1, <1>2 DEF OpStep, DeleteFails, AnswerAdmin, RetryFails, RetryCommits, Ends, TypeOK
  <2>2. ASSUME NEW q \in Op, OpBegins(q) PROVE FALSE
    <3>1. ASSUME NEW at \in {"delete", "retry"}, NEW k, NEW x, Begins(q, at, k, x) PROVE FALSE
      BY <1>2, <3>1 DEF Begins, TypeOK
    <3> QED BY <2>2, <3>1 DEF OpBegins, ReadImagePath, ReadFailed, ReadRequestPaths
  <2>3. CASE Crash
    BY <1>2, <2>3 DEF Crash, Dies, TypeOK
  <2>4. CASE DeleteCommits(o)
    <3>1. i \in Ids /\ target' = target /\ i \in Doomed(target[o])
      BY <2>4, DoomedIds DEF DeleteCommits, OpKnows
    <3> QED BY <3>1, <2>4 DEF DeleteCommits, NoRow
  <2>5. ASSUME RetryRollsBack(o) PROVE FALSE
    BY <2>5 DEF RetryRollsBack, OpKnows, Deletes
  <2> QED BY <1>2, <2>1, <2>2, <2>3, <2>4, <2>5, StepKinds, DownloadFrame, RequestFrame, RemoveFrame
          DEF core
<1> QED BY <1>1, <1>2

\* A stored file stays while its handler needs it.
LEMMA DownloadedKeptStep == OwnInv /\ [Next]_vars => DownloadedKept'
<1> SUFFICES ASSUME OwnInv, [Next]_vars,
                    NEW j \in Jobs, dl'[j] \in {"moved", "ok"},
                    Running(j)' \/ (j \in Ids /\ rpc'[j[1]] = "save")
             PROVE  j \in files'
  BY DEF DownloadedKept
<1> USE NamesDistinct DEF OwnInv
<1> DEFINE Needs == Running(j) \/ (j \in Ids /\ rpc[j[1]] = "save")
<1>0. j \in Ids => j[1] \in Req /\ j[2] \in Url /\ j = <<j[1], j[2]>>
  BY DEF Ids
<1>1. ASSUME NEW k \in Jobs, DownloadStep(k) PROVE j \in files'
  <2>1. Needs
    BY <1>1, DownloadFrame DEF Running
  <2>2. CASE k # j
    <3>1. dl'[j] = dl[j]
      BY <1>1, <2>2, DownloadFrame DEF TypeOK
    <3>2. j \in files => j \in files'
      BY <1>1, <2>2 DEF DownloadStep, DownloadFails, CreatePart, DropPart, RenamePart, SyncDir,
                        SyncDirFails
    <3> QED BY <2>1, <3>1, <3>2 DEF DownloadedKept
  <2>3. CASE k = j
    <3>1. RenamePart(j) \/ SyncDir(j)
      BY <1>1, <2>3 DEF DownloadStep, DownloadFails, CreatePart, DropPart, SyncDirFails, Moves, TypeOK
    <3>2. RenamePart(j) => j \in files'
      BY DEF RenamePart
    <3>3. SyncDir(j) => j \in files'
      BY <2>1 DEF SyncDir, Moves, DownloadedKept
    <3> QED BY <3>1, <3>2, <3>3
  <2> QED BY <2>2, <2>3
<1>2. ASSUME NEW r \in Req, RequestAct(r) PROVE j \in files'
  <2>1. Needs /\ dl[j] \in {"moved", "ok"}
    <3>1. ASSUME NEW urls \in SUBSET Url, NEW parsed \in BOOLEAN, StartProcess(r, urls, parsed)
          PROVE  Needs /\ dl[j] \in {"moved", "ok"}
      <4>1. dl[j] \in {"moved", "ok"}
        BY <3>1 DEF StartProcess
      <4>2. j \in Ids => j[1] # r
        BY <1>0, <3>1, <4>1 DEF StartProcess, Gathered, GatheredOf
      <4> QED BY <1>0, <3>1, <4>1, <4>2 DEF StartProcess, Running, opVars, TypeOK
    <3>2. ASSUME RequestStep(r) PROVE Needs /\ dl' = dl
      <4>1. dl' = dl /\ opc' = opc
        BY <3>2 DEF RequestStep, AppendRecord, WaitAll, SaveCommits, SaveFails, AnswerError, Respond,
                    opVars
      <4>2. \/ rpc' = rpc
            \/ rpc[r] = "process" /\ rpc' = [rpc EXCEPT ![r] = "save"]
            \/ \E a \in {"respond", "cleanup", "done"} : rpc' = [rpc EXCEPT ![r] = a]
        BY <3>2 DEF RequestStep, AppendRecord, WaitAll, SaveCommits, SaveFails, AnswerError, Respond
      <4> QED BY <1>0, <4>1, <4>2 DEF Running, TypeOK
    <3> QED BY <1>2, <3>1, <3>2 DEF RequestAct
  <2> QED BY <1>2, <2>1, RequestFrame DEF DownloadedKept
<1>3. ASSUME NEW h \in Req \cup Op, NEW p \in held[h], RemoveFile(h, p) PROVE j \in files'
  <2>1. Needs /\ dl' = dl
    BY <1>3, RemoveFrame DEF Running
  <2>2. p # j
    <3>1. ASSUME h \in Req, p = j PROVE FALSE
      <4>1. rpc[h] = "cleanup" /\ j \in IdsOf(h)
        BY <1>3, <3>1 DEF RemoveFile, Removing, HeldOwned
      <4>2. j \in Ids /\ j[1] = h
        BY <3>1, <4>1 DEF IdsOf, Ids
      <4> QED BY <2>1, <4>1, <4>2 DEF Running
    <3>2. ASSUME h \in Op, p = j PROVE FALSE
      <4>1. opc[h] = "remove" /\ j \in held[h]
        BY <1>3, <3>2 DEF RemoveFile, Removing, Jobs
      <4>2. CASE kind[h] = "retryImage"
        BY <2>1, <3>2, <4>1, <4>2 DEF HeldOwned, Running, Jobs
      <4>3. CASE kind[h] \in Deletes
        <5>1. Owner(j) \in Doomed(target[h]) /\ (j \in Op => opc[j] = "done")
          BY <3>2, <4>1, <4>3 DEF HeldOwned, Deletes
        <5>2. j \in Ids => j[1] \in committed
          BY <3>2, <4>1, <4>3, <5>1 DEF OpKnows, Owner
        <5> QED BY <1>0, <2>1, <5>1, <5>2 DEF Running, CommittedStage, Jobs
      <4> QED BY <3>2, <4>1, <4>2, <4>3 DEF OpKnows
    <3> QED BY <3>1, <3>2
  <2>3. j \in files => j \in files'
    BY <1>3, <2>2 DEF RemoveFile
  <2> QED BY <2>1, <2>3 DEF DownloadedKept
<1>4. ASSUME NEW o \in Op, OpBegins(o) PROVE j \in files'
  <2>1. dl[j] \in {"moved", "ok"} /\ Needs
    <3>1. ASSUME NEW at, NEW k, NEW x, Begins(o, at, k, x), at = "retry" => dl' = [dl EXCEPT ![o] = "get"],
                 at # "retry" => dl' = dl
          PROVE  dl[j] \in {"moved", "ok"} /\ Needs
      BY <1>4, <3>1, BeginFrame DEF Begins, Running, TypeOK, Jobs
    <3> QED BY <1>4, <3>1 DEF OpBegins, ReadImagePath, ReadFailed, ReadRequestPaths
  <2> QED BY <1>4, <2>1, BeginFrame DEF DownloadedKept
<1>5. ASSUME NEW o \in Op, OpStep(o) PROVE j \in files'
  <2>1. Needs /\ UNCHANGED <<dl, files>>
    BY <1>5, OpStepFrame DEF Running, TypeOK, Jobs
  <2> QED BY <2>1 DEF DownloadedKept
<1>6. CASE Crash
  BY <1>0, <1>6, CrashFrame DEF Crash, Dies, Running, TypeOK, Jobs
<1>7. CASE UNCHANGED core
  BY <1>7 DEF core, DownloadedKept, Running
<1> QED BY <1>1, <1>2, <1>3, <1>4, <1>5, <1>6, <1>7, StepKinds

\* A path enters held only when a delete reads it, a save fails or a retry
\* rolls back.
LEMMA HeldFrame ==
    ASSUME OwnInv, [Next]_vars, NEW h \in Req \cup Op, NEW p \in held'[h], p \notin held[h]
    PROVE  \/ h \in Req /\ SaveFails(h)
           \/ h \in Op /\ (OpBegins(h) \/ RetryRollsBack(h))
<1> USE NamesDistinct DEF OwnInv
<1>1. ASSUME NEW r \in Req, RequestAct(r), held' # held PROVE h \in Req /\ SaveFails(h)
  <2>1. SaveFails(r)
    BY <1>1 DEF RequestAct, StartProcess, RequestStep, AppendRecord, WaitAll, SaveCommits,
                AnswerError, Respond
  <2> QED BY <2>1 DEF SaveFails, TypeOK, Jobs
<1>2. ASSUME NEW k \in Req \cup Op, NEW q \in held[k], RemoveFile(k, q) PROVE FALSE
  BY <1>2 DEF RemoveFile, TypeOK
<1>3. ASSUME NEW o \in Op, OpBegins(o) PROVE h = o
  BY <1>3 DEF OpBegins, ReadImagePath, ReadFailed, ReadRequestPaths, TypeOK
<1>4. ASSUME NEW o \in Op, OpStep(o) PROVE h = o /\ RetryRollsBack(o)
  <2>1. \/ held' = held \/ held' = [held EXCEPT ![o] = {}]
        \/ RetryRollsBack(o) /\ held' = [held EXCEPT ![o] = {o}]
    BY <1>4 DEF OpStep, DeleteCommits, DeleteFails, AnswerAdmin, RetryFails, RetryCommits,
                RetryRollsBack, Ends
  <2> QED BY <2>1 DEF TypeOK
<1>5. ~Crash
  BY DEF Crash, Dies
<1> QED BY <1>1, <1>2, <1>3, <1>4, <1>5, StepKinds, DownloadFrame DEF core

\* Handlers only remove their own files.
LEMMA HeldOwnedStep == OwnInv /\ [Next]_vars => HeldOwned'
<1> SUFFICES ASSUME OwnInv, [Next]_vars PROVE HeldOwned'
  OBVIOUS
<1> USE NamesDistinct DEF OwnInv
<1>1. ASSUME NEW r \in Req, NEW p \in held'[r] PROVE p \in IdsOf(r)
  <2>1. CASE p \in held[r]
    BY <2>1 DEF HeldOwned
  <2>2. ASSUME SaveFails(r) PROVE p \in IdsOf(r)
    <3>1. p \in {r} \X records[r]
      BY <2>2 DEF SaveFails, TypeOK
    <3> QED BY <3>1 DEF TypeOK, IdsOf
  <2> QED BY <2>1, <2>2, HeldFrame DEF Jobs
<1>2. ASSUME NEW o \in Op, opc'[o] \in {"delete", "remove"}, NEW p \in held'[o]
      PROVE  IF kind'[o] = "retryImage" THEN p = o
             ELSE /\ Owner(p)' \in Doomed(target'[o])
                  /\ p \in Op => opc'[p] = "done"
  <2>1. CASE opc[o] \in {"delete", "remove"} /\ p \in held[o]
    <3>1. kind'[o] = kind[o] /\ target'[o] = target[o]
      BY <2>1, OpFrame
    <3>2. p \in Op /\ opc[p] = "done" => opc'[p] = "done" /\ target'[p] = target[p]
      BY OpFrame
    <3>3. p \in Jobs
      BY <2>1 DEF TypeOK
    <3>4. p \in Op /\ opc[p] = "done" => Owner(p)' = Owner(p)
      BY <3>2 DEF Owner
    <3>5. p \in Ids => Owner(p)' = Owner(p)
      BY DEF Owner
    <3>6. IF kind[o] = "retryImage" THEN p = o
          ELSE Owner(p) \in Doomed(target[o]) /\ (p \in Op => opc[p] = "done")
      BY <2>1 DEF HeldOwned
    <3> QED BY <3>1, <3>2, <3>3, <3>4, <3>5, <3>6 DEF Jobs
  <2>2. ASSUME NEW i \in Ids, image[i].path = p, p \in Jobs, i \in Doomed(target'[o]), kind'[o] # "retryImage"
        PROVE  /\ Owner(p)' \in Doomed(target'[o])
               /\ p \in Op => opc'[p] = "done"
    <3>1. Owner(p) = i /\ (p \in Op => opc[p] = "done")
      BY <2>2 DEF RowOwnsPath
    <3>2. p \in Op => opc'[p] = "done" /\ target'[p] = target[p]
      BY <3>1, OpFrame
    <3>3. Owner(p)' = Owner(p)
      BY <2>2, <3>2 DEF Owner, Jobs
    <3> QED BY <2>2, <3>1, <3>2, <3>3
  <2>3. ASSUME NEW i \in Ids, ReadImagePath(o, i)
        PROVE  image[i].path = p /\ p \in Jobs /\ i \in Doomed(target'[o]) /\ kind'[o] # "retryImage"
    BY <2>3, <1>2, PathsJobs DEF ReadImagePath, Begins, Paths, Doomed, TypeOK, Jobs
  <2>4. ASSUME NEW r \in Req, ReadRequestPaths(o, r)
        PROVE  \E i \in Ids : /\ image[i].path = p /\ p \in Jobs
                              /\ i \in Doomed(target'[o]) /\ kind'[o] # "retryImage"
    <3>1. IdsOf(r) \subseteq Ids
      BY DEF IdsOf, Ids
    <3> QED BY <2>4, <3>1, <1>2, PathsJobs DEF ReadRequestPaths, Begins, Paths, Doomed, TypeOK
  <2>5. ASSUME NEW i \in Ids, ReadFailed(o, i) PROVE FALSE
    BY <2>5, <1>2 DEF ReadFailed, Begins, TypeOK
  <2>6. ASSUME RetryRollsBack(o) PROVE p = o /\ kind'[o] = "retryImage"
    BY <2>6, <1>2 DEF RetryRollsBack, OpKnows, TypeOK
  <2>7. CASE OpBegins(o)
    BY <2>2, <2>3, <2>4, <2>5, <2>7 DEF OpBegins
  <2>8. ASSUME opc[o] \notin {"delete", "remove"}, ~OpBegins(o) PROVE RetryRollsBack(o)
    <3>1. ASSUME NEW q \in Op, OpBegins(q) PROVE opc'[o] = opc[o]
      <4>1. q # o
        BY <2>8, <3>1
      <4>2. ASSUME NEW at, NEW k, NEW x, Begins(q, at, k, x) PROVE opc'[o] = opc[o]
        BY <4>1, <4>2 DEF Begins, TypeOK
      <4> QED BY <3>1, <4>2 DEF OpBegins, ReadImagePath, ReadFailed, ReadRequestPaths
    <3>2. ASSUME NEW q \in Op, OpStep(q) PROVE RetryRollsBack(o)
      <4>1. q = o
        BY <1>2, <2>8, <3>2, OpStepFrame DEF TypeOK
      <4> QED BY <1>2, <2>8, <3>2, <4>1 DEF OpStep, DeleteCommits, DeleteFails, AnswerAdmin,
                 RetryFails, RetryCommits, Ends, TypeOK
    <3>3. CASE Crash
      BY <1>2, <2>8, <3>3 DEF Crash, Dies, TypeOK
    <3> QED BY <1>2, <2>8, <3>1, <3>2, <3>3, StepKinds, DownloadFrame, RequestFrame, RemoveFrame DEF core
  <2> QED BY <2>1, <2>6, <2>7, <2>8, HeldFrame DEF Jobs
<1> QED BY <1>1, <1>2 DEF HeldOwned

\* Who owns what is inductive by itself.
LEMMA OwnInvStep == OwnInv /\ [Next]_vars => OwnInv'
BY TypeStep, RowShapeStep, RowOwnsPathStep, GatheredStep, CommittedStageStep, DownloadedKeptStep,
   OpKnowsStep, DeletedForGoodStep, HeldOwnedStep DEF OwnInv

\* No step removes a file a READY row names.
LEMMA NamedFileStays ==
    ASSUME IInv, [Next]_vars, NEW i \in Ids, image[i].status = "READY"
    PROVE  image[i].path \in files'
<1> USE NamesDistinct DEF IInv, OwnInv
<1> DEFINE p == image[i].path
<1>1. /\ p \in Jobs /\ p \in files
      /\ Owner(p) = i /\ (p \in Op => opc[p] = "done")
      /\ i[1] \in committed /\ (p \in Ids => p = i)
  <2>1. p \in Jobs
    BY DEF RowShape, TypeOK, Row
  <2> QED BY <2>1 DEF RowShape, RowOwnsPath, ReadyHasFile, Owner
<1>2. ASSUME NEW j \in Jobs, DownloadStep(j) PROVE p \in files'
  <2>1. j # p
    <3>1. Running(j)
      BY <1>2, DownloadFrame
    <3>2. p \in Ids => rpc[p[1]] # "process"
      BY <1>1 DEF CommittedStage, Ids
    <3> QED BY <1>1, <3>1, <3>2 DEF Running, Jobs
  <2> QED BY <1>1, <1>2, <2>1 DEF DownloadStep, DownloadFails, CreatePart, DropPart, RenamePart,
                                  SyncDir, SyncDirFails
<1>3. ASSUME NEW h \in Req \cup Op, NEW q \in held[h], RemoveFile(h, q) PROVE p \in files'
  <2>1. ASSUME h \in Req, q = p PROVE FALSE
    <3>1. rpc[h] = "cleanup" /\ p \in IdsOf(h)
      BY <1>3, <2>1 DEF RemoveFile, Removing, HeldOwned
    <3>2. p \in Ids /\ p[1] = h
      BY <2>1, <3>1 DEF IdsOf, Ids
    <3> QED BY <1>1, <2>1, <3>1, <3>2 DEF CommittedStage
  <2>2. ASSUME h \in Op, q = p PROVE FALSE
    <3>1. opc[h] = "remove" /\ p \in held[h]
      BY <1>3, <2>2 DEF RemoveFile, Removing, Jobs
    <3>2. CASE kind[h] = "retryImage"
      BY <1>1, <2>2, <3>1, <3>2 DEF HeldOwned
    <3>3. CASE kind[h] \in Deletes
      <4>1. i \in Doomed(target[h])
        BY <1>1, <2>2, <3>1, <3>3 DEF HeldOwned, Deletes
      <4> QED BY <2>2, <3>1, <3>3, <4>1 DEF DeletedForGood
    <3> QED BY <2>2, <3>1, <3>2, <3>3 DEF OpKnows
  <2>3. q # p
    BY <2>1, <2>2
  <2> QED BY <1>1, <1>3, <2>3 DEF RemoveFile
<1> QED BY <1>1, <1>2, <1>3, StepKinds, RequestFrame, BeginFrame, OpStepFrame, CrashFrame DEF core

\* A READY row keeps its file.
LEMMA ReadyHasFileStep == IInv /\ [Next]_vars => ReadyHasFile'
<1> SUFFICES ASSUME IInv, [Next]_vars, NEW i \in Ids, image'[i].status = "READY"
             PROVE  image'[i].path \in files'
  BY DEF ReadyHasFile
<1> USE DEF IInv, OwnInv
<1>1. CASE image[i].status = "READY" /\ image'[i].path = image[i].path
  BY <1>1, NamedFileStays
<1>2. ASSUME NEW r \in Req, SaveCommits(r)
      PROVE  image'[i] = image[i] \/ image'[i].path \in files'
  <2>1. CASE i \in {r} \X records[r]
    <3>1. dl[i] = "ok" /\ image'[i].path = i
      BY <1>2, <2>1 DEF SaveCommits, RowFor, ReadyRow, FailedRow
    <3>2. i \in Jobs /\ i[1] = r
      BY <2>1 DEF Jobs
    <3> QED BY <1>2, <3>1, <3>2 DEF SaveCommits, DownloadedKept
  <2> QED BY <1>2, <2>1 DEF SaveCommits
<1>3. ASSUME NEW o \in Op, DeleteCommits(o) PROVE image'[i] = image[i]
  BY <1>3 DEF DeleteCommits, NoRow
<1>4. ASSUME NEW o \in Op, RetryFails(o)
      PROVE  image'[i].status = image[i].status /\ image'[i].path = image[i].path
  BY <1>4, FailLeavesRow
<1>5. ASSUME NEW o \in Op, RetryCommits(o)
      PROVE  image'[i] = image[i] \/ image'[i].path \in files'
  <2>1. o \in files'
    BY <1>5, NamesDistinct DEF RetryCommits, DownloadedKept, Running, Jobs
  <2> QED BY <1>5, <2>1 DEF RetryCommits, ReadyRow, TypeOK
<1> QED BY <1>1, <1>2, <1>3, <1>4, <1>5, RowFrame

-----------------------------------------------------------------------------
\* The invariant holds at the start.
LEMMA IInvInit == Init => IInv
<1> SUFFICES ASSUME Init PROVE IInv
  OBVIOUS
<1>1. TypeOK
  BY InitTypes
<1>2. RowShape /\ RowOwnsPath /\ ReadyHasFile /\ DeletedForGood
  BY NamesDistinct DEF Init, RowShape, RowOwnsPath, ReadyHasFile, DeletedForGood, NoRow
<1>3. Gathered /\ CommittedStage
  BY DEF Init, Gathered, GatheredOf, CommittedStage, Jobs, Ids
<1>4. DownloadedKept /\ OpKnows /\ HeldOwned
  BY DEF Init, DownloadedKept, OpKnows, HeldOwned
<1> QED BY <1>1, <1>2, <1>3, <1>4 DEF IInv, OwnInv

\* IInv is inductive: its conjuncts together.
LEMMA IInvStep == IInv /\ [Next]_vars => IInv'
BY OwnInvStep, ReadyHasFileStep DEF IInv

(****************************************************************************)
(* The inductive invariant: who owns a file, what a row may name, what each *)
(* handler knows, and that no handler removes a file that is in use.        *)
(****************************************************************************)
THEOREM Invariance == Spec => []IInv
BY IInvInit, IInvStep, PTL DEF Spec

(****************************************************************************)
(* A READY row has its file in every reachable state, for any number of     *)
(* requests, images, admin requests, crashes and faults (images.go:117-157  *)
(* serves it from there).                                                   *)
(****************************************************************************)
THEOREM ReadyAlwaysHasFile == Spec => []ReadyHasFile
<1>1. IInv => ReadyHasFile
  BY DEF IInv, OwnInv
<1> QED BY <1>1, Invariance, PTL

(****************************************************************************)
(* The commit of Save writes one row per URL of the response and a request  *)
(* row that is DEGRADED exactly when one of them is FAILED, for any number  *)
(* of images downloaded concurrently (images.go:45-111, service.go:31-64).  *)
(****************************************************************************)
LEMMA SavedWholeStep ==
    ASSUME IInv, [Next]_vars, NEW r \in Req, request[r] = "absent", request'[r] # "absent"
    PROVE  /\ \A u \in Url : image'[<<r, u>>].status # "absent" <=> u \in resp[r]
           /\ request'[r] = "DEGRADED" <=> \E u \in Url : image'[<<r, u>>].status = "FAILED"
<1>1. SaveCommits(r)
  <2>1. ASSUME NEW q \in Req, SaveCommits(q)  PROVE q = r
    <3>1. request' = [request EXCEPT ![q] = status[q]]
      BY <2>1 DEF SaveCommits
    <3> QED BY <3>1
  <2>2. CASE \E o \in Op : DeleteCommits(o)
    BY <2>2 DEF DeleteCommits, IInv, OwnInv, TypeOK
  <2>3. ASSUME NEW o \in Op, RetryFails(o) \/ RetryCommits(o)  PROVE UNCHANGED request
    BY <2>3 DEF RetryFails, RetryCommits
  <2> QED BY <2>1, <2>2, <2>3, RowFrame
<1>2. /\ records[r] = resp[r]
      /\ \A u \in resp[r] : dl[<<r, u>>] \in {"ok", "err"}
      /\ status[r] = "DEGRADED" <=> \E u \in resp[r] : dl[<<r, u>>] = "err"
  BY <1>1 DEF SaveCommits, IInv, OwnInv, Gathered, GatheredOf
<1>3. ASSUME NEW u \in Url, u \notin resp[r]  PROVE  image[<<r, u>>].status = "absent"
  BY <1>1, <1>3 DEF SaveCommits, IInv, OwnInv, RowShape, Ids
<1>4. ASSUME NEW u \in Url
      PROVE  image'[<<r, u>>] = IF u \in resp[r] THEN RowFor(<<r, u>>) ELSE image[<<r, u>>]
  BY <1>1, <1>2 DEF SaveCommits, Ids
<1>5. resp[r] \subseteq Url
  BY DEF IInv, OwnInv, TypeOK
<1>6. request'[r] = status[r]
  BY <1>1 DEF SaveCommits, IInv, OwnInv, TypeOK
<1>7. \A u \in resp[r] : /\ RowFor(<<r, u>>).status # "absent"
                         /\ RowFor(<<r, u>>).status = "FAILED" <=> dl[<<r, u>>] = "err"
  BY <1>2 DEF RowFor, ReadyRow, FailedRow
<1>8. \A u \in Url : image'[<<r, u>>].status # "absent" <=> u \in resp[r]
  BY <1>3, <1>4, <1>7
<1>9. request'[r] = "DEGRADED" <=> \E u \in Url : image'[<<r, u>>].status = "FAILED"
  BY <1>2, <1>3, <1>4, <1>5, <1>6, <1>7
<1> QED BY <1>8, <1>9

(****************************************************************************)
(* The audit of a request appears whole, whatever the instance.             *)
(****************************************************************************)
THEOREM SavesAreWhole == Spec => SavedWhole
<1>1. IInv /\ [Next]_vars => [\A r \in Req : request[r] = "absent" /\ request'[r] # "absent" =>
          /\ \A u \in Url : image'[<<r, u>>].status # "absent" <=> u \in resp[r]
          /\ request'[r] = "DEGRADED" <=> \E u \in Url : image'[<<r, u>>].status = "FAILED"]_vars
  BY SavedWholeStep
<1> QED BY <1>1, Invariance, PTL DEF Spec, SavedWhole

-----------------------------------------------------------------------------
(* What becomes of the files.                                               *)

\* What has raced stays so, and an admin request in progress was so before or begins.
LEMMA OpProgress ==
    ASSUME TypeOK, [Next]_vars
    PROVE  /\ raced \subseteq raced'
           /\ \A o \in Op : opc'[o] \notin {"idle", "done"} =>
                 opc[o] \notin {"idle", "done"} \/ OpBegins(o)
           /\ \A o \in Op : opc'[o] \in {"delete", "retry"} => opc[o] = opc'[o] \/ OpBegins(o)
           /\ \A o \in Op : opc[o] \in {"remove", "done", "lost"} => opc'[o] \in {"remove", "done", "lost"}
<1> DEFINE Goal == /\ raced \subseteq raced'
                   /\ \A o \in Op : opc'[o] \notin {"idle", "done"} =>
                         opc[o] \notin {"idle", "done"} \/ OpBegins(o)
                   /\ \A o \in Op : opc'[o] \in {"delete", "retry"} =>
                         opc[o] = opc'[o] \/ OpBegins(o)
                   /\ \A o \in Op : opc[o] \in {"remove", "done", "lost"} =>
                         opc'[o] \in {"remove", "done", "lost"}
<1>1. CASE UNCHANGED <<opc, raced>>
  BY <1>1
<1>2. ASSUME NEW q \in Op, OpBegins(q) PROVE Goal
  <2>1. ASSUME NEW at \in {"delete", "retry"}, NEW k, NEW x, Begins(q, at, k, x) PROVE Goal
    BY <1>2, <2>1 DEF TypeOK, Begins
  <2> QED BY <1>2, <2>1 DEF OpBegins, ReadImagePath, ReadFailed, ReadRequestPaths
<1>3. ASSUME NEW q \in Op, OpStep(q) PROVE Goal
  <2>1. raced' = raced
    BY <1>3 DEF OpStep, DeleteCommits, DeleteFails, AnswerAdmin, RetryFails, RetryCommits,
                RetryRollsBack, Ends
  <2> QED BY <1>3, <2>1, OpStepFrame DEF TypeOK
<1>4. CASE Crash
  BY <1>4 DEF TypeOK, Crash, Dies
<1>5. ASSUME NEW j \in Jobs, DownloadStep(j) PROVE UNCHANGED <<opc, raced>>
  BY <1>5 DEF DownloadStep, DownloadFails, CreatePart, DropPart, RenamePart, SyncDir, SyncDirFails,
              Moves, opVars
<1>6. ASSUME NEW r \in Req, RequestAct(r) \/ Disconnect(r) PROVE UNCHANGED <<opc, raced>>
  BY <1>6 DEF RequestAct, StartProcess, RequestStep, AppendRecord, WaitAll, SaveCommits, SaveFails,
              AnswerError, Respond, Disconnect, opVars
<1>7. ASSUME NEW h \in Req \cup Op, NEW p \in held[h], RemoveFile(h, p) PROVE UNCHANGED <<opc, raced>>
  BY <1>7 DEF RemoveFile, opVars
<1>8. ASSUME NEW v \in View, (\E i \in Ids : ReadRow(v, i)) \/ OpenFile(v) PROVE UNCHANGED <<opc, raced>>
  BY <1>8 DEF ReadRow, OpenFile, opVars
<1>9. ASSUME Start \/ StartFails \/ UNCHANGED vars PROVE UNCHANGED <<opc, raced>>
  BY <1>9 DEF Start, StartFails, vars, opVars
<1> QED BY <1>1, <1>2, <1>3, <1>4, <1>5, <1>6, <1>7, <1>8, <1>9
        DEF Next, RequestAct, OpBegins, Terminating

\* Only a retry begins to download for an admin request.
LEMMA BeginsWhat ==
    ASSUME NEW o \in Op, OpBegins(o)
    PROVE  \E x \in Ids \cup Req :
              \/ /\ Begins(o, "delete", "deleteImage", x) \/ Begins(o, "delete", "deleteRequest", x)
                 /\ \E lost \in SUBSET Paths(Doomed(x)) :
                       /\ held' = [held EXCEPT ![o] = Paths(Doomed(x)) \ lost]
                       /\ missed' = [missed EXCEPT ![o] = lost] \/ lost = {}
                 /\ dl' = dl
              \/ /\ Begins(o, "retry", "retryImage", x)
                 /\ x \in Ids /\ image[x].status = "FAILED"
                 /\ held' = held
                 /\ dl' = [dl EXCEPT ![o] = "get"]
<1> USE NamesDistinct
<1>1. \A i \in Ids : Doomed(i) = {i}
  BY DEF Doomed, Jobs
<1>2. \A r \in Req : Doomed(r) = IdsOf(r)
  BY DEF Doomed
<1>3. ASSUME NEW i \in Ids, ReadImagePath(o, i) PROVE Paths(Doomed(i)) \ {} = Paths({i})
  BY <1>1
<1>4. CASE \E i \in Ids : ReadImagePath(o, i)
  <2>1. PICK i \in Ids : ReadImagePath(o, i)
    BY <1>4
  <2>2. /\ Begins(o, "delete", "deleteImage", i)
        /\ held' = [held EXCEPT ![o] = Paths(Doomed(i)) \ {}]
        /\ dl' = dl
    BY <1>3, <2>1 DEF ReadImagePath
  <2>3. {} \in SUBSET Paths(Doomed(i))
    OBVIOUS
  <2> QED BY <2>2, <2>3
<1>5. CASE \E i \in Ids : ReadFailed(o, i)
  BY <1>5 DEF ReadFailed
<1>6. CASE \E r \in Req : ReadRequestPaths(o, r)
  <2>1. PICK r \in Req : ReadRequestPaths(o, r)
    BY <1>6
  <2>2. Begins(o, "delete", "deleteRequest", r) /\ dl' = dl
    BY <2>1 DEF ReadRequestPaths
  <2>3. PICK lost \in SUBSET Paths(Doomed(r)) :
           /\ held' = [held EXCEPT ![o] = Paths(Doomed(r)) \ lost]
           /\ missed' = [missed EXCEPT ![o] = lost]
    BY <1>2, <2>1 DEF ReadRequestPaths
  <2> QED BY <2>2, <2>3
<1> QED BY <1>4, <1>5, <1>6 DEF OpBegins

\* What is downloaded was asked for.
LEMMA DownloadsAskedStep == IInv /\ DownloadsAsked /\ [Next]_vars => DownloadsAsked'
<1> SUFFICES ASSUME IInv, DownloadsAsked, [Next]_vars PROVE DownloadsAsked'
  OBVIOUS
<1> USE NamesDistinct DEF IInv, OwnInv
<1>1. ASSUME NEW j \in Jobs, DownloadStep(j) PROVE DownloadsAsked'
  <2>1. resp' = resp /\ opc' = opc /\ dl[j] # "idle"
    BY <1>1, DownloadFrame
  <2>2. \A k \in Jobs : k # j => dl'[k] = dl[k]
    BY <1>1, DownloadFrame DEF TypeOK
  <2>3. \A r \in Req, u \in Url : <<r, u>> \in Jobs
    BY DEF Jobs, Ids
  <2> QED BY <2>1, <2>2, <2>3 DEF DownloadsAsked, Jobs
<1>2. ASSUME NEW r \in Req, RequestAct(r) PROVE DownloadsAsked'
  <2>1. ASSUME NEW urls \in SUBSET Url, NEW parsed \in BOOLEAN, StartProcess(r, urls, parsed)
        PROVE  DownloadsAsked'
    BY <2>1 DEF StartProcess, DownloadsAsked, Gathered, GatheredOf, TypeOK, Jobs, Ids, opVars
  <2>2. ASSUME RequestStep(r) PROVE UNCHANGED <<dl, resp, opc>>
    BY <2>2 DEF RequestStep, AppendRecord, WaitAll, SaveCommits, SaveFails, AnswerError, Respond, opVars
  <2> QED BY <1>2, <2>1, <2>2 DEF RequestAct, DownloadsAsked
<1>3. ASSUME NEW o \in Op, OpBegins(o) PROVE DownloadsAsked'
  <2>1. dl' = dl \/ dl' = [dl EXCEPT ![o] = "get"]
    BY <1>3, BeginsWhat
  <2>2. \A q \in Op : opc'[q] = "idle" => q # o /\ opc[q] = "idle"
    BY <1>3, BeginsWhat DEF Begins, TypeOK
  <2>3. \A j \in Jobs : j # o => dl'[j] = dl[j]
    BY <2>1 DEF TypeOK
  <2>4. \A r \in Req, u \in Url : <<r, u>> \in Jobs /\ <<r, u>> # o
    BY DEF Jobs, Ids
  <2> QED BY <1>3, <2>2, <2>3, <2>4, BeginFrame DEF DownloadsAsked, Jobs
<1>4. ASSUME NEW o \in Op, OpStep(o) PROVE DownloadsAsked'
  BY <1>4, OpStepFrame DEF DownloadsAsked, TypeOK
<1>5. CASE Crash
  BY <1>5, CrashFrame DEF Crash, Dies, DownloadsAsked, TypeOK
<1> QED BY <1>1, <1>2, <1>3, <1>4, <1>5, StepKinds, RemoveFrame DEF core, DownloadsAsked

\* What is stranded stays so; a start-up clears tmp/.
LEMMA StrandedStays ==
    ASSUME [Next]_vars, NEW p \in stranded PROVE p \in stranded' \/ (Start /\ p \notin files)
<1>1. ASSUME NEW k \in Jobs, DownloadStep(k) PROVE stranded \subseteq stranded'
  BY <1>1 DEF DownloadStep, DownloadFails, CreatePart, DropPart, RenamePart, SyncDir, SyncDirFails
<1>2. ASSUME NEW r \in Req, RequestAct(r) \/ Disconnect(r) PROVE stranded' = stranded
  BY <1>2 DEF RequestAct, StartProcess, RequestStep, AppendRecord, WaitAll, SaveCommits,
              SaveFails, AnswerError, Respond, Disconnect
<1>3. ASSUME NEW o \in Op, OpBegins(o) \/ OpStep(o) PROVE stranded \subseteq stranded'
  BY <1>3 DEF OpBegins, ReadImagePath, ReadFailed, ReadRequestPaths, OpStep, DeleteCommits,
              DeleteFails, AnswerAdmin, RetryFails, RetryCommits, RetryRollsBack
<1>4. ASSUME NEW v \in View, (\E i \in Ids : ReadRow(v, i)) \/ OpenFile(v)
      PROVE  stranded' = stranded
  BY <1>4 DEF ReadRow, OpenFile
<1>5. Start => p \in stranded' \/ p \notin files
  BY DEF Start
<1>6. ASSUME NEW h \in Req \cup Op, NEW q \in held[h], RemoveFile(h, q)
      PROVE  stranded \subseteq stranded'
  BY <1>6 DEF RemoveFile
<1>7. Crash \/ StartFails \/ UNCHANGED vars => stranded \subseteq stranded'
  BY DEF Crash, StartFails, vars
<1> QED BY <1>1, <1>2, <1>3, <1>4, <1>5, <1>6, <1>7 DEF Next, RequestAct, OpBegins, Terminating

\* Every file has been downloaded.
LEMMA FilesDownloadedStep == IInv /\ DownloadsAsked /\ FilesDownloaded /\ [Next]_vars => FilesDownloaded'
<1> SUFFICES ASSUME IInv, DownloadsAsked, FilesDownloaded, [Next]_vars PROVE FilesDownloaded'
  OBVIOUS
<1> USE NamesDistinct DEF IInv, OwnInv
<1>0. \A p \in files : p \in stranded => p \in stranded'
  BY StrandedStays
<1>1. ASSUME NEW j \in Jobs, DownloadStep(j) PROVE FilesDownloaded'
  BY <1>0, <1>1 DEF DownloadStep, DownloadFails, CreatePart, DropPart, RenamePart, SyncDir, SyncDirFails,
              Moves, FilesDownloaded, TypeOK
<1>2. ASSUME NEW r \in Req, RequestAct(r) PROVE FilesDownloaded'
  <2>1. ASSUME NEW urls \in SUBSET Url, NEW parsed \in BOOLEAN, StartProcess(r, urls, parsed)
        PROVE  FilesDownloaded'
    BY <1>0, <2>1 DEF StartProcess, FilesDownloaded, Gathered, GatheredOf, TypeOK, Jobs, Ids, disk
  <2>2. ASSUME RequestStep(r) PROVE UNCHANGED <<dl, files>>
    BY <2>2 DEF RequestStep, AppendRecord, WaitAll, SaveCommits, SaveFails, AnswerError, Respond, disk
  <2> QED BY <1>0, <1>2, <2>1, <2>2 DEF RequestAct, FilesDownloaded
<1>3. ASSUME NEW o \in Op, OpBegins(o) PROVE FilesDownloaded'
  BY <1>0, <1>3, BeginsWhat, BeginFrame DEF Begins, DownloadsAsked, FilesDownloaded, TypeOK, Jobs
<1>4. ASSUME NEW h \in Req \cup Op, NEW p \in held[h], RemoveFile(h, p) PROVE FilesDownloaded'
  BY <1>0, <1>4, RemoveFrame DEF RemoveFile, FilesDownloaded
<1>5. ASSUME UNCHANGED <<files, dl>> PROVE FilesDownloaded'
  BY <1>5, <1>0 DEF FilesDownloaded
<1> QED BY <1>1, <1>2, <1>3, <1>4, <1>5, StepKinds, OpStepFrame, CrashFrame DEF core

\* Whoever begins while another works on the same image makes it raced.
LEMMA MeetingsRacedStep == IInv /\ MeetingsRaced /\ [Next]_vars => MeetingsRaced'
<1> SUFFICES ASSUME IInv, MeetingsRaced, [Next]_vars,
                    NEW o \in Op, NEW q \in Op, o # q,
                    opc'[o] \notin {"idle", "done"}, opc'[q] \notin {"idle", "done"},
                    NEW i \in Doomed(target'[o]) \cap Doomed(target'[q])
             PROVE  i \in raced'
  BY DEF MeetingsRaced, Doomed, IdsOf
<1> USE DEF IInv, OwnInv
<1>1. ASSUME NEW a \in Op, NEW b \in Op, a # b, OpBegins(a), opc'[b] \notin {"idle", "done"},
             i \in Doomed(target'[a]), i \in Doomed(target'[b])
      PROVE  i \in raced'
  <2>1. PICK x \in Ids \cup Req, at \in {"delete", "retry"},
             k \in {"deleteImage", "deleteRequest", "retryImage"} : Begins(a, at, k, x)
    BY <1>1, BeginsWhat
  <2> QED BY <1>1, <2>1 DEF Begins, TypeOK
<1>2. CASE opc[o] \notin {"idle", "done"} /\ opc[q] \notin {"idle", "done"}
  <2>1. target'[o] = target[o] /\ target'[q] = target[q]
    BY <1>2, OpFrame
  <2> QED BY <1>2, <2>1, OpProgress DEF MeetingsRaced
<1> QED BY <1>1, <1>2, OpProgress

\* A delete that has yet to commit keeps the paths it read, and misses those it missed.
LEMMA HeldKept ==
    ASSUME IInv, [Next]_vars, NEW o \in Op, opc[o] = "delete", opc'[o] = "delete"
    PROVE  held'[o] = held[o] /\ missed'[o] = missed[o]
<1> USE NamesDistinct DEF IInv, OwnInv
<1> DEFINE Kept1 == held'[o] = held[o] /\ missed'[o] = missed[o]
<1>1. ASSUME NEW r \in Req, RequestAct(r) PROVE Kept1
  <2>1. held' = held \/ SaveFails(r)
    BY <1>1 DEF RequestAct, StartProcess, RequestStep, AppendRecord, WaitAll, SaveCommits,
                AnswerError, Respond
  <2>2. r # o
    BY DEF Jobs
  <2>3. SaveFails(r) => held'[o] = held[o]
    BY <2>2 DEF SaveFails, TypeOK
  <2> QED BY <1>1, <2>1, <2>3, RequestFrame
<1>2. ASSUME NEW h \in Req \cup Op, NEW p \in held[h], RemoveFile(h, p) PROVE Kept1
  <2>1. h # o
    BY <1>2 DEF RemoveFile, Removing, Jobs
  <2> QED BY <1>2, <2>1, RemoveFrame DEF RemoveFile, TypeOK
<1>3. ASSUME NEW q \in Op, OpBegins(q) PROVE Kept1
  <2>1. q # o
    BY <1>3, BeginsWhat DEF Begins
  <2>2. \E x, y : /\ held' = held \/ held' = [held EXCEPT ![q] = x]
                  /\ missed' = missed \/ missed' = [missed EXCEPT ![q] = y]
    BY <1>3 DEF OpBegins, ReadImagePath, ReadFailed, ReadRequestPaths
  <2> QED BY <2>1, <2>2 DEF TypeOK
<1>4. ASSUME NEW q \in Op, OpStep(q) PROVE Kept1
  <2>1. q # o
    BY <1>4, OpStepFrame DEF TypeOK
  <2>2. \E x, y : /\ held' = held \/ held' = [held EXCEPT ![q] = x]
                  /\ missed' = missed \/ missed' = [missed EXCEPT ![q] = y]
    BY <1>4 DEF OpStep, DeleteCommits, DeleteFails, AnswerAdmin, RetryFails, RetryCommits,
                RetryRollsBack, Ends
  <2> QED BY <2>1, <2>2 DEF TypeOK
<1>5. ~Crash
  BY DEF Crash, Dies
<1> QED BY <1>1, <1>2, <1>3, <1>4, <1>5, StepKinds, DownloadFrame DEF core

\* What may become of a row.
LEMMA RowChange ==
    ASSUME OwnInv, [Next]_vars, NEW i \in Ids
    PROVE  \/ image'[i].status = image[i].status /\ image'[i].path = image[i].path
           \/ /\ image'[i] = RowFor(i)
              /\ SaveCommits(i[1]) /\ i[2] \in records[i[1]] /\ i[1] \notin committed
           \/ \E o \in Op : DeleteCommits(o) /\ i \in Doomed(target[o]) /\ image'[i] = NoRow
           \/ \E o \in Op : /\ RetryCommits(o) /\ target[o] = i
                            /\ image[i].status # "absent" /\ image'[i] = ReadyRow(o)
<1> USE DEF OwnInv
<1>1. ASSUME NEW r \in Req, SaveCommits(r), image'[i] # image[i]
      PROVE  /\ image'[i] = RowFor(i)
             /\ i[1] = r /\ i[2] \in records[r] /\ r \notin committed
  BY <1>1 DEF SaveCommits, CommittedStage, Ids
<1>2. ASSUME NEW o \in Op, DeleteCommits(o), image'[i] # image[i]
      PROVE  i \in Doomed(target[o]) /\ image'[i] = NoRow
  BY <1>2 DEF DeleteCommits
<1>3. ASSUME NEW o \in Op, RetryFails(o)
      PROVE  image'[i].status = image[i].status /\ image'[i].path = image[i].path
  BY <1>3, FailLeavesRow
<1>4. ASSUME NEW o \in Op, RetryCommits(o), image'[i] # image[i]
      PROVE  target[o] = i /\ image[i].status # "absent" /\ image'[i] = ReadyRow(o)
  BY <1>4 DEF RetryCommits, TypeOK
<1>5. CASE image'[i] = image[i]
  BY <1>5
<1>6. CASE image'[i] # image[i]
  <2>1. CASE \E r \in Req : SaveCommits(r)
    BY <1>1, <1>6, <2>1
  <2>2. CASE \E o \in Op : DeleteCommits(o)
    BY <1>2, <1>6, <2>2
  <2>3. CASE \E o \in Op : RetryFails(o)
    BY <1>3, <2>3
  <2>4. CASE \E o \in Op : RetryCommits(o)
    BY <1>4, <1>6, <2>4
  <2> QED BY <1>6, <2>1, <2>2, <2>3, <2>4, RowFrame
<1> QED BY <1>5, <1>6

\* The rows a delete or a retry is about to change are as it read them, or raced.
LEMMA ReadsFreshStep == IInv /\ MeetingsRaced /\ ReadsFresh /\ [Next]_vars => ReadsFresh'
<1> SUFFICES ASSUME IInv, MeetingsRaced, ReadsFresh, [Next]_vars PROVE ReadsFresh'
  OBVIOUS
<1> USE NamesDistinct DEF IInv, OwnInv
\* Another handler that changes the row of an image in progress has raced for it.
<1>1. ASSUME NEW o \in Op, opc[o] \in {"delete", "retry"}, opc'[o] = opc[o],
             NEW i \in Doomed(target[o]), i \notin raced'
      PROVE  \/ image'[i].status = image[i].status /\ image'[i].path = image[i].path
             \/ opc[o] = "delete" /\ image'[i].path = NoPath
  <2>1. i \notin raced
    BY <1>1, OpProgress
  <2>2. i \in Ids /\ i[1] \in committed
    <3>1. CASE opc[o] = "delete"
      BY <3>1, DoomedIds DEF OpKnows
    <3>2. CASE opc[o] = "retry"
      <4>1. target[o] \in Ids /\ i = target[o]
        BY <1>1, <3>2 DEF OpKnows, Doomed, Jobs
      <4> QED BY <2>1, <3>2, <4>1 DEF ReadsFresh, RowShape
    <3> QED BY <1>1, <3>1, <3>2
  <2>3. \A q \in Op : q # o /\ opc[q] \in {"delete", "retry"} => i \notin Doomed(target[q])
    BY <1>1, <2>1 DEF MeetingsRaced
  <2>4. ASSUME NEW q \in Op, DeleteCommits(q), i \in Doomed(target[q]) PROVE FALSE
    BY <1>1, <2>3, <2>4 DEF DeleteCommits, TypeOK
  <2>5. ASSUME NEW q \in Op, RetryCommits(q), target[q] = i PROVE FALSE
    <3>1. opc[q] = "retry" /\ opc'[q] = "done"
      BY <2>5 DEF RetryCommits, Ends, TypeOK
    <3>2. i \in Doomed(target[q])
      BY <2>2, <2>5 DEF Doomed, Jobs
    <3> QED BY <1>1, <2>3, <3>1, <3>2
  <2> QED BY <2>2, <2>4, <2>5, RowChange
<1>2. ASSUME NEW o \in Op, OpBegins(o), opc'[o] = "delete", NEW i \in Doomed(target'[o])
      PROVE  image'[i].path \in held'[o] \cup missed'[o] \cup {NoPath}
  <2>1. PICK x \in Ids \cup Req :
           /\ target'[o] = x
           /\ \E lost \in SUBSET Paths(Doomed(x)) :
                 /\ held' = [held EXCEPT ![o] = Paths(Doomed(x)) \ lost]
                 /\ missed' = [missed EXCEPT ![o] = lost] \/ lost = {}
    <3>1. PICK x \in Ids \cup Req :
             \/ /\ Begins(o, "delete", "deleteImage", x) \/ Begins(o, "delete", "deleteRequest", x)
                /\ \E lost \in SUBSET Paths(Doomed(x)) :
                      /\ held' = [held EXCEPT ![o] = Paths(Doomed(x)) \ lost]
                      /\ missed' = [missed EXCEPT ![o] = lost] \/ lost = {}
             \/ Begins(o, "retry", "retryImage", x)
      BY <1>2, BeginsWhat
    <3>2. ~Begins(o, "retry", "retryImage", x) /\ target'[o] = x
      BY <1>2, <3>1 DEF Begins, TypeOK
    <3> QED BY <3>1, <3>2
  <2>2. Paths(Doomed(x)) \subseteq held'[o] \cup missed'[o]
    BY <2>1 DEF TypeOK
  <2> QED BY <1>2, <2>1, <2>2, BeginFrame DEF Paths
<1>3. ASSUME NEW o \in Op, OpBegins(o), opc'[o] = "retry"
      PROVE  image'[target'[o]].status = "FAILED"
  BY <1>3, BeginsWhat, BeginFrame DEF Begins, TypeOK
<1>4. ASSUME NEW o \in Op, opc'[o] = "delete", NEW i \in Doomed(target'[o]) \ raced'
      PROVE  image'[i].path \in held'[o] \cup missed'[o] \cup {NoPath}
  <2>1. CASE opc[o] = "delete"
    <3>1. /\ target'[o] = target[o] /\ i \notin raced
          /\ held'[o] = held[o] /\ missed'[o] = missed[o]
      BY <1>4, <2>1, OpFrame, HeldKept, OpProgress
    <3> QED BY <1>1, <1>4, <2>1, <3>1 DEF ReadsFresh
  <2> QED BY <1>2, <1>4, <2>1, OpProgress
<1>5. ASSUME NEW o \in Op, opc'[o] = "retry", target'[o] \notin raced'
      PROVE  image'[target'[o]].status = "FAILED"
  <2>1. CASE opc[o] = "retry"
    <3>1. target'[o] = target[o] /\ target[o] \notin raced
      BY <1>5, <2>1, OpFrame, OpProgress
    <3>2. target[o] \in Doomed(target[o])
      BY <2>1 DEF OpKnows, Doomed, Jobs
    <3> QED BY <1>1, <1>5, <2>1, <3>1, <3>2 DEF ReadsFresh
  <2> QED BY <1>3, <1>5, <2>1, OpProgress
<1> QED BY <1>4, <1>5 DEF ReadsFresh, Doomed, IdsOf

\* A temporary file belongs to a download in progress, or could not be removed.
LEMMA PartsOwnedStep == IInv /\ DownloadsAsked /\ PartsOwned /\ [Next]_vars => PartsOwned'
<1> SUFFICES ASSUME IInv, DownloadsAsked, PartsOwned, [Next]_vars, up', NEW j \in parts',
                    j \notin stranded'
             PROVE  Running(j)' /\ dl'[j] = "part"
  BY DEF PartsOwned
<1> USE NamesDistinct DEF IInv, OwnInv
<1>0. \A k \in parts : k \in Jobs
  BY DEF TypeOK
<1>s. up => j \notin stranded
  BY StrandedStays DEF Start
<1>1. CASE Start \/ StartFails
  BY <1>1 DEF Start, StartFails
<1>2. CASE Crash
  BY <1>2 DEF Crash, Dies
<1>3. ASSUME NEW k \in Jobs, DownloadStep(k) PROVE Running(j)' /\ dl'[j] = "part"
  <2>1. Running(j)' <=> Running(j)
    BY <1>3, DownloadFrame DEF Running
  <2>2. up = up' /\ Running(k)
    BY <1>3 DEF DownloadStep, DownloadFails, CreatePart, DropPart, RenamePart, SyncDir, SyncDirFails, Moves
  <2>3. j \in Jobs
    <3>1. parts' \subseteq parts \cup {k}
      BY <1>3 DEF DownloadStep, DownloadFails, CreatePart, DropPart, RenamePart, SyncDir, SyncDirFails
    <3> QED BY <1>0, <3>1
  <2> QED BY <1>3, <1>s, <2>1, <2>2, <2>3 DEF DownloadStep, DownloadFails, CreatePart, DropPart,
             RenamePart, SyncDir, SyncDirFails, Moves, PartsOwned, TypeOK
\* The steps that are left create no such file.
<1>4. ASSUME up' = up, parts' = parts, dl'[j] = dl[j], Running(j) /\ dl[j] = "part" => Running(j)'
      PROVE  Running(j)' /\ dl'[j] = "part"
  BY <1>4, <1>s DEF PartsOwned
<1>6. ASSUME NEW r \in Req, RequestAct(r) PROVE Running(j)' /\ dl'[j] = "part"
  <2>1. up' = up /\ parts' = parts /\ opc' = opc
    BY <1>6 DEF RequestAct, StartProcess, RequestStep, AppendRecord, WaitAll, SaveCommits, SaveFails,
                AnswerError, Respond, disk, opVars
  <2>2. Running(j) /\ dl[j] = "part"
    BY <2>1, <1>s DEF PartsOwned
  <2>3. ASSUME NEW urls \in SUBSET Url, NEW parsed \in BOOLEAN, StartProcess(r, urls, parsed)
        PROVE  dl'[j] = dl[j] /\ Running(j)'
    BY <1>0, <2>1, <2>2, <2>3 DEF StartProcess, Running, Gathered, GatheredOf, TypeOK, Ids
  <2>4. ASSUME RequestStep(r) PROVE dl' = dl /\ Running(j)'
    <3>1. dl' = dl
      BY <2>4 DEF RequestStep, AppendRecord, WaitAll, SaveCommits, SaveFails, AnswerError, Respond
    <3>2. j \in Ids /\ j[1] = r => ~WaitAll(r)
      <4> SUFFICES ASSUME j \in Ids, j[1] = r, WaitAll(r) PROVE FALSE
        OBVIOUS
      <4>1. PICK u \in Url : j = <<r, u>>
        BY DEF Ids
      <4>2. u \in resp[r] => dl[j] \in {"ok", "err"}
        BY <4>1 DEF WaitAll, Gathered, GatheredOf
      <4>3. u \notin resp[r] => dl[j] = "idle"
        BY <4>1 DEF DownloadsAsked
      <4> QED BY <2>2, <4>2, <4>3
    <3>3. j \in Ids => rpc'[j[1]] = "process"
      <4>1. CASE j \in Ids /\ j[1] = r
        BY <2>2, <2>4, <3>2, <4>1 DEF Running, RequestStep, AppendRecord, SaveCommits, SaveFails,
                                      AnswerError, Respond
      <4>2. CASE j \in Ids /\ j[1] # r
        <5>1. j[1] \in Req
          BY <4>2 DEF Ids
        <5>2. rpc' = rpc \/ \E s \in {"save", "respond", "cleanup", "done"} : rpc' = [rpc EXCEPT ![r] = s]
          BY <2>4 DEF RequestStep, AppendRecord, WaitAll, SaveCommits, SaveFails, AnswerError, Respond
        <5> QED BY <2>2, <4>2, <5>1, <5>2 DEF Running, TypeOK
      <4> QED BY <4>1, <4>2
    <3> QED BY <2>1, <2>2, <3>1, <3>3 DEF Running
  <2> QED BY <1>6, <2>2, <2>3, <2>4 DEF RequestAct
<1>7. ASSUME NEW o \in Op, OpBegins(o) PROVE Running(j)' /\ dl'[j] = "part"
  <2>1. up' = up /\ parts' = parts
    BY <1>7 DEF OpBegins, ReadImagePath, ReadFailed, ReadRequestPaths, Begins, disk
  <2>2. Running(j) /\ dl[j] = "part" /\ j \in Jobs
    BY <1>0, <1>s, <2>1 DEF PartsOwned
  <2>3. j # o
    BY <1>7, <2>2, BeginsWhat DEF Begins, Running
  <2> QED BY <1>7, <2>2, <2>3, BeginsWhat, BeginFrame DEF Begins, Running, TypeOK, Jobs
<1>8. ASSUME NEW o \in Op, OpStep(o) PROVE Running(j)' /\ dl'[j] = "part"
  <2>1. up' = up /\ parts' = parts
    BY <1>8 DEF OpStep, DeleteCommits, DeleteFails, AnswerAdmin, RetryFails, RetryCommits,
                RetryRollsBack, Ends, disk
  <2>2. Running(j) /\ dl[j] = "part" /\ j \in Jobs
    BY <1>0, <1>s, <2>1 DEF PartsOwned
  <2>3. j # o
    BY <1>8, <2>2 DEF OpStep, DeleteCommits, DeleteFails, AnswerAdmin, RetryFails, RetryCommits,
                RetryRollsBack, Running, Jobs
  <2> QED BY <1>8, <2>2, <2>3, OpStepFrame DEF Running, TypeOK, Jobs
<1>9. ASSUME NEW h \in Req \cup Op, NEW p \in held[h], RemoveFile(h, p)
      PROVE  Running(j)' /\ dl'[j] = "part"
  BY <1>4, <1>9, RemoveFrame DEF RemoveFile, Running
<1>10. ASSUME NEW r \in Req, Disconnect(r) PROVE Running(j)' /\ dl'[j] = "part"
  BY <1>4, <1>10 DEF Disconnect, Running, disk, opVars
<1>11. ASSUME NEW v \in View, (\E i \in Ids : ReadRow(v, i)) \/ OpenFile(v)
       PROVE  Running(j)' /\ dl'[j] = "part"
  BY <1>4, <1>11 DEF ReadRow, OpenFile, Running, disk, reqVars, opVars
<1>12. CASE UNCHANGED vars
  BY <1>4, <1>12 DEF vars, Running, disk, reqVars, opVars
<1> QED BY <1>1, <1>2, <1>3, <1>6, <1>7, <1>8, <1>9, <1>10, <1>11, <1>12
        DEF Next, RequestAct, OpBegins, Terminating
(****************************************************************************)
(* No step leaves a file behind but those OrphansExplained names.           *)
(****************************************************************************)
LEMMA OrphansStep == IInv /\ FilesInv /\ [Next]_vars => OrphansExplained'
<1> SUFFICES ASSUME IInv, FilesInv, [Next]_vars, NEW p \in files'
             PROVE  (Named(p) \/ Kept(p) \/ p \in stranded \/ Owner(p) \in raced)'
  BY DEF OrphansExplained
<1> USE NamesDistinct DEF IInv, OwnInv, FilesInv
<1> DEFINE Explained == Named(p) \/ Kept(p) \/ p \in stranded \/ Owner(p) \in raced
\* A file that is not being renamed was explained before.
<1>1. ASSUME p \in files PROVE Explained
  BY <1>1 DEF FilesExplained, OrphansExplained
<1>2. raced \subseteq raced'
  BY OpProgress
<1>3. ASSUME p \in files PROVE Owner(p)' = Owner(p)
  <2>1. p \in Op => opc[p] # "idle"
    BY <1>3 DEF FilesDownloaded, DownloadsAsked
  <2>2. p \in Op => target'[p] = target[p]
    BY <2>1, OpFrame
  <2> QED BY <1>3, <2>2 DEF Owner, TypeOK, Jobs
<1>4. ASSUME p \in files, Owner(p) \in raced PROVE Explained'
  BY <1>2, <1>3, <1>4
<1>5. ASSUME p \in files, p \in stranded PROVE Explained'
  BY <1>5, StrandedStays
\* A row stops naming it: whoever did that has it in hand, or the image is raced.
<1>6. ASSUME p \in files, NEW i \in Ids, image[i].path = p PROVE Explained'
  <2>1. Owner(p) = i /\ image[i].status = "READY" /\ i[1] \in committed /\ p # NoPath
    BY <1>6 DEF RowOwnsPath, RowShape, TypeOK
  <2>2. ASSUME NEW o \in Op, DeleteCommits(o), i \in Doomed(target[o]) PROVE Explained'
    <3>1. CASE i \in raced
      BY <1>4, <1>6, <2>1, <3>1
    <3>2. CASE i \notin raced
      <4>1. p \in held[o] \cup missed[o]
        BY <1>6, <2>1, <2>2, <3>2 DEF ReadsFresh, DeleteCommits
      <4>2. opc'[o] = "remove" /\ held' = held /\ missed[o] \subseteq stranded'
        BY <2>2 DEF DeleteCommits, TypeOK
      <4>3. p \in held[o] => Kept(p)'
        BY <4>2 DEF Kept, Removing, Jobs
      <4> QED BY <4>1, <4>2, <4>3
    <3> QED BY <3>1, <3>2
  <2>3. ASSUME NEW o \in Op, RetryCommits(o), target[o] = i PROVE Explained'
    <3>1. i \in raced
      BY <2>1, <2>3 DEF ReadsFresh, RetryCommits
    <3> QED BY <1>4, <1>6, <2>1, <3>1
  <2> QED BY <1>6, <2>1, <2>2, <2>3, RowChange DEF Named
\* A handler had it in hand.
<1>7. ASSUME p \in files, Kept(p), NEW k \in Jobs, DownloadStep(k) PROVE Explained'
  <2>1. held' = held
    BY <1>7 DEF DownloadStep, DownloadFails, CreatePart, DropPart, RenamePart, SyncDir, SyncDirFails, Moves
  <2> QED BY <1>7, <2>1, DownloadFrame DEF Kept, Removing, Running
<1>8. ASSUME p \in files, Kept(p), NEW r \in Req, RequestAct(r) PROVE Explained'
  <2>1. /\ opc' = opc
        /\ \A q \in Req : q # r => rpc'[q] = rpc[q]
        /\ \A h \in Req \cup Op : h # r => held'[h] = held[h]
    <3>1. \/ rpc' = rpc
          \/ \E a \in {"process", "save", "respond", "cleanup", "done"} : rpc' = [rpc EXCEPT ![r] = a]
      BY <1>8 DEF RequestAct, StartProcess, RequestStep, AppendRecord, WaitAll, SaveCommits, SaveFails,
                  AnswerError, Respond
    <3>2. held' = held \/ held' = [held EXCEPT ![r] = {i \in {r} \X records[r] : dl[i] = "ok"}]
      BY <1>8 DEF RequestAct, StartProcess, RequestStep, AppendRecord, WaitAll, SaveCommits, SaveFails,
                  AnswerError, Respond
    <3> QED BY <1>8, <3>1, <3>2, RequestFrame DEF TypeOK
  <2>2. CASE p \in Op /\ Running(p)
    BY <2>1, <2>2 DEF Kept, Running
  <2>3. CASE p \in Ids /\ p[1] # r /\ rpc[p[1]] \in {"process", "save"}
    BY <2>1, <2>3 DEF Kept, Running, Ids
  <2>4. CASE p \in Ids /\ p[1] = r /\ rpc[r] \in {"process", "save"} /\ p \notin stranded
    <3>1. PICK u \in Url : p = <<r, u>>
      BY <2>4 DEF Ids
    <3>2. rpc[r] = "save" => u \in records[r] /\ dl[p] = "ok"
      BY <1>8, <2>4, <3>1 DEF FilesDownloaded, DownloadsAsked, Gathered, GatheredOf
    <3>3. ASSUME SaveCommits(r) PROVE Explained'
      <4>1. image'[p] = ReadyRow(p)
        BY <2>4, <3>1, <3>2, <3>3 DEF SaveCommits, RowFor
      <4> QED BY <2>4, <4>1 DEF Named, ReadyRow
    <3>4. ASSUME SaveFails(r) PROVE Explained'
      <4>1. rpc'[r] = "cleanup" /\ p \in held'[r]
        BY <3>1, <3>2, <3>4 DEF SaveFails, TypeOK
      <4> QED BY <4>1 DEF Kept, Removing
    <3>5. ASSUME ~SaveCommits(r), ~SaveFails(r) PROVE rpc'[r] \in {"process", "save"}
      BY <1>8, <2>4, <3>5 DEF RequestAct, StartProcess, RequestStep, AppendRecord, WaitAll,
                              AnswerError, Respond, TypeOK
    <3> QED BY <2>4, <3>3, <3>4, <3>5 DEF Kept, Running
  <2>5. ASSUME NEW h \in Req \cup Op, Removing(h), p \in held[h] PROVE Explained'
    <3>1. h # r
      BY <1>8, <2>5 DEF RequestAct, StartProcess, RequestStep, AppendRecord, WaitAll, SaveCommits,
                        SaveFails, AnswerError, Respond, Removing
    <3>2. Removing(h)'
      BY <2>1, <2>5, <3>1 DEF Removing
    <3> QED BY <2>1, <2>5, <3>1, <3>2 DEF Kept
  <2> QED BY <1>5, <1>8, <2>2, <2>3, <2>4, <2>5 DEF Kept, Running, Jobs, TypeOK
<1>9. ASSUME p \in files, Kept(p), NEW h \in Req \cup Op, NEW q \in held[h], RemoveFile(h, q)
      PROVE  Explained'
  <2>1. UNCHANGED <<rpc, opc>>
    BY <1>9, RemoveFrame
  <2>2. CASE q = p
    BY <1>9, <2>2 DEF RemoveFile
  <2>3. CASE q # p
    <3>1. \A g \in Req \cup Op : p \in held[g] => p \in held'[g]
      BY <1>9, <2>3 DEF RemoveFile, TypeOK
    <3> QED BY <1>9, <2>1, <3>1 DEF Kept, Removing, Running
  <2> QED BY <2>2, <2>3
<1>10. ASSUME p \in files, Kept(p), NEW o \in Op, OpBegins(o) PROVE Explained'
  <2>1. /\ opc[o] = "idle" /\ rpc' = rpc
        /\ \A q \in Op : q # o => opc'[q] = opc[q]
        /\ \A h \in Req \cup Op : h # o => held'[h] = held[h]
    BY <1>10, BeginsWhat, BeginFrame DEF Begins, TypeOK
  <2> QED BY <1>10, <2>1 DEF Kept, Removing, Running, TypeOK, Jobs
<1>11. ASSUME p \in files, Kept(p), NEW o \in Op, OpStep(o) PROVE Explained'
  <2>1. /\ rpc' = rpc /\ dl' = dl /\ target' = target
        /\ \A q \in Op : q # o => opc'[q] = opc[q]
        /\ \A h \in Req \cup Op : h # o => held'[h] = held[h]
    <3>1. \E x : held' = held \/ held' = [held EXCEPT ![o] = x]
      BY <1>11 DEF OpStep, DeleteCommits, DeleteFails, AnswerAdmin, RetryFails, RetryCommits,
                   RetryRollsBack, Ends
    <3> QED BY <1>11, <3>1, OpStepFrame DEF TypeOK
  <2>2. CASE p = o /\ Running(o) /\ p \notin stranded
    <3>1. opc[o] = "retry" /\ dl[o] # "err" /\ target[o] \in Ids /\ Owner(p) = target[o]
      BY <1>11, <2>2 DEF Running, FilesDownloaded, OpKnows, Owner
    <3>2. CASE RetryCommits(o)
      <4>1. CASE target[o] \in raced
        BY <1>4, <1>11, <3>1, <4>1
      <4>2. CASE image[target[o]].status = "FAILED"
        BY <2>2, <3>1, <3>2, <4>2 DEF RetryCommits, ReadyRow, Named, TypeOK
      <4> QED BY <3>1, <4>1, <4>2 DEF ReadsFresh
    <3>3. CASE RetryRollsBack(o)
      <4>1. opc'[o] = "remove" /\ o \in held'[o]
        BY <3>3 DEF RetryRollsBack, TypeOK
      <4> QED BY <2>2, <4>1 DEF Kept, Removing, Jobs
    <3> QED BY <1>11, <3>1, <3>2, <3>3 DEF OpStep, DeleteCommits, DeleteFails, AnswerAdmin, RetryFails
  <2>3. ASSUME NEW h \in Req \cup Op, Removing(h), p \in held[h] PROVE Explained'
    <3>1. h # o
      BY <1>11, <2>3 DEF OpStep, DeleteCommits, DeleteFails, AnswerAdmin, RetryFails, RetryCommits,
                         RetryRollsBack, Removing, Jobs
    <3>2. Removing(h)'
      BY <2>1, <2>3, <3>1 DEF Removing
    <3> QED BY <2>1, <2>3, <3>1, <3>2 DEF Kept
  <2> QED BY <1>5, <1>11, <2>1, <2>2, <2>3 DEF Kept, Running, TypeOK, Jobs
<1>12. ASSUME p \in files, Kept(p), Crash PROVE Explained'
  BY <1>12 DEF Crash, Dies
<1>13. ASSUME p \in files, Kept(p), UNCHANGED core PROVE Explained'
  BY <1>13 DEF core, Kept, Running, Removing
\* Or it is new.
<1>14. ASSUME p \notin files PROVE Explained'
  <2>1. PICK k \in Jobs : DownloadStep(k)
    BY <1>14, StepKinds, RequestFrame, BeginFrame, OpStepFrame, CrashFrame DEF core, RemoveFile
  <2>2. p = k
    BY <1>14, <2>1 DEF DownloadStep, DownloadFails, CreatePart, DropPart, RenamePart, SyncDir, SyncDirFails
  <2>3. Running(p)'
    BY <2>1, <2>2, DownloadFrame DEF Running
  <2> QED BY <2>3 DEF Kept
<1>15. CASE p \in files
  <2>1. Kept(p) => Explained'
    BY <1>7, <1>8, <1>9, <1>10, <1>11, <1>12, <1>13, <1>15, StepKinds
  <2>2. Named(p) => Explained'
    BY <1>6, <1>15 DEF Named
  <2> QED BY <1>1, <1>4, <1>5, <1>15, <2>1, <2>2
<1> QED BY <1>14, <1>15

\* FilesInv holds at the start.
LEMMA FilesInvInit == Init => FilesInv
<1> SUFFICES ASSUME Init PROVE FilesInv
  OBVIOUS
<1>1. DownloadsAsked
  BY DEF Init, DownloadsAsked, Jobs, Ids
<1>2. MeetingsRaced /\ ReadsFresh
  BY DEF Init, MeetingsRaced, ReadsFresh
<1>3. FilesDownloaded /\ FilesExplained
  BY DEF Init, FilesDownloaded, FilesExplained, PartsOwned, OrphansExplained
<1> QED BY <1>1, <1>2, <1>3 DEF FilesInv

\* Every step keeps FilesInv.
LEMMA FilesInvStep == IInv /\ FilesInv /\ [Next]_vars => FilesInv'
BY DownloadsAskedStep, FilesDownloadedStep, MeetingsRacedStep, ReadsFreshStep, PartsOwnedStep,
   OrphansStep DEF FilesInv, FilesExplained

(****************************************************************************)
(* No temporary file outlives its download while the process runs, and the  *)
(* ways a final file loses its row are those OrphansExplained lists, for    *)
(* any number of overlapping handlers and crashes (storage.go:36-76,        *)
(* images.go:93-111, router.go:206-294, layout.go).                         *)
(****************************************************************************)
THEOREM FilesAlwaysExplained == Spec => []FilesExplained
<1>1. FilesInv => FilesExplained
  BY DEF FilesInv
<1> QED BY <1>1, IInvInit, IInvStep, FilesInvInit, FilesInvStep, PTL DEF Spec

\* A READY row changes its file only by a retry that another admin request has met.
LEMMA ReplacedStep ==
    ASSUME IInv, ReadsFresh, [Next]_vars, NEW i \in Ids, image[i].status = "READY",
           image'[i].status # "absent", image'[i].path # image[i].path
    PROVE  i \in raced
<1> USE DEF IInv, OwnInv
<1>1. ASSUME SaveCommits(i[1]), i[1] \notin committed PROVE FALSE
  BY <1>1 DEF RowShape
<1>2. ASSUME NEW o \in Op, RetryCommits(o), target[o] = i PROVE i \in raced
  BY <1>2 DEF RetryCommits, ReadsFresh
<1>3. ASSUME image'[i] = NoRow PROVE FALSE
  BY <1>3 DEF NoRow
<1> QED BY <1>1, <1>2, <1>3, RowChange

(****************************************************************************)
(* What an image URL shows is replaced only where two admin requests on the *)
(* image overlapped (router.go:206-293), although it is served as immutable *)
(* (images.go:155): a retry alone never replaces a READY file.              *)
(****************************************************************************)
THEOREM ReplacedOnlyWhenRaced == Spec => ReplacedOnlyIfRaced
<1> DEFINE Inv == IInv /\ FilesInv
<1>1. Init => Inv
  BY IInvInit, FilesInvInit
<1>2. Inv /\ [Next]_vars => Inv'
  BY IInvStep, FilesInvStep
<1>3. Inv /\ [Next]_vars =>
        [\A i \in Ids : image[i].status = "READY" /\ image'[i].status # "absent"
            /\ image'[i].path # image[i].path => i \in raced]_vars
  BY ReplacedStep DEF FilesInv
<1> QED BY <1>1, <1>2, <1>3, PTL DEF Spec, ReplacedOnlyIfRaced
=============================================================================
