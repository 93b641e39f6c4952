---------------------------- MODULE GalleryProofs ----------------------------
(****************************************************************************)
(* Proofs of what clients see of ImageStore, for every instance: a URL they *)
(* were told resolves, a READY row's file is there when it is opened, and   *)
(* the gateway implements Gallery.                                          *)
(****************************************************************************)
EXTENDS ImageStoreProofs

\* A committed delete is remembered.
LEMMA DeleteCounts ==
    ASSUME IInv, NEW o \in Op, DeleteCommits(o), NEW i \in Ids, i \in Doomed(target[o])
    PROVE  i \in deleted'
BY DEF DeleteCommits

\* told grows in Respond only.
LEMMA ToldFrame ==
    ASSUME [Next]_vars
    PROVE  told' = told \/ \E r \in Req : Respond(r) /\ told' = told \cup {r}
<1>1. ASSUME NEW j \in Jobs, DownloadStep(j) PROVE told' = told
  BY <1>1 DEF DownloadStep, DownloadFails, CreatePart, DropPart, RenamePart, SyncDir, SyncDirFails,
              Moves, reqVars
<1>2. ASSUME NEW r \in Req, RequestAct(r) \/ Disconnect(r), ~Respond(r) PROVE told' = told
  BY <1>2 DEF RequestAct, StartProcess, RequestStep, AppendRecord, WaitAll, SaveCommits, SaveFails,
              AnswerError, Disconnect
<1>3. ASSUME NEW r \in Req, Respond(r) PROVE told' = told \/ told' = told \cup {r}
  BY <1>3 DEF Respond
<1>4. ASSUME NEW o \in Op, OpBegins(o) \/ OpStep(o) PROVE told' = told
  BY <1>4 DEF OpBegins, ReadImagePath, ReadFailed, ReadRequestPaths, OpStep, DeleteCommits,
              DeleteFails, AnswerAdmin, RetryFails, RetryCommits, RetryRollsBack, reqVars
<1>5. ASSUME NEW v \in View, (\E i \in Ids : ReadRow(v, i)) \/ OpenFile(v) PROVE told' = told
  BY <1>5 DEF ReadRow, OpenFile, reqVars
<1>6. ASSUME NEW h \in Req \cup Op, NEW p \in held[h], RemoveFile(h, p) PROVE told' = told
  BY <1>6 DEF RemoveFile, reqVars
<1>7. ASSUME Crash \/ Start \/ StartFails \/ UNCHANGED vars PROVE told' = told
  BY <1>7 DEF Crash, Dies, Start, StartFails, vars, reqVars
<1> QED BY <1>1, <1>2, <1>3, <1>4, <1>5, <1>6, <1>7 DEF Next, RequestAct, OpBegins, Terminating

\* Only committed responses are sent.
LEMMA ToldCommittedStep == IInv /\ ToldCommitted /\ [Next]_vars => ToldCommitted'
<1> SUFFICES ASSUME IInv, ToldCommitted, [Next]_vars PROVE ToldCommitted'
  OBVIOUS
<1> USE DEF IInv, OwnInv
<1>1. told' \subseteq committed'
  <2>1. ASSUME NEW r \in Req, Respond(r) PROVE r \in committed
    BY <2>1 DEF Respond, ToldCommitted
  <2> QED BY <2>1, ToldFrame, CommittedGrows DEF ToldCommitted
<1>2. ASSUME NEW r \in Req, rpc'[r] = "respond" PROVE r \in committed'
  <2>1. CASE rpc[r] = "respond"
    BY <2>1, CommittedGrows DEF ToldCommitted
  <2>2. CASE rpc[r] # "respond"
    <3>1. ASSUME NEW q \in Req, RequestAct(q) PROVE SaveCommits(r)
      <4>1. SaveCommits(q) \/ rpc' = rpc
               \/ \E a \in {"process", "save", "cleanup", "done"} : rpc' = [rpc EXCEPT ![q] = a]
        BY <3>1 DEF RequestAct, StartProcess, RequestStep, AppendRecord, WaitAll, SaveFails,
                    AnswerError, Respond
      <4>2. SaveCommits(q) => q = r
        BY <1>2, <2>2 DEF SaveCommits, TypeOK
      <4> QED BY <1>2, <2>2, <4>1, <4>2 DEF TypeOK
    <3>2. Crash => rpc'[r] # "respond"
      BY <2>2 DEF Crash, Dies
    <3>3. rpc' = rpc \/ Crash \/ \E q \in Req : RequestAct(q)
      BY StepKinds, DownloadFrame, RemoveFrame, BeginFrame, OpStepFrame DEF core
    <3>4. SaveCommits(r)
      BY <1>2, <2>2, <3>1, <3>2, <3>3
    <3> QED BY <3>4 DEF SaveCommits
  <2> QED BY <2>1, <2>2
<1> QED BY <1>1, <1>2 DEF ToldCommitted

\* The row of a committed response goes by a deletion only.
LEMMA CommittedResolvableStep == IInv /\ CommittedResolvable /\ [Next]_vars => CommittedResolvable'
<1> SUFFICES ASSUME IInv, CommittedResolvable, [Next]_vars,
                    NEW r \in committed', NEW u \in resp'[r], image'[<<r, u>>].status = "absent"
             PROVE  <<r, u>> \in deleted'
  BY DEF CommittedResolvable
<1> USE DEF IInv, OwnInv
<1>0. TypeOK' /\ r \in Req /\ u \in Url
  BY TypeStep DEF TypeOK
<1> DEFINE i == <<r, u>>
<1>1. i \in Ids
  BY <1>0 DEF Ids
<1>2. CASE r \in committed
  <2>1. u \in resp[r]
    BY <1>2, RespFixed
  <2>2. CASE image[i].status = "absent"
    BY <1>1, <1>2, <2>1, <2>2, DeletedGrows DEF CommittedResolvable
  <2>3. CASE image[i].status # "absent"
    <3>1. /\ RowFor(i).status # "absent"
          /\ \A o \in Op : ReadyRow(o).status # "absent"
          /\ image'[i].status # image[i].status
      BY <2>3 DEF RowFor, ReadyRow, FailedRow
    <3>2. PICK o \in Op : DeleteCommits(o) /\ i \in Doomed(target[o])
      BY <1>1, <3>1, RowChange
    <3> QED BY <1>1, <3>2, DeleteCounts
  <2> QED BY <2>2, <2>3
<1>3. CASE r \notin committed
  <2>1. SaveCommits(r)
    <3>1. PICK q \in Req : SaveCommits(q)
      BY <1>3, RowFrame DEF DeleteCommits, RetryFails, RetryCommits, reqVars
    <3> QED BY <1>3, <3>1 DEF SaveCommits
  <2>2. records[r] = resp[r] /\ resp' = resp
    BY <1>0, <2>1 DEF SaveCommits, Gathered, GatheredOf
  <2>3. image'[i] = RowFor(i)
    BY <1>1, <2>1, <2>2 DEF SaveCommits
  <2> QED BY <2>3 DEF RowFor, ReadyRow, FailedRow
<1> QED BY <1>2, <1>3

\* How a reader comes to be about to open a file.
LEMMA ViewFrame ==
    ASSUME TypeOK, [Next]_vars, NEW v \in View, view'[v].at = "open"
    PROVE  \/ view'[v] = view[v]
           \/ \E i \in Ids : /\ image[i].status = "READY"
                             /\ view'[v].id = i /\ view'[v].path = image[i].path
                             /\ image' = image /\ files' = files
<1>1. ASSUME NEW j \in Jobs, DownloadStep(j) PROVE view' = view
  BY <1>1 DEF DownloadStep, DownloadFails, CreatePart, DropPart, RenamePart, SyncDir, SyncDirFails,
              Moves
<1>2. ASSUME NEW r \in Req, RequestAct(r) \/ Disconnect(r) PROVE view' = view
  BY <1>2 DEF RequestAct, StartProcess, RequestStep, AppendRecord, WaitAll, SaveCommits, SaveFails,
              AnswerError, Respond, Disconnect
<1>3. ASSUME NEW o \in Op, OpBegins(o) \/ OpStep(o) PROVE view' = view
  BY <1>3 DEF OpBegins, ReadImagePath, ReadFailed, ReadRequestPaths, OpStep, DeleteCommits,
              DeleteFails, AnswerAdmin, RetryFails, RetryCommits, RetryRollsBack
<1>4. ASSUME NEW h \in Req \cup Op, NEW p \in held[h], RemoveFile(h, p) PROVE view' = view
  BY <1>4 DEF RemoveFile
<1>5. ASSUME NEW w \in View, NEW i \in Ids, ReadRow(w, i), view'[v] # view[v]
      PROVE  /\ image[i].status = "READY"
             /\ view'[v].id = i /\ view'[v].path = image[i].path
             /\ image' = image /\ files' = files
  <2> DEFINE Read == [at |-> "open", id |-> i, path |-> image[i].path, got |-> ""]
             Given(what) == [at |-> "answered", id |-> i, path |-> NoPath, got |-> what]
  <2>1. image' = image /\ files' = files
    BY <1>5 DEF ReadRow, disk
  <2>2. \/ \E what \in {"404", "placeholder"} : view' = [view EXCEPT ![w] = Given(what)]
        \/ image[i].status = "READY" /\ view' = [view EXCEPT ![w] = Read]
    BY <1>5 DEF ReadRow, Answer
  <2>3. \/ \E what \in {"404", "placeholder"} : view'[v] = Given(what)
        \/ image[i].status = "READY" /\ view'[v] = Read
    <3> HIDE DEF Read, Given
    <3>1. ASSUME NEW x, view' = [view EXCEPT ![w] = x] PROVE view'[v] = x
      BY <1>5, <3>1 DEF TypeOK
    <3> QED BY <2>2, <3>1
  <2>4. \A what : Given(what).at = "answered"
    OBVIOUS
  <2>5. image[i].status = "READY" /\ view'[v] = Read
    <3> HIDE DEF Given
    <3> QED BY <2>3, <2>4
  <2>6. Read.id = i /\ Read.path = image[i].path
    OBVIOUS
  <2> HIDE DEF Read
  <2> QED BY <2>1, <2>5, <2>6
<1>6. ASSUME NEW w \in View, OpenFile(w) PROVE view'[v] = view[v]
  <2> DEFINE got == IF view[w].path \in files THEN "image" ELSE "404"
             answered == [[view[w] EXCEPT !.at = "answered"] EXCEPT !.got = got]
  <2>1. view \in [View -> Viewing] /\ view[w] \in Viewing
    BY DEF TypeOK
  <2>2. view' = [[view EXCEPT ![w].at = "answered"] EXCEPT ![w].got = got]
    BY <1>6 DEF OpenFile
  <2> HIDE DEF got
  <2>3. view' = [view EXCEPT ![w] = answered]
    BY <2>1, <2>2
  <2>4. answered.at = "answered"
    BY <2>1 DEF Viewing
  <2> HIDE DEF answered
  <2>5. w # v
    BY <2>1, <2>3, <2>4
  <2> QED BY <2>1, <2>3, <2>5
<1>7. ASSUME Crash PROVE view'[v] = view[v]
  <2>1. view[v] \in Viewing
    BY DEF TypeOK
  <2>2. view'[v] = IF view[v].at = "open" THEN [view[v] EXCEPT !.at = "lost"] ELSE view[v]
    BY <1>7 DEF Crash, Dies
  <2>3. [view[v] EXCEPT !.at = "lost"].at = "lost"
    BY <2>1 DEF Viewing
  <2> QED BY <2>2, <2>3
<1>8. ASSUME Start \/ StartFails \/ UNCHANGED vars PROVE view' = view
  BY <1>8 DEF Start, StartFails, vars
<1> QED BY <1>1, <1>2, <1>3, <1>4, <1>5, <1>6, <1>7, <1>8 DEF Next, RequestAct, OpBegins, Terminating

\* A reader's path keeps its owner.
LEMMA ViewKnowsStep == IInv /\ ViewKnows /\ [Next]_vars => ViewKnows'
<1> SUFFICES ASSUME IInv, ViewKnows, [Next]_vars, NEW v \in View, view'[v].at = "open"
             PROVE  /\ view'[v].id \in Ids /\ view'[v].id[1] \in committed'
                    /\ view'[v].path \in Jobs /\ (IF view'[v].path \in Ids THEN view'[v].path ELSE target'[view'[v].path])
                          = view'[v].id
                    /\ view'[v].path \in Op => opc'[view'[v].path] = "done"
  BY DEF ViewKnows, Owner
<1> USE NamesDistinct DEF IInv, OwnInv
\* Of the paths a reader may have, whoever owns them owns them still.
<1>1. ASSUME NEW i \in Ids, NEW p \in Jobs, i[1] \in committed, Owner(p) = i, p \in Op => opc[p] = "done"
      PROVE  /\ i[1] \in committed' /\ (IF p \in Ids THEN p ELSE target'[p]) = i
             /\ p \in Op => opc'[p] = "done"
  <2>1. p \in Op => target'[p] = target[p] /\ opc'[p] = "done"
    BY <1>1, OpFrame
  <2> QED BY <1>1, <2>1, CommittedGrows DEF Owner, Jobs
<1>2. CASE view'[v] = view[v]
  <2>1. /\ view[v].id \in Ids /\ view[v].id[1] \in committed
        /\ view[v].path \in Jobs /\ Owner(view[v].path) = view[v].id
        /\ view[v].path \in Op => opc[view[v].path] = "done"
    BY <1>2 DEF ViewKnows
  <2> QED BY <1>1, <1>2, <2>1
<1>3. ASSUME NEW i \in Ids, image[i].status = "READY", view'[v].id = i, view'[v].path = image[i].path
      PROVE  /\ view'[v].id \in Ids /\ view'[v].id[1] \in committed'
             /\ view'[v].path \in Jobs /\ (IF view'[v].path \in Ids THEN view'[v].path ELSE target'[view'[v].path])
                          = view'[v].id
             /\ view'[v].path \in Op => opc'[view'[v].path] = "done"
  <2>1. image[i].path \in Jobs
    BY <1>3 DEF RowShape, TypeOK, Row
  <2>2. /\ i[1] \in committed /\ Owner(image[i].path) = i
        /\ image[i].path \in Op => opc[image[i].path] = "done"
    BY <1>3, <2>1 DEF RowShape, RowOwnsPath
  <2> QED BY <1>1, <1>3, <2>1, <2>2
<1> QED BY <1>1, <1>2, <1>3, ViewFrame

\* Two operations take a file away.
LEMMA FileGoes ==
    ASSUME TypeOK, [Next]_vars, NEW p \in files, p \notin files'
    PROVE  \/ p \in Jobs /\ SyncDirFails(p)
           \/ \E h \in Req \cup Op : p \in held[h] /\ RemoveFile(h, p)
<1>1. ASSUME NEW j \in Jobs, DownloadStep(j) PROVE j = p /\ SyncDirFails(j)
  BY <1>1 DEF DownloadStep, DownloadFails, CreatePart, DropPart, RenamePart, SyncDir, SyncDirFails
<1>2. ASSUME NEW h \in Req \cup Op, NEW q \in held[h], RemoveFile(h, q) PROVE q = p
  BY <1>2 DEF RemoveFile
<1> QED BY <1>1, <1>2, StepKinds, RequestFrame, BeginFrame, OpStepFrame, CrashFrame DEF core

\* A file that rows of its image may name goes by a delete of the image only.
LEMMA FileGoesByDelete ==
    ASSUME OwnInv, [Next]_vars, NEW i \in Ids, NEW p \in files, p \notin files',
           i[1] \in committed, p \in Jobs, Owner(p) = i, p \in Op => opc[p] = "done"
    PROVE  i \in deleted'
<1> USE NamesDistinct DEF OwnInv
\* The download of the file is over,
<1>1. ~SyncDirFails(p)
  <2>1. p \in Ids => rpc[p[1]] # "process"
    BY DEF Owner, CommittedStage, Ids
  <2> QED BY <2>1 DEF SyncDirFails, Moves, Running, Jobs
<1>2. PICK h \in Req \cup Op : p \in held[h] /\ RemoveFile(h, p)
  BY <1>1, FileGoes
\* and its request's Save did not fail:
<1>3. h \notin Req
  <2> SUFFICES ASSUME h \in Req PROVE FALSE
    OBVIOUS
  <2>1. rpc[h] = "cleanup" /\ p \in IdsOf(h)
    BY <1>2 DEF RemoveFile, Removing, HeldOwned
  <2>2. p \in Ids /\ p[1] = h
    BY <2>1 DEF IdsOf, Ids
  <2> QED BY <2>1, <2>2 DEF Owner, CommittedStage
\* the file is removed by a delete of its image.
<1>4. h \in Op /\ opc[h] = "remove" /\ p \in held[h]
  BY <1>2, <1>3 DEF RemoveFile, Removing
<1>5. kind[h] \in Deletes
  <2>1. kind[h] # "retryImage"
    BY <1>4 DEF HeldOwned
  <2> QED BY <1>4, <2>1 DEF OpKnows
<1>6. i \in Doomed(target[h])
  BY <1>4, <1>5 DEF HeldOwned, Deletes
<1>7. i \in deleted
  BY <1>4, <1>5, <1>6 DEF DeletedForGood
<1> QED BY <1>7, DeletedGrows

\* The file a reader is about to open goes by a deletion only.
LEMMA MissingStep ==
    IInv /\ ViewKnows /\ MissingOnlyIfDeleted /\ [Next]_vars => MissingOnlyIfDeleted'
<1> SUFFICES ASSUME IInv, ViewKnows, MissingOnlyIfDeleted, [Next]_vars
             PROVE  \A v \in View : view'[v].at = "open" /\ view'[v].path \notin files' =>
                       view'[v].id \in deleted'
  BY DEF MissingOnlyIfDeleted
<1> USE NamesDistinct DEF IInv, OwnInv
<1> TAKE v \in View
<1> HAVE view'[v].at = "open" /\ view'[v].path \notin files'
<1>1. view'[v] = view[v]
  BY ViewFrame DEF ReadyHasFile
<1>0. PICK i \in Ids : i = view[v].id
  BY <1>1 DEF ViewKnows
<1> SUFFICES i \in deleted'
  BY <1>0, <1>1
<1> DEFINE p == view[v].path
<1>2. /\ i[1] \in committed
      /\ p \in Jobs /\ Owner(p) = i
      /\ p \in Op => opc[p] = "done"
  BY <1>0, <1>1 DEF ViewKnows
<1>3. CASE p \notin files
  <2>1. i \in deleted
    BY <1>0, <1>1, <1>3 DEF MissingOnlyIfDeleted
  <2> QED BY <1>1, <1>2, <2>1, DeletedGrows
<1>4. CASE p \in files
  BY <1>1, <1>2, <1>4, FileGoesByDelete
<1> QED BY <1>3, <1>4

\* Nothing has been committed, told or read at the start.
LEMMA ShownInvInit == Init => ShownInv
<1> SUFFICES ASSUME Init PROVE ShownInv
  OBVIOUS
<1>1. ToldCommitted /\ CommittedResolvable
  BY DEF Init, ToldCommitted, CommittedResolvable
<1>2. \A v \in View : view[v].at # "open"
  BY DEF Init
<1> QED BY <1>1, <1>2 DEF ShownInv, ViewKnows, MissingOnlyIfDeleted

\* Every step keeps what clients and readers may rely on.
LEMMA ShownInvStep == IInv /\ ShownInv /\ [Next]_vars => ShownInv'
BY ToldCommittedStep, CommittedResolvableStep, ViewKnowsStep, MissingStep DEF ShownInv

(****************************************************************************)
(* The three invariants together are inductive: rows, files and handlers    *)
(* (IInv), the directories (FilesInv), and what clients are shown.          *)
(****************************************************************************)
THEOREM WholeInvariance == Spec => []WholeInv
<1>1. Init => WholeInv
  BY IInvInit, FilesInvInit, ShownInvInit DEF WholeInv
<1>2. WholeInv /\ [Next]_vars => WholeInv'
  BY IInvStep, FilesInvStep, ShownInvStep DEF WholeInv
<1> QED BY <1>1, <1>2, PTL DEF Spec

(****************************************************************************)
(* Every URL of a response that reached its client keeps its row until an   *)
(* administrator deletes it, whatever crashes, fails or is retried around   *)
(* it (images.go:93-111, audit/service.go, router.go:206-294).              *)
(****************************************************************************)
THEOREM ToldAlwaysResolvable == Spec => []ToldResolvable
<1>1. WholeInv => ToldResolvable
  BY DEF WholeInv, ShownInv, ToldCommitted, CommittedResolvable, ToldResolvable
<1> QED BY <1>1, WholeInvariance, PTL

(****************************************************************************)
(* ServeImage reads the row, then opens the file: if the file is not there, *)
(* a delete ran in between, never a retry, a failed Save or a crash         *)
(* (images.go:117-157, router.go:206-294).                                  *)
(****************************************************************************)
THEOREM MissingAlwaysDeleted == Spec => []MissingOnlyIfDeleted
<1>1. WholeInv => MissingOnlyIfDeleted
  BY DEF WholeInv, ShownInv
<1> QED BY <1>1, WholeInvariance, PTL

-----------------------------------------------------------------------------
(* The refinement: every step of the gateway is a step of Gallery, or       *)
(* shows nothing.                                                           *)

\* What a URL shows is what its row says: a READY row has its file.
LifeOf(i, k, ps, row) ==
    IF i[1] \notin k \/ i[2] \notin ps[i[1]] THEN "none"
    ELSE IF row[i].status = "absent" THEN "gone"
    ELSE IF row[i].status = "FAILED" THEN "placeholder" ELSE "image"

\* With every READY row's file there, what a URL shows follows from the rows alone.
LEMMA LifeIs == IInv => \A i \in Ids : Life(i) = LifeOf(i, committed, resp, image)
BY DEF IInv, OwnInv, TypeOK, Row, ReadyHasFile, Life, LifeOf

\* The same after a step.
LEMMA LifeIsNext == IInv' => \A i \in Ids : Life(i)' = LifeOf(i, committed', resp', image')
BY DEF IInv, OwnInv, TypeOK, Row, ReadyHasFile, Life, LifeOf

\* The abstract variables, before and after a step.
LEMMA Shown ==
    /\ G!gvars = <<[i \in Ids |-> Life(i)], Told>>
    /\ G!gvars' = <<[i \in Ids |-> Life(i)'], Told'>>
BY DEF G!gvars

\* Commits aside, a step shows nothing: what rows say counts, not their errors.
LEMMA LifeStays ==
    ASSUME IInv, IInv', [Next]_vars, NEW i \in Ids, committed' = committed,
           image'[i].status = image[i].status
    PROVE  Life(i)' = Life(i)
BY LifeIs, LifeIsNext, RespFixed DEF LifeOf, IInv

\* The URLs told to clients change with told only.
LEMMA ToldStays ==
    ASSUME IInv, ToldCommitted, [Next]_vars, told' = told PROVE Told' = Told
BY RespFixed DEF Told, ToldCommitted, IInv

\* A committed Save publishes all the URLs of the response together.
LEMMA SavePublishes ==
    ASSUME IInv, IInv', ToldCommitted, [Next]_vars, NEW r \in Req, SaveCommits(r)
    PROVE  G!Publish(r, resp[r], {u \in resp[r] : dl[<<r, u>>] = "ok"})
<1> USE DEF IInv, OwnInv
<1> DEFINE good == {u \in resp[r] : dl[<<r, u>>] = "ok"}
<1>1. /\ r \notin committed /\ committed' = committed \cup {r}
      /\ resp' = resp /\ records[r] = resp[r]
  BY DEF SaveCommits, CommittedStage, Gathered, GatheredOf
<1>2. \A i \in Ids : Life(i)' = IF i \notin {r} \X resp[r] THEN Life(i)
                                ELSE IF i[2] \in good THEN "image" ELSE "placeholder"
  <2> SUFFICES ASSUME NEW i \in Ids
               PROVE  Life(i)' = IF i \notin {r} \X resp[r] THEN Life(i)
                                 ELSE IF i[2] \in good THEN "image" ELSE "placeholder"
    OBVIOUS
  <2>1. CASE i[1] = r
    <3>1. i = <<r, i[2]>> /\ i[2] \in Url
      BY <2>1 DEF Ids
    <3>2. CASE i[2] \in resp[r]
      <4>1. image'[i] = RowFor(i) /\ i \in {r} \X resp[r]
        BY <1>1, <3>1, <3>2 DEF SaveCommits
      <4>2. RowFor(i).status = IF i[2] \in good THEN "READY" ELSE "FAILED"
        BY <3>1, <3>2 DEF RowFor, ReadyRow, FailedRow
      <4> QED BY <1>1, <2>1, <3>2, <4>1, <4>2, LifeIsNext DEF LifeOf
    <3>3. CASE i[2] \notin resp[r]
      BY <1>1, <2>1, <3>3, LifeIs, LifeIsNext DEF LifeOf
    <3> QED BY <3>2, <3>3
  <2>2. CASE i[1] # r
    <3>1. i \notin {r} \X resp[r] /\ image'[i] = image[i]
      BY <1>1, <2>2 DEF SaveCommits
    <3> QED BY <1>1, <2>2, <3>1, LifeIs, LifeIsNext DEF LifeOf
  <2> QED BY <2>1, <2>2
<1>3. \A u \in Url : Life(<<r, u>>) = "none"
  BY <1>1, LifeIs DEF LifeOf, Ids
<1>4. Told' = Told
  BY ToldStays DEF SaveCommits
<1> QED BY <1>2, <1>3, <1>4 DEF G!Publish, G!Ids, Ids

\* The answer delivers the URLs its Save published.
LEMMA RespondDelivers ==
    ASSUME IInv, IInv', ToldCommitted, [Next]_vars,
           NEW r \in Req, Respond(r), told' = told \cup {r}
    PROVE  G!Deliver(r)
<1> USE DEF IInv, OwnInv
<1>1. r \in committed /\ committed' = committed /\ image' = image /\ resp' = resp
  BY DEF Respond, ToldCommitted, disk
<1>2. \A i \in Ids : Life(i)' = Life(i)
  BY <1>1, LifeStays
<1>3. \A i \in {r} \X Url : Life(i) # "none" <=> i[2] \in resp[r]
  BY <1>1, LifeIs DEF LifeOf, Ids
<1>4. Told' = Told \cup {i \in {r} \X Url : Life(i) # "none"}
  BY <1>1, <1>3 DEF Told, Ids
<1>5. {i \in {r} \X Url : Life(i) # "none"}
         = {i \in {r} \X Url : [j \in Ids |-> Life(j)][i] # "none"}
  BY DEF Ids
<1> HIDE DEF IInv, OwnInv
<1> QED BY <1>2, <1>4, <1>5 DEF G!Deliver, G!Ids, Ids

\* A committed delete removes what it was asked to.
LEMMA DeleteRemoves ==
    ASSUME IInv, IInv', ToldCommitted, [Next]_vars, NEW o \in Op, DeleteCommits(o)
    PROVE  G!Remove(Doomed(target[o]))
<1> USE DEF IInv, OwnInv
<1>1. committed' = committed /\ resp' = resp /\ Told' = Told
  BY ToldStays DEF DeleteCommits, reqVars
<1>2. ASSUME NEW i \in Ids
      PROVE  Life(i)' = IF i \in Doomed(target[o]) /\ Life(i) # "none" THEN "gone" ELSE Life(i)
  <2>1. CASE i \in Doomed(target[o])
    <3>1. image'[i].status = "absent"
      BY <2>1 DEF DeleteCommits, NoRow
    <3> QED BY <1>1, <2>1, <3>1, LifeIs, LifeIsNext DEF LifeOf
  <2>2. CASE i \notin Doomed(target[o])
    <3>1. image'[i] = image[i]
      BY <2>2 DEF DeleteCommits
    <3> QED BY <1>1, <2>2, <3>1, LifeStays
  <2> QED BY <2>1, <2>2
<1> QED BY <1>1, <1>2 DEF G!Remove, G!Ids, Ids

\* A committed retry repairs a placeholder, or shows nothing new.
LEMMA RetryRepairs ==
    ASSUME IInv, IInv', ToldCommitted, [Next]_vars, NEW o \in Op, RetryCommits(o)
    PROVE  G!Repair(target[o]) \/ UNCHANGED G!gvars
<1> USE DEF IInv, OwnInv
<1> DEFINE t == target[o]
<1>1. t \in Ids
  BY DEF RetryCommits, OpKnows
<1>2. committed' = committed /\ resp' = resp /\ Told' = Told
  BY ToldStays DEF RetryCommits, reqVars
<1>3. ASSUME NEW i \in Ids, i # t PROVE Life(i)' = Life(i)
  <2>1. image'[i] = image[i]
    BY <1>3 DEF RetryCommits, TypeOK
  <2> QED BY <1>2, <2>1, LifeStays
<1>4. CASE image[t].status = "FAILED" /\ Life(t) # "none"
  <2>1. image'[t].status = "READY"
    BY <1>1, <1>4 DEF RetryCommits, ReadyRow, TypeOK
  <2>2. Life(t) = "placeholder" /\ LifeOf(t, committed', resp', image') = "image"
    BY <1>1, <1>2, <1>4, <2>1, LifeIs DEF LifeOf
  <2>3. PICK i \in Ids : i = t
    BY <1>1
  <2>4. Life(i)' = "image"
    BY <2>2, <2>3, LifeIsNext
  <2>5. [j \in Ids |-> Life(j)'] = [[j \in Ids |-> Life(j)] EXCEPT ![i] = "image"]
    BY <1>3, <2>3, <2>4
  <2> QED BY <1>2, <2>2, <2>3, <2>5 DEF G!Repair, G!Ids, Ids
<1>5. CASE ~(image[t].status = "FAILED" /\ Life(t) # "none")
  <2>1. PICK i \in Ids : i = t
    BY <1>1
  <2>2. image'[i].status = image[i].status \/ Life(i) = "none"
    BY <1>5, <2>1 DEF RetryCommits, ReadyRow, TypeOK, Row
  <2>3. Life(i)' = Life(i)
    BY <1>2, <2>2, LifeIs, LifeIsNext DEF LifeOf
  <2>4. [j \in Ids |-> Life(j)'] = [j \in Ids |-> Life(j)]
    BY <1>3, <2>1, <2>3
  <2> QED BY <1>2, <2>4, Shown
<1> QED BY <1>4, <1>5

\* Every step of the gateway is a step of the gallery, or shows nothing new.
LEMMA GalleryStep ==
    IInv /\ IInv' /\ ToldCommitted /\ [Next]_vars => [G!Next]_G!gvars
<1> SUFFICES ASSUME IInv, IInv', ToldCommitted, [Next]_vars PROVE G!Next \/ UNCHANGED G!gvars
  OBVIOUS
<1>1. ASSUME UNCHANGED <<image, committed>> PROVE G!Next \/ UNCHANGED G!gvars
  <2>1. \A i \in Ids : Life(i)' = Life(i)
    BY <1>1, LifeStays
  <2>2. CASE told' = told
    BY <2>1, <2>2, ToldStays, Shown
  <2>3. ASSUME NEW r \in Req, Respond(r), told' = told \cup {r} PROVE G!Next
    BY <2>3, RespondDelivers DEF G!Next
  <2> QED BY <2>2, <2>3, ToldFrame
<1>2. ASSUME NEW r \in Req, SaveCommits(r) PROVE G!Next
  <2>1. resp[r] \in SUBSET Url
    BY DEF IInv, OwnInv, TypeOK
  <2>2. {u \in resp[r] : dl[<<r, u>>] = "ok"} \in SUBSET resp[r]
    OBVIOUS
  <2> QED BY <1>2, <2>1, <2>2, SavePublishes DEF G!Next
<1>3. ASSUME NEW o \in Op, DeleteCommits(o) PROVE G!Next
  <2>1. target[o] \in Ids \cup Req
    BY <1>3 DEF DeleteCommits, IInv, OwnInv, OpKnows
  <2>2. CASE target[o] \in Req
    <3>1. Doomed(target[o]) = {target[o]} \X Url
      BY <2>2 DEF Doomed, IdsOf
    <3> QED BY <1>3, <2>2, <3>1, DeleteRemoves DEF G!Next
  <2>3. CASE target[o] \in Ids /\ target[o] \notin Req
    <3>1. Doomed(target[o]) = {target[o]}
      BY <2>3 DEF Doomed
    <3> QED BY <1>3, <2>3, <3>1, DeleteRemoves DEF G!Next, G!Ids, Ids
  <2> QED BY <2>1, <2>2, <2>3
<1>4. ASSUME NEW o \in Op, RetryFails(o) PROVE UNCHANGED G!gvars
  <2>1. committed' = committed /\ told' = told
    BY <1>4 DEF RetryFails, reqVars
  <2>2. ASSUME NEW i \in Ids PROVE image'[i].status = image[i].status
    <3>1. image \in [Ids -> Row]
      BY DEF IInv, OwnInv, TypeOK
    <3> QED BY <1>4, <3>1 DEF RetryFails, Row
  <2> QED BY <2>1, <2>2, LifeStays, ToldStays, Shown
<1>5. ASSUME NEW o \in Op, RetryCommits(o) PROVE G!Next \/ UNCHANGED G!gvars
  <2>1. target[o] \in Ids
    BY <1>5 DEF RetryCommits, IInv, OwnInv, OpKnows
  <2> QED BY <1>5, <2>1, RetryRepairs DEF G!Next, G!Ids, Ids
<1> QED BY <1>1, <1>2, <1>3, <1>4, <1>5, RowFrame

(****************************************************************************)
(* The gateway implements Gallery: the URLs of a response appear together   *)
(* with its audit commit, a placeholder may be repaired, only a deletion    *)
(* takes a URL away and for good, and clients hold committed URLs only      *)
(* (images.go:46-157, audit/service.go, router.go:206-294).                 *)
(****************************************************************************)
THEOREM ImplementsGallery == Spec => ShowsGallery
<1>1. Init => G!Init
  <2> SUFFICES ASSUME Init PROVE G!Init
    OBVIOUS
  <2>1. told = {} /\ committed = {}
    BY DEF Init
  <2>2. Told = {}
    BY <2>1 DEF Told
  <2>3. \A i \in Ids : Life(i) = "none"
    BY <2>1 DEF Life
  <2> QED BY <2>2, <2>3 DEF G!Init, G!Ids, Ids
<1>2. WholeInv => IInv /\ ToldCommitted
  BY DEF WholeInv, ShownInv
<1>3. IInv /\ IInv' /\ ToldCommitted /\ [Next]_vars => [G!Next]_G!gvars
  BY GalleryStep
<1> QED BY <1>1, <1>2, <1>3, WholeInvariance, PTL DEF Spec, ShowsGallery, G!Spec

\* What Gallery promises by itself: a URL that was told shows something, or was deleted.
LEMMA GalleryTellsShown == G!Spec => []G!ToldShown
<1> DEFINE life == [i \in Ids |-> Life(i)]
<1>1. G!Init => G!ToldShown /\ Told \subseteq Ids
  BY DEF G!Init, G!ToldShown
<1>2. G!ToldShown /\ Told \subseteq Ids /\ [G!Next]_G!gvars => (G!ToldShown /\ Told \subseteq Ids)'
  <2> SUFFICES ASSUME G!ToldShown, Told \subseteq Ids, [G!Next]_G!gvars
               PROVE  G!ToldShown' /\ Told' \subseteq Ids
    OBVIOUS
  <2> USE DEF G!ToldShown, G!Ids, Ids
  <2>1. ASSUME NEW r \in Req, NEW urls \in SUBSET Url, NEW good \in SUBSET urls, G!Publish(r, urls, good)
        PROVE  G!ToldShown' /\ Told' \subseteq Ids
    BY <2>1 DEF G!Publish
  <2>2. ASSUME NEW r \in Req, G!Deliver(r) PROVE G!ToldShown' /\ Told' \subseteq Ids
    BY <2>2 DEF G!Deliver
  <2>3. ASSUME NEW i \in Ids, G!Repair(i) PROVE G!ToldShown' /\ Told' \subseteq Ids
    BY <2>3 DEF G!Repair
  <2>4. ASSUME NEW I, G!Remove(I) PROVE G!ToldShown' /\ Told' \subseteq Ids
    BY <2>4 DEF G!Remove
  <2>5. CASE UNCHANGED G!gvars
    BY <2>5 DEF G!gvars
  <2> QED BY <2>1, <2>2, <2>3, <2>4, <2>5 DEF G!Next
<1> QED BY <1>1, <1>2, PTL DEF G!Spec

(****************************************************************************)
(* So it holds of the gateway: a URL a client holds never shows nothing,    *)
(* only what it was made of, or that it was deleted.                        *)
(****************************************************************************)
THEOREM ToldAlwaysShown == Spec => []G!ToldShown
BY ImplementsGallery, GalleryTellsShown DEF ShowsGallery
=============================================================================
