--------------------------- MODULE PowerLossProofs ---------------------------
(****************************************************************************)
(* Proofs about PowerLoss, for every instance: whatever commits and names a *)
(* loss of power undoes, a row without its file is one that was deleted.    *)
(****************************************************************************)
EXTENDS PowerLoss, GalleryProofs

(****************************************************************************)
(* What the gateway's own steps do to a version of the rows, to its files   *)
(* and to the log.                                                          *)
(****************************************************************************)

\* A version keeps to its own files: retries that are done and answers that are committed do not change.
LEMMA VersionStaysOwned ==
    ASSUME OwnInv, [Next]_vars, NEW rows, VersionOwned(rows) PROVE VersionOwned(rows)'
<1> USE DEF OwnInv
<1>1. \A p \in Op : opc[p] = "done" => opc'[p] = "done" /\ target'[p] = target[p]
  BY OpFrame
<1>2. \A p \in Jobs : (p \in Op => opc[p] = "done") => Owner(p)' = Owner(p)
  BY <1>1 DEF Owner, Jobs
<1>3. \A r \in committed : r \in committed' /\ resp'[r] = resp[r]
  BY CommittedGrows, RespFixed
<1> QED BY <1>1, <1>2, <1>3 DEF VersionOwned

\* The file a version names stays, synced, or its image is deleted.
LEMMA FileStaysSynced ==
    ASSUME OwnInv, [Next]_vars, Track, NEW i \in Ids, NEW p \in Jobs,
           i[1] \in committed, Owner(p) = i, p \in Op => opc[p] = "done",
           p \in files \cap sure \/ i \in deleted
    PROVE  p \in files' \cap sure' \/ i \in deleted'
<1> USE DEF OwnInv
<1>1. CASE i \in deleted
  BY <1>1, DeletedGrows
<1>2. CASE p \in files /\ p \in sure /\ p \notin files'
  BY <1>2, FileGoesByDelete
<1>3. CASE p \in files' /\ p \in sure
  BY <1>3 DEF Track
<1> QED BY <1>1, <1>2, <1>3

\* A version's files stay synced unless their images are deleted.
LEMMA VersionStaysSynced ==
    ASSUME OwnInv, [Next]_vars, Track, NEW rows, VersionOwned(rows), VersionSynced(rows)
    PROVE  VersionSynced(rows)'
<1> SUFFICES ASSUME NEW i \in Ids, NEW p \in Jobs, rows[2][i].path = p
             PROVE  p \in files' \cap sure' \/ i \in deleted'
  BY DEF VersionSynced
<1>1. i[1] \in committed /\ Owner(p) = i /\ (p \in Op => opc[p] = "done")
  BY NamesDistinct DEF VersionOwned
<1>2. p \in files \cap sure \/ i \in deleted
  BY DEF VersionSynced
<1> QED BY <1>1, <1>2, FileStaysSynced

\* The rows a commit leaves are a version of their own.
LEMMA RowsOwned ==
    ASSUME OwnInv', NEW rows, rows = Rows' PROVE VersionOwned(rows)'
BY DEF OwnInv, RowShape, RowOwnsPath, CommittedStage, VersionOwned, Rows

\* What a commit makes a row name has been synced before.
LEMMA CommitsSynced ==
    ASSUME PowerInv, [Next]_vars, Track, NEW rows, rows = Rows' PROVE VersionSynced(rows)'
<1> SUFFICES ASSUME NEW i \in Ids, NEW p \in Jobs, image'[i].path = p
             PROVE  p \in files' \cap sure' \/ i \in deleted'
  BY DEF VersionSynced, Rows
<1> USE NamesDistinct DEF PowerInv
<1>1. CASE image'[i].path = image[i].path
  <2>1. Rows \in Versions /\ VersionSynced(Rows) /\ VersionOwned(Rows)
    BY DEF Logged, Versions
  <2>2. i[1] \in committed /\ Owner(p) = i /\ (p \in Op => opc[p] = "done")
    BY <1>1, <2>1 DEF VersionOwned, Rows
  <2>3. p \in files \cap sure \/ i \in deleted
    BY <1>1, <2>1 DEF VersionSynced, Rows
  <2> QED BY <2>2, <2>3, FileStaysSynced
<1>2. ASSUME p \in files, p \in sure, files' = files
      PROVE  p \in files' \cap sure'
  BY <1>2 DEF Track
<1>3. CASE image'[i] = RowFor(i) /\ SaveCommits(i[1])
  <2>1. p = i /\ dl[i] = "ok" /\ rpc[i[1]] = "save" /\ i \in Jobs
    BY <1>3 DEF RowFor, ReadyRow, FailedRow, SaveCommits, Jobs
  <2>2. p \in files /\ p \in sure
    BY <2>1 DEF OwnInv, DownloadedKept, DownloadsSynced
  <2> QED BY <1>2, <1>3, <2>2 DEF SaveCommits
<1>4. ASSUME NEW o \in Op, RetryCommits(o), image'[i] = ReadyRow(o)
      PROVE  p \in files' \cap sure'
  <2>1. p = o /\ dl[o] = "ok" /\ Running(o)
    BY <1>4 DEF ReadyRow, RetryCommits, Running, Jobs
  <2>2. p \in files /\ p \in sure
    BY <2>1 DEF OwnInv, DownloadedKept, DownloadsSynced
  <2> QED BY <1>2, <1>4, <2>2 DEF RetryCommits
<1>5. image'[i] # NoRow
  BY DEF NoRow
<1> QED BY <1>1, <1>3, <1>4, <1>5, RowChange

\* A download ends well by its sync.
LEMMA OkIsSynced ==
    ASSUME TypeOK, [Next]_vars, NEW j \in Jobs, dl'[j] = "ok" PROVE dl[j] \in {"moved", "ok"}
<1>1. ASSUME NEW k \in Jobs, DownloadStep(k) PROVE dl[j] \in {"moved", "ok"}
  BY <1>1 DEF DownloadStep, DownloadFails, CreatePart, DropPart, RenamePart, SyncDir, SyncDirFails,
              Moves, TypeOK
<1>2. ASSUME NEW r \in Req, RequestAct(r) PROVE dl[j] = "ok"
  BY <1>2 DEF RequestAct, RequestStep, StartProcess, AppendRecord, WaitAll, SaveCommits, SaveFails,
              AnswerError, Respond
<1>3. ASSUME NEW o \in Op, OpBegins(o) PROVE dl[j] = "ok"
  BY <1>3, BeginsWhat DEF TypeOK
<1> QED BY <1>1, <1>2, <1>3, StepKinds, RemoveFrame, OpStepFrame, CrashFrame DEF core

\* Who has a download that ended well has had it before.
LEMMA HolderStays ==
    ASSUME OwnInv, [Next]_vars, NEW j \in Jobs, dl[j] = "ok", dl'[j] = "ok",
           Running(j)' \/ (j \in Ids /\ rpc'[j[1]] = "save")
    PROVE  Running(j) \/ (j \in Ids /\ rpc[j[1]] = "save")
<1> USE NamesDistinct DEF OwnInv
<1>1. CASE j \in Ids
  <2>1. j[1] \in Req /\ j[2] \in Url /\ j = <<j[1], j[2]>>
    BY <1>1 DEF Ids
  <2>2. rpc'[j[1]] \in {"process", "save"}
    BY <1>1 DEF Running
  <2>3. ASSUME NEW r \in Req, RequestAct(r) PROVE rpc[j[1]] \in {"process", "save"}
    <3>1. ASSUME NEW urls \in SUBSET Url, NEW parsed \in BOOLEAN, StartProcess(r, urls, parsed)
          PROVE  rpc[j[1]] \in {"process", "save"}
      <4>1. rpc[j[1]] # "idle"
        BY <2>1 DEF Gathered, GatheredOf
      <4> QED BY <2>2, <3>1, <4>1 DEF StartProcess, TypeOK
    <3>2. ASSUME RequestStep(r) PROVE rpc[j[1]] \in {"process", "save"}
      <4>1. \/ rpc' = rpc
            \/ rpc[r] = "process" /\ rpc' = [rpc EXCEPT ![r] = "save"]
            \/ \E a \in {"respond", "cleanup", "done"} : rpc' = [rpc EXCEPT ![r] = a]
        BY <3>2 DEF RequestStep, AppendRecord, WaitAll, SaveCommits, SaveFails, AnswerError, Respond
      <4> QED BY <2>1, <2>2, <4>1 DEF TypeOK
    <3> QED BY <2>3, <3>1, <3>2 DEF RequestAct
  <2>4. Crash => rpc[j[1]] \in {"process", "save"}
    BY <2>1, <2>2 DEF Crash, Dies, TypeOK
  <2>5. rpc[j[1]] \in {"process", "save"}
    BY <2>2, <2>3, <2>4, StepKinds, DownloadFrame, RemoveFrame, BeginFrame, OpStepFrame DEF core
  <2> QED BY <1>1, <2>5 DEF Running
<1>2. CASE j \in Op /\ j \notin Ids
  <2>1. opc'[j] = "retry"
    BY <1>2 DEF Running
  <2>2. ~OpBegins(j)
    <3> SUFFICES ASSUME OpBegins(j) PROVE FALSE
      OBVIOUS
    <3> QED BY <1>2, <2>1, BeginsWhat DEF Begins, TypeOK
  <2> QED BY <1>2, <2>1, <2>2, OpProgress DEF Running
<1> QED BY <1>1, <1>2 DEF Jobs

\* A download that ended well stays synced while its handler may still commit it.
LEMMA DownloadsSyncedStep ==
    ASSUME PowerInv, OwnInv', [Next]_vars, Track PROVE DownloadsSynced'
<1> SUFFICES ASSUME NEW j \in Jobs, dl'[j] = "ok",
                    Running(j)' \/ (j \in Ids /\ rpc'[j[1]] = "save")
             PROVE  j \in sure'
  BY DEF DownloadsSynced
<1>1. j \in files'
  BY DEF OwnInv, DownloadedKept
<1>2. CASE dl[j] = "moved"
  BY <1>1, <1>2 DEF Track
<1>3. CASE dl[j] = "ok"
  <2>1. j \in sure
    BY <1>3, HolderStays DEF PowerInv, DownloadsSynced
  <2> QED BY <1>1, <2>1 DEF Track
<1> QED BY <1>2, <1>3, OkIsSynced DEF PowerInv, OwnInv

-----------------------------------------------------------------------------
(* PowerInv is inductive: one lemma per disjunct of NextP.                  *)

RowsType == [Req -> {"absent", "READY", "DEGRADED", "PARSE_FAILED"}] \X [Ids -> Row]

\* A commit adds one version, which is the last.
LEMMA LogGrows ==
    ASSUME log \in Seq(RowsType), Len(log) > 0, log[Len(log)] = Rows, Rows' \in RowsType, Track
    PROVE  /\ log' \in Seq(RowsType)
           /\ Len(log') > 0 /\ log'[Len(log')] = Rows'
           /\ \A rows \in Versions' : rows \in Versions \/ rows = Rows'
<1>1. CASE Rows' = Rows
  BY <1>1 DEF Track, Versions
<1>2. CASE Rows' # Rows
  <2>1. log' = Append(log, Rows')
    BY <1>2 DEF Track
  <2>2. /\ log' \in Seq(RowsType) /\ Len(log') = Len(log) + 1
        /\ log'[Len(log')] = Rows'
        /\ \A k \in 1..Len(log) : log'[k] = log[k]
    BY <2>1
  <2>3. \A k \in 1..Len(log') : k = Len(log') \/ k \in 1..Len(log)
    BY <2>2
  <2> QED BY <2>2, <2>3 DEF Versions
<1> QED BY <1>1, <1>2

\* The gateway's own steps.
LEMMA GatewayStep ==
    ASSUME PowerInv, [Next]_vars, Track PROVE PowerInv'
<1>1. OwnInv'
  BY OwnInvStep DEF PowerInv
<1>2. Rows' \in RowsType
  BY <1>1 DEF OwnInv, TypeOK, Rows, RowsType
<1>3. /\ log' \in Seq(RowsType)
      /\ Len(log') > 0 /\ log'[Len(log')] = Rows'
      /\ \A rows \in Versions' : rows \in Versions \/ rows = Rows'
  <2>1. log \in Seq(RowsType) /\ Len(log) > 0 /\ log[Len(log)] = Rows
    BY DEF PowerInv, Logged, RowsType
  <2> QED BY <1>2, <2>1, LogGrows
<1>4. ASSUME NEW rows \in Versions' PROVE VersionOwned(rows)' /\ VersionSynced(rows)'
  <2>1. CASE rows \in Versions
    <3>1. OwnInv /\ VersionOwned(rows) /\ VersionSynced(rows)
      BY <2>1 DEF PowerInv, Logged
    <3> QED BY <3>1, VersionStaysOwned, VersionStaysSynced
  <2>2. CASE rows = Rows'
    BY <1>1, <2>2, RowsOwned, CommitsSynced
  <2> QED BY <1>3, <2>1, <2>2
<1>5. Logged'
  BY <1>3, <1>4 DEF Logged, RowsType
<1>6. sure' \subseteq Jobs
  BY <1>1 DEF Track, PowerInv, OwnInv, TypeOK
<1> QED BY <1>1, <1>5, <1>6, DownloadsSyncedStep DEF PowerInv

\* A checkpoint forgets versions that can no longer come back.
LEMMA CheckpointStep ==
    ASSUME PowerInv, Checkpoint PROVE PowerInv'
<1>1. UNCHANGED <<vars, sure>> /\ log' = <<Rows>>
  BY DEF Checkpoint
<1>2. OwnInv' = OwnInv /\ DownloadsSynced' = DownloadsSynced
  BY <1>1 DEF vars, disk, reqVars, opVars, OwnInv, TypeOK, RowShape, RowOwnsPath, Gathered, GatheredOf,
              CommittedStage, DownloadedKept, OpKnows, DeletedForGood, HeldOwned, DownloadsSynced,
              Running, Owner, Doomed
<1>3. Rows' = Rows /\ Rows \in Versions /\ Rows \in RowsType
  <2>1. Rows' = Rows
    BY <1>1 DEF vars, disk, Rows
  <2>2. Rows \in RowsType
    BY DEF Rows, RowsType, PowerInv, OwnInv, TypeOK
  <2> QED BY <2>1, <2>2 DEF Versions, PowerInv, Logged
<1>4. ASSUME NEW rows, rows = Rows PROVE VersionOwned(rows)' /\ VersionSynced(rows)'
  <2>1. VersionOwned(rows) /\ VersionSynced(rows)
    BY <1>3, <1>4 DEF PowerInv, Logged
  <2> QED BY <1>1, <2>1 DEF vars, disk, reqVars, opVars, VersionOwned, VersionSynced, Owner
<1>5. /\ log' \in Seq(RowsType) /\ Len(log') = 1 /\ log'[1] = Rows'
      /\ Versions' = {Rows}
  BY <1>1, <1>3 DEF Versions
<1>6. Logged'
  BY <1>4, <1>5 DEF Logged, RowsType
<1> QED BY <1>1, <1>2, <1>6 DEF PowerInv
\* Without power every handler is lost, and the rows are as they were once.
LEMMA PowerFailsStep ==
    ASSUME PowerInv, PowerFails PROVE PowerInv'
<1> USE NamesDistinct
<1>1. PICK rows \in Versions : request' = rows[1] /\ image' = rows[2] /\ log' = <<rows>>
  BY DEF PowerFails, Versions
<1>2. rows \in RowsType /\ VersionOwned(rows) /\ VersionSynced(rows)
  BY DEF PowerInv, Logged, RowsType, Versions
<1>3. OwnInv /\ TypeOK
  BY DEF PowerInv, OwnInv
<1>4. /\ \A r \in Req : rpc'[r] = IF rpc[r] \in {"idle", "done"} THEN rpc[r] ELSE "lost"
      /\ \A o \in Op : opc'[o] = IF opc[o] \in {"idle", "done"} THEN opc[o] ELSE "lost"
      /\ UNCHANGED <<dl, resp, records, status, kind, target, committed>>
      /\ held' = [h \in Req \cup Op |-> {}] /\ missed' = [o \in Op |-> {}]
  BY DEF PowerFails, Dies
<1>5. sure' = files' /\ files' \subseteq Jobs /\ files \cap sure \subseteq files'
  <2>1. files \subseteq Jobs /\ sure \subseteq Jobs
    BY <1>3 DEF PowerInv, TypeOK
  <2> QED BY <2>1 DEF PowerFails
<1>6. TypeOK'
  <2>1. request' \in [Req -> {"absent", "READY", "DEGRADED", "PARSE_FAILED"}] /\ image' \in [Ids -> Row]
    BY <1>1, <1>2 DEF RowsType
  <2>2. /\ rpc' \in [Req -> {"idle", "process", "save", "respond", "cleanup", "done", "lost"}]
        /\ opc' \in [Op -> {"idle", "delete", "retry", "remove", "done", "lost"}]
    BY <1>3 DEF PowerFails, Dies, TypeOK
  <2>3. crashes' \in 0..MaxCrash /\ up' \in BOOLEAN
    <3>1. crashes \in 0..MaxCrash /\ crashes < MaxCrash /\ MaxCrash \in Nat
      BY <1>3, MaxCrashNat DEF PowerFails, Dies, TypeOK
    <3>2. crashes' = crashes + 1
      BY DEF PowerFails, Dies
    <3>3. crashes' \in 0..MaxCrash
      BY ONLY <3>1, <3>2
    <3>4. up' \in BOOLEAN
      BY DEF PowerFails, Dies
    <3> QED BY <3>3, <3>4
  <2>4. view' \in [View -> Viewing]
    <3>1. /\ view \in [View -> Viewing]
          /\ view' = [v \in View |-> IF view[v].at = "open" THEN [view[v] EXCEPT !.at = "lost"]
                                     ELSE view[v]]
      BY <1>3 DEF PowerFails, Dies, TypeOK
    <3> QED BY ONLY <3>1 DEF Viewing
  <2>5. held' \in [Req \cup Op -> SUBSET Jobs] /\ missed' \in [Op -> SUBSET Jobs]
    BY <1>4
  <2> QED BY <1>3, <1>5, <2>1, <2>2, <2>3, <2>4, <2>5 DEF PowerFails, TypeOK
<1>7. RowShape' /\ RowOwnsPath' /\ CommittedStage'
  <2>1. \A p \in Jobs : Owner(p)' = Owner(p)
    BY <1>4 DEF Owner
  <2>2. \A p \in Op : opc[p] = "done" => opc'[p] = "done"
    BY <1>4
  <2>3. RowShape'
    BY <1>1, <1>2, <1>4 DEF RowShape, VersionOwned
  <2>4. RowOwnsPath'
    BY <1>1, <1>2, <2>1, <2>2 DEF RowOwnsPath, VersionOwned
  <2>5. CommittedStage'
    BY <1>1, <1>2, <1>3, <1>4 DEF CommittedStage, VersionOwned, OwnInv
  <2> QED BY <2>3, <2>4, <2>5
<1>8. Gathered'
  BY <1>3, <1>4 DEF OwnInv, Gathered, GatheredOf
<1>9. \A j \in Jobs : ~Running(j)' /\ (j \in Ids => rpc'[j[1]] # "save")
  BY <1>4 DEF Running, Jobs, Ids
<1>10. DownloadedKept' /\ DownloadsSynced'
  BY <1>9 DEF DownloadedKept, DownloadsSynced
<1>11. \A o \in Op : opc'[o] \notin {"delete", "retry", "remove"} /\ (opc'[o] = "idle" => opc[o] = "idle")
  BY <1>4
<1>12. OpKnows' /\ DeletedForGood'
  BY <1>3, <1>4, <1>11 DEF OwnInv, OpKnows, DeletedForGood
<1>13. HeldOwned'
  BY <1>3, <1>4, <1>11 DEF OwnInv, HeldOwned
<1>14. VersionOwned(rows)' /\ VersionSynced(rows)'
  <2>1. \A p \in Jobs : Owner(p)' = Owner(p)
    BY <1>4 DEF Owner
  <2>2. VersionOwned(rows)'
    BY <1>2, <1>4, <2>1 DEF VersionOwned
  <2>3. deleted' = deleted
    BY DEF PowerFails
  <2>4. VersionSynced(rows)'
    BY <1>2, <1>5, <2>3 DEF VersionSynced
  <2> QED BY <2>2, <2>4
<1>15. Logged'
  <2>1. rows = <<rows[1], rows[2]>>
    BY <1>2 DEF RowsType
  <2>2. Rows' = rows
    BY <1>1, <2>1 DEF Rows
  <2>3. /\ log' \in Seq(RowsType) /\ Len(log') = 1 /\ log'[1] = rows
        /\ Versions' = {rows}
    BY <1>1, <1>2 DEF Versions
  <2> QED BY <1>14, <2>2, <2>3 DEF Logged, RowsType
<1> QED BY <1>5, <1>6, <1>7, <1>8, <1>10, <1>12, <1>13, <1>15 DEF PowerInv, OwnInv

\* Every step, a loss of power included, keeps the invariant.
LEMMA PowerInvStep == PowerInv /\ [NextP]_pvars => PowerInv'
<1>1. CASE UNCHANGED pvars
  <2>1. UNCHANGED <<vars, log, sure>>
    BY <1>1 DEF pvars
  <2>2. Track /\ [Next]_vars
    BY <2>1 DEF Track, vars, disk, reqVars, Rows
  <2> QED BY <2>2, GatewayStep
<1> QED BY <1>1, GatewayStep, CheckpointStep, PowerFailsStep DEF NextP

\* Nothing is stored and nothing needs to be synced at the start.
LEMMA PowerInvInit == InitP => PowerInv
<1> SUFFICES ASSUME InitP PROVE PowerInv
  OBVIOUS
<1>1. OwnInv /\ TypeOK
  BY IInvInit DEF InitP, IInv, OwnInv
<1>2. Rows \in RowsType
  BY <1>1 DEF TypeOK, Rows, RowsType
<1>3. /\ log \in Seq(RowsType) /\ Len(log) = 1 /\ log[1] = Rows
      /\ Versions = {Rows}
  BY <1>2 DEF InitP, Versions
<1>4. VersionOwned(Rows) /\ VersionSynced(Rows)
  <2>1. \A i \in Ids : image[i] = NoRow
    BY DEF InitP, Init
  <2>2. \A r \in Req : request[r] = "absent"
    BY DEF InitP, Init
  <2> QED BY <2>1, <2>2, NamesDistinct DEF VersionOwned, VersionSynced, Rows, NoRow
<1>5. Logged
  BY <1>3, <1>4 DEF Logged, RowsType
<1>6. DownloadsSynced /\ sure \subseteq Jobs
  BY DEF InitP, Init, DownloadsSynced
<1> QED BY <1>1, <1>5, <1>6 DEF PowerInv

(****************************************************************************)
(* The inductive invariant of a gateway that may lose power: what holds of  *)
(* its handlers, of each version of its rows, and of the synced names.      *)
(****************************************************************************)
THEOREM PowerInvariance == SpecP => []PowerInv
BY PowerInvInit, PowerInvStep, PTL DEF SpecP

(****************************************************************************)
(* After any losses of power a READY row whose file is missing is one that  *)
(* an administrator deleted (storage.go:61-77 syncs images/ after its       *)
(* rename and before the row is committed).                                 *)
(****************************************************************************)
THEOREM DanglingAlwaysDeleted == SpecP => []DanglingWasDeleted
<1>1. PowerInv => DanglingWasDeleted
  <2> SUFFICES ASSUME PowerInv, NEW i \in Ids, image[i].status = "READY", image[i].path \notin files
               PROVE  i \in deleted
    BY DEF DanglingWasDeleted
  <2>1. VersionOwned(Rows) /\ VersionSynced(Rows)
    BY DEF PowerInv, Logged, Versions
  <2>2. image[i].path \in Jobs
    BY DEF PowerInv, OwnInv, TypeOK, RowShape, Row
  <2> QED BY <2>1, <2>2 DEF VersionSynced, Rows
<1> QED BY <1>1, PowerInvariance, PTL
=============================================================================
