------------------------------ MODULE PowerLoss ------------------------------
(****************************************************************************)
(* ImageStore on a machine that may lose power.  The database runs in WAL   *)
(* mode with synchronous=NORMAL: a commit reaches the WAL file but is only  *)
(* synced by the next checkpoint, so a power loss may undo the latest       *)
(* commits, in order.  Storage.Save syncs images/ after its rename; nobody  *)
(* syncs it after an os.Remove, so a removed file may be back.              *)
(****************************************************************************)
EXTENDS ImageStore, Sequences

VARIABLES
    log,    \* the rows as checkpointed last, then as every commit since left them
    sure    \* the names images/ held when it was synced last

pvars == <<vars, log, sure>>

Rows == <<request, image>>

InitP == Init /\ log = <<Rows>> /\ sure = {}

\* What a step of the gateway adds to the WAL, and what its directory sync settles.
Track ==
    /\ log' = IF Rows' = Rows THEN log ELSE Append(log, Rows')
    /\ sure' = IF \E j \in Jobs : dl[j] = "moved" /\ dl'[j] = "ok" THEN files' ELSE sure

\* SQLite moves the WAL into the database file and syncs both.
Checkpoint ==
    /\ up
    /\ Len(log) > 1
    /\ log' = <<Rows>>
    /\ UNCHANGED <<vars, sure>>

\* Some of the latest commits are gone, and each name made or removed since the
\* last sync of images/ is there or is not.
PowerFails ==
    /\ Dies
    /\ \E k \in 1..Len(log) :
          /\ request' = log[k][1]
          /\ image' = log[k][2]
          /\ log' = <<log[k]>>
    /\ \E unsettled \in SUBSET ((files \cup sure) \ (files \cap sure)) :
          files' = (files \cap sure) \cup unsettled
    /\ sure' = files'
    /\ UNCHANGED <<parts, dl, resp, records, status, gone, committed, told, kind, target,
                   raced, deleted, stranded>>

NextP == (Next /\ Track) \/ Checkpoint \/ PowerFails

SpecP == InitP /\ [][NextP]_pvars

-----------------------------------------------------------------------------
(****************************************************************************)
(* Even then a READY row whose file is missing is one that an administrator *)
(* deleted, its deletion undone after the file was removed: a row is        *)
(* committed only when the directory sync has made its file stay.           *)
(****************************************************************************)
DanglingWasDeleted ==
    \A i \in Ids : image[i].status = "READY" /\ image[i].path \notin files => i \in deleted
-----------------------------------------------------------------------------
(* Why it holds.  Everything of OwnInv survives a loss of power: handlers   *)
(* are lost, and the rows that come back are rows there have been.  Each of *)
(* those names files of its own only, and they are synced.                  *)

Versions == {log[k] : k \in 1..Len(log)}

\* What the rows were after a commit is as RowShape, RowOwnsPath and CommittedStage say.
VersionOwned(rows) ==
    /\ \A r \in Req : rows[1][r] # "absent" => r \in committed
    /\ \A i \in Ids :
          /\ rows[2][i].status = "READY" <=> rows[2][i].path # NoPath
          /\ rows[2][i].status # "absent" => i[1] \in committed /\ i[2] \in resp[i[1]]
          /\ \A p \in Jobs : rows[2][i].path = p => Owner(p) = i /\ (p \in Op => opc[p] = "done")

\* A file a row named once is there for good, unless its image was deleted.
VersionSynced(rows) ==
    \A i \in Ids : \A p \in Jobs :
        rows[2][i].path = p => p \in files \cap sure \/ i \in deleted

\* The log's last entry is what the database shows.
Logged == /\ log \in Seq([Req -> {"absent", "READY", "DEGRADED", "PARSE_FAILED"}] \X [Ids -> Row])
          /\ Len(log) > 0 /\ log[Len(log)] = Rows
          /\ \A rows \in Versions : VersionOwned(rows) /\ VersionSynced(rows)

\* A download that has ended well has synced its file.
DownloadsSynced ==
    \A j \in Jobs : /\ dl[j] = "ok"
                    /\ Running(j) \/ (j \in Ids /\ rpc[j[1]] = "save")
                    => j \in sure

PowerInv == OwnInv /\ sure \subseteq Jobs /\ Logged /\ DownloadsSynced
=============================================================================
