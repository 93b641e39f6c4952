------------------------------ MODULE ImageStore -----------------------------
(****************************************************************************)
(* The core of the gateway: the images table, the requests table, the files *)
(* under images/ and tmp/, and every handler that touches them.             *)
(*                                                                          *)
(*   data plane   processor.Images.Process (download each image, save the   *)
(*                audit transaction, answer) and ServeImage                 *)
(*   admin plane  deleteImage, deleteRequest, retryImage                    *)
(*   process      crash, and start-up with storage.Prepare                  *)
(*                                                                          *)
(* A handler is one-shot and its steps are the points where other handlers, *)
(* a failure or a crash can intervene: each SQL statement outside a         *)
(* transaction, each commit, each file-system call.  A SQLite transaction   *)
(* is one step.  RandomID draws 128 random bits, so an id is named here     *)
(* after the download that draws it: <<r, u>> for source URL u of request   *)
(* r, and o for the file a retry o stores.                                  *)
(****************************************************************************)
EXTENDS Naturals

CONSTANTS Req,       \* generation and edit requests, each one processed once
          Url,       \* source URLs an upstream response may contain
          Op,        \* POST requests of the admin plane
          View,      \* GET requests for /_gateway/images/{id}
          Faults,    \* the faults that may happen: see FaultKinds
          MaxCrash,  \* bound on the number of crashes
          NoPath     \* local_path = ''

FaultKinds == {"db",          \* a transaction fails (busy, disk full)
               "query",       \* a SELECT breaks off after some rows, or a row does not scan
               "remove",      \* os.Remove fails on an existing file
               "syncdir",     \* fsync of images/ fails
               "disconnect",  \* a data-plane client goes away: r.Context() is done
               "crash"}       \* the process dies

Ids == Req \X Url
Jobs == Ids \cup Op          \* every Download call; also the names of final files

ASSUME NamesDistinct == /\ Op \cap Ids = {}
                        /\ Req \cap Jobs = {}
                        /\ NoPath \notin Jobs \cup Req
ASSUME FaultsKnown == Faults \subseteq FaultKinds
ASSUME MaxCrashNat == MaxCrash \in Nat

VARIABLES
    up,         \* the process is running
    crashes,    \* crashes so far
    \* ---- on disk
    request,    \* request[r]: status column of the row of r, or "absent"
    image,      \* image[i]: the row with id i; status "absent" when there is none
    files,      \* complete files under images/
    parts,      \* *.part files under tmp/
    \* ---- in memory
    dl,         \* dl[j]: how far Download call j has come
    rpc,        \* rpc[r]: where Process stands for r
    resp,       \* resp[r]: the source URLs in the upstream's response
    records,    \* records[r]: the URLs whose goroutine appended its record
    status,     \* status[r]: the local variable status of Process
    opc,        \* opc[o]: where admin handler o stands
    kind,       \* kind[o]: which handler it is
    target,     \* target[o]: the image id, or the request, it was asked for
    held,       \* held[h]: the paths handler h (of Req or Op) has yet to remove
    missed,     \* missed[o]: the paths its SELECT should have given a delete, and did not
    view,       \* view[v]: where ServeImage stands and what it answered
    \* ---- what clients saw, and history
    gone,       \* requests whose client has disconnected
    committed,  \* requests whose audit transaction was committed
    told,       \* requests whose client received the rewritten response
    raced,      \* image ids two admin requests worked on at the same time
    deleted,    \* image ids a committed delete has taken
    stranded    \* files, .part files among them, whose removal failed, was interrupted
                \* by a crash or never tried, the path being missed

disk == <<request, image, files, parts>>
reqVars == <<rpc, resp, records, status, gone, committed, told>>
opVars == <<opc, kind, target, raced, missed, deleted>>
vars == <<up, crashes, disk, dl, reqVars, opVars, held, stranded, view>>

NoRow == [status |-> "absent", path |-> NoPath, error |-> FALSE]
ReadyRow(p) == [status |-> "READY", path |-> p, error |-> FALSE]
FailedRow == [status |-> "FAILED", path |-> NoPath, error |-> TRUE]

Row == [status : {"absent", "READY", "FAILED"}, path : Jobs \cup {NoPath}, error : BOOLEAN]

\* A ServeImage handler: the row it read, then what it answered.
Viewing == [at : {"idle", "open", "answered", "lost"}, id : Ids \cup {NoPath},
            path : Jobs \cup {NoPath}, got : {"", "image", "placeholder", "404"}]

IdsOf(r) == {r} \X Url
\* Mutation: rows do not go by the cascade.
DoomedAlone(x) == IF x \in Req THEN {} ELSE {x}

\* The image rows a delete of x removes: a request's rows go by the cascade.
Doomed(x) == IF x \in Req THEN IdsOf(x) ELSE {x}
Paths(I) == {image[i].path : i \in I} \ {NoPath}

TypeOK ==
    /\ up \in BOOLEAN
    /\ crashes \in 0..MaxCrash
    /\ request \in [Req -> {"absent", "READY", "DEGRADED", "PARSE_FAILED"}]
    /\ image \in [Ids -> Row]
    /\ files \subseteq Jobs
    /\ parts \subseteq Jobs
    /\ dl \in [Jobs -> {"idle", "get", "part", "moved", "ok", "err"}]
    /\ rpc \in [Req -> {"idle", "process", "save", "respond", "cleanup", "done", "lost"}]
    /\ resp \in [Req -> SUBSET Url]
    /\ records \in [Req -> SUBSET Url]
    /\ status \in [Req -> {"READY", "DEGRADED", "PARSE_FAILED"}]
    /\ opc \in [Op -> {"idle", "delete", "retry", "remove", "done", "lost"}]
    /\ kind \in [Op -> {"none", "deleteImage", "deleteRequest", "retryImage"}]
    /\ target \in [Op -> Ids \cup Req \cup {NoPath}]
    /\ held \in [Req \cup Op -> SUBSET Jobs]
    /\ view \in [View -> Viewing]
    /\ gone \subseteq Req
    /\ committed \subseteq Req
    /\ told \subseteq Req
    /\ raced \subseteq Ids
    /\ missed \in [Op -> SUBSET Jobs]
    /\ deleted \subseteq Ids
    /\ stranded \subseteq Jobs

Init ==
    /\ up = TRUE
    /\ crashes = 0
    /\ request = [r \in Req |-> "absent"]
    /\ image = [i \in Ids |-> NoRow]
    /\ files = {}
    /\ parts = {}
    /\ dl = [j \in Jobs |-> "idle"]
    /\ rpc = [r \in Req |-> "idle"]
    /\ resp = [r \in Req |-> {}]
    /\ records = [r \in Req |-> {}]
    /\ status = [r \in Req |-> "READY"]
    /\ opc = [o \in Op |-> "idle"]
    /\ kind = [o \in Op |-> "none"]
    /\ target = [o \in Op |-> NoPath]
    /\ held = [h \in Req \cup Op |-> {}]
    /\ view = [v \in View |-> [at |-> "idle", id |-> NoPath, path |-> NoPath, got |-> ""]]
    /\ gone = {}
    /\ committed = {}
    /\ told = {}
    /\ raced = {}
    /\ missed = [o \in Op |-> {}]
    /\ deleted = {}
    /\ stranded = {}

-----------------------------------------------------------------------------
(* Downloader.Download and Storage.Save, as far as the disk shows them; the *)
(* retries, the semaphore and the policy are in module Downloader.          *)

Running(j) == IF j \in Ids THEN rpc[j[1]] = "process" ELSE opc[j] = "retry"

Moves(j, from, to) == /\ Running(j)
                      /\ dl[j] = from
                      /\ dl' = [dl EXCEPT ![j] = to]
                      /\ UNCHANGED <<up, crashes, request, image, reqVars, opVars, held, view>>

\* No usable answer: rejected URL, cancelled wait for a slot, last attempt failed.
DownloadFails(j) == Moves(j, "get", "err") /\ UNCHANGED <<files, parts, stranded>>

\* os.CreateTemp: the .part file exists from here on.
CreatePart(j) == Moves(j, "get", "part") /\ parts' = parts \cup {j} /\ UNCHANGED <<files, stranded>>

\* Not an image, too large, short read, fsync error: the deferred os.Remove, its error ignored.
DropPart(j) ==
    /\ Moves(j, "part", "err")
    /\ \/ parts' = parts \ {j} /\ UNCHANGED stranded
       \/ "remove" \in Faults /\ stranded' = stranded \cup {j} /\ UNCHANGED parts
    /\ UNCHANGED files

\* Mutation: images/ is not synced.
RenamePartUnsynced(j) ==
    /\ Moves(j, "part", "ok")
    /\ parts' = parts \ {j}
    /\ files' = files \cup {j}
    /\ UNCHANGED stranded

\* Sync, Close, os.Rename into images/.
RenamePart(j) ==
    /\ Moves(j, "part", "moved")
    /\ parts' = parts \ {j}
    /\ files' = files \cup {j}
    /\ UNCHANGED stranded

SyncDir(j) == Moves(j, "moved", "ok") /\ UNCHANGED <<files, parts, stranded>>

\* syncDir failed: os.Remove of the final file, its error ignored.
SyncDirFails(j) ==
    /\ "syncdir" \in Faults
    /\ Moves(j, "moved", "err")
    /\ \/ files' = files \ {j} /\ UNCHANGED stranded
       \/ "remove" \in Faults /\ stranded' = stranded \cup {j} /\ UNCHANGED files
    /\ UNCHANGED parts

DownloadStep(j) == \/ DownloadFails(j) \/ CreatePart(j) \/ DropPart(j)
                   \/ RenamePart(j) \/ SyncDir(j) \/ SyncDirFails(j)

-----------------------------------------------------------------------------
(* processor.Images.Process                                                 *)

\* The upstream's answer reaches Process: one goroutine per distinct URL.  A
\* response that is not 2xx, not JSON or holds no URL has urls = {}.
StartProcess(r, urls, parsed) ==
    /\ up
    /\ rpc[r] = "idle"
    /\ ~parsed => urls = {}
    /\ rpc' = [rpc EXCEPT ![r] = "process"]
    /\ resp' = [resp EXCEPT ![r] = urls]
    /\ status' = [status EXCEPT ![r] = IF parsed THEN "READY" ELSE "PARSE_FAILED"]
    /\ dl' = [j \in Jobs |-> IF j \in {r} \X urls THEN "get" ELSE dl[j]]
    /\ UNCHANGED <<up, crashes, disk, records, opVars, held, stranded, view, gone, committed, told>>

\* Mutation: a goroutine whose download failed leaves no record.
AppendRecordIfOk(r, u) ==
    /\ rpc[r] = "process"
    /\ u \in resp[r] \ records[r]
    /\ dl[<<r, u>>] = "ok"
    /\ records' = [records EXCEPT ![r] = @ \cup {u}]
    /\ UNCHANGED <<up, crashes, disk, dl, rpc, resp, status, opVars, held, stranded, view,
                   gone, committed, told>>

\* A goroutine's download has returned; under mu it appends its record.
AppendRecord(r, u) ==
    /\ rpc[r] = "process"
    /\ u \in resp[r] \ records[r]
    /\ dl[<<r, u>>] \in {"ok", "err"}
    /\ records' = [records EXCEPT ![r] = @ \cup {u}]
    /\ status' = IF dl[<<r, u>>] = "err" THEN [status EXCEPT ![r] = "DEGRADED"] ELSE status
    /\ UNCHANGED <<up, crashes, disk, dl, rpc, resp, opVars, held, stranded, view, gone, committed, told>>

\* Mutation: no wg.Wait.
WaitNone(r) ==
    /\ rpc[r] = "process"
    /\ rpc' = [rpc EXCEPT ![r] = "save"]
    /\ UNCHANGED <<up, crashes, disk, dl, resp, records, status, opVars, held, stranded, view,
                   gone, committed, told>>

\* Mutation: answers without saving.
WaitThenRespond(r) ==
    /\ rpc[r] = "process"
    /\ records[r] = resp[r]
    /\ rpc' = [rpc EXCEPT ![r] = "respond"]
    /\ UNCHANGED <<up, crashes, disk, dl, resp, records, status, opVars, held, stranded, view,
                   gone, committed, told>>

\* wg.Wait, then Rewrite, which cannot fail on a document Parse has accepted.
WaitAll(r) ==
    /\ rpc[r] = "process"
    /\ records[r] = resp[r]
    /\ rpc' = [rpc EXCEPT ![r] = "save"]
    /\ UNCHANGED <<up, crashes, disk, dl, resp, records, status, opVars, held, stranded, view,
                   gone, committed, told>>

\* Mutation: READY whatever the download returned.
RowAlwaysReady(i) == ReadyRow(i)

\* The row Process writes for the image it downloaded as id i.
RowFor(i) == IF dl[i] = "ok" THEN ReadyRow(i) ELSE FailedRow

\* audit.Service.Save: the request row and all its image rows in one transaction.
SaveCommits(r) ==
    /\ rpc[r] = "save"
    /\ r \notin gone
    /\ request' = [request EXCEPT ![r] = status[r]]
    /\ image' = [i \in Ids |-> IF i \in {r} \X records[r] THEN RowFor(i) ELSE image[i]]
    /\ committed' = committed \cup {r}
    /\ rpc' = [rpc EXCEPT ![r] = "respond"]
    /\ UNCHANGED <<up, crashes, files, parts, dl, resp, records, status, opVars, held, stranded, view,
                   gone, told>>

\* Mutation: no CleanupFiles.
SaveFailsKeepsFiles(r) ==
    /\ rpc[r] = "save"
    /\ r \in gone \/ "db" \in Faults
    /\ rpc' = [rpc EXCEPT ![r] = "cleanup"]
    /\ UNCHANGED <<up, crashes, disk, dl, resp, records, status, opVars, held, stranded, view,
                   gone, committed, told>>

\* Save failed and rolled back; CleanupFiles gets the records with a path.
SaveFails(r) ==
    /\ rpc[r] = "save"
    /\ r \in gone \/ "db" \in Faults
    /\ rpc' = [rpc EXCEPT ![r] = "cleanup"]
    /\ held' = [held EXCEPT ![r] = {i \in {r} \X records[r] : dl[i] = "ok"}]
    /\ UNCHANGED <<up, crashes, disk, dl, resp, records, status, opVars, stranded, view,
                   gone, committed, told>>

\* The 500 answer, once the files are cleaned up.
AnswerError(r) ==
    /\ rpc[r] = "cleanup"
    /\ held[r] = {}
    /\ rpc' = [rpc EXCEPT ![r] = "done"]
    /\ UNCHANGED <<up, crashes, disk, dl, resp, records, status, opVars, held, stranded, view,
                   gone, committed, told>>

\* WriteHeader and Write of the rewritten response.
Respond(r) ==
    /\ rpc[r] = "respond"
    /\ rpc' = [rpc EXCEPT ![r] = "done"]
    /\ told' = IF r \in gone THEN told ELSE told \cup {r}
    /\ UNCHANGED <<up, crashes, disk, dl, resp, records, status, opVars, held, stranded, view,
                   gone, committed>>

\* The client closes its connection while its handler runs.
Disconnect(r) ==
    /\ "disconnect" \in Faults
    /\ rpc[r] \in {"process", "save", "respond"}
    /\ gone' = gone \cup {r}
    /\ r \notin gone
    /\ UNCHANGED <<up, crashes, disk, dl, rpc, resp, records, status, opVars, held, stranded, view,
                   committed, told>>

RequestStep(r) == \/ \E u \in Url : AppendRecord(r, u)
                  \/ WaitAll(r) \/ SaveCommits(r) \/ SaveFails(r)
                  \/ AnswerError(r) \/ Respond(r)

-----------------------------------------------------------------------------
(* Removing files: CleanupFiles, RemoveStored and the deletes' os.Remove    *)
(* loop, one call at a time, errors ignored.                                *)

Removing(h) == IF h \in Req THEN rpc[h] = "cleanup" ELSE opc[h] = "remove"

RemoveFile(h, p) ==
    /\ Removing(h)
    /\ p \in held[h]
    /\ held' = [held EXCEPT ![h] = @ \ {p}]
    /\ \/ files' = files \ {p} /\ UNCHANGED stranded
       \/ "remove" \in Faults /\ stranded' = stranded \cup {p} /\ UNCHANGED files
    /\ UNCHANGED <<up, crashes, request, image, parts, dl, reqVars, opVars, view>>

-----------------------------------------------------------------------------
(* The admin plane.  Only ids the pages list are used: a POST for a row     *)
(* that is not there is answered 404 or deletes nothing, and changes        *)
(* nothing.                                                                 *)

Begins(o, at, k, x) ==
    /\ up
    /\ opc[o] = "idle"
    /\ opc' = [opc EXCEPT ![o] = at]
    /\ kind' = [kind EXCEPT ![o] = k]
    /\ target' = [target EXCEPT ![o] = x]
    /\ raced' = raced \cup {i \in Doomed(x) :
                             \E q \in Op : opc[q] \notin {"idle", "done"} /\ i \in Doomed(target[q])}
    /\ UNCHANGED deleted

Ends(o) == /\ opc' = [opc EXCEPT ![o] = "done"]
           /\ held' = [held EXCEPT ![o] = {}]
           /\ missed' = [missed EXCEPT ![o] = {}]
           /\ UNCHANGED <<kind, target, raced, deleted>>

\* deleteImage: SELECT local_path; 404 when there is no such row.
ReadImagePath(o, i) ==
    /\ image[i].status # "absent"
    /\ Begins(o, "delete", "deleteImage", i)
    /\ held' = [held EXCEPT ![o] = Paths({i})]
    /\ UNCHANGED <<up, crashes, disk, dl, reqVars, missed, stranded, view>>

\* deleteRequest: SELECT local_path of the request's images.  rows.Err is never asked
\* and a row that does not scan is skipped, so some paths may be missed.
ReadRequestPaths(o, r) ==
    /\ request[r] # "absent"
    /\ Begins(o, "delete", "deleteRequest", r)
    /\ \E lost \in SUBSET Paths(IdsOf(r)) :
          /\ lost = {} \/ "query" \in Faults
          /\ held' = [held EXCEPT ![o] = Paths(IdsOf(r)) \ lost]
          /\ missed' = [missed EXCEPT ![o] = lost]
    /\ UNCHANGED <<up, crashes, disk, dl, reqVars, stranded, view>>

\* The delete's transaction; the rows it finds are not compared with what was read.
DeleteCommits(o) ==
    /\ opc[o] = "delete"
    /\ request' = IF target[o] \in Req THEN [request EXCEPT ![target[o]] = "absent"] ELSE request
    /\ image' = [i \in Ids |-> IF i \in Doomed(target[o]) THEN NoRow ELSE image[i]]
    /\ opc' = [opc EXCEPT ![o] = "remove"]
    /\ deleted' = deleted \cup {i \in Ids : i \in Doomed(target[o])}
    /\ stranded' = stranded \cup missed[o]
    /\ missed' = [missed EXCEPT ![o] = {}]
    /\ UNCHANGED <<up, crashes, files, parts, dl, reqVars, kind, target, raced, held, view>>

DeleteFails(o) ==
    /\ "db" \in Faults
    /\ opc[o] = "delete"
    /\ Ends(o)
    /\ UNCHANGED <<up, crashes, disk, dl, reqVars, stranded, view>>

\* Mutation: SELECT source_url ... WHERE id=?.
ReadAny(o, i) ==
    /\ image[i].status # "absent"
    /\ Begins(o, "retry", "retryImage", i)
    /\ dl' = [dl EXCEPT ![o] = "get"]
    /\ UNCHANGED <<up, crashes, disk, reqVars, held, missed, stranded, view>>

\* retryImage: SELECT source_url ... WHERE status='FAILED', then Download.
ReadFailed(o, i) ==
    /\ image[i].status = "FAILED"
    /\ Begins(o, "retry", "retryImage", i)
    /\ dl' = [dl EXCEPT ![o] = "get"]
    /\ UNCHANGED <<up, crashes, disk, reqVars, held, missed, stranded, view>>

\* Mutation: ... SET status='FAILED', local_path='' ...
RetryFailsResets(o) ==
    /\ opc[o] = "retry"
    /\ dl[o] = "err"
    /\ image' = IF image[target[o]].status = "absent" THEN image
                ELSE [image EXCEPT ![target[o]] = FailedRow]
    /\ Ends(o)
    /\ UNCHANGED <<up, crashes, request, files, parts, dl, reqVars, stranded, view>>

\* The download failed: UPDATE error, attempt_count WHERE id, its own error ignored.
RetryFails(o) ==
    /\ opc[o] = "retry"
    /\ dl[o] = "err"
    /\ \/ image' = IF image[target[o]].status = "absent" THEN image
                   ELSE [image EXCEPT ![target[o]].error = TRUE]
       \/ "db" \in Faults /\ image' = image
    /\ Ends(o)
    /\ UNCHANGED <<up, crashes, request, files, parts, dl, reqVars, stranded, view>>

\* Mutation: the row is updated before the rename.
RetryCommitsEarly(o) ==
    /\ opc[o] = "retry"
    /\ dl[o] \in {"part", "ok"}
    /\ image' = IF image[target[o]].status = "absent" THEN image
                ELSE [image EXCEPT ![target[o]] = ReadyRow(o)]
    /\ Ends(o)
    /\ UNCHANGED <<up, crashes, request, files, parts, dl, reqVars, stranded, view>>

\* UPDATE ... status='READY' WHERE id: no row, or a READY row, is no error.
RetryCommits(o) ==
    /\ opc[o] = "retry"
    /\ dl[o] = "ok"
    /\ image' = IF image[target[o]].status = "absent" THEN image
                ELSE [image EXCEPT ![target[o]] = ReadyRow(o)]
    /\ Ends(o)
    /\ UNCHANGED <<up, crashes, request, files, parts, dl, reqVars, stranded, view>>

\* The transaction failed: RemoveStored, then 500.
RetryRollsBack(o) ==
    /\ "db" \in Faults
    /\ opc[o] = "retry"
    /\ dl[o] = "ok"
    /\ opc' = [opc EXCEPT ![o] = "remove"]
    /\ held' = [held EXCEPT ![o] = {o}]
    /\ UNCHANGED <<up, crashes, disk, dl, reqVars, kind, target, raced, missed, deleted, stranded, view>>

\* Every path tried: the redirect, or the 500 of a rolled-back retry.
AnswerAdmin(o) ==
    /\ opc[o] = "remove"
    /\ held[o] = {}
    /\ Ends(o)
    /\ UNCHANGED <<up, crashes, disk, dl, reqVars, stranded, view>>

OpStep(o) == \/ DeleteCommits(o) \/ DeleteFails(o) \/ AnswerAdmin(o)
             \/ RetryFails(o) \/ RetryCommits(o) \/ RetryRollsBack(o)

-----------------------------------------------------------------------------
(* ServeImage: the row is read, then the file is opened.                    *)

Answer(v, i, what) ==
    view' = [view EXCEPT ![v] = [at |-> "answered", id |-> i, path |-> NoPath, got |-> what]]

\* Only an id some response named is asked for: any other is answered 404.
ReadRow(v, i) ==
    /\ up
    /\ view[v].at = "idle"
    /\ i[1] \in committed
    /\ \/ image[i].status = "absent" /\ Answer(v, i, "404")
       \/ image[i].status = "FAILED" /\ Answer(v, i, "placeholder")
       \/ /\ image[i].status = "READY"
          /\ view' = [view EXCEPT ![v] = [at |-> "open", id |-> i,
                                          path |-> image[i].path, got |-> ""]]
    /\ UNCHANGED <<up, crashes, disk, dl, reqVars, opVars, held, stranded>>

OpenFile(v) ==
    /\ view[v].at = "open"
    /\ view' = [view EXCEPT ![v].at = "answered",
                            ![v].got = IF view[v].path \in files THEN "image" ELSE "404"]
    /\ UNCHANGED <<up, crashes, disk, dl, reqVars, opVars, held, stranded>>

-----------------------------------------------------------------------------
(* The process.                                                             *)

\* A handler in progress still has file p in hand.
Kept(p) ==
    \/ Running(p)
    \/ p \in Ids /\ rpc[p[1]] = "save"
    \/ \E h \in Req \cup Op : Removing(h) /\ p \in held[h]

\* The process ends, and with it every handler in progress.
Dies ==
    /\ crashes < MaxCrash
    /\ up' = FALSE
    /\ crashes' = crashes + 1
    /\ rpc' = [r \in Req |-> IF rpc[r] \in {"idle", "done"} THEN rpc[r] ELSE "lost"]
    /\ opc' = [o \in Op |-> IF opc[o] \in {"idle", "done"} THEN opc[o] ELSE "lost"]
    /\ view' = [v \in View |-> IF view[v].at = "open" THEN [view[v] EXCEPT !.at = "lost"]
                               ELSE view[v]]
    /\ held' = [h \in Req \cup Op |-> {}]
    /\ missed' = [o \in Op |-> {}]

\* Rows and files are what was committed and renamed.
Crash ==
    /\ "crash" \in Faults
    /\ up
    /\ Dies
    /\ stranded' = stranded \cup {p \in files : Kept(p)}
    /\ UNCHANGED <<disk, dl, resp, records, status, gone, committed, told, kind, target, raced,
                   deleted>>

\* Mutation: tmp/ is not cleared.
StartAsIs ==
    /\ ~up
    /\ up' = TRUE
    /\ UNCHANGED <<crashes, disk, dl, reqVars, opVars, held, stranded, view>>

\* main: storage.Prepare removes what is left under tmp/, then the servers start.
Start ==
    /\ ~up
    /\ up' = TRUE
    /\ parts' = {}
    /\ stranded' = stranded \cap files
    /\ UNCHANGED <<crashes, request, image, files, dl, reqVars, opVars, held, view>>

\* Prepare stops at the first file it cannot remove, and the process exits; or it
\* dies on the way.  The start is tried again.
StartFails ==
    /\ ~up
    /\ \/ "remove" \in Faults /\ parts' \in (SUBSET parts) \ {{}}
       \/ "crash" \in Faults /\ parts' \in SUBSET parts
    /\ UNCHANGED <<up, crashes, request, image, files, dl, reqVars, opVars, held, stranded, view>>

\* Nobody asks for anything more, and everything asked was answered.
AllAnswered ==
    /\ up
    /\ \A r \in Req : rpc[r] \in {"idle", "done", "lost"}
    /\ \A o \in Op : opc[o] \in {"idle", "done", "lost"}
    /\ \A v \in View : view[v].at \in {"idle", "answered", "lost"}

Terminating == AllAnswered /\ UNCHANGED vars

-----------------------------------------------------------------------------
Next ==
    \/ \E j \in Jobs : DownloadStep(j)
    \/ \E r \in Req :
          \/ \E urls \in SUBSET Url, parsed \in BOOLEAN : StartProcess(r, urls, parsed)
          \/ RequestStep(r)
          \/ Disconnect(r)
    \/ \E h \in Req \cup Op : \E p \in held[h] : RemoveFile(h, p)
    \/ \E o \in Op :
          \/ \E i \in Ids : ReadImagePath(o, i) \/ ReadFailed(o, i)
          \/ \E r \in Req : ReadRequestPaths(o, r)
          \/ OpStep(o)
    \/ \E v \in View : (\E i \in Ids : ReadRow(v, i)) \/ OpenFile(v)
    \/ Crash
    \/ Start
    \/ StartFails
    \/ Terminating

Spec == Init /\ [][Next]_vars

\* What the code's scheduling gives: a goroutine that can run runs, the HTTP
\* client's Timeout ends every download, and the container is restarted.
Fairness ==
    /\ \A j \in Jobs : WF_vars(DownloadStep(j))
    /\ \A r \in Req : WF_vars(RequestStep(r))
    /\ \A o \in Op : WF_vars(OpStep(o))
    /\ \A h \in Req \cup Op : WF_vars(\E p \in held[h] : RemoveFile(h, p))
    /\ WF_vars(Start)

FairSpec == Spec /\ Fairness

-----------------------------------------------------------------------------
(****************************************************************************)
(* A READY row always has its complete file under images/, whatever retry,  *)
(* delete, failed save or crash happens around it: the rename precedes the  *)
(* commit, and nobody removes a file a row still names.                     *)
(****************************************************************************)
ReadyHasFile == \A i \in Ids : image[i].status = "READY" => image[i].path \in files

(****************************************************************************)
(* A URL in a response a client received still has its row, unless an       *)
(* administrator deleted the image or its request.                          *)
(****************************************************************************)
ToldResolvable ==
    \A r \in told : \A i \in {r} \X resp[r] : image[i].status = "absent" => i \in deleted

(****************************************************************************)
(* ServeImage reads the row and opens the file in two steps; it finds no    *)
(* file only when the image was deleted in between, never because a retry   *)
(* or a crash took the file away.                                           *)
(****************************************************************************)
MissingOnlyIfDeleted ==
    \A v \in View : view[v].at = "open" /\ view[v].path \notin files => view[v].id \in deleted

(****************************************************************************)
(* An image is served as immutable for a year (images.go:155): what a URL   *)
(* shows is replaced only where two admin requests on the image overlapped; *)
(* a retry asked for when the image is READY changes nothing.               *)
(****************************************************************************)
ReplacedOnlyIfRaced ==
    [][\A i \in Ids : image[i].status = "READY" /\ image'[i].status # "absent"
          /\ image'[i].path # image[i].path => i \in raced]_vars

(****************************************************************************)
(* The audit row of a request and the rows of all its images appear in one  *)
(* step, one row per URL of the response, and the request is DEGRADED       *)
(* exactly when one of them is FAILED: no goroutine's result is lost.       *)
(****************************************************************************)
SavedWhole ==
    [][\A r \in Req : request[r] = "absent" /\ request'[r] # "absent" =>
          /\ \A u \in Url : image'[<<r, u>>].status # "absent" <=> u \in resp[r]
          /\ request'[r] = "DEGRADED" <=> \E u \in Url : image'[<<r, u>>].status = "FAILED"]_vars

(****************************************************************************)
(* While the process runs, a .part file belongs to a download in progress,  *)
(* or is one the failed download could not remove: no other way out of Save *)
(* leaves one, and start-up removes a crash's.                              *)
(****************************************************************************)
PartsOwned == up => \A j \in parts : (Running(j) /\ dl[j] = "part") \/ j \in stranded

(****************************************************************************)
(* A file no row names and no handler is working on was stranded, or        *)
(* belongs to an image that two admin requests worked on at the same time.  *)
(* Stranded is one whose os.Remove failed (after a failed Save, a failed    *)
(* directory sync, a rolled-back retry or a delete), that a crash left to a *)
(* handler, or whose path the SELECT of its request's delete did not give.  *)
(* Nothing else leaks a file.                                               *)
(****************************************************************************)
Named(p) == \E i \in Ids : image[i].path = p
Owner(p) == IF p \in Ids THEN p ELSE target[p]

OrphansExplained ==
    \A p \in files : Named(p) \/ Kept(p) \/ p \in stranded \/ Owner(p) \in raced

\* Both, for the two directories together.
FilesExplained == PartsOwned /\ OrphansExplained

(****************************************************************************)
(* docs/deployment.md:246 "If removing the file fails, files no longer      *)
(* referenced by the database may remain", which a reader takes to say when *)
(* files remain: without a failure or a crash none does.                    *)
(****************************************************************************)
NoOrphanWithoutFailure == \A p \in files : Named(p) \/ Kept(p) \/ p \in stranded

(****************************************************************************)
(* Every generation or edit request and every admin request ends, or is     *)
(* lost in a crash: no handler waits for ever.                              *)
(****************************************************************************)
HandlersEnd ==
    /\ \A r \in Req : rpc[r] = "process" ~> rpc[r] \in {"done", "lost"}
    /\ \A o \in Op : opc[o] \in {"delete", "retry"} ~> opc[o] \in {"done", "lost"}

-----------------------------------------------------------------------------
(* Why ReadyHasFile holds.  A file belongs to the one image whose download  *)
(* or retry stored it (Owner), a row only ever names its own files, and a   *)
(* handler removes a file only when the row it belongs to cannot name it:   *)
(* never committed, deleted for good, or rolled back.                       *)

\* Process joins its goroutines before Save, and loses no record and no failure.
GatheredOf(r) ==
    /\ rpc[r] = "idle" =>
          records[r] = {} /\ resp[r] = {} /\ \A u \in Url : dl[<<r, u>>] = "idle"
    /\ rpc[r] \in {"process", "save"} =>
          /\ records[r] \subseteq resp[r]
          /\ \A u \in records[r] : dl[<<r, u>>] \in {"ok", "err"}
          /\ status[r] = "DEGRADED" <=> \E u \in records[r] : dl[<<r, u>>] = "err"
    /\ rpc[r] = "save" \/ r \in committed => records[r] = resp[r]

Gathered == \A r \in Req : GatheredOf(r)

\* A row names a file exactly when it is READY, and is one of a committed response.
RowShape ==
    \A i \in Ids : /\ image[i].status = "READY" <=> image[i].path # NoPath
                   /\ image[i].status # "absent" => i[1] \in committed /\ i[2] \in resp[i[1]]

\* The file a row names is its own, and its retry has ended.
RowOwnsPath ==
    \A i \in Ids : \A p \in Jobs : image[i].path = p =>
        /\ Owner(p) = i
        /\ p \in Op => opc[p] = "done"

\* Committed requests are past Save, and only they have a request row.
CommittedStage ==
    \A r \in Req : /\ r \in committed => rpc[r] \in {"respond", "done", "lost"}
                   /\ request[r] # "absent" => r \in committed

\* A download that renamed its file still has it while its handler needs it.
DownloadedKept ==
    \A j \in Jobs : /\ dl[j] \in {"moved", "ok"}
                    /\ Running(j) \/ (j \in Ids /\ rpc[j[1]] = "save")
                    => j \in files

Deletes == {"deleteImage", "deleteRequest"}

\* What the handlers of admin requests know of their target.
OpKnows ==
    \A o \in Op :
        /\ opc[o] = "idle" => kind[o] = "none" /\ target[o] = NoPath
        /\ opc[o] \in {"delete", "remove"} /\ kind[o] \in Deletes =>
              /\ target[o] \in Ids \cup Req
              /\ \A i \in Doomed(target[o]) : i[1] \in committed
        /\ opc[o] = "delete" => kind[o] \in Deletes
        /\ opc[o] = "retry" => kind[o] = "retryImage" /\ target[o] \in Ids
        /\ opc[o] = "remove" => kind[o] \in Deletes \cup {"retryImage"}

\* Deleted rows do not come back: their ids are never drawn again.
DeletedForGood ==
    \A o \in Op : opc[o] = "remove" /\ kind[o] \in Deletes =>
        \A i \in Doomed(target[o]) : image[i].status = "absent" /\ i \in deleted

\* What a handler may remove: its own downloads, or the files of what it deletes.
HeldOwned ==
    /\ \A r \in Req : held[r] \subseteq IdsOf(r)
    /\ \A o \in Op : opc[o] \in {"delete", "remove"} =>
          \A p \in held[o] : IF kind[o] = "retryImage" THEN p = o
                             ELSE /\ Owner(p) \in Doomed(target[o])
                                  /\ p \in Op => opc[p] = "done"

OwnInv == /\ TypeOK
          /\ RowShape
          /\ RowOwnsPath
          /\ Gathered
          /\ CommittedStage
          /\ DownloadedKept
          /\ OpKnows
          /\ DeletedForGood
          /\ HeldOwned

IInv == OwnInv /\ ReadyHasFile

-----------------------------------------------------------------------------
(* Why FilesExplained holds.  Every file was downloaded for the image that  *)
(* owns it; whoever makes a row forget a file either has the file in hand   *)
(* or has met another admin request on the way.                             *)

\* Only what the upstream's answer names, or a retry, is downloaded.
DownloadsAsked ==
    /\ \A r \in Req : \A u \in Url \ resp[r] : dl[<<r, u>>] = "idle"
    /\ \A o \in Op : opc[o] = "idle" => dl[o] = "idle"

\* A download that failed leaves its file only by a failed removal.
FilesDownloaded ==
    \A p \in files : dl[p] \in {"moved", "ok"} \/ (dl[p] = "err" /\ p \in stranded)

\* Two admin requests in progress with the same image have raced for it.
MeetingsRaced ==
    \A o, q \in Op : o # q /\ opc[o] \notin {"idle", "done"} /\ opc[q] \notin {"idle", "done"} =>
        Doomed(target[o]) \cap Doomed(target[q]) \subseteq raced

\* What a handler read of its rows is still so, unless another got there first.
ReadsFresh ==
    \A o \in Op :
        /\ opc[o] = "delete" =>
              \A i \in Doomed(target[o]) \ raced : image[i].path \in held[o] \cup missed[o] \cup {NoPath}
        /\ opc[o] = "retry" => image[target[o]].status = "FAILED" \/ target[o] \in raced

FilesInv == /\ DownloadsAsked
            /\ FilesDownloaded
            /\ MeetingsRaced
            /\ ReadsFresh
            /\ FilesExplained

-----------------------------------------------------------------------------
(* Why ToldResolvable and MissingOnlyIfDeleted hold.                        *)

\* A client is told of committed responses only, and their rows go by deletions only.
ToldCommitted == told \subseteq committed /\ \A r \in Req : rpc[r] = "respond" => r \in committed

CommittedResolvable ==
    \A r \in committed : \A i \in {r} \X resp[r] : image[i].status = "absent" => i \in deleted

\* A reader about to open a file has the path of a row that was READY.
ViewKnows ==
    \A v \in View : view[v].at = "open" =>
        /\ view[v].id \in Ids /\ view[v].id[1] \in committed
        /\ view[v].path \in Jobs /\ Owner(view[v].path) = view[v].id
        /\ view[v].path \in Op => opc[view[v].path] = "done"

ShownInv == /\ ToldCommitted
            /\ CommittedResolvable
            /\ ViewKnows
            /\ MissingOnlyIfDeleted

\* The three invariants together, which every step keeps.
WholeInv == IInv /\ FilesInv /\ ShownInv

-----------------------------------------------------------------------------
(* The refinement: what the URLs of the gallery show.                       *)

Life(i) ==
    IF i[1] \notin committed \/ i[2] \notin resp[i[1]] THEN "none"
    ELSE CASE image[i].status = "absent" -> "gone"
           [] image[i].status = "FAILED" -> "placeholder"
           [] image[i].status = "READY"  -> IF image[i].path \in files THEN "image" ELSE "broken"

Told == {i \in Ids : i[1] \in told /\ i[2] \in resp[i[1]]}

G == INSTANCE Gallery WITH life <- [i \in Ids |-> Life(i)], told <- Told

(****************************************************************************)
(* The rows, files, handlers and crashes of the gateway implement Gallery.  *)
(****************************************************************************)
ShowsGallery == G!Spec
=============================================================================
