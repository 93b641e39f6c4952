# Verification of the image gateway

TLA+ modules, TLC configurations and machine-checked proofs for the gateway in
`src/`: a Go process that forwards OpenAI-style image requests to one upstream
("newapi"), downloads the images the answer names, stores them next to a SQLite
database, rewrites the answer's URLs to local ones, and offers an admin plane to
list, retry and delete what was stored.

## 1. The system

Two HTTP servers run in one process; every request has its own goroutine.
Handlers share the database (`database/sql`, at most four connections, SQLite in
WAL mode with foreign keys), the directories `images/` and `tmp/`, and one
`Downloader`. Nothing serialises handlers with each other except SQLite's
transactions, the downloader's semaphore and its policy lock.

| Component (source) | State | Operations | Talks to | What is hard | What makes it correct |
|---|---|---|---|---|---|
| Process, ServeImage (`processor/images.go`) | goroutine results under `mu`; nothing persistent of its own | download every URL, join, rewrite, save, answer; read a row and open its file | Downloader, audit, images table, files | concurrent goroutines; a failure or disconnect between rename and commit; reading a row and then its file | a request appears whole or not at all; a told URL never dangles; no file leaks |
| Audit (`audit/service.go`) | `requests`, `images`, … rows | Save (one transaction), CleanupFiles | SQLite, files | a rollback after files were stored | all rows or none |
| Image files (`image/storage.go`, `storage/layout.go`) | `tmp/*.part`, `images/*` | Save: create, copy, sync, rename, sync directory; Prepare: clear `tmp/` | file system | crash between any two calls | a row names complete files only; no `.part` survives a start-up |
| Downloader (`image/downloader.go`) | semaphore, policy under a lock | Download with attempts and backoff, UpdatePolicy | image servers, Storage | slots held through pauses, cancellation, a policy change on the way | no slot leaked; one snapshot per call; each retry justified |
| Proxy, upstream client (`httpdata/proxy.go`, `upstream/client.go`) | none | preflight, read or tee the body, one upstream call, hand over to Process | upstream, observer, Process | early answers, timeouts, waiting for the parser | always answers; audits what it forwards |
| Multipart observer (`requestbody/multipart.go`) | pipe, result channel | tee the body into a parser goroutine | proxy, HTTP transport | either side may stop first | no audit of half a form taken for a whole one; the goroutine ends |
| Admin operations (`admin/router.go`) | none beyond rows and files | deleteImage, deleteRequest, retryImage, updateSettings, pages | database, files, Downloader | each reads, then works, then writes without looking again | rows and files stay in step |
| Runtime settings (`config/runtime.go`) | `runtime_config`, `config_meta` | UpdateRuntime, LoadRuntime, onRuntime | database, Downloader | commit before validation; overlapping saves | what is live is acceptable and is what is stored |
| Login, sessions (`admin/auth.go`) | failure times per host, `sessions` | Login, Logout, Authenticated, ValidCSRF | database | two critical sections around a slow hash | the limit of failures; no session outlives its logout |
| Life cycle (`cmd/gateway/main.go`, `app/app.go`, `persistence/store.go`) | the process | start-up, shutdown | everything | crash and restart; a shared deadline | start-up repairs what a crash left |
| Response rewriting (`response/openai_images.go`) | none | Parse, URLs, Rewrite | Process | results entered by goroutines in any order | each place gets its own image; other answers go through untouched |
| Allowlist, bootstrap (`access/allowlist.go`, `config/bootstrap.go`) | the prefixes | parse the lists, check each peer | every handler | two forms of one address; a bad entry partway | exactly who is listed passes |
| URL validation (`image/security.go`) | none | a predicate | Downloader | — | — |
| Health, pages, logging | none | — | — | — | — |

`PROJECT.json` lists every component with its status, and under `hazards` what
in this code is hard to test, at its line, with the properties that cover it.

## 2. The modules

| Module | Models | Lines |
|---|---|---|
| `Gallery` | the promise, abstractly: what each local URL shows, and which URLs clients hold | — |
| `ImageStore` | rows, files, `Process`, `ServeImage`, the three admin operations, crash and start-up; implements `Gallery` | `images.go`, `service.go`, `storage.go`, `router.go:206-294`, `layout.go` |
| `PowerLoss` | `ImageStore` on a machine that loses power: the WAL, the checkpoints, the synced file names | `store.go:18-40`, `storage.go` |
| `Rewriting` | newapi's answer: parsed, its images' results gathered, rewritten | `openai_images.go`, `images.go:41-92` |
| `DiskSpace` | the threshold on free space, and what is written after it was checked | `images.go:158-167`, `proxy.go:72-80`, `storage.go` |
| `Downloader` | semaphore, snapshot, attempts, backoff, cancellation, `UpdatePolicy` | `downloader.go:45-194` |
| `RuntimeSettings` | stored, loaded and live settings; concurrent saves; start-up | `runtime.go`, `router.go:303-314`, `main.go:43-56` |
| `ImageProxy` | one generation or edit from preflight to `Process`: transport, pipe, parser goroutine, handler | `proxy.go:72-127`, `multipart.go`, `client.go` |
| `Submission` | `Do`, and what net/http's transport makes of it when connections break | `client.go`, `proxy.go` |
| `BodyLimits` | the three readers with a limit | `json.go`, `proxy.go:159-168`, `storage.go:42-60` |
| `LoginThrottle` | `Login` and its limit on failures | `auth.go:47-58, 115-141` |
| `AdminSession` | login, the checks before every page and action, logout, expiry | `auth.go:57-114`, `router.go:70-141` |
| `LifeCycle` | `main`, `App.Run`, signals, exit statuses, the next start | `main.go`, `app.go`, `auth.go:32-46` |
| `Listing` | the paged lists while rows come and go | `router.go:149-205` |
| `Allowlist` | the lists of clients, parsed and applied | `bootstrap.go:115-172`, `allowlist.go` |
| `ImageStoreProofs`, `GalleryProofs` | theorems about `ImageStore`, and that it implements `Gallery` | — |
| `PowerLossProofs`, `DownloaderProofs`, `ImageProxyProofs` | theorems about the module each is named after | — |
| `ProcessProofs` | theorems about `RuntimeSettings`, `LoginThrottle`, `LifeCycle` and `MCProcess` | — |
| `DataPlaneProofs` | theorems about `Submission`, `BodyLimits`, `DiskSpace`, `Rewriting`, `Allowlist` and `MCDataPlane` | — |
| `AdminPlaneProofs` | theorems about `AdminSession`, `Listing` and `MCAdminPlane` | — |
| `MC…` | values for the constants, symmetry sets; `MCDataPlane`, `MCProcess` and `MCAdminPlane` put several components into one instance | |

The definitions commented "Mutation" are small variants of the definition that
follows them, each with a plausible bug; no specification uses them. They
document, and let one check, that a property notices that bug.

### ImageStore

`image[i]` is the row with id `i` (status, local_path, error set or not),
`request[r]` the status of the request's row, `files` and `parts` the final and
the temporary files. `RandomID` draws 128 bits, so ids do not collide and are
named after the download that draws them: `<<r, u>>` for URL `u` of request `r`,
`o` for the file stored by retry `o`. A row created by a failed download has the
id `<<r, u>>` as well (in the code a second `RandomID`); it names no file.

A handler is one-shot, and its program counter (`rpc`, `opc`, `view`) names the
call it will make next. One action is one step that other goroutines can observe:
a statement outside a transaction, a whole transaction (SQLite serialises
writers), a file-system call. So `deleteImage` is `ReadImagePath`, then
`DeleteCommits` or `DeleteFails`, then one `RemoveFile` per path, then
`AnswerAdmin`; `Storage.Save` is `CreatePart`, `RenamePart` or `DropPart`,
`SyncDir` or `SyncDirFails`; the two removals on its error paths may fail as well, and
their error is ignored. `Process` runs one download per distinct URL,
`AppendRecord` under `mu`, `WaitAll`, `SaveCommits` or `SaveFails` with
`CleanupFiles`, `Respond`.

Failures are nondeterministic and switched by `Faults`: a failing transaction, a
SELECT that breaks off (`deleteRequest` never asks `rows.Err` and skips a row that
does not scan, so the delete commits with a short list of paths), a failing
`os.Remove` anywhere one is called, a failing directory sync, a client that
disconnects (`r.Context()` ends, so `Save` fails), a crash. A crash loses every
handler and keeps rows and files (`Dies`). `Start` is `storage.Prepare`; it stops at
the first file it cannot remove, or the process dies on the way (`StartFails`), and
the next start meets what is left. `gone`, `committed`, `told`, `raced`, `deleted`,
`missed`, `stranded` are history variables for the properties; no guard of a code step
but `gone` (the context) and the readers' choice of ids (`committed`) reads them.
`deleted` has the images whose delete was committed, not those a delete was only asked
for; `missed` has the paths a delete's SELECT should have given.

Abstracted: columns no property tells apart, image contents and sizes, the
number of attempts (see `Downloader`), the JSON text. `doc.Rewrite` cannot fail
on a document `Parse` accepted, so the status `FAILED` of `images.go:86` does not
occur. Admin requests name ids that the pages list; for others the handlers
change nothing.

### Gallery and the refinement

A URL shows nothing yet, the image, the placeholder, or is gone. All URLs of a
response appear in one step; a placeholder may become an image, never the other
way; deletion is final; a client is only told URLs that show something.
`ImageStore!ShowsGallery` maps a READY row to "image" only if its file is there
and to "broken", which `Gallery` does not know, otherwise: the refinement
includes that no visible image ever loses its file.

### Downloader

One record of outcomes per call (`result.Attempts`), the snapshot taken at the
start, a slot count. `Redirect` is `CheckRedirect` admitting one more hop. An
attempt ends with success, a retryable failure or a final one; the classification
(`once`) is the choice of the action. Delays are one step, whatever their length.

### RuntimeSettings

`stored`/`version` are the tables, `live` what the Downloader's policy was last
set from. `updateSettings` is `Commit` (values as posted), `LoadVersion`,
`LoadRows` or `LoadFails`, `Apply`. `history[v]` remembers what was stored as
version `v`. At start-up the rows are loaded; when they do not load the process
exits (`StartExits`), and it will every time.

### ImageProxy

The body is a sequence of pieces (one `Read` each). For an edit a piece travels
source → pipe → parser → upstream, and the parser stops at piece `body.stop`
(its final boundary or a malformed part) or at the end. `net/http`'s transport,
`io.Pipe` and `mime/multipart` are modelled from how `proxy.go` and
`multipart.go` use them: the transport closes a body it could not write, a write
error ends the connection, headers may arrive before the body is sent. A transport that
closes the body without another read has no step of its own: it reads one piece more,
which reaches the parser at most and never newapi, and no property tells the two apart.

### PowerLoss

Extends `ImageStore`. `log` holds the rows as the last checkpoint left them and
as each commit since then did; `sure` the names `images/` held when it was last
synced. `PowerFails` ends the process as `Crash` does (`Dies`), undoes any number of the latest commits and lets each name
made or removed since the sync be there or not; `Start` is as after a crash.
SQLite syncs the WAL before a checkpoint moves it, so an order other than that of
the commits does not occur.

### Rewriting

`resp` is newapi's answer: whether it is a success, is JSON, parses, and its
entries. Each distinct URL has a goroutine that enters its public URL, the
placeholder's if the download failed, in `mapping`. `out` is the body sent:
either newapi's bytes or the parsed document marshalled anew.

### DiskSpace

Writers are requests, which ask `Preflight` first and write after newapi has
answered, and retries, which do not ask. `free` is what `Statfs` would report, `used[w]` what a writer's file takes
so far; `io.Copy` writes unit by unit and meets a full disk anywhere.

### Submission

The transport is external and modelled by its documented rule: a request that
broke on a kept-alive connection is sent again if nothing of it was written, or
if no byte of a response came and it is replayable; a body must be one it can
rewind. What the gateway contributes decides the rule's outcome: a GET, a
`bytes.Reader` or a stream as the body, the `Idempotency-Key` it copies,
`CheckRedirect`, one call of `Do` per request. `got[r]` counts what newapi has
received as a whole.

### BodyLimits

`kind` chooses between `ReadJSON`, `readLimited` and `once` with `Save`. A body
has a length, perhaps a told length, and ends whole, short or with a reset; a
Read returns any part of what is left. int64 sums wrap (`Wrap`), with the width
as a constant.

### LoginThrottle and AdminSession

An attempt enters by `allowed`, under `mu`; the query and argon2 follow without
it; `failed` appends, under `mu` again. `age` counts ticks up to the window, so
expired times need no clock. `peak` is a history variable: the most attempts of a
host ever between the two critical sections.

A session is named after the request that logged in, for its tokens are random.
A browser's tabs share `jar`; `page` is the form a tab rendered last. `serve` is
`Authenticated`, then for a POST `ValidCSRF`, then the handler, each a step; the
answer arrives (`Deliver`) at any later time and sets the cookies. `late` is a
history variable with the requests that still had a check to pass when their
session ended. Both cookies are taken to travel together, and the dashboards' own
reads are left out.

### LifeCycle

`at` is where `main` stands; a start may fail at each step, and a signal arrives
anywhere, before `NotifyContext` with the default effect. `Stop` is the select of
`Run`, then `DataCloses` and `Exits` are the two `Shutdown` calls under one
deadline. A handler goes with its connection, which is what `Shutdown` waits for.
After the end the next start may bring another `ADMIN_PASSWORD`.

### Listing

One page is one query; between pages rows are added and deleted. `Save` takes
`created_at` before its transaction takes the write lock: `Stamp` puts the instant in
`saving`, and `Add` commits any of these, or `Drop` none, so rows come up out of the order
of their instants. A row is known by its instant, and `Key` is the order of the instants' texts: RFC3339Nano drops
trailing zeros, and `Z` is greater than a digit. `rows.Err` is not asked, so a
query that breaks off shows a short last page (`BreaksOff`).

### Allowlist

Addresses are sequences of `W4` or `W6` bits; a mapped one is a `Marker` and the bits
of an IPv4 address, as in IPv6.
`ParseEntry` is `parseAllowedClient`, `Holds` is `netip.Prefix.Contains`. The
list is read entry by entry and a bad one ends the start; a request's peer is
compared in the form in which the listener reports it.

## 3. What the runs check

| Run | Bounds | Question | Result |
|---|---|---|---|
| `image_overlap` | 1 request, 2 URLs, 3 admin requests, 1 reader; transactions, SELECTs and removals fail | do rows, files and URLs stay in step when retries and deletes overlap anywhere? | holds |
| `image_crash` | 1 request, 1 URL, 2 admin requests; every fault, 2 crashes | … across crashes; are the files that remain explained; does every handler end? | holds |
| `image_orphan` | 1 request, 1 URL, 2 admin requests; no fault | deployment.md:246, taken to say when files remain: only a failed removal leaves one without a row | violated |
| `downloads` | 3 calls, 2 slots, 3 policies, 1 update | slots, snapshots, retries; does every call return? | holds |
| `proxy_bodies` | every body of up to 3 pieces | audit, forwarding, termination | holds |
| `proxy_epilogue` | the same | router_test.go:97: observing does not change what is forwarded | violated |
| `data_plane` | see below | submissions, sizes, space, rewriting, clients | holds |
| `submit_keyed` | 1 generation with a key, 1 list | README.md:10: every generation is submitted only once | violated |
| `process_state` | see below | logins, life cycle, settings | holds |
| `settings_refused` | 1 save of any form | settings page: a save takes effect at once | violated |
| `admin_plane` | see below | sessions, lists | holds |
| `power_rows` | 1 request, 1 URL, 2 admin requests; every fault, 2 crashes or losses of power | what may a loss of power leave of rows and files? | holds |

Three runs hold several components that share no variable: what one of them can
do does not depend on where the others are. Their modules (`MCDataPlane`,
`MCProcess`, `MCAdminPlane`) therefore let one component move while the others
stand at their start, which has every behaviour of each and the sum of their
states, not the product; that each behaviour of such a plane is one of every component
in it is proved (`ProcessComponents`, and `PlaneComponents` of either plane). Their bounds, component by component:

- `data_plane`: 4 requests of the three endpoints, with and without a key, 2 idle
  connections; limits on both sides of the head's length and the largest, bodies of
  up to 7 bytes; 3 requests and 1 retry with images of 1, 2 and 3 units, a disk of
  5, a threshold of 2; every answer of up to 3 entries with 2 image URLs; addresses
  of 2 and 4 bits, every list of up to 2 entries, every peer.
- `process_state`: 4 attempts of one host and 1 of another, a limit of 2, a window
  of 2 ticks; 2 data handlers, 1 admin handler, 2 passwords, any number of starts; 2
  saves of any of 9 forms, cancellation, 1 crash.
- `admin_plane`: 5 requests of one browser; pages of 2 rows, 5 instants, seconds of 4.

Why these bounds suffice. Rows and files of different images interact only
through a request's cascade, so two images of one request show every kind of
sharing; three admin requests are the least with which a retry and a delete can
each meet a third that has already overlapped. With two admin requests, what a crash or
a loss of power interrupts can be an overlap. The requests of
clients share nothing but the database and the semaphore, and a file's name says whose
it is; no run has two, the proofs have any number. Two crashes show a
crash of what a recovery has left. In `Downloader` one call more than there are
slots makes waiting possible, and three policies with one, two and three
attempts make an update matter in either direction. In `ImageProxy` three pieces
allow a parser that stops before, at and after the last one. The proofs below do not
depend on any of this: of the properties that hold, only those of liveness rest on the
bounds alone. Two failures as the limit and two ticks as
the window let attempts of one host be refused, overlap past the limit and expire
in part; the attempt of a second host must not disturb them. Five requests are
two logins, a page whose form is kept, a logout and an action, in any order. The
disk holds two of the images and not all. Limits below, at and above the head's
length and bodies on both sides of every limit show each off-by-one; three bits
of an int64 wrap as 64 do. Five instants contain trimmed fractions and the first
of a new second, any number of Saves being open at once; a third page needs five rows. Addresses of two and
four bits have mapped and other IPv6 addresses, prefixes of every length, and
some wider than the mapped block. `MaxCrash`, `MaxUpdates`, `MaxPieces`, `MaxIdle`, `MaxLen`,
`MaxData`, `MaxTime` and `MaxList` are the only bounds.

`image_overlap` and `image_crash` check `WholeInv`, the inductive invariant of the
proofs, next to the properties that follow from it: the runs look for a state in which
the argument itself would be wrong, `TypeOK` included.

The properties, by what could go wrong:

- *A READY row without its file* — `ReadyHasFile`, and for a reader between its
  two steps `MissingOnlyIfDeleted`.
- *A URL a client holds that resolves to nothing* — `ToldResolvable`.
- *A file that leaks* — `FilesExplained`: `PartsOwned` says that while the process runs
  `tmp/` holds the files of downloads in progress and those a failed download could not
  remove; `OrphansExplained` lists the only ways a final file can lack a row: a failed
  removal (on any of the code's paths), a crash while a handler had it in hand, a path
  that the SELECT of its request's delete did not give, or two admin requests at work on
  the same image.
- *An immutable URL that changes* — `ReplacedOnlyIfRaced`: what a URL serves is replaced
  only where two admin requests overlapped on its image.
- *A lost goroutine result* — `SavedWhole`.
- *Slots, snapshots, retries* — `SlotsHeld`, `WithinSnapshot`,
  `RetriesJustified`, `CallsReturn`.
- *Settings* — `LiveLoads`, `WholeVersions`, `LiveWhenCalm`.
- *Edits* — `NothingUnseen`; `AuditWhole`, up to the audit's flag `Err`, which nobody
  reads after the proxy: it does not reach the stored row; `BothEnd`: handler and parser.
- *A loss of power* — `DanglingWasDeleted`: even then a READY row without its file
  is one whose deletion was undone.
- *What the client is sent* — `EveryImageLocal`, and nothing else changed.
- *Space* — `AloneIsSafe`: the threshold is worth something only to a request
  that nobody overlaps.
- *Submissions* — `OnceUnlessKeyed`.
- *Sizes* — `ExactLimit`, with bodies that break off inside the head; `TakesLittle`.
- *Logins* — `OverrunBounded`: how far concurrent attempts exceed the limit;
  `NotForgotten`, `LockoutEnds`.
- *Sessions* — `EndsForGood`, `OwnForm`.
- *The process* — `CleanExit`, `EndsWhenTold`.
- *Lists* — `PagesExplained`.
- *Clients* — `AsWritten`.

### What the violated runs show

1. `settings_refused`: `UpdateRuntime` commits before it validates. A refused
   value is answered 400 but stays stored: live and stored differ, the settings
   page fails, and the next start exits.
2. `image_orphan`: of two overlapping retries the second overwrites the first
   one's `local_path`; a retry whose row was deleted updates no row. Either way a
   complete file remains that nothing names, and nothing had failed. The sentence in
   `deployment.md` names one cause, a failed removal; that there is no other is
   implied, not said.
3. `proxy_epilogue`: bytes after a form's final boundary (legal in MIME) find the
   pipe closed; the upstream request fails with 502.
4. `submit_keyed`: a JSON body is a `bytes.Reader` and the client's
   `Idempotency-Key` is passed on, so net/http sends the POST again when a
   kept-alive connection breaks before a response. Without the key it never does
   (`OnceUnlessKeyed`).

Other limits of the code show as the provisos that passing properties need:

- of two overlapping retries the second replaces what the URL serves, though
  `images.go:155` declares it immutable (`raced` in `ReplacedOnlyIfRaced`), and the first one's file stays
  (`raced` in `OrphansExplained`);
- two overlapping saves may commit in one order and go live in the other
  (`calm` in `LiveWhenCalm`, which exempts exactly this and so does not show it);
- requests that overlap pass the check of the free space together, and a retry
  makes none (`alone` in `AloneIsSafe`, which exempts exactly this);
- every failing `os.Remove` while the process runs leaves its file, and so does a
  delete whose SELECT broke off unnoticed (`stranded`);
- `max+1` wraps for a limit of 2^63 - 1 (`Fits` in `ExactLimit`);
- with `synchronous=NORMAL` a loss of power may undo a deletion whose file is gone
  (`deleted` in `DanglingWasDeleted`), or a commit already answered: for
  `PowerLoss` nothing like `ToldResolvable` is claimed;
- concurrent logins exceed the limit (`peak` in `OverrunBounded`);
- `Save` uses `r.Context()`: a client that leaves after the upstream has answered
  takes the audit row with it. `SavedWhole` says all or nothing, not that something
  is saved.

## 4. Fairness

Weak fairness of the steps a runnable goroutine takes; that is Go's scheduler.
Beyond it:

- A download ends: `http.Client.Timeout` bounds every attempt
  (`downloader.go:50-57`), so `DownloadStep` and `Attempt` are fair.
- A call waiting for a slot gets one (`WF(Acquire)`): channel senders are served
  in order, and every holder releases.
- An upstream exchange ends: `UPSTREAM_TIMEOUT` (`client.go:17-26`), so
  `ConnEnds` is fair; sending to the upstream and its answer are not.
- A process that died is started again (`Start`): the compose files' restart
  policy. A start may fail while a file under `tmp/` cannot be removed; that it fails
  for ever is excluded. Only `image_crash` uses this.
- A client that has begun an edit's body goes on or goes away
  (`WF(ReadPiece \/ ReadError)`). The server sets no `ReadTimeout`, so the code
  does not enforce this: a stalled client holds its handler past
  `UPSTREAM_TIMEOUT`, because the parser waits for the client. `BothEnd`
  holds under this assumption only.
- Time passes and a password check ends (`LoginThrottle`); that an attempt is made
  is not assumed, and need not be: failures expire by themselves.
- `main` goes on, a listener's call returns, the 15 seconds pass (`LifeCycle`);
  handlers need not end.

The other modules state no fairness: they check safety only.

## 5. What is proved

Every invariant and every action property that a passing run checks is a theorem
here, for all values of the constants (`WholeInv` is itself the inductive one). Each argument below names the inductive invariant and why the property needs
it; `Spec => []Inv` then follows from three facts, that `Init` implies it, that every
step keeps it and that it implies the property.

### ImageStore and Gallery

`ImageStoreProofs` and `GalleryProofs`, for any sets of requests, URLs, admin requests
and readers, any number of crashes and any set of faults, from `NamesDistinct`
(identifiers are distinct), `FaultsKnown` and `MaxCrashNat`. The invariants are
definitions of `ImageStore`, so that the runs check them too:

- `Typing`, `Invariance` (`IInv`), `WholeInvariance` (`WholeInv`, all three parts);
- `ReadyAlwaysHasFile`, `ToldAlwaysResolvable`, `MissingAlwaysDeleted`,
  `FilesAlwaysExplained`: the four invariants;
- `SavesAreWhole`, `ReplacedOnlyWhenRaced`: the action properties `SavedWhole` and
  `ReplacedOnlyIfRaced`;
- `ImplementsGallery`: `Spec => ShowsGallery`, the refinement; `ToldAlwaysShown`.

*Who owns a file* (`IInv`). `ReadyHasFile` is not inductive: whether a removal is
harmless depends on where the path came from. The invariant adds ownership. Every file
belongs to one image (`Owner`: the download's own id, or the target of the retry that
stored it); a row names only files of its own whose retry has ended (`RowOwnsPath`); a
handler may remove only what it downloaded itself and never committed, or what belongs
to the rows it deletes (`HeldOwned`), and those rows are gone for good once it starts to
remove (`DeletedForGood`, by `OpKnows`: only committed requests are deleted, and ids are
not drawn twice). A file renamed by a download is still there when its handler commits
(`DownloadedKept`), and what the handler commits is what its goroutines reported
(`Gathered`, `CommittedStage`). All of `IInv` but `ReadyHasFile` itself is `OwnInv`:
it is what a loss of power keeps as well, and its proof does not use `ReadyHasFile`.
`StepKinds` and the frame lemmas say once what each kind of step leaves alone; then
there is one lemma per conjunct, with one step per action that can disturb it.
`SavesAreWhole` follows from `Gathered` (all records present, status DEGRADED exactly
when one is an error) and `RowShape` with `CommittedStage` (no row of an uncommitted
request exists).

*Why a file may be without a row* (`FilesInv`). That a committed retry loses no file of
an image that nobody else worked on needs what the handler read to be still so
(`ReadsFresh`): the image it retries is FAILED, the delete holds or has missed every path
its rows have. Both are true until another admin request works on the same image, and then
that image is in `raced` (`MeetingsRaced`). `FilesDownloaded` and `DownloadsAsked` tie a
final file to a download that somebody asked for and that ended well, or whose removal
failed, so a file without a row has a keeper or a reason; and what is stranded stays so
(`StrandedStays`). `ReplacedOnlyWhenRaced` follows from `ReadsFresh`: a retry that finds
its image READY did not read it so (`ReplacedStep`).

*What clients rely on* (`ShownInv`). A response is told after its commit
(`ToldCommitted`), and a committed row goes by a delete only (`CommittedResolvable`). A
reader between its two steps holds a path of its image that a finished job stored
(`ViewKnows`); only a handler that deletes the image removes such a file
(`FileGoesByDelete`).

*The refinement.* With `ReadyHasFile` what a URL shows is a function of the rows
(`LifeIs`), so steps that leave rows and `committed` alone stutter; a commit of a save is
`Publish`, that of a retry `Repair`, that of a delete `Remove`, `Respond` is `Deliver`,
and no other step changes what a URL shows. `Gallery` states no fairness. What `Gallery`
promises by itself then holds of the gateway (`ToldAlwaysShown`).

### PowerLoss

`PowerLossProofs`: `PowerInvariance` and `DanglingAlwaysDeleted`, for any instance and
any number of losses of power, checkpoints and crashes.

A loss of power may bring back any version of the rows since the checkpoint and lose
any name not synced. So each *version* must be sound by itself: it names its own files
only (`VersionOwned`), and each of these is there and synced, or its image has been
deleted since (`VersionSynced`); the last version is what the database shows
(`Logged`). A commit adds a version; what it names was synced by the download that
stored it (`DownloadsSynced`), because `Save` syncs the directory before it returns.
No handler survives, so the parts of `OwnInv` about handlers hold at once; the rest of
it is `VersionOwned` of the version that comes back. `ReadyHasFile` is what a loss of
power breaks, and all it breaks: therefore `OwnInv` is stated without it.

### Downloader

`DownloaderProofs`, for any finite set of calls, any positive number of slots, any
set of policies that `LoadRuntime` lets through and any number of policy changes
(`PoliciesAssumption`, `WorkersAssumption`, `MaxUpdatesAssumption`, `CallFinite`):
`DownloaderTyping`, `NoSlotLeaks`, `SnapshotsBind`, `RetriesAreJustified`.

`slots \in 0..Workers` is not inductive, because a call that gives its slot back might
make it negative; it is with `SlotsHeld`, which makes `slots` the size of a set the call
is in (`HoldsMore`, `HoldsLess`). `WithinSnapshot` and `RetriesJustified` need what
holds before a call returns: fewer attempts than its snapshot allows, all of them
retryable failures (`InProgress`), and nothing done yet while it waits for a slot
(`CallOK`), so that taking the snapshot then is safe. `OthersKeep` is the frame; then
there is one lemma per action.

### ImageProxy

`ImageProxyProofs`, for bodies of any length with the final boundary anywhere
(`MaxPiecesNat`): `ProxyTyping`, `AuditsAreWhole`, `NothingPassesUnseen`.

Four actors move pieces, and each property relates the two ends. `Forwarded` says, by
where the write loop stands, how far newapi is behind what was read, and that the
pipe has ended exactly as the loop has; `Parsed` puts the parser between the two;
`Told` says what the parser knows when it reports: the form was complete and taken up
to its end or its boundary. `Quiet` is that nothing of this happens before `Do`.
`AuditWhole` is then `Told` at the handler's end, `NothingUnseen` is `Forwarded` with
`Parsed`.

### The process: settings, logins, life cycle

`ProcessProofs`.

`RuntimeSettings`, for any keys, values, forms, concurrent saves and crashes:
`SettingsTyping`, `LiveAlwaysLoads`, `VersionsAreWhole`, `CalmIsLive`. `Versioned`: the
last entry of `history` is what is stored, and no handler has read a version that does
not exist yet; so rows read now are the newest version, which is at least the number
read before. `LoadedLoads`: a handler about to call `onRuntime` holds rows that passed
the validation. `CalmIsLive` needs what a save that ran alone holds on its way
(`CalmKnows`): it is the only one, and before `onRuntime` it has loaded what is stored.

`LoginThrottle`, for any finite set of attempts, any hosts, any positive limit and
window (`AttemptFinite`, `HostOfType`, `LimitPositive`, `WindowPositive`):
`ThrottleTyping`, `OverrunAlwaysBounded`, `NothingForgotten`. A bound on the list alone
is not inductive, for attempts in progress can all still fail; the sum of the list and
of those in progress is. It grows only in `Allowed`, where the list is below the limit
and the peak at least the number in progress; `Fails` moves one from the one to the
other.

`LifeCycle`, for any handlers and passwords and any number of starts (`PlaneOfType`):
`LifeTyping`, `ZeroIsClean`, `DataStaysSealed`. `CleanExit` needs what holds between the
two `Shutdown` calls (`DataDone`): the data listener is closed, and if the first call
returned without an error no data handler is left, nor can one come.

### The data plane

`DataPlaneProofs`.

`Submission`, for any requests and any pool (`RequestsMeet`): `SentOnceUnlessKeyed`.
`SentOnce`: a request that is not replayable and stands before its last byte has not
been received; every way back there is open to replayable requests only, or comes
before the last byte.

`BodyLimits`, for any limits, lengths, `HeadLen` and width of int64 (`SizesFit`):
`LimitTyping`, `LimitsAreExact`, `LittleIsTaken`. While a copy runs, what the reader may
still take is the limit and one less what was taken (`Stages`), unless the sum wrapped;
so it stops at the end of the body or one byte beyond the limit, and what it counted
tells which.

`DiskSpace`, for any writers, sizes, disk and threshold (`WritersAssumption`):
`AloneAlwaysSafe`. A request that has met no other writer is the only one in progress,
so what is free with what it has written itself is what its `Preflight` found, at
least `MinFree` (`AloneInv`).

`Rewriting`, for any answer and any order of the downloads (`SourceAssumption`):
`EveryImageAlwaysLocal`. The mapping has exactly the wanted sources whose goroutine has
returned (`MappingInv`), so after the join it has all, and nothing else.

`Allowlist`, for addresses of any widths and any marker with a bit set
(`WidthsAssumption`; behind a marker of zeros `::1` would be a mapped address): `WrittenAlwaysMeant`.
The prefixes are those of the loopback and of the entries read
(`PrefixesInv`); the rest is about the operators: an embedded address has the bits of
the one it embeds, behind the marker (`EmbedBits`), no other is unmapped (`Unmapped`), and
what `ParseEntry` makes of an entry holds exactly the addresses the entry's text names,
in either form (`EntryMeaning`, `LoopbackMeaning`).

### The admin plane

`AdminPlaneProofs`.

`AdminSession`, for any browsers and requests (`NoneNew`): `SessionTyping`,
`EndsAreForGood`, `FormsAreOwn`. A late request is cut off (`LateCut`): it has been
refused, or still has to ask for a row that is gone or expired. That its session cannot
come back rests on `CookiesAnswered`: a cookie names a request that has been answered,
which will not log in again. `AllAsked` says what passing a check tells.

`Listing`, for any page size, base and number of rows (`PagesAssumption`):
`PagesAlwaysExplained`. An added row pushes each row one place
on, a deleted one pulls those behind it one place back. So the rows seen that additions
have moved behind the pages shown (`Pushed`), with those seen twice, are at most the
added ones; the rows that deletions have moved before them unseen (`Passed`) are at most
the deleted ones (`ListInv`). The places are ranks in the order of the texts; that no
two rows share one is arithmetic on digits (`KeysDiffer`), and that an
added row is a new one needs that an instant of an open Save is not one of a row or of another Save.

### The compositions

`ProcessComponents` and the two theorems `PlaneComponents`: every behaviour of
`MCProcess`, `MCDataPlane` and `MCAdminPlane` is one of each component in it. `ProcessTyping`
and the two `PlaneTyping` are their type invariants.

### Only model-checked

The liveness properties (`HandlersEnd`, `CallsReturn`, `BothEnd`, `LockoutEnds`,
`EndsWhenTold`): fairness and `ENABLED` are beyond the prover. The properties that the
expected violations refute have nothing to prove. Induction over data is not needed
anywhere: sums and sequences in the models are sets, functions or grow by one step.

## 6. Plan

`ImageStore` with `Gallery` came first, because it is what the gateway is for, then
the components it relies on, then login, the life cycle and the pure parts.

Still to model: the dispatch of both routers with the header filtering, as a pure
module.

The proofs cover the invariants and action properties of every run; what is added to
the models comes with its own.

## 7. Not modelled, and why

- URL validation is a predicate on text and on the answers of DNS; a rejected URL
  is an outcome of `Downloader` and `ImageStore`. Routing, header filtering and the
  variables of the bootstrap other than the lists and limits are pure text
  handling: there is no state, order or failure in them that a model would show.
- Health, pages and logging change no state. `dashboard` and `requestDetail` read
  once, one row each.
- Image contents, MIME detection and durations are abstracted away. The pause
  before a retry is one step however long: that `retryDelay * 1<<(n-1)` overflows
  for a stored delay of months stays a hazard without a property.
- Hashes and tokens are names; that random ones differ is assumed.
- Two hazards have no property, with the reason in `PROJECT.json`: the pause above,
  and what a stalled client can hold (the code promises nothing there). Left out
  altogether, as the code promises nothing about them either: a logout whose DELETE
  fails, tables and maps that only grow, the container's stop timeout.

## 8. Running

    tlc -config ImageStore_overlap.cfg MCImageStore     # and so on, see PROJECT.json
    tlc -config MCDataPlane.cfg MCDataPlane             # several components at once
    tlapm ImageStoreProofs.tla                          # and the other ...Proofs modules

`Terminating` steps stand for "nothing more is asked"; deadlock is checked in
every run, so a handler that could get stuck would show; in the runs that hold several
components, those in which nothing has to go on (lists, disk, answers, clients) may
rest, and for them it shows nothing.
