# comfyui-downloader: a TLA+ verification project

`comfyui-downloader` is a daemon that downloads model files from CivitAI,
HuggingFace and plain links into a ComfyUI `models/` tree, keeps a SQLite
catalog of what it did, and answers a command line over a Unix socket. This
directory holds TLA+ models of it, TLC configurations that check them on small
instances, and proofs that TLAPS checks for every size.

Source paths below are relative to the repository.

## 1. The system

One process, one Tokio runtime. Its tasks share three mutexes: the catalog
(one SQLite connection), `ActiveTasks` (job id → cancellation token) and
`ProgressMap` (job id → bytes so far). Whatever is not under one lock
interleaves. The command line is a second process; it shares the socket, the
keyring and `config.toml` with the daemon.

| Part | State it keeps | Operations | Modules |
|---|---|---|---|
| catalog (`catalog/mod.rs`) | table `jobs` | enqueue, next_queued, set_*, requeue_*, dedupe, cancel_redundant, register_existing, delete, diagnose/repair, update flags | `Catalog`, `Library`, `UpdateChecks` |
| queue (`daemon/queue.rs`) | permits, tokens, progress | loop: permit → pick → skip an update or mark → register token → spawn; worker: transfer, outcome, fallback, clean-up | `DownloadQueue`, `QueueBoard`, `JobBoard` |
| downloader (`daemon/downloader.rs`) | `.tmp` files, placements | resolve, reuse, stream, verify, publish, record | `Transfer`, `Sources`, `DownloadQueue` |
| store (`daemon/store.rs`) | `.clone.tmp` files | clone, verify, rename without replacement | `Transfer` |
| startup and requests (`daemon/mod.rs`) | none of its own | recovery; one handler per request | `DownloadQueue`, `Library`, `UpdateChecks`, `Templates` |
| scanner (`daemon/scanner.rs`) | none | walk `models/` once, register untracked files | `Library`, `DownloadQueue` |
| updater (`daemon/updater.rs`) | timer | check models, flag updates | `UpdateChecks` |
| placement (`placement.rs`) | none (pure) | evidence → role, family, directory | `Placement`, `Sources` |
| config, secrets (`config.rs`, `secrets.rs`) | `config.toml`, credential cache | load, merge, move keys, save; refresh with a cooldown | `Settings` |
| clients (`civitai/`, `huggingface/`) | none | resolve, list, retry on 429 | `Fetching`, `Sources`, `Connections` |
| templates, VRAM, GPU (`templates/`, `vram.rs`, `gpu.rs`) | cached files | fetch or read the cache, parse, bundle, prune, estimate | `Templates`, `IndexCache` |
| IPC transport, tray (`ipc/`, `daemon/systray.rs`) | connections | one line per request and answer; the tray's watcher takes the catalog lock | `Connections` |
| command line (`cli/mod.rs`) | the picker | picker, pages, bundle selection, set-key, families | `CommandLine`, `Settings`, `Templates` |
| notifier (`daemon/notifier.rs`) | none | fire and forget | — |

What makes each part correct:

- **catalog**: an id is one row; a completed row names its file; no statement
  loses a row except the documented ones; recovery leaves nothing stranded.
- **queue**: one worker per job; a permit always comes back; a row being
  transferred stays claimed; a cancellation reaches the transfer it names; the
  in-memory maps hold no dead entries. In one sentence: it is a job board.
- **downloader and store**: a published file is a whole, verified file; a clone
  replaces nobody's file; a retry after a disturbance succeeds.
- **delete, repair, scan**: a file that is there stays reachable through a row,
  and a row keeps its file, but for the cases `FilesStayNamed` lists; a row goes
  only when another accounts for it.
- **updater**: a newer version is eventually flagged.
- **placement**: a label becomes one safe folder; a second download files the
  same content where the first did.
- **secrets/config**: a key in an open keyring reaches the daemon; a key is lost
  only in the two ways the missing lock allows; aliases are the user's.
- **clients**: a listing is whole.
- **cached index**: an outage is bridged by what was fetched before, unless a
  write of the cache was damaged.
- **templates**: nodes decide and notes add; a shared file is filed under no
  family; estimates are monotone; what is hidden is counted.
- **IPC, command line**: every request whose waits outside the daemon end gets
  its own answer; a key in the
  picker toggles the row the user sees; every model is on one page.

What is hard: interleavings of handlers with the loop between two lock
acquisitions; state read before an unlock and used after it; commits of several
UPDATEs without a transaction; crashes; files shared by name; servers that
never answer; two processes that write one file. `PROJECT.json` lists each such
hazard at its line, with the properties that cover it.

## 2. Modules

| Module | Models |
|---|---|
| `Catalog` | the table and each catalog method the queue's world uses, as operators from table to table |
| `DownloadQueue` | the queue's state machine: loop, workers, requests, scanner, user, startup, crash |
| `JobBoard` | the abstract specification: jobs that workers claim, settle, withdraw and repeat |
| `QueueBoard` | the refinement mapping from `DownloadQueue` to `JobBoard` |
| `Transfer` | one download, byte by byte, beside others on one disk |
| `Library` | deletion, repair, scan and requests over rows and files that are done |
| `UpdateChecks` | `Library` with the update checker, the day's limit and CivitAI's versions |
| `Settings` | `config.toml`, the keyring and the daemon's credential cache, two processes |
| `Placement`, `Sources`, `Templates` | pure algorithms: folders and families; what a job resolves to and its evidence; workflows, bundles, estimates |
| `Fetching` | the paged listing with its retries |
| `IndexCache` | the cached index of the templates: requests beside each other on one file, a write that empties it first |
| `Connections` | clients, their connections, the catalog lock the tray competes for, waits for services or the keyring |
| `CommandLine` | the picker with its search, and the pages |
| `Subsequences` | what a filter over an iterator leaves, in a form that can be proved about |
| `MCDownloadQueue`, `MCTransfer`, `MCLibrary`, `MCServices` | values for TLC |
| `CatalogProofs` | what each statement on the table does: no theorem about a component opens one |
| `DownloadQueueProofs`, `JobBoardProofs` | the queue and its refinement of the board; the board |
| `TransferProofs`, `LibraryProofs`, `SettingsProofs` | the transfers; rows, files and update checks; the two writers of the settings |
| `ServicesProofs` | connections, listing, cached index, picker, the pure algorithms, and all machines of `MCServices` together |
| `TemplatesProofs` | the workflows, the listing and the selection of templates |

Some definitions are followed by a faulty variant of themselves. No
specification uses these; they put the mistake a property is meant to catch in
place of the code, to show that the property catches it.

### Catalog

A table is a function from ids to rows; a deleted row is outside its domain, so
an UPDATE by id of such a row changes nothing, as in SQL. Ids stand for UUIDs
*and* for `created_at`: both are fixed by the insertion. A URL stands for what
`parse_civitai_url` gets out of it (a model id, a version id, both or neither)
through `ModelOf` and `VersionOf`. A placement (`Paths`) is a source, a
directory and a preferred file name: two sources never share a path, as long as
their files have different names (`Transfer` drops that assumption). Columns
nothing here reads are left out: error text, families, timestamps, digests;
`Library` adds the digest and the update flags to the rows.

`Verifying` is a status the code reads and never writes (the architecture
document draws it between `Downloading` and `Done`); it stays in the table's
type, and no action sets it.

### DownloadQueue

A slot is a permit. The loop takes one before it looks for work and the worker
keeps it to the end, so a slot names at most one task, its job, its snapshot of
the row, and its token. `phase` says where the task is:

```
free → picked → (skipping | cleared) → marked → resolving → streaming → placed → succeeded → finished → released → free
                                         │  (found on disk) ├──────────────────────────↗
                                         │  (cloned)        ├────────────→ placed
                                         │  (HTTP 401/403)  └→ fallback → candidates → substitute → finished
```

The first line up to `marked` is the loop (`queue.rs:42-116`); the rest is the
worker (`downloader.rs:361-832`, then `queue.rs:117-164`). An action lies
between two lock acquisitions. Steps are merged only where nothing shared
changes in between:

- the permit and `next_queued`; looking and finding nothing is a stutter;
- the failure of a worker and the UPDATE that records it;
- `done_jobs_for_model` and the `exists()` calls right after it;
- all rename-time and digest work of a transfer, which the queue cannot see;
- an `AddDownloads` batch is a sequence of `AddDownload`s; `DownloadVersion` is
  an `AddDownload` without a type (its change to the update flags is left out).

The environment is every IPC request that changes rows, split where the handler
unlocks (`Cancel`: map, then row; `DeleteModel`: look up, then unlink and
forget), the scanner's registration of a file that is there, and a user who
removes files. The walk of the scanner is lazy and starts whenever a key is
there, so a registration may come at any time. A crash may come at any point,
also in the middle of a commit (`CrashDuringCommit`).

### JobBoard and QueueBoard

`JobBoard` knows no permits, tokens, locks or files. A job is `waiting`, `held`,
`complete` or `abandoned`; a worker claims a job nobody holds, and settles it; a
job may be withdrawn or removed while it is held, which its holder learns no
sooner than at its end; completed jobs start again only through `Repeat`; after
a crash nothing is held and nothing completed is started again. `QueueBoard`
reads the board off the queue: a permit holds its job from the statement that
marks the row `Downloading` to the one that records the outcome, and a status is
a stage. `Claim` allows a withdrawn or removed job, because the code marks the
row without looking again (finding 1).

### Transfer

Files are sequences of chunks; chunk `i` of content `c` is `<<c, i>>`, so mixed
and shifted bytes are told apart, as a digest does. An open file is followed
through renames, and bytes written to an unlinked one are lost. The steps are
those of `download` (`downloader.rs:361-832`) between two looks at the disk:
reuse of a file that is there, choice of a donor, clone, `.tmp` from the last
segment of the URL, resume with a range request and the three answers to it,
rename of the `.tmp` when the answer names the file, digest, rerouting by the
header, publication by rename, commit. The store's clone is verified and
published without replacement, where the filesystems allow it: a clone needs
files that can share extents (`Clonable`), and its publication a rename that
replaces nothing (`Renamable`); where either is refused the placement fails and
nothing is downloaded instead. Disturbances are lost connections, cancellation,
crashes, files removed by the user, a second download of a finished row, and
file operations that fail.

One of these has consequences. When the `.tmp` of an interrupted transfer cannot
be renamed to the name the answer gives it, `resume_from` becomes 0 although the
server is sending only the rest (`downloader.rs:591-601`), so the rest is written
at the beginning of the file (`AnswerPartialUnrenamed`; `skipped` is where the
body begins, `resume` where the code believes it does). A published digest, or
the header a safetensors file must have, does not match then and the job fails;
a file with neither would be taken for whole. `VerifiedIsWhole` is about sources
that publish a digest.

### Library and UpdateChecks

`Library` reduces the queue to its effect (a queued row's file appears, later
the row is completed, or it fails) and models what works on finished rows: the
deletion of a model in its four steps around the lock, by several handlers beside
each other, `diagnose` and `repair`
(rank, duplicates, dangling rows), the scanner's read and registration as two
steps, and the requests that requeue. `UpdateChecks` extends it with a check
that goes model by model: the limit under the lock, the question without it, the
time and then the flag in two UPDATEs, with a stop possible between any two.

### The services

`Settings` follows `config.toml` through `load`, the move of plaintext keys to
the keyring, `apply_alias_merge` and the save that truncates before it writes,
for a daemon that starts and a command line that runs at the same time, and the
daemon's credential cache with its cooldown. `Fetching` follows a paged listing
through rate limits; CivitAI's `get_json` is the same loop without pages.
`IndexCache` has the requests that want the index, each in its own task on one
file: the age is read before the content, `tokio::fs::write` empties the file
before it fills it, and a full disk, the end of the daemon or another writer may
come in between. `Connections` has one task per connection and the lock as a
queue, which is what Tokio documents of its mutex. A request goes through stages,
each a turn with the lock or a wait for something outside the daemon, which may
never come. `CommandLine`
is the picker key by key. `Placement`, `Sources` and `Templates` are operators
only, composed in the order the code calls them: a label is a sequence over five
characters, and a link has the parts `parse_hf_url` tells apart. The order in
which bundles are listed is left out.

## 3. Runs

| Run | Instance | Shows |
|---|---|---|
| `queue_safety` | 2 permits, 1 version, 2 rows | type; one worker per job; the picked row still waits and the transferred row is claimed; nothing stranded; maps hold live tasks only; the inductive invariant; the queue is a job board |
| `queue_liveness` | 1 permit, 2 versions, 2 rows, fairness, three initial tables | queue makes progress; a cancelled stream ends; a running transfer has its token |
| `queue_restart` | 1 permit, 2 versions and a link, stray file, three initial tables | Done rows name files; a restart queues no completed version; no row is lost |
| `transfer` | two queued jobs, or two and a donor, 2 contents of 2 chunks, 5 workloads on two filesystems, fairness | the inductive invariant; a partial file is resumed with its own bytes; a published file with a digest is whole; what may replace a file is known; retries succeed except where `NeverSucceeds` says |
| `library` | 3 sources, 3 rows, 6 libraries, 2 deletions at a time, fairness | the inductive invariant; rows and files come apart only as listed; repair drops rows that others account for; updates are flagged |
| `services` | the constants of `Services.cfg` | the inductive invariants of the machines; the services and the algorithms, see below |
| `cancel_is_final` | 1 permit | violated: finding 1 |
| `token_lost` | 2 permits, 1 row | violated: finding 2 |
| `restart_placements` | 1 permit, 2 types | violated: finding 3 |
| `skip_drops_request` | 1 permit, a pending update | violated: finding 4 |
| `transfer_overwrites` | 2 files of one name that end up in one directory | violated: finding 5 |
| `dropped_content` | 2 files of one name in two directories | violated: finding 6 |

The properties of `services`, by machine or question:

| Part | Properties |
|---|---|
| settings | `KeysAreKept`, `AliasesAreTheUsers`, `KeyReachesDaemon` |
| listing | `ListingIsWhole` |
| cached index | `OutagesAreBridged` |
| connections | `AnswersMatch`, `EveryRequestEnds` |
| picker, pages | `TogglesAreSeen`, `PagesPartition` |
| placement, sources | `FamiliesAreFolders`, `PlacementsLast` |
| templates | `WorkflowsDeclare`, `SharedFilesAreNobodys`, `EstimatesAreMonotone`, `ListingsAccount` |

A behaviour of `services` is one machine with the others at rest, or one input
of an algorithm from which no step leads: the machines share nothing, so their
states add up and do not multiply.

**Bounds.** `MaxJobs` bounds the rows ever inserted: two, which is one row for a
job and one for whatever competes with it (a retry, a fallback, a duplicate, an
update). Two permits are enough for two workers of one job, the loop with a
worker, and an old worker with a new one. One two-lock request is in flight at
a time in the queue's model: each such request touches one row and its second
half does not look at what another request left in memory; two of them at once
act like two in a row on the properties there. Deletions beside each other are in
`Library`, which has the files they leave. Two versions of one model, in a listing, give the
fallback something to find and something to pass over; with two permits one
version keeps the instance small, and the theorems cover the rest; `link` is a
file without a version, for the dedupe by path. Slots are symmetric in
`queue_safety`, where no liveness is checked and `CHOOSE` is not used.

A transfer has two chunks: one lost and one kept, an empty, a partial and a
complete `.tmp`. The workloads of `transfer` are the pairs of the sources whose
temporary files, destinations or digests meet, alone or together, one of them
beside a finished row to clone from; one directory is on a filesystem that clones
and renames without replacing, the other can take a clone and not rename it so.
The libraries of `library` are six installations, each with the events that
concern it: kept up to date; deleted and scanned; deleted and repaired with
duplicates; two rows of one file, deleted by two handlers at once; namesakes; and
a file without a version that is added a second time, removed and downloaded
again. Two versions of a model and a namesake are what repair and the checker
tell apart. In `services` one secret, one label, two starts, one command and one
edit make two writers of `config.toml` overlap; a listing has an empty page in
the middle; two callers of the index, with three changes of what its host
answers, overlap in the file and then meet an outage; two clients
compete with the watcher with requests of up to two stages; sizes up to `Cap`
stand for 64 bits, with sums that reach it; four picker rows, of which two fit
the screen.

**Deadlock** is not checked: a daemon whose bounded supply of rows is used up
and whose user does nothing stops, by the bound; so do the others, and a question
asked of an algorithm is a state without a next one.

**Initial tables.** An empty one; a completed version with an update of it that
is queued; an interrupted row next to a completed row of the same version. The
second stands for catalogs of older daemons: `enqueue_version_update`
(`src/catalog/mod.rs:238`) still exists and the loop still handles such rows,
though the present updater only sets flags. The third is the case the startup
recovery was written for.

**Fairness.** `WF(Boot)` (the service manager restarts the daemon), `WF` of the
loop, and `WF` of each worker's local steps: the runtime runs every ready task
and locks are held for a statement. A step that waits for a server
(`NetworkStep`) has none: the HTTP clients have no timeout for a transfer, a
preview, or a 429. Where progress needs answers the property assumes them
(`ServersAnswer`), and that crashes stop (`StaysUp`). `CancelEndsTransfer` needs
no answers, which is its point. The queue is only claimed to progress as a
whole: a requeued row keeps its `created_at` and overtakes younger rows, so a
single row may starve.

In `transfer`, `SF` of each row's start: the loop takes the oldest row whenever a
permit is free, and permits come and go. A worker has no fairness there, since it
waits for servers; `RetriesSucceed` assumes that they answer (`ServersAnswer`),
that from some point on there are only starts, retries and the workers' own
steps (`Calm`), and that the user asks again (`AskedAgain`). In
`library`, days pass and the daemon is restarted; `UpdatesAreReported` assumes
that the servers answer a check, if only with an error, and that the other tasks
leave the library alone from some point on. In `services`, the
scanner's poll comes round, the cooldown passes and a keyring answers, if only
with a refusal; every task of the runtime runs, the watcher wakes from its
sleep, and the lock is handed over in the order it was asked for. How long a
request is outside the daemon has no bound in the code: a rate limit is retried
for as long as it lasts (`civitai/mod.rs:74-91`, `huggingface/mod.rs:207-212`),
and the keyring may wait for its prompt. So no fairness is given to `ComeBack`,
and `EveryRequestEnds` states the assumption it needs (`OutsideAnswers`); without
it TLC finds a request that never ends. No machine's fairness mentions the user.

## 4. Findings

Each is a run that TLC must find violated.

1. **A Cancel can be lost** (`cancel_is_final`). `queue.rs:98` marks the row it
   picked under an earlier lock. A Cancel answered in between has set the row to
   `cancelled`; it is overwritten and the file is downloaded.
2. **A running transfer can lose its token** (`token_lost`). A worker sets its
   row to a final status, and only then removes the token by job id
   (`queue.rs:162`). With two permits, a redownload of that row can start in
   between; the new worker's token is removed and no Cancel reaches it.
3. **A restart forgets a placement** (`restart_placements`). Two roles of one
   version are two rows by design (test at `src/catalog/mod.rs:1031`), but the
   startup dedupe groups by version alone and deletes one of them.
4. **A redownload can be dropped** (`skip_drops_request`). When an update is
   skipped because its originals are gone, the rows deleted are those read
   before the files were looked up; one requeued since goes with them.
5. **A transfer can replace a file** (`transfer_overwrites`). The destination is
   looked up before the transfer, and only under its provisional name;
   `downloader.rs:794` then publishes with a plain rename. A file another job
   published meanwhile is replaced, and that job's row now names other content.
   `docs/reference/model-placement-heuristics.md:263-264` and `:496-499` rule
   this out; the clone path keeps to it (`ReplacementsAreKnown`).
6. **Repair can drop the only row of a content** (`dropped_content`). A dangling
   row goes when a live row has the same file name (`catalog/mod.rs:445`),
   whatever is in that file; the comment above it promises the same content.

Also seen while modelling, and kept in the models as the code has it: a CivitAI
download never resumes, since its `.tmp` is first named by the last segment of
the URL (`README.md:18` lists resume). Some states are left by no retry, and
`NeverSucceeds` in `Transfer` is their list: a complete `.tmp`, left by a crash
between the last byte and the rename, which a server answers with 416; a file
without a digest at the destination; a `.clone.tmp` left by a crash; a completed
row of the same digest whose file has changed, is on another filesystem, or on
one without reflinks (`docs/reference/model-placement-heuristics.md:585-593` says
so of ext4); a filesystem that cannot rename without replacing; a server that
sends something else than it announced.

Some properties name what the code does not keep. Two deletions of rows that
share a path, one begun before the other ends, each leave the file to the other
row and then drop their own, so nothing names it any more; and a row that comes
to name a path after a deletion has looked at it loses its file
(`daemon/mod.rs:401-432`). These are among the cases of `FilesStayNamed`. An
answer of status 200 that is no index is kept over a good one, and a write of the
cache that is cut short or runs beside another leaves a file that is served for
six hours, and in an outage as long as it lasts (`templates/mod.rs:559-575`).
These are among the cases of `OutagesAreBridged`.

## 5. Proofs

Every safety property that a passing run checks is proved for all values of
the constants. Each theorem holds for any sets of sources, rows, jobs, labels, clients and so
on, and for any bound.

| Theorem | Statement | Module |
|---|---|---|
| `Invariant` | `Spec => []QueueInv` | `DownloadQueueProofs` |
| `TypeCorrect` | `Spec => []TypeOK` | |
| `ExclusiveWork` | `Spec => []OneWorkerPerJob` | |
| `WorkIsClaimed` | `Spec => []WorkedRowIsClaimed` | |
| `NothingStranded` | `Spec => []DownloadingHasWorker` | |
| `TokensAreLive` | `Spec => []TokensBelongToTasks` | |
| `ProgressIsLive` | `Spec => []ProgressHasTask` | |
| `CommitIsOrdered` | `Spec => []DoneNamesFile` | |
| `RestartRedoesNothing` | `Spec => BootQueuesNothingCompleted` | |
| `RowsAreKept` | `Spec => RowsAreNotLost` | |
| `LonePermitIsCancellable` | with one permit, `Spec => []RunningIsCancellable` | |
| `PickedStillWaits` | `Spec => []PickedRowWaits` | |
| `Refinement` | `Spec => ImplementsBoard` | |
| `BoardInvariant` | `Spec => []BoardInv` | `JobBoardProofs` |
| `CompletedStays` | `Spec => CompleteIsNotClaimed` | |
| `TransferInvariant` | `Spec => []TransferInv` | `TransferProofs` |
| `TransferTypeCorrect` | `Spec => []TypeOK` | |
| `ResumedFilesAreOwn` | `Spec => []ResumesOwnPrefix` | |
| `VerifiedPlacements` | `Spec => VerifiedIsWhole` | |
| `Replacements` | `Spec => ReplacementsAreKnown` | |
| `LibraryInvariant` | `Spec => []UpdateInv` | `LibraryProofs` |
| `NamedFilesStayNamed` | `Spec => FilesStayNamed` | |
| `MissingRowsAreAccountedFor` | `Spec => MissingAreAccountedFor` | |
| `SettingsInvariant` | `SettingsSpec => []SettingsInv` | `SettingsProofs` |
| `AliasesStayTheUsers` | `SettingsSpec => []AliasesAreTheUsers` | |
| `CredentialsAreKept` | `SettingsSpec => KeysAreKept` | |
| `ConnectionsInvariant` | `ConnectionsSpec => []ConnectionsInv` | `ServicesProofs` |
| `AnswersAreToTheLast` | `ConnectionsSpec => AnswersMatch` | |
| `FetchingInvariant` | `FetchingSpec => []FetchingTypeOK` | |
| `ListingsAreWhole` | `FetchingSpec => []ListingIsWhole` | |
| `CacheInvariant` | `CacheSpec => []CacheInv` | |
| `OutagesCostNothing` | `CacheSpec => OutagesAreBridged` | |
| `PickerInvariant` | `PickerSpec => []PickerInv` | |
| `ChecksAreSeen` | `PickerSpec => TogglesAreSeen` | |
| `FamiliesAreOneFolder` | every label, every alias table: one component, families never split | |
| `HeavierIsNeverEasier` | every size, kind and width: the estimate is monotone | |
| `PagesShowAll` | every total and page length: each model on one page | |
| `PlacementsAreLasting` | every row, source, content and alias table: the second download goes where the first went | |
| `ServicesInvariant` | `Spec => []ServicesInv`, the machines beside each other | |
| `PagesAskedFor`, `EstimatesAskedFor`, `FamiliesAskedFor`, `PlacementsAskedFor` | the four above as the run states them | |
| `TheNodesDecide` | every workflow: each file once, in the role its first node declares | `TemplatesProofs` |
| `ListingsAreAccountedFor` | every index, filter and card: shown, hidden and counted, or nothing to offer | |
| `SharedFilesAreQueuedOnce` | every selection: a shared file once, under a family only if it is the only one | |
| `WorkflowsAskedFor`, `ListingsAskedFor`, `SelectionsAskedFor` | these three as the run states them | |

`Spec` is that of the module proved about. The rows that end in
`AskedFor` tie what TLC asks over bounded inputs to the general theorem it is an
instance of.

**Assumptions**, each named in the module that declares the constants:

- `Catalog`, `DownloadQueue`: `None` is not a source, type, name or path, and
  `ModelOf` and `VersionOf` are defined on sources (`CatalogAssumption`); the
  permits are a non-empty finite set; requests, listings and stray files are
  well typed; `MaxJobs` is a natural number; an initial table has rows `1..n`
  and its Done rows name their files.
- `Transfer`: each source has a content, a published digest or none, and says
  whether its name is known and whether ranges are served (`SourceAssumption`);
  a content has at least one chunk, a workload's limit is at least 1
  (`SizeAssumption`); a temporary file has a name (`PathAssumption`). A file
  name, a directory, a digest may be shared by any number of jobs: that is what
  `Sole` and `Alone` in the statements are about.
- `Library`, `UpdateChecks`: one file name has one stem (`LibraryAssumption`); a
  library's rows are typed and a row that waits names no file but its own
  (`LibrariesAssumption`); versions have numbers and every model that has
  versions has listings (`UpdateAssumption`).
- `Settings`: a key is not the absence of one, and there is one
  (`SettingsAssumption`). `Fetching`: a listing has a page, which may be empty
  (`FetchingAssumption`). `IndexCache`: the changes of its host are bounded by a
  number (`IndexAssumption`). `Connections`: the watcher is nobody's client
  (`ConnectionsAssumption`). `CommandLine`: a picker has a row
  (`CommandLineAssumption`). `Templates`: the largest size is a number
  (`CapAssumption`).

TLC evaluates all of them in the runs. `LonePermitIsCancellable` adds that there
is one permit, which is the default; with two the property is finding 2.

**The queue.** None of the properties is inductive. `OneWorkerPerJob` holds
because the loop picks queued rows and the row of a job at work is never queued
(`WorkedRowIsClaimed`). That in turn needs that only Done rows are requeued,
that no second worker of the job records an outcome (`OneWorkerPerJob` again),
and that a job which is picked but not yet marked has no worker
(`PickedHasNoWorker`), which needs a single loop (`OneLoop`). Every id in
memory was handed out before `nextId` (`IdsWereHandedOut`), so an inserted row
is nobody's job. `TasksKnowTheirRow` keeps the types of what a task remembers;
`DownIsEmpty` lets startup conclude that nothing runs. Their conjunction is
`QueueInv`, which `queue_safety` also checks.

The proofs have one lemma per action. Steps of a worker that keep its permit, and steps
of the environment, are each first shown to fit one description (`WorkerStep`,
`EnvironmentStep`) that says what such a step may do to the table; one lemma
per description then preserves the invariant. The loop, the end of a worker, startup and crash
have proofs of their own. `RowsAreKept` rests on the row a dedupe keeps: every
group of duplicates has a least id (`LeastId`), and its row is nobody's duplicate.

**The refinement.** `QueueInv` is enough for every step but one: the loop's
`MarkDownloading` must be a `Claim` of a job that waits or was withdrawn, and
nothing in `QueueInv` says that the row read under the earlier lock is not Done
by now. `PickedRowWaits` says it, and is preserved because only a worker of the
job completes a row (`PickedHasNoWorker`). Each action of the queue has a lemma
that names the board's action it is, or shows that statuses and holders stay.

**The transfers.** `ResumesOwnPrefix` speaks of an open file; whether it holds
after a resume depends on what an earlier attempt, long failed or crashed, left
on disk. `PartialFileIsOwn` says that of the temporary file of a job that
shares its names with nobody, open or not, and `HandlesApart` that no worker of
another job writes into it: an open file is followed through renames, so this is
about handles, not names. `OffsetIsLength` and `BodyIsCounted` tie the offset
asked for, the file and the chunks received to each other. `BodyIsPlaced` says
that a body goes where it belongs unless a rename failed, and then `resume` is 0:
what is on disk is no beginning of the content, but nothing resumes from it under the
name that is asked for, and no digest matches it. `VerifiedIsWhole`
needs besides that what was digested is what is renamed: `VerifiedFileStays`,
which for a shared name holds only with one worker at a time
(`OneWorkerAtLimitOne`), and `ClonesAreOwn` for the clone, whose name is created
and never reused. `DestinationStaysFree` is the part of `ReplacementsAreKnown`
that the code does promise: with one worker, a destination that was looked up
is still free when the file is renamed to it.

**Rows and files.** `FilesStayNamed` speaks of deletions that looked at a row
some time ago, any number of them, and of what others did to that row since: it
says which steps may take a row from a file (`ForgettingIsAccountedFor` and the
lemmas after it) or a file from a row (`FilesLeaveAsAllowed`). It needs to know what a row that waits may
name: nothing, or its own path (`RowsWaitForTheirFile`), since a crash between
the UPDATEs of a commit leaves a path in a row that startup queues again. Repair
is the hard step. It drops rows, one group at a time, as duplicates of the row
that sorts first; by weight and then by id, that row is nobody's duplicate and
names the same file. `MissingAreAccountedFor` is proved of the code as it is:
repair looks for a live row also among those it drops in the same pass, and the
row that stays is found through the dropped one's path. The first attempts at
these two proofs corrected the properties: a dropped row may be accounted for
by a row that is already queued again, which `MissingAreAccountedFor` now says,
and an excuse of `FilesStayNamed` (a worker that has started on the row) was
never needed and is gone.

**The settings.** A key is at one of several places: the file, a copy that a
process has loaded, or the keyring. `MovedKeysAreStored` says that whatever a
writer took out of its copy since it loaded it is in the keyring, and
`StoresAreValues` that what is about to be stored is one; so a save over the
file the writer loaded loses nothing, and one over another file is the excuse
`KeysAreKept` names. `CopiesFollow` is what aliases need in addition.

**The services.** A client that waits has sent one line and will get one answer
(`OneAtATime`), and whoever is in the lock's queue or outside the daemon has
stages left (`StagesAreLeft`). The files of a
listing are the pages before the one that is asked for (`PagesAreJoined` in
`ServicesProofs`), whatever number of retries came in between. What the cache keeps is an index,
unless someone is writing or a bad write came last (`IndexIsKept`): only a writer
changes the file, a writer alone leaves it whole, and `damaged` is set by exactly
the others. Who is answered from the file is answered with that, and who is
answered with a body has fetched it, which is `OutagesAreBridged`. The picker's
cursor is on a row that is drawn (`CursorIsDrawn`) after every key, with the
search open or closed, so the row a key toggles is seen. `PlacementsAreLasting`
rests on the correction of a role by the header being idempotent, and on the
row's recorded role being read as a guess. `ServicesInvariant` goes through
`MachinesRunAlone`: the composition implements the specification of each of its
machines, so their theorems carry over.

**The templates.** Three loops, each of which adds to a result. The files of a
workflow after `k` mentions are those of before, in front, and files that were
mentioned (`After`): a file that is not there yet was never mentioned, so the
first node to declare it decides its role, and what begins with that list keeps
it (`BeginsKeeps`). What a filter leaves has a place of its own in what was
filtered (`FromPlaces`), a bijection, so lengths are numbers of places, and
`ListingsAreAccountedFor` is counting. The queue of a selection accounts for a set
of pairs, a file and a template that asked (`AskedAccounts`); one more pair
either joins an item or adds one (`OneMoreAsked`). Its bytes are a sum over a
set, which the community modules define by a choice of element at each step:
`TotalsAdd` shows that the order chosen does not matter.

**Made provable.** Where induction over data would be needed, the proofs take
the least counterexample instead (`LeastNumber`), which needs no operator as a
parameter. `SelectSeq` and folds are opaque to the provers, so `Filtered` of
`CommandLine` and `Unsplit` of `Placement` use `Keeping` of `Subsequences`, a
recursive function with the same value, as do the bundles and their pruning in
`Templates`; `Mentions`, `AskedBy` and `QueueItems` of that module are recursive
functions too, and `FirstOf` of `Placement` takes the least place that is
present. A recursive function is a choice of something that satisfies its
equation; `SomethingKeeps` and `SomethingIterates` show that something does. None of this changes what is modelled.

**Only model-checked.**

- Everything under fairness: `QueueMakesProgress`, `CancelEndsTransfer`,
  `RetriesSucceed`, `UpdatesAreReported`, `KeyReachesDaemon`, `EveryRequestEnds`.
  Liveness and ENABLED are out of the provers' reach.
- The findings: each is a counterexample, which is what TLC is for.

## 6. Plan

1. A composition of `Transfer` with `DownloadQueue`, whose abstraction
   (a placement is absent or holds its content) is now only argued.
2. An abstract specification of the credential store and of the placements on
   disk, with `Settings` and `Transfer` shown to implement them.

## 7. Not modelled, and limits

- Notifications, the tray's icon and menu, what GPUs and tools print, the
  parsing of arguments and the rendering of answers keep no state the properties
  speak of. The decoding of JSON is left out with the wording of errors.
- Requests that only read (`ListModels`, `ListJobs`, the progress snapshot)
  change nothing. The snapshot reads two locks in turn and can list a job twice.
- Two sources with one name in one directory share a destination and a `.tmp`;
  the queue's model keeps sources apart, and `Transfer` is where they meet.
  Likewise `CloneContent` in the queue lets any completed row hold the same
  bytes, and `Transfer` looks at them.
- The scanner's walk of the directories and the sidecars it writes; `Library`
  has one file at a time in its hands. Migrations of the schema.
- A failing UPDATE (its error is dropped everywhere) and a failing insert of a
  request are not modelled, except the fallback's insert, which ends its search.
- Panics of a task, and a second daemon, which would take over the socket
  (`ipc/server.rs:15`).
