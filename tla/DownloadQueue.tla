--------------------------- MODULE DownloadQueue ---------------------------
(***************************************************************************)
(* The daemon's download queue: the loop of src/daemon/queue.rs, the       *)
(* worker tasks it spawns (src/daemon/downloader.rs, reduced to the points *)
(* where a worker meets the rest of the daemon), the IPC requests that     *)
(* change the catalog (src/daemon/mod.rs), the scanner's registrations,    *)
(* the startup recovery, and crashes.                                      *)
(*                                                                         *)
(* Each action runs between two acquisitions of a mutex: the catalog, the  *)
(* ActiveTasks map and the progress map have a mutex each, every handler   *)
(* and worker is a task of its own, and whatever is not under one lock     *)
(* interleaves.  A semaphore permit is a member of Slots: the loop takes   *)
(* one before it looks for work and the worker keeps it until it ends, so  *)
(* a slot also names the worker and its cancellation token.                *)
(***************************************************************************)
EXTENDS Catalog, Sequences

CONSTANTS
    Slots,            \* the permits: max_concurrent_downloads of them
    Listing,          \* the versions of a model in the order CivitAI lists them
    Requests,         \* [url, type, file] users ask for
    InitialCatalogs,  \* tables an earlier run of the daemon left behind
    StrayFiles,       \* model files on disk that no row names at the start
    MaxJobs           \* bound on the rows ever inserted

ASSUME SlotsAssumption == Slots # {} /\ IsFiniteSet(Slots)

ASSUME RequestsAssumption ==
    Requests \subseteq
        [url : Urls, type : Types \cup {None}, file : Files \cup {None}]

ASSUME ListingAssumption ==
    \A url \in Urls :
        ModelOf[url] # None => Listing[ModelOf[url]] \in Seq(Urls)

ASSUME BoundsAssumption == MaxJobs \in Nat

ASSUME StrayFilesAssumption == StrayFiles \subseteq Paths

\* A table of an earlier run: rows 1..n, and a Done row names its file.
ASSUME InitialCatalogsAssumption ==
    \A table \in InitialCatalogs :
        /\ CatalogOK(table)
        /\ \E n \in 0..MaxJobs : DOMAIN table = 1..n
        /\ \A j \in WithStatus(table, "done") : table[j].dest # None

VARIABLES
    up,          \* is the daemon running, its startup recovery done
    jobs,        \* the catalog's table
    nextId,      \* id of the next row inserted
    disk,        \* the placements on disk
    phase,       \* per slot: where its permit holder is
    task,        \* per slot: the job picked, 0 for none
    snapshot,    \* per slot: the row as next_queued returned it
    role,        \* per slot: the type a finished transfer was filed under
    cursor,      \* per slot: index of the fallback candidate under test
    token,       \* per slot: has its CancellationToken been cancelled
    active,      \* ActiveTasks: job id -> slot whose token cancels it
    progress,    \* ids with an entry in the ProgressMap
    originals,   \* done_jobs of the update the loop is about to skip
    request      \* the IPC request between its two locks, if any

slotVars == <<phase, task, snapshot, role, cursor, token>>
memory   == <<slotVars, active, progress, originals, request>>
vars     == <<up, jobs, nextId, disk, memory>>

LoopPhases == {"picked", "skipping", "cleared", "marked"}
TransferPhases == {"resolving", "streaming"}
PublishedPhases == {"placed", "succeeded"}
TailPhases == {"fallback", "candidates", "substitute", "finished", "released"}
Phases == {"free"} \cup LoopPhases \cup TransferPhases \cup PublishedPhases \cup TailPhases

\* From set_status(Downloading) to the statement that records the outcome.
WorkPhases == {"marked"} \cup TransferPhases \cup PublishedPhases

Working(s) == phase[s] \in WorkPhases

\* Cancel and DeleteModel lock twice.  One such request is in flight at a time.
NoRequest == [kind |-> "none", id |-> 0, path |-> None]
CancelRequest(j) == [kind |-> "cancel", id |-> j, path |-> None]
DeleteRequest(j, path) == [kind |-> "delete", id |-> j, path |-> path]

TypeOK ==
    /\ up \in BOOLEAN
    /\ CatalogOK(jobs)
    /\ nextId \in JobIds
    /\ \A j \in DOMAIN jobs : j < nextId
    /\ disk \subseteq Paths
    /\ phase \in [Slots -> Phases]
    /\ task \in [Slots -> Nat]
    /\ snapshot \in [Slots -> Row \cup {None}]
    /\ role \in [Slots -> Types \cup {None}]
    /\ cursor \in [Slots -> Nat]
    /\ token \in [Slots -> BOOLEAN]
    /\ DOMAIN active \subseteq JobIds
    /\ active \in [DOMAIN active -> Slots]
    /\ progress \subseteq JobIds
    /\ originals \subseteq JobIds
    /\ request \in [kind : {"none", "cancel", "delete"}, id : Nat,
                    path : Paths \cup {None}]

EmptyMemory ==
    /\ phase = [s \in Slots |-> "free"]
    /\ task = [s \in Slots |-> 0]
    /\ snapshot = [s \in Slots |-> None]
    /\ role = [s \in Slots |-> None]
    /\ cursor = [s \in Slots |-> 0]
    /\ token = [s \in Slots |-> FALSE]
    /\ active = [j \in {} |-> 0]
    /\ progress = {}
    /\ originals = {}
    /\ request = NoRequest

Named(table) == {table[j].dest : j \in DOMAIN table} \ {None}

Init ==
    /\ up = FALSE
    /\ jobs \in InitialCatalogs
    /\ \E n \in 0..MaxJobs : DOMAIN jobs = 1..n /\ nextId = n + 1
    /\ \E present \in SUBSET Named(jobs) : disk = StrayFiles \cup present
    /\ EmptyMemory

----------------------------------------------------------------------------
(* Crash and startup.                                                      *)

\* The destination and type `t` of the transfer in slot `s`.
DestOf(s, t) == [url |-> snapshot[s].url, type |-> t, file |-> snapshot[s].file]

\* Faulty variant of CrashDuringCommit: the status is the first UPDATE.
CrashAfterStatus(s) ==
    /\ phase[s] = "succeeded"
    /\ jobs' = SetStatus(jobs, task[s], "done")

\* A worker's commit is several statements outside a transaction, the status
\* last: a crash may keep the destination, and the type, without it.
CrashDuringCommit(s) ==
    /\ phase[s] = "succeeded"
    /\ LET placed == SetDest(jobs, task[s], DestOf(s, role[s]))
       IN  jobs' \in {placed, SetType(placed, task[s], role[s])}

LoseMemory ==
    /\ phase' = [s \in Slots |-> "free"]
    /\ task' = [s \in Slots |-> 0]
    /\ snapshot' = [s \in Slots |-> None]
    /\ role' = [s \in Slots |-> None]
    /\ cursor' = [s \in Slots |-> 0]
    /\ token' = [s \in Slots |-> FALSE]
    /\ active' = [j \in {} |-> 0]
    /\ progress' = {}
    /\ originals' = {}
    /\ request' = NoRequest

Crash ==
    /\ up
    /\ up' = FALSE
    /\ LoseMemory
    /\ \/ UNCHANGED jobs
       \/ \E s \in Slots : CrashDuringCommit(s)
    /\ UNCHANGED <<nextId, disk>>

\* Faulty variants of Recovered: one of the three statements is left out.
BootWithoutCancelling(table) == RequeueInterrupted(DedupeDone(table))
BootWithoutRequeueing(table) == CancelRedundant(DedupeDone(table))

\* The three recovery statements run under one lock, before any task starts.
Recovered(table) == RequeueInterrupted(CancelRedundant(DedupeDone(table)))

Boot ==
    /\ ~up
    /\ up' = TRUE
    /\ jobs' = Recovered(jobs)
    /\ UNCHANGED <<nextId, disk, memory>>

----------------------------------------------------------------------------
(* The queue loop.  It is one task: at most one slot is in a loop phase.   *)

Advance(s, p) == phase' = [phase EXCEPT ![s] = p]

Release(s) ==
    /\ Advance(s, "free")
    /\ task' = [task EXCEPT ![s] = 0]
    /\ snapshot' = [snapshot EXCEPT ![s] = None]
    /\ role' = [role EXCEPT ![s] = None]
    /\ cursor' = [cursor EXCEPT ![s] = 0]
    /\ token' = [token EXCEPT ![s] = FALSE]

\* Acquire a permit, then next_queued.  When nothing is queued the permit is
\* dropped again and the loop sleeps, which changes nothing.
PickJob(s, j) ==
    /\ up
    /\ phase[s] = "free"
    /\ \A other \in Slots : phase[other] \notin LoopPhases
    /\ IsNextQueued(jobs, j)
    /\ Advance(s, "picked")
    /\ task' = [task EXCEPT ![s] = j]
    /\ snapshot' = [snapshot EXCEPT ![s] = jobs[j]]
    /\ UNCHANGED <<up, jobs, nextId, disk, role, cursor, token, active, progress,
                   originals, request>>

IsUpdate(row) == row.reason = "update_available" /\ ModelOf[row.url] # None

AllMissing(done) ==
    LET tracked == {j \in done : jobs[j].dest # None}
    IN  tracked # {} /\ \A j \in tracked : jobs[j].dest \notin disk

\* done_jobs_for_model under the lock; the files are looked up after it.
CheckOriginals(s) ==
    /\ phase[s] = "picked"
    /\ IsUpdate(snapshot[s])
    /\ LET done == DoneJobsForModel(jobs, ModelOf[snapshot[s].url])
       IN  IF AllMissing(done)
           THEN Advance(s, "skipping") /\ originals' = done
           ELSE Advance(s, "cleared") /\ UNCHANGED originals
    /\ UNCHANGED <<up, jobs, nextId, disk, task, snapshot, role, cursor, token,
                   active, progress, request>>

SkipUpdate(s) ==
    /\ phase[s] = "skipping"
    /\ jobs' = DeleteJobs(jobs, originals \cup {task[s]})
    /\ originals' = {}
    /\ Release(s)
    /\ UNCHANGED <<up, nextId, disk, active, progress, request>>

MarkDownloading(s) ==
    /\ \/ phase[s] = "picked" /\ ~IsUpdate(snapshot[s])
       \/ phase[s] = "cleared"
    /\ jobs' = SetStatus(jobs, task[s], "downloading")
    /\ Advance(s, "marked")
    /\ UNCHANGED <<up, nextId, disk, task, snapshot, role, cursor, token, active,
                   progress, originals, request>>

\* Faulty variant of Spawn: the token is not registered.
SpawnUnregistered(s) ==
    /\ phase[s] = "marked"
    /\ Advance(s, "resolving")
    /\ UNCHANGED <<up, jobs, nextId, disk, task, snapshot, role, cursor, token,
                   active, progress, originals, request>>

\* A fresh token replaces whatever the map held for this job; then the task
\* is spawned and the loop goes on.
Spawn(s) ==
    /\ phase[s] = "marked"
    /\ active' = [j \in DOMAIN active \cup {task[s]} |->
                    IF j = task[s] THEN s ELSE active[j]]
    /\ Advance(s, "resolving")
    /\ UNCHANGED <<up, jobs, nextId, disk, task, snapshot, role, cursor, token,
                   progress, originals, request>>

LoopStep(s) ==
    \/ \E j \in DOMAIN jobs : PickJob(s, j)
    \/ CheckOriginals(s)
    \/ SkipUpdate(s)
    \/ MarkDownloading(s)
    \/ Spawn(s)

----------------------------------------------------------------------------
(* A worker: downloader::download, then the match on its result.           *)

workerFrame == <<up, nextId, originals, request>>

\* The directory the placement rules choose: a declared type stands, an
\* inferred one depends on the source and on the content.
MayBeFiledUnder(row, t) == row.declared => t = row.type

\* The destination already holds the content, verified by its digest.
FindContent(s) ==
    /\ phase[s] = "resolving"
    /\ \E t \in Types :
          /\ MayBeFiledUnder(snapshot[s], t)
          /\ DestOf(s, t) \in disk
          /\ role' = [role EXCEPT ![s] = t]
    /\ Advance(s, "succeeded")
    /\ UNCHANGED <<workerFrame, jobs, disk, task, snapshot, cursor, token, active, progress>>

\* Another completed job turns out to hold the same bytes in a file that is
\* still there, and the file is cloned.
CloneContent(s) ==
    /\ phase[s] = "resolving"
    /\ \E k \in WithStatus(jobs, "done") \ {task[s]} : jobs[k].dest \in disk
    /\ \E t \in Types :
          /\ MayBeFiledUnder(snapshot[s], t)
          /\ DestOf(s, t) \notin disk
          /\ disk' = disk \cup {DestOf(s, t)}
          /\ role' = [role EXCEPT ![s] = t]
    /\ Advance(s, "placed")
    /\ UNCHANGED <<workerFrame, jobs, task, snapshot, cursor, token, active, progress>>

OpenStream(s) ==
    /\ phase[s] = "resolving"
    /\ Advance(s, "streaming")
    /\ progress' = progress \cup {task[s]}
    /\ UNCHANGED <<workerFrame, jobs, disk, task, snapshot, role, cursor, token, active>>

\* The worker's last steps need its job's id alone.
Finish(s) ==
    /\ Advance(s, "finished")
    /\ snapshot' = [snapshot EXCEPT ![s] = None]
    /\ role' = [role EXCEPT ![s] = None]
    /\ cursor' = [cursor EXCEPT ![s] = 0]

\* The outcome of a worker that fails is recorded with the step that fails it:
\* nothing it shares with other tasks changes in between.
RecordOutcome(s, st) ==
    /\ jobs' = SetStatus(jobs, task[s], st)
    /\ UNCHANGED <<workerFrame, disk, task, token, active, progress>>

\* HTTP 401 or 403 from the API, or from the file's host unless it is
\* HuggingFace, whose refusal is an error like any other.
Deny(s) ==
    /\ phase[s] = "resolving"
    /\ RecordOutcome(s, "failed")
    /\ Advance(s, "fallback")
    /\ UNCHANGED <<snapshot, role, cursor>>

\* Every other error: resolution, occupied destination, disk space, HTTP status,
\* a broken chunk, a checksum mismatch, a file that is not a model.
Fail(s) ==
    /\ phase[s] \in TransferPhases
    /\ RecordOutcome(s, "failed")
    /\ Finish(s)

\* Faulty variant of ObserveCancel: the token is looked at once, before the stream.
ObserveCancelEarly(s) ==
    /\ phase[s] = "resolving"
    /\ token[s]
    /\ RecordOutcome(s, "cancelled")
    /\ Finish(s)

\* The token is looked at while chunks are awaited, and nowhere else.
ObserveCancel(s) ==
    /\ phase[s] = "streaming"
    /\ token[s]
    /\ RecordOutcome(s, "cancelled")
    /\ Finish(s)

\* The last chunk arrives (the select! between it and a cancelled token is
\* unbiased), the digest is verified and the temporary file is renamed to its
\* destination, over whatever is there.
Publish(s) ==
    /\ phase[s] = "streaming"
    /\ \E t \in Types :
          /\ MayBeFiledUnder(snapshot[s], t)
          /\ disk' = disk \cup {DestOf(s, t)}
          /\ role' = [role EXCEPT ![s] = t]
    /\ Advance(s, "placed")
    /\ UNCHANGED <<workerFrame, jobs, task, snapshot, cursor, token, active, progress>>

\* record_placement, before sidecars and preview are written.
RecordPlacement(s) ==
    /\ phase[s] = "placed"
    /\ jobs' = SetType(jobs, task[s], role[s])
    /\ Advance(s, "succeeded")
    /\ UNCHANGED <<workerFrame, disk, task, snapshot, role, cursor, token, active, progress>>

\* The preview's download, which nothing times out, comes first.
CommitDone(s) ==
    /\ phase[s] = "succeeded"
    /\ jobs' = SetStatus(SetType(SetDest(jobs, task[s], DestOf(s, role[s])),
                                 task[s], role[s]),
                         task[s], "done")
    /\ Finish(s)
    /\ UNCHANGED <<workerFrame, disk, task, token, active, progress>>

----------------------------------------------------------------------------
(* try_enqueue_fallback_version, after an access-denied failure.           *)

Candidates(s) == Listing[ModelOf[snapshot[s].url]]

\* The first version listed after the denied one, or the first of all when the
\* denied one is not listed.
FirstCandidate(s) ==
    LET denied == {i \in DOMAIN Candidates(s) :
                      VersionOf[Candidates(s)[i]] = VersionOf[snapshot[s].url]}
    IN  IF denied = {} THEN {1} ELSE {i + 1 : i \in denied}

AskForVersions(s) ==
    /\ phase[s] = "fallback"
    /\ ModelOf[snapshot[s].url] # None
    /\ \E i \in FirstCandidate(s) : cursor' = [cursor EXCEPT ![s] = i]
    /\ Advance(s, "candidates")
    /\ UNCHANGED <<workerFrame, jobs, disk, task, snapshot, role, token, active, progress>>

VersionsUnavailable(s) ==
    /\ phase[s] = "fallback"
    /\ ModelOf[snapshot[s].url] # None
    /\ Finish(s)
    /\ UNCHANGED <<workerFrame, jobs, disk, task, token, active, progress>>

\* No model id, or no candidate left.
GiveUpFallback(s) ==
    /\ \/ phase[s] = "fallback" /\ ModelOf[snapshot[s].url] = None
       \/ phase[s] = "candidates" /\ cursor[s] > Len(Candidates(s))
    /\ Finish(s)
    /\ UNCHANGED <<workerFrame, jobs, disk, task, token, active, progress>>

\* Faulty variant of TestCandidate: a known version is tested over and over.
RetestCandidate(s) ==
    /\ phase[s] = "candidates"
    /\ cursor[s] <= Len(Candidates(s))
    /\ ~HasVersion(jobs, Candidates(s)[cursor[s]])
    /\ Advance(s, "substitute")
    /\ UNCHANGED <<workerFrame, jobs, disk, task, snapshot, role, cursor, token,
                   active, progress>>

\* A version the catalog knows in any state is passed over.
TestCandidate(s) ==
    /\ phase[s] = "candidates"
    /\ cursor[s] <= Len(Candidates(s))
    /\ IF HasVersion(jobs, Candidates(s)[cursor[s]])
       THEN cursor' = [cursor EXCEPT ![s] = @ + 1] /\ UNCHANGED phase
       ELSE Advance(s, "substitute") /\ UNCHANGED cursor
    /\ UNCHANGED <<workerFrame, jobs, disk, task, snapshot, role, token, active, progress>>

\* Faulty variant of Request: the id of the new row is not used up.
RequestReusingId(url, type, declared, file, reason) ==
    /\ jobs' = Enqueue(jobs, nextId, NewRow(url, type, declared, file, reason))
    /\ UNCHANGED nextId

\* Insert a row unless an active or completed one answers the request.
Request(url, type, declared, file, reason) ==
    /\ jobs' = Enqueue(jobs, nextId, NewRow(url, type, declared, file, reason))
    /\ nextId' = IF jobs' = jobs THEN nextId ELSE nextId + 1
    /\ nextId' <= MaxJobs + 1

\* The error of an INSERT that fails is dropped and ends the search as well.
EnqueueFallback(s) ==
    /\ phase[s] = "substitute"
    /\ \/ Request(Candidates(s)[cursor[s]], snapshot[s].type, FALSE, None,
                  "access_denied_fallback")
       \/ UNCHANGED <<jobs, nextId>>
    /\ Finish(s)
    /\ UNCHANGED <<up, disk, task, token, active, progress, originals, request>>

\* Faulty variant of RemoveToken: the entry stays.
LeaveToken(s) ==
    /\ phase[s] = "finished"
    /\ Advance(s, "released")
    /\ UNCHANGED <<workerFrame, jobs, disk, task, snapshot, role, cursor, token,
                   active, progress>>

\* active.remove(&job_id): by job, whoever's token is there.
RemoveToken(s) ==
    /\ phase[s] = "finished"
    /\ active' = [j \in DOMAIN active \ {task[s]} |-> active[j]]
    /\ Advance(s, "released")
    /\ UNCHANGED <<workerFrame, jobs, disk, task, snapshot, role, cursor, token, progress>>

\* Faulty variant of EndWorker: the progress entry stays.
EndWorkerLeavingProgress(s) ==
    /\ phase[s] = "released"
    /\ Release(s)
    /\ UNCHANGED <<workerFrame, jobs, disk, active, progress>>

\* The progress entry goes, then the task ends and its permit is released.
EndWorker(s) ==
    /\ phase[s] = "released"
    /\ progress' = progress \ {task[s]}
    /\ Release(s)
    /\ UNCHANGED <<workerFrame, jobs, disk, active>>

\* Steps that wait for a server to answer, or to send the rest of a file.
NetworkStep(s) ==
    \/ FindContent(s)
    \/ CloneContent(s)
    \/ OpenStream(s)
    \/ Deny(s)
    \/ Fail(s)
    \/ Publish(s)
    \/ CommitDone(s)
    \/ AskForVersions(s)
    \/ VersionsUnavailable(s)

\* Steps that wait for a lock or for local input and output only.
LocalStep(s) ==
    \/ ObserveCancel(s)
    \/ RecordPlacement(s)
    \/ GiveUpFallback(s)
    \/ TestCandidate(s)
    \/ EnqueueFallback(s)
    \/ RemoveToken(s)
    \/ EndWorker(s)

----------------------------------------------------------------------------
(* IPC requests, the scanner, and the user's own hands on the disk.        *)

AddDownload(r) ==
    /\ up
    /\ Request(r.url, r.type, r.type # None, r.file, "cli_add")
    /\ UNCHANGED <<up, disk, memory>>

\* Cancel of a job with a token answers once the token is cancelled.
CancelActive(j) ==
    /\ up
    /\ j \in DOMAIN active
    /\ token' = [token EXCEPT ![active[j]] = TRUE]
    /\ UNCHANGED <<up, jobs, nextId, disk, phase, task, snapshot, role, cursor,
                   active, progress, originals, request>>

\* Without one the handler lets go of the map before it locks the catalog.
CancelLookup(j) ==
    /\ up
    /\ request = NoRequest
    /\ j \notin DOMAIN active
    /\ request' = CancelRequest(j)
    /\ UNCHANGED <<up, jobs, nextId, disk, slotVars, active, progress, originals>>

CancelRow ==
    /\ request.kind = "cancel"
    /\ jobs' = SetStatus(jobs, request.id, "cancelled")
    /\ request' = NoRequest
    /\ UNCHANGED <<up, nextId, disk, slotVars, active, progress, originals>>

RedownloadMissing(all) ==
    /\ up
    /\ jobs' = RequeueDone(jobs, ~all, disk)
    /\ UNCHANGED <<up, nextId, disk, memory>>

RedownloadModel(j) ==
    /\ up
    /\ CanRequeueOne(jobs, j)
    /\ jobs' = RequeueOne(jobs, j)
    /\ UNCHANGED <<up, nextId, disk, memory>>

\* DeleteModel lists the file only when no other row names it, lets go of the
\* catalog to unlink it, and takes the catalog again to drop the row.
DeleteModel(j) ==
    /\ up
    /\ request = NoRequest
    /\ request' = DeleteRequest(j, IF OthersSharePath(jobs, j, jobs[j].dest)
                                    THEN None ELSE jobs[j].dest)
    /\ UNCHANGED <<up, jobs, nextId, disk, slotVars, active, progress, originals>>

ForgetModel ==
    /\ request.kind = "delete"
    /\ disk' = disk \ {request.path}
    /\ jobs' = DeleteJobs(jobs, {request.id})
    /\ request' = NoRequest
    /\ UNCHANGED <<up, nextId, slotVars, active, progress, originals>>

\* An unlink failed, of the model or of a sidecar after it: the row is kept.
KeepModel ==
    /\ request.kind = "delete"
    /\ request.path # None
    /\ disk' \in {disk, disk \ {request.path}}
    /\ request' = NoRequest
    /\ UNCHANGED <<up, jobs, nextId, slotVars, active, progress, originals>>

ScanFile(path) ==
    /\ up
    /\ path \in disk
    /\ jobs' = RegisterExisting(jobs, nextId, path)
    /\ nextId' = IF jobs' = jobs THEN nextId ELSE nextId + 1
    /\ nextId' <= MaxJobs + 1
    /\ UNCHANGED <<up, disk, memory>>

UserRemovesFile(path) ==
    /\ path \in disk
    /\ disk' = disk \ {path}
    /\ UNCHANGED <<up, jobs, nextId, memory>>

Environment ==
    \/ \E r \in Requests : AddDownload(r)
    \/ \E j \in DOMAIN active : CancelActive(j)
    \/ \E j \in DOMAIN jobs : CancelLookup(j)
    \/ CancelRow
    \/ \E all \in BOOLEAN : RedownloadMissing(all)
    \/ \E j \in DOMAIN jobs : RedownloadModel(j)
    \/ \E j \in DOMAIN jobs : DeleteModel(j)
    \/ ForgetModel
    \/ KeepModel
    \/ \E path \in disk : ScanFile(path)
    \/ \E path \in disk : UserRemovesFile(path)

Next ==
    \/ Crash
    \/ Boot
    \/ \E s \in Slots : LoopStep(s) \/ NetworkStep(s) \/ LocalStep(s)
    \/ Environment

Spec == Init /\ [][Next]_vars

\* The runtime schedules every ready task; nothing makes a server answer.
Fairness ==
    /\ WF_vars(Boot)
    /\ WF_vars(\E s \in Slots : LoopStep(s))
    /\ \A s \in Slots : WF_vars(LocalStep(s))

FairSpec == Spec /\ Fairness

----------------------------------------------------------------------------
(* Safety.                                                                 *)

\* No two workers transfer one job: between next_queued and set_status the
\* loop holds no lock, and a job can be requeued while its last worker is
\* still cleaning up (queue.rs run, catalog requeue_one and requeue_done).
OneWorkerPerJob ==
    \A a, b \in Slots : Working(a) /\ Working(b) /\ task[a] = task[b] => a = b

\* While a worker has not recorded its outcome, the row it works on says so,
\* was cancelled under it, or is gone: nothing can requeue or complete it.
WorkedRowIsClaimed ==
    \A s \in Slots :
        Working(s) /\ task[s] \in DOMAIN jobs =>
            jobs[task[s]].status \in {"downloading", "cancelled"}

\* No row is stranded: while the daemon runs, a `downloading` row has a
\* worker that will record its outcome (the claim of requeue_interrupted).
DownloadingHasWorker ==
    up => \A j \in WithStatus(jobs, "downloading") :
             \E s \in Slots : Working(s) /\ task[s] = j

\* A token in ActiveTasks belongs to a task that has not ended and that works
\* on the job it is filed under, so no Cancel is answered on behalf of a task
\* that is gone, or reaches another job's transfer.
TokensBelongToTasks ==
    \A j \in DOMAIN active :
        /\ phase[active[j]] \notin {"free", "released"} \cup LoopPhases
        /\ task[active[j]] = j

\* A progress entry belongs to a task that has not ended: the status display
\* shows no transfer that is over.
ProgressHasTask ==
    \A j \in progress : \E s \in Slots : phase[s] # "free" /\ task[s] = j

\* A completed row names its file, whatever a crash in the middle of the
\* worker's three UPDATEs left behind.
DoneNamesFile ==
    \A j \in WithStatus(jobs, "done") : jobs[j].dest # None

\* A running transfer can be cancelled: its token is in ActiveTasks.
RunningIsCancellable ==
    \A s \in Slots :
        phase[s] \in TransferPhases =>
            task[s] \in DOMAIN active /\ active[task[s]] = s

\* The inductive invariant: the safety properties and what makes them hold.
\* The loop holds at most one permit; a daemon that is down has no task; ids
\* in memory were handed out; a job the loop has picked but not yet marked has
\* no worker; a task past a given point still knows its row and its role; and the
\* fallback candidate under test is one of the listing.
OneLoop ==
    \A a, b \in Slots : phase[a] \in LoopPhases /\ phase[b] \in LoopPhases => a = b

DownIsEmpty ==
    ~up => /\ \A s \in Slots : phase[s] = "free"
           /\ active = [j \in {} |-> 0] /\ progress = {} /\ request = NoRequest

IdsWereHandedOut ==
    /\ \A s \in Slots : task[s] < nextId /\ (phase[s] # "free" => task[s] # 0)
    /\ \A j \in originals : j < nextId
    /\ request.id < nextId

PickedHasNoWorker ==
    \A a, b \in Slots :
        phase[a] \in LoopPhases \ {"marked"} /\ Working(b) => task[a] # task[b]

KnowsItsRow(s) ==
    /\ phase[s] \notin {"free", "finished", "released"} => snapshot[s] \in Row
    /\ phase[s] \in PublishedPhases => role[s] \in Types
    /\ phase[s] \in {"candidates", "substitute"} =>
          ModelOf[snapshot[s].url] # None /\ cursor[s] # 0
    /\ phase[s] = "substitute" => cursor[s] <= Len(Candidates(s))

TasksKnowTheirRow == \A s \in Slots : KnowsItsRow(s)

ProgressHasWorker ==
    \A j \in progress :
        \E s \in Slots : phase[s] \notin LoopPhases \cup {"free"} /\ task[s] = j

QueueInv ==
    /\ TypeOK
    /\ OneLoop
    /\ DownIsEmpty
    /\ IdsWereHandedOut
    /\ TasksKnowTheirRow
    /\ PickedHasNoWorker
    /\ OneWorkerPerJob
    /\ WorkedRowIsClaimed
    /\ DownloadingHasWorker
    /\ TokensBelongToTasks
    /\ ProgressHasWorker
    /\ DoneNamesFile

----------------------------------------------------------------------------
(* Action properties.                                                      *)

\* Restarting never sends a version to the queue that is already completed:
\* the three recovery statements run in the order that makes it so.
BootQueuesNothingCompleted ==
    [][~up /\ up' =>
          \A j \in WithStatus(jobs, "queued")' :
              VersionOf[jobs'[j].url] # None =>
                  \A d \in WithStatus(jobs, "done")' :
                      VersionOf[jobs'[d].url] # VersionOf[jobs'[j].url]]_vars

\* A row leaves the catalog only by the user's DeleteModel, by the update that
\* is skipped because every file of its model is gone, or because another
\* completed row of the same version or path stays.
RowsAreNotLost ==
    [][\A j \in DOMAIN jobs \ DOMAIN jobs' :
          \/ request = DeleteRequest(j, request.path)
          \/ \E s \in Slots : phase[s] = "skipping" /\ j \in originals \cup {task[s]}
          \/ \E k \in DOMAIN jobs' :
                /\ jobs[k].status = "done"
                /\ SameDedupKey(jobs[k], jobs[j])]_vars

\* A cancelled row stays cancelled: the lifecycle the architecture document
\* draws has no arrow that leaves `Cancelled`.
CancelIsFinal ==
    [][\A j \in WithStatus(jobs, "cancelled") :
          j \in DOMAIN jobs' => jobs'[j].status = "cancelled"]_vars

\* A row the user sent back to the queue is not dropped by the queue: it leaves
\* only by DeleteModel, or as the very update the loop skips (requeue_one and
\* requeue_done against the loop's look at the originals of an update).
QueuedRowsAreKept ==
    [][\A j \in WithStatus(jobs, "queued") :
          \/ j \in DOMAIN jobs'
          \/ request = DeleteRequest(j, request.path)
          \/ \E s \in Slots : phase[s] = "skipping" /\ j = task[s]]_vars

\* A restart forgets no placement: a file on disk that a completed row named
\* before is named by a row after.
RestartKeepsPlacements ==
    [][~up /\ up' =>
          \A j \in WithStatus(jobs, "done") :
              jobs[j].dest \in disk => jobs[j].dest \in Named(jobs')]_vars

----------------------------------------------------------------------------
(* Liveness.                                                               *)

\* Every answer a worker waits for arrives: assumed of the servers where a
\* property says so, since the transfer has no timeout.
ServersAnswer == \A s \in Slots : WF_vars(NetworkStep(s))

StaysUp == <>[]up

\* While the daemon stays up and the servers answer, a queued job never waits
\* in vain: the loop starts some job, or the queue empties.
QueueMakesProgress ==
    StaysUp /\ ServersAnswer =>
        (WithStatus(jobs, "queued") # {} ~>
            \/ WithStatus(jobs, "queued") = {}
            \/ \E s \in Slots : phase[s] = "marked")

\* Cancelling a transfer ends it even when the server has gone silent, for no
\* answer is assumed: its permit is free again, unless the last byte was already
\* there and the file is published.
CancelEndsTransfer ==
    StaysUp =>
        \A s \in Slots :
            phase[s] = "streaming" /\ token[s] ~> phase[s] \in {"free", "placed"}

=============================================================================
