------------------------------ MODULE Catalog ------------------------------
(***************************************************************************)
(* The `jobs` table of the catalog (src/catalog/mod.rs) and the statements *)
(* the daemon runs on it.  Every operator takes the table and returns the  *)
(* table after one `Catalog` method; the callers decide which of them run  *)
(* under one acquisition of the catalog mutex.                             *)
(*                                                                         *)
(* The table is a function from job ids to rows.  A row that was never     *)
(* inserted or was deleted is outside its domain, so an UPDATE by id of    *)
(* such a row changes nothing, as in SQL.  Ids are handed out in insertion *)
(* order, which makes `ORDER BY created_at` the order of the ids           *)
(* (`created_at` is written once, on insertion, and never updated).        *)
(***************************************************************************)
EXTENDS Naturals, FiniteSets

CONSTANTS
    Urls,       \* what can be requested: one URL stands for one CivitAI version,
                \* one CivitAI model without a version, or one other file
    ModelOf,    \* the model id parse_civitai_url finds in a URL, or None
    VersionOf,  \* the version id parse_civitai_url finds in a URL, or None
    Types,      \* directories a model can be filed under (model_type)
    Files,      \* names a user can prefer among the files of a version
    None        \* SQL NULL

JobIds == Nat \ {0}

Statuses == {"queued", "downloading", "verifying", "done", "failed", "cancelled"}
Pending  == {"queued", "downloading", "verifying"}
Reasons  == {"cli_add", "update_available", "startup_scan", "access_denied_fallback"}

\* A placement on disk: which source, filed under which type, under which name.
Paths == [url : Urls, type : Types, file : Files \cup {None}]

ASSUME CatalogAssumption ==
    /\ None \notin Urls \cup Types \cup Files \cup Paths
    /\ DOMAIN ModelOf = Urls
    /\ DOMAIN VersionOf = Urls

Row == [url      : Urls,
        type     : Types \cup {None},
        declared : BOOLEAN,              \* role_override or template_declared_role is set
        file     : Files \cup {None},    \* preferred_file_name
        dest     : Paths \cup {None},
        status   : Statuses,
        reason   : Reasons]

CatalogOK(jobs) ==
    /\ DOMAIN jobs \subseteq JobIds
    /\ jobs \in [DOMAIN jobs -> Row]

----------------------------------------------------------------------------
(* Queries.                                                                *)

WithStatus(jobs, st) == {j \in DOMAIN jobs : jobs[j].status = st}

\* Faulty variant of IsNextQueued: the oldest row that is not done.
IsNextUndone(jobs, j) ==
    /\ j \in DOMAIN jobs
    /\ jobs[j].status # "done"
    /\ \A k \in DOMAIN jobs : jobs[k].status # "done" => j <= k

\* next_queued: ORDER BY created_at ASC LIMIT 1.
IsNextQueued(jobs, j) ==
    /\ j \in WithStatus(jobs, "queued")
    /\ \A k \in WithStatus(jobs, "queued") : j <= k

\* find_active_or_done_job_by_version: a NULL in the request matches every row.
FulfilsRequest(row, url, type, file) ==
    /\ VersionOf[row.url] = VersionOf[url]
    /\ type \in {row.type, None}
    /\ file \in {row.file, None}
    /\ row.status \in Pending \cup {"done"}

HasActiveOrDone(jobs, url, type, file) ==
    /\ VersionOf[url] # None
    /\ \E j \in DOMAIN jobs : FulfilsRequest(jobs[j], url, type, file)

\* get_job_by_version_id: a row of any status.
HasVersion(jobs, url) ==
    \E j \in DOMAIN jobs : VersionOf[jobs[j].url] = VersionOf[url]

DoneJobsForModel(jobs, model) ==
    {j \in WithStatus(jobs, "done") : ModelOf[jobs[j].url] = model}

\* other_jobs_sharing_path.
OthersSharePath(jobs, id, path) ==
    \E k \in DOMAIN jobs \ {id} : jobs[k].dest = path

----------------------------------------------------------------------------
(* Statements on single rows.                                              *)

Insert(jobs, id, row) ==
    [j \in DOMAIN jobs \cup {id} |-> IF j = id THEN row ELSE jobs[j]]

Update(jobs, id, row) ==
    [j \in DOMAIN jobs |-> IF j = id THEN row ELSE jobs[j]]

DeleteJobs(jobs, ids) == [j \in DOMAIN jobs \ ids |-> jobs[j]]

SetStatus(jobs, id, st) == Update(jobs, id, [jobs[id] EXCEPT !.status = st])

SetDest(jobs, id, path) == Update(jobs, id, [jobs[id] EXCEPT !.dest = path])

\* set_model_type, and the part of record_placement other modules can observe.
SetType(jobs, id, type) == Update(jobs, id, [jobs[id] EXCEPT !.type = type])

\* What enqueue_with_placement inserts.
NewRow(url, type, declared, file, reason) ==
    [url |-> url, type |-> type, declared |-> declared, file |-> file,
     dest |-> None, status |-> "queued", reason |-> reason]

\* What register_existing inserts for a file found on disk.
ScannedRow(path) ==
    [url |-> path.url, type |-> path.type, declared |-> FALSE, file |-> None,
     dest |-> path, status |-> "done", reason |-> "startup_scan"]

\* enqueue_with_placement: an active or completed row answers the request.
Enqueue(jobs, id, row) ==
    IF HasActiveOrDone(jobs, row.url, row.type, row.file)
    THEN jobs
    ELSE Insert(jobs, id, row)

\* register_existing: a path the catalog names gains no second row.
RegisterExisting(jobs, id, path) ==
    IF \E j \in DOMAIN jobs : jobs[j].dest = path
    THEN jobs
    ELSE Insert(jobs, id, ScannedRow(path))

----------------------------------------------------------------------------
(* Statements on the whole table.                                          *)

\* dedupe_done_jobs groups by version, else by destination path.
SameDedupKey(a, b) ==
    /\ VersionOf[a.url] = VersionOf[b.url]
    /\ VersionOf[a.url] # None \/ (a.dest # None /\ a.dest = b.dest)

\* Faulty variant of KeptBefore: a row counts as a duplicate of itself.
KeptBeforeOrSame(jobs, k, j) ==
    \/ jobs[k].dest # None /\ jobs[j].dest = None
    \/ (jobs[k].dest = None <=> jobs[j].dest = None) /\ k <= j

\* Canonical row first: a recorded dest_path, then the earliest created_at.
KeptBefore(jobs, k, j) ==
    \/ jobs[k].dest # None /\ jobs[j].dest = None
    \/ (jobs[k].dest = None <=> jobs[j].dest = None) /\ k < j

Superseded(jobs) ==
    {j \in WithStatus(jobs, "done") :
        \E k \in WithStatus(jobs, "done") :
            SameDedupKey(jobs[k], jobs[j]) /\ KeptBefore(jobs, k, j)}

DedupeDone(jobs) == DeleteJobs(jobs, Superseded(jobs))

\* cancel_redundant_pending_jobs.
IsRedundant(jobs, j) ==
    /\ jobs[j].status \in Pending
    /\ VersionOf[jobs[j].url] # None
    /\ \E d \in WithStatus(jobs, "done") : VersionOf[jobs[d].url] = VersionOf[jobs[j].url]

CancelRedundant(jobs) ==
    [j \in DOMAIN jobs |->
        IF IsRedundant(jobs, j) THEN [jobs[j] EXCEPT !.status = "cancelled"] ELSE jobs[j]]

\* requeue_interrupted.
RequeueInterrupted(jobs) ==
    [j \in DOMAIN jobs |->
        IF jobs[j].status \in {"downloading", "verifying"}
        THEN [jobs[j] EXCEPT !.status = "queued"]
        ELSE jobs[j]]

Requeued(row) == [row EXCEPT !.status = "queued", !.dest = None]

\* Faulty variant of CanRequeueOne: the row's state is not looked at.
CanRequeueAny(jobs, id) == id \in DOMAIN jobs

\* requeue_one: only a Done row, anything else is an error.
CanRequeueOne(jobs, id) == id \in WithStatus(jobs, "done")

RequeueOne(jobs, id) == Update(jobs, id, Requeued(jobs[id]))

\* Faulty variant of RequeueDone: rows of any status are candidates.
RequeueAll(jobs, onlyMissing, disk) ==
    LET kept == DedupeDone(jobs)
    IN  [j \in DOMAIN kept |->
            IF onlyMissing => kept[j].dest \notin disk THEN Requeued(kept[j]) ELSE kept[j]]

\* requeue_done: dedupes, then requeues every Done row, or only those whose
\* file is not on disk.
RequeueDone(jobs, onlyMissing, disk) ==
    LET kept == DedupeDone(jobs)
    IN  [j \in DOMAIN kept |->
            IF /\ kept[j].status = "done"
               /\ onlyMissing => kept[j].dest \notin disk
            THEN Requeued(kept[j])
            ELSE kept[j]]

=============================================================================
