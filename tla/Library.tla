------------------------------ MODULE Library ------------------------------
(***************************************************************************)
(* The model files on disk, their sidecars and the catalog's rows, as the  *)
(* daemon keeps them together once downloads are done: the deletion of a   *)
(* model (src/daemon/mod.rs, src/catalog/mod.rs), `doctor` and its repair, *)
(* the startup scan (src/daemon/scanner.rs) and the requests that send     *)
(* rows back to the queue.  The queue itself is reduced to its effect: a   *)
(* queued row's file appears, later the row is completed, or it fails.     *)
(*                                                                         *)
(* A file's content is the URL it was downloaded from.  A sidecar is named *)
(* by the stem of its model file, so two files of a directory may share it.*)
(***************************************************************************)
EXTENDS Catalog

CONSTANTS
    FileName,    \* the name a URL's file has
    Stem,        \* that name without its extension
    DirOf,       \* the type a URL's file is filed under
    Identified,  \* contents that CivitAI knows by their hash
    Unpublished, \* contents whose digest was never recorded
    Deleters,    \* handlers of connections that delete a model, a bound
    Libraries,   \* installations to start from: rows, files, described files,
                 \* and the kinds of events they are put through, a bound
    MaxRows      \* bound on the rows ever inserted

Kinds == {"add", "repair", "requeue", "cancel", "fail", "crash",
          "user", "scan", "check", "version", "publish"} \cup Deleters

ASSUME LibraryAssumption ==
    /\ DOMAIN FileName = Urls /\ DOMAIN Stem = Urls
    /\ DirOf \in [Urls -> Types]
    /\ Identified \subseteq Urls /\ Unpublished \subseteq Urls
    /\ MaxRows \in Nat
    /\ \A u, v \in Urls : FileName[u] = FileName[v] => Stem[u] = Stem[v]

VARIABLES
    events,    \* the kinds of events of this installation
    up,        \* is the daemon running
    rows,      \* the catalog's table, with the columns below
    nextRow,   \* id of the next row inserted
    files,     \* path -> content of the model file there
    metadata,  \* sidecar -> content its metadata.json describes
    previews,  \* sidecars with a preview image
    deletions, \* handler -> its DeleteModel request between its steps
    scan,      \* the file the scanner has identified but not yet registered
    scanned    \* paths this run of the scanner has been through

libraryVars == <<events, up, rows, nextRow, files, metadata, previews, deletions, scan, scanned>>

Checks == {"never", "today", "before"}

\* The columns other modules leave out: is a digest recorded (the content's, if
\* so), the version flagged as an update, and when an update was last looked for.
Tracked(row, hashed) ==
    [url |-> row.url, type |-> row.type, declared |-> row.declared, file |-> row.file,
     dest |-> row.dest, status |-> row.status, reason |-> row.reason,
     hashed |-> hashed, available |-> None, checked |-> "never"]

Added(url) == Tracked(NewRow(url, None, FALSE, None, "cli_add"), FALSE)

PathOf(url) == [url |-> url, type |-> DirOf[url], file |-> None]
LibraryPaths == {PathOf(u) : u \in Urls}

Sidecar(path) == <<path.type, Stem[path.url]>>
Sidecars == {Sidecar(p) : p \in LibraryPaths}

VersionIds == {VersionOf[u] : u \in Urls}

TrackedRow ==
    [url : Urls, type : Types \cup {None}, declared : BOOLEAN, file : Files \cup {None},
     dest : LibraryPaths \cup {None}, status : Statuses, reason : Reasons,
     hashed : BOOLEAN, available : VersionIds \cup {None}, checked : Checks]

\* A row that still waits names no file but the one it will have: a requeue
\* empties the column, and a crash between the UPDATEs of a commit fills it.
WaitsForItsFile(row) == row.status \in Pending => row.dest \in {None, PathOf(row.url)}

\* What an earlier run left: rows 1..n, and files and sidecars of known sources.
ASSUME LibrariesAssumption ==
    \A lib \in Libraries :
        /\ lib.events \subseteq Kinds /\ lib.files \subseteq Urls /\ lib.described \subseteq Urls
        /\ \E n \in 0..MaxRows : lib.rows \in [1..n -> TrackedRow]
        /\ \A j \in DOMAIN lib.rows : WaitsForItsFile(lib.rows[j])

Exists(path) == path \in DOMAIN files

With(f, x, v) == [y \in DOMAIN f \cup {x} |-> IF y = x THEN v ELSE f[y]]

\* A deletion: the row, the path it named when it was looked at and the other
\* rows that named that path then, has an unlink failed, and how far it is.
NoDeletion == [id |-> 0, dest |-> None, sharers |-> {}, failed |-> FALSE, step |-> "none"]
NoScan == [path |-> None, url |-> None, hashed |-> FALSE]

DeletionSteps == {"none", "listed", "unlinking", "unlinked"}

DeletionRecord ==
    [id : 0..MaxRows, dest : LibraryPaths \cup {None}, sharers : SUBSET (1..MaxRows),
     failed : BOOLEAN, step : DeletionSteps]

LibraryTypeOK ==
    /\ up \in BOOLEAN
    /\ nextRow \in 1..(MaxRows + 1)
    /\ DOMAIN rows \subseteq 1..(nextRow - 1) /\ rows \in [DOMAIN rows -> TrackedRow]
    /\ DOMAIN files \subseteq LibraryPaths /\ files \in [DOMAIN files -> Urls]
    /\ metadata \in [Sidecars -> Urls \cup {None}]
    /\ previews \subseteq Sidecars
    /\ deletions \in [Deleters -> DeletionRecord]
    /\ scan = NoScan \/ scan \in [path : LibraryPaths, url : Urls, hashed : BOOLEAN]
    /\ scanned \subseteq LibraryPaths

LibraryInit ==
    /\ up = TRUE
    /\ \E lib \in Libraries :
          /\ events = lib.events
          /\ rows = lib.rows
          /\ nextRow = Cardinality(DOMAIN lib.rows) + 1
          /\ files = [p \in {PathOf(u) : u \in lib.files} |-> p.url]
          /\ metadata = [s \in Sidecars |->
                IF \E u \in lib.described : Sidecar(PathOf(u)) = s
                THEN CHOOSE u \in lib.described : Sidecar(PathOf(u)) = s ELSE None]
          /\ previews = {Sidecar(PathOf(u)) : u \in lib.described}
    /\ deletions = [d \in Deleters |-> NoDeletion]
    /\ scan = NoScan /\ scanned = {}

----------------------------------------------------------------------------
(* Downloads, reduced to what they do to rows and files.                   *)

rowsOnly == <<events, up, files, metadata, previews, deletions, scan, scanned>>

EnqueueUrl(url) ==
    /\ rows' = Enqueue(rows, nextRow, Added(url))
    /\ nextRow' = IF rows' = rows THEN nextRow ELSE nextRow + 1
    /\ nextRow' <= MaxRows + 1

AddDownload(url) ==
    /\ "add" \in events
    /\ EnqueueUrl(url)
    /\ UNCHANGED rowsOnly

\* The file is in place, with its metadata; its preview may not be available.
PlaceFile(j) ==
    /\ rows[j].status = "queued"
    /\ LET path == PathOf(rows[j].url)
       IN  /\ files' = With(files, path, rows[j].url)
           /\ metadata' = [metadata EXCEPT ![Sidecar(path)] = rows[j].url]
           /\ previews' \in {previews, previews \cup {Sidecar(path)}}
    /\ rows' = SetStatus(rows, j, "downloading")
    /\ UNCHANGED <<events, up, nextRow, deletions, scan, scanned>>

\* set_dest_path, set_sha256 and set_status under one lock.
CompleteRow(j) ==
    /\ rows[j].status = "downloading"
    /\ rows' = Update(rows, j, [rows[j] EXCEPT
                  !.status = "done", !.dest = PathOf(rows[j].url),
                  !.hashed = rows[j].url \notin Unpublished])
    /\ UNCHANGED <<nextRow, rowsOnly>>

\* Once the file is in place nothing makes a download fail.
FailRow(j) ==
    /\ "fail" \in events
    /\ rows[j].status = "queued"
    /\ rows' = SetStatus(rows, j, "failed")
    /\ UNCHANGED <<nextRow, rowsOnly>>

\* Cancel of a job no worker has: any row that is there.
CancelRow(j) ==
    /\ "cancel" \in events
    /\ rows[j].status # "downloading"
    /\ rows' = SetStatus(rows, j, "cancelled")
    /\ UNCHANGED <<nextRow, rowsOnly>>

Redownload(j) ==
    /\ "requeue" \in events
    /\ CanRequeueOne(rows, j)
    /\ rows' = RequeueOne(rows, j)
    /\ UNCHANGED <<nextRow, rowsOnly>>

RedownloadMissing(all) ==
    /\ "requeue" \in events
    /\ rows' = RequeueDone(rows, ~all, DOMAIN files)
    /\ UNCHANGED <<nextRow, rowsOnly>>

Downloads ==
    \/ \E u \in Urls : AddDownload(u)
    \/ \E j \in DOMAIN rows :
          PlaceFile(j) \/ CompleteRow(j) \/ FailRow(j) \/ CancelRow(j) \/ Redownload(j)
    \/ \E all \in BOOLEAN : RedownloadMissing(all)

----------------------------------------------------------------------------
(* DeleteModel: list under the lock, unlink without it, forget under it.   *)
(* Each connection has a handler, so deletions run beside each other.      *)

\* Faulty variant of OwnedPaths: a path others share is unlinked as well.
SharedPaths(d) == {deletions[d].dest} \ {None}

\* delete_model: nothing when another row named the path.
OwnedPaths(d) == IF deletions[d].sharers = {} THEN {deletions[d].dest} \ {None} ELSE {}

Naming(table, path) == {j \in DOMAIN table : table[j].dest = path}

ListDeletion(d, j) ==
    /\ d \in events
    /\ deletions[d] = NoDeletion
    /\ deletions' = [deletions EXCEPT ![d] =
           [id |-> j, dest |-> rows[j].dest, failed |-> FALSE, step |-> "listed",
            sharers |-> IF rows[j].dest = None THEN {} ELSE Naming(rows, rows[j].dest) \ {j}]]
    /\ UNCHANGED <<events, up, rows, nextRow, files, metadata, previews, scan, scanned>>

\* The handler goes on to its next step; an unlink may have failed in this one.
GoesOn(d, step, fails) ==
    deletions' = [deletions EXCEPT ![d].step = step, ![d].failed = @ \/ fails]

\* The model file goes first, then the sidecars of its stem; an unlink that
\* fails does not keep the others from being tried.  Of the sidecars, one that
\* fails stands for any number.
UnlinkModel(d) ==
    /\ deletions[d].step = "listed"
    /\ \/ /\ files' = [p \in DOMAIN files \ OwnedPaths(d) |-> files[p]]
          /\ GoesOn(d, "unlinking", FALSE)
       \/ /\ OwnedPaths(d) \cap DOMAIN files # {}
          /\ GoesOn(d, "unlinking", TRUE)
          /\ UNCHANGED files
    /\ UNCHANGED <<events, up, rows, nextRow, metadata, previews, scan, scanned>>

UnlinkSidecars(d) ==
    /\ deletions[d].step = "unlinking"
    /\ LET gone == {Sidecar(p) : p \in OwnedPaths(d)}
       IN  /\ metadata' = [s \in Sidecars |-> IF s \in gone THEN None ELSE metadata[s]]
           /\ \/ previews' = previews \ gone /\ GoesOn(d, "unlinked", FALSE)
              \/ previews \cap gone # {} /\ GoesOn(d, "unlinked", TRUE) /\ UNCHANGED previews
    /\ UNCHANGED <<events, up, rows, nextRow, files, scan, scanned>>

\* The row goes only when everything was unlinked or already gone.
ForgetModel(d) ==
    /\ deletions[d].step = "unlinked"
    /\ rows' = IF deletions[d].failed THEN rows ELSE DeleteJobs(rows, {deletions[d].id})
    /\ deletions' = [deletions EXCEPT ![d] = NoDeletion]
    /\ UNCHANGED <<events, up, nextRow, files, metadata, previews, scan, scanned>>

Deletion ==
    \E d \in Deleters :
        \/ \E j \in DOMAIN rows : ListDeletion(d, j)
        \/ UnlinkModel(d) \/ UnlinkSidecars(d) \/ ForgetModel(d)

----------------------------------------------------------------------------
(* Doctor.                                                                 *)

Dangling(table) == {j \in DOMAIN table : table[j].dest # None /\ ~Exists(table[j].dest)}

Untracked(table) == {p \in DOMAIN files : Naming(table, p) = {}}

Rank(flag) == IF flag THEN 0 ELSE 1

\* The sort key of repair: rows with the CivitAI identifiers and a digest first.
SortKey(table, j) ==
    <<Rank(ModelOf[table[j].url] # None), Rank(VersionOf[table[j].url] # None),
      Rank(table[j].hashed), j>>

Precedes(a, b) ==
    \E i \in 1..4 : a[i] < b[i] /\ \A k \in 1..(i - 1) : a[k] = b[k]

SortsBefore(table, k, j) == Precedes(SortKey(table, k), SortKey(table, j))

Duplicates(table) ==
    {j \in DOMAIN table :
        table[j].dest # None /\ \E k \in Naming(table, table[j].dest) : SortsBefore(table, k, j)}

\* Another row's file is there, with the same digest or the same name.
Covered(table, j) ==
    \E k \in DOMAIN table :
        /\ table[k].dest # None /\ Exists(table[k].dest)
        /\ \/ table[k].hashed /\ table[j].hashed /\ table[k].url = table[j].url
           \/ FileName[table[k].dest.url] = FileName[table[j].dest.url]

\* Faulty variant of Repaired: a dangling row is dropped, covered or not.
RepairedBlindly(table) == DeleteJobs(table, Duplicates(table) \cup Dangling(table))

Repaired(table) ==
    DeleteJobs(table, Duplicates(table) \cup {j \in Dangling(table) : Covered(table, j)})

Repair ==
    /\ "repair" \in events
    /\ rows' = Repaired(rows)
    /\ UNCHANGED <<nextRow, rowsOnly>>

----------------------------------------------------------------------------
(* The startup scan.                                                       *)

\* process_file reads without a lock: both sidecars are there and say what the
\* file is, or it is hashed, looked up, and its missing sidecars are written.
ReadFile(path) ==
    /\ "scan" \in events
    /\ scan = NoScan
    /\ path \in DOMAIN files \ scanned
    /\ LET s == Sidecar(path)
           content == files[path]
       IN  IF metadata[s] # None /\ s \in previews
           THEN /\ scan' = IF VersionOf[metadata[s]] # None
                           THEN [path |-> path, url |-> metadata[s], hashed |-> TRUE]
                           ELSE NoScan
                /\ UNCHANGED <<metadata, previews>>
           ELSE \/ /\ content \in Identified
                   /\ metadata' = IF metadata[s] = None
                                  THEN [metadata EXCEPT ![s] = content] ELSE metadata
                   /\ previews' \in {previews, previews \cup {s}}
                   /\ scan' = [path |-> path, url |-> content, hashed |-> TRUE]
                \/ UNCHANGED <<metadata, previews, scan>>
    /\ scanned' = scanned \cup {path}
    /\ UNCHANGED <<events, up, rows, nextRow, files, deletions>>

\* register_existing: a path the catalog names gains no second row.
RegisterFile ==
    /\ scan # NoScan
    /\ rows' = IF Naming(rows, scan.path) # {}
               THEN rows
               ELSE Insert(rows, nextRow,
                           Tracked([ScannedRow(scan.path) EXCEPT !.url = scan.url],
                                   scan.hashed))
    /\ nextRow' = IF rows' = rows THEN nextRow ELSE nextRow + 1
    /\ nextRow' <= MaxRows + 1
    /\ scan' = NoScan
    /\ UNCHANGED <<events, up, files, metadata, previews, deletions, scanned>>

Scanner == (\E p \in DOMAIN files : ReadFile(p)) \/ RegisterFile

----------------------------------------------------------------------------
(* The user's own hands, crashes and restarts.                             *)

UserRemoves(path) ==
    /\ "user" \in events
    /\ files' = [p \in DOMAIN files \ {path} |-> files[p]]
    /\ UNCHANGED <<events, up, rows, nextRow, metadata, previews, deletions, scan, scanned>>

\* A commit's UPDATEs run one by one, the destination, the digest, the status:
\* a crash between two keeps the first alone, or the first two.
Crash ==
    /\ "crash" \in events
    /\ up' = FALSE
    /\ \/ UNCHANGED rows
       \/ \E j \in WithStatus(rows, "downloading") :
             LET placed == [rows[j] EXCEPT !.dest = PathOf(rows[j].url)]
             IN  \/ rows' = Update(rows, j, placed)
                 \/ /\ rows[j].url \notin Unpublished
                    /\ rows' = Update(rows, j, [placed EXCEPT !.hashed = TRUE])
    /\ deletions' = [d \in Deleters |-> NoDeletion]
    /\ scan' = NoScan /\ scanned' = {}
    /\ UNCHANGED <<events, nextRow, files, metadata, previews>>

Boot ==
    /\ ~up
    /\ up' = TRUE
    /\ rows' = RequeueInterrupted(CancelRedundant(DedupeDone(rows)))
    /\ UNCHANGED <<events, nextRow, files, metadata, previews, deletions, scan, scanned>>

LibraryStep ==
    \/ Downloads \/ Deletion \/ Repair \/ Scanner
    \/ \E p \in DOMAIN files : UserRemoves(p)

----------------------------------------------------------------------------
(* Properties.                                                             *)

\* A deletion that is about to drop its row: every unlink has succeeded.
Forgets(d, j) ==
    deletions[d].id = j /\ deletions[d].step = "unlinked" /\ ~deletions[d].failed

\* The rows and the files they name come apart only as follows.
\* A file on disk that rows name keeps one of them, unless one is queued to be
\* downloaded again, another completed row of its version stays
\* (dedupe_done_jobs), or a deletion of one whose unlinks have all succeeded
\* drops it: it had unlinked that file, which was put back since; or it had left
\* the file to the rows that shared it, and they have let go of it since, to a
\* repair, a requeue, a dedupe or a deletion of their own; or the row named
\* another file, or none, when it was looked at.  A deletion that could not
\* unlink, a repair that folds two rows into one, a scan and a crash never turn
\* a file into one no command can reach.
\* And a file that a row names leaves the disk only at the user's hands, or to
\* a deletion that looked before that row came to name the file, or is that
\* row's own: the path was no other row's then.
FilesStayNamed ==
    [][/\ \A p \in DOMAIN files \cap DOMAIN files' :
             Naming(rows, p) # {} =>
                 \/ Naming(rows', p) # {}
                 \/ \E j \in Naming(rows, p) \cap DOMAIN rows' : rows'[j].status = "queued"
                 \/ \E j \in Naming(rows, p), k \in WithStatus(rows, "done") \cap DOMAIN rows' :
                       j # k /\ SameDedupKey(rows[j], rows[k])
                 \/ \E d \in Deleters, j \in Naming(rows, p) : Forgets(d, j)
       /\ \A p \in DOMAIN files \ DOMAIN files' :
             \/ UserRemoves(p)
             \/ \E d \in Deleters :
                   /\ deletions[d].dest = p /\ deletions[d].step = "listed"
                   /\ Naming(rows, p) \cap deletions[d].sharers = {}]_libraryVars

\* Rows of two paths have, or had, one recorded digest.
SameDigest(p, q) ==
    \E a \in Naming(rows, p), b \in Naming(rows, q) :
        rows[a].hashed /\ rows[b].hashed /\ rows[a].url = rows[b].url

\* A row of a missing file goes without a deletion of it only when the catalog
\* still accounts for it: another row names the same path, or was completed for
\* its version or path and stays, if only to be downloaded again, or a file of
\* the same name or recorded digest is on disk and keeps a row.  Repair looks
\* among all rows, those it drops as duplicates in the same pass included.
MissingAreAccountedFor ==
    [][\A j \in Dangling(rows) \ DOMAIN rows' :
          \/ \E d \in Deleters : Forgets(d, j)
          \/ \E k \in DOMAIN rows' :
                \/ rows'[k].dest = rows[j].dest
                \/ k \in WithStatus(rows, "done") /\ SameDedupKey(rows[k], rows[j])
                \/ /\ rows'[k].dest # None /\ Exists(rows'[k].dest)
                   /\ \/ FileName[rows'[k].dest.url] = FileName[rows[j].dest.url]
                      \/ SameDigest(rows[j].dest, rows'[k].dest)]_libraryVars

\* A row that names a missing file is dropped only when another row's file holds
\* the same content: the claim of repair's comment and of the placement document.
DroppedContentIsElsewhere ==
    [][\A j \in Dangling(rows) \ DOMAIN rows' :
          \/ \E d \in Deleters : Forgets(d, j)
          \/ \E k \in DOMAIN rows' :
                rows'[k].dest # None /\ Exists(rows'[k].dest) /\ files[rows'[k].dest] = rows[j].url
          \/ \E k \in DOMAIN rows' : rows'[k].dest = rows[j].dest]_libraryVars

=============================================================================
