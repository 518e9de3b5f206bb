--------------------------- MODULE LibraryProofs ---------------------------
(***************************************************************************)
(* The safety theorems of UpdateChecks, and of the Library in it, for any  *)
(* sources, installations, listings and number of rows.  The invariant is  *)
(* the type of the state, with two facts that are not types: a new row's   *)
(* id is fresh, and a row that waits to be downloaded names no file but    *)
(* the one it will have, so that completing it takes the name from no      *)
(* other file.  What a repair and a dedupe keep rests on the orders they   *)
(* sort by: the first row of a group is nobody's duplicate.                *)
(***************************************************************************)
EXTENDS UpdateChecks, CatalogProofs, FiniteSetTheorems

----------------------------------------------------------------------------
(* Paths and rows.                                                         *)

\* A source has one path, of its own.
LEMMA PathsOfSources ==
    ASSUME NEW u \in Urls
    PROVE  /\ PathOf(u) \in LibraryPaths /\ PathOf(u).url = u
           /\ Sidecar(PathOf(u)) \in Sidecars
  BY DEF PathOf, LibraryPaths, Sidecars

\* A path of the library is a placement, and says whose it is.
LEMMA LibraryPathsAreTyped ==
    ASSUME NEW p \in LibraryPaths
    PROVE  /\ p # None /\ p.url \in Urls /\ p.type \in Types /\ p = PathOf(p.url)
           /\ Sidecar(p) \in Sidecars
<1>1. p \in Paths
  BY LibraryAssumption DEF LibraryPaths, PathOf, Paths
<1> QED  BY <1>1, CatalogAssumption, LibraryAssumption DEF LibraryPaths, PathOf, Paths, Sidecars

\* Changing one column of a row keeps the others.
LEMMA RowWithColumn ==
    ASSUME NEW row \in TrackedRow
    PROVE  /\ \A st \in Statuses :
                 /\ [row EXCEPT !.status = st] \in TrackedRow
                 /\ [row EXCEPT !.status = st].status = st
                 /\ [row EXCEPT !.status = st].dest = row.dest
                 /\ [row EXCEPT !.status = st].url = row.url
           /\ \A when \in Checks :
                 /\ [row EXCEPT !.checked = when] \in TrackedRow
                 /\ [row EXCEPT !.checked = when].status = row.status
                 /\ [row EXCEPT !.checked = when].dest = row.dest
                 /\ [row EXCEPT !.checked = when].url = row.url
           /\ \A version \in VersionIds \cup {None} :
                 /\ [row EXCEPT !.available = version] \in TrackedRow
                 /\ [row EXCEPT !.available = version].status = row.status
                 /\ [row EXCEPT !.available = version].dest = row.dest
                 /\ [row EXCEPT !.available = version].url = row.url
           /\ \A p \in LibraryPaths :
                 /\ [row EXCEPT !.dest = p] \in TrackedRow
                 /\ [row EXCEPT !.dest = p].status = row.status
                 /\ [row EXCEPT !.dest = p].dest = p
                 /\ [row EXCEPT !.dest = p].url = row.url
           /\ /\ Requeued(row) \in TrackedRow
              /\ Requeued(row).status = "queued" /\ Requeued(row).dest = None
              /\ Requeued(row).url = row.url
  BY DEF TrackedRow, Requeued, Statuses

\* A requested row waits, and names no file.
LEMMA AddedRow ==
    ASSUME NEW u \in Urls
    PROVE  Added(u) \in TrackedRow /\ Added(u).status = "queued" /\ Added(u).dest = None
  BY DEF Added, Tracked, NewRow, TrackedRow, Statuses, Reasons, Checks

----------------------------------------------------------------------------
(* The table.                                                              *)

TableOK(table, next) ==
    /\ next \in 1..(MaxRows + 1)
    /\ DOMAIN table \subseteq 1..(next - 1) /\ table \in [DOMAIN table -> TrackedRow]
    /\ \A j \in DOMAIN table : WaitsForItsFile(table[j])

\* Any statement that maps rows to rows of their place, or drops some.
LEMMA MappedRows ==
    ASSUME NEW table, NEW next, TableOK(table, next),
           NEW ids, ids \subseteq DOMAIN table, NEW after, after = [j \in ids |-> after[j]],
           \A j \in ids : after[j] \in TrackedRow /\ WaitsForItsFile(after[j])
    PROVE  TableOK(after, next)
  BY DEF TableOK

\* An UPDATE by id.
LEMMA UpdatedRow ==
    ASSUME NEW table, NEW next, TableOK(table, next), NEW id, NEW row,
           id \in DOMAIN table => row \in TrackedRow /\ WaitsForItsFile(row)
    PROVE  TableOK(Update(table, id, row), next)
  BY DEF TableOK, Update

\* An INSERT under the next id.
LEMMA InsertedRow ==
    ASSUME NEW table, NEW next, TableOK(table, next), next + 1 <= MaxRows + 1,
           NEW row \in TrackedRow, WaitsForItsFile(row)
    PROVE  TableOK(Insert(table, next, row), next + 1)
<1>1. next \in Nat /\ MaxRows \in Nat /\ next + 1 \in 1..(MaxRows + 1)
  BY LibraryAssumption DEF TableOK
<1>2. DOMAIN Insert(table, next, row) = DOMAIN table \cup {next}
  BY DEF Insert
<1>3. \A j \in DOMAIN table \cup {next} :
        Insert(table, next, row)[j] \in TrackedRow /\ WaitsForItsFile(Insert(table, next, row)[j])
  BY DEF Insert, TableOK
<1>4. DOMAIN table \cup {next} \subseteq 1..((next + 1) - 1)
  BY <1>1 DEF TableOK
<1> QED  BY <1>1, <1>2, <1>3, <1>4 DEF TableOK, Insert

\* A DELETE.
LEMMA DeletedRows ==
    ASSUME NEW table, NEW next, TableOK(table, next), NEW ids
    PROVE  TableOK(DeleteJobs(table, ids), next)
  BY DEF TableOK, DeleteJobs

\* enqueue, if there is room.
LEMMA EnqueuedRow ==
    ASSUME NEW table, NEW next, TableOK(table, next), NEW u \in Urls, NEW after, NEW afterNext,
           after = Enqueue(table, next, Added(u)),
           afterNext = IF after = table THEN next ELSE next + 1, afterNext <= MaxRows + 1
    PROVE  TableOK(after, afterNext)
<1>1. CASE after = table
  BY <1>1
<1>2. CASE after # table
  <2>1. after = Insert(table, next, Added(u)) /\ afterNext = next + 1
    BY <1>2 DEF Enqueue
  <2>2. Added(u) \in TrackedRow /\ WaitsForItsFile(Added(u))
    BY AddedRow DEF WaitsForItsFile
  <2> QED  BY <2>1, <2>2, InsertedRow
<1> QED  BY <1>1, <1>2

\* requeue_done.
LEMMA RequeuedRows ==
    ASSUME NEW table, NEW next, TableOK(table, next), NEW onlyMissing, NEW disk
    PROVE  TableOK(RequeueDone(table, onlyMissing, disk), next)
<1> DEFINE kept == DedupeDone(table)
           after == RequeueDone(table, onlyMissing, disk)
<1>1. TableOK(kept, next)
  BY DeletedRows DEF DedupeDone
<1>2. DOMAIN after = DOMAIN kept
      /\ \A j \in DOMAIN kept : after[j] = kept[j] \/ after[j] = Requeued(kept[j])
  BY DEF RequeueDone
<1>3. \A j \in DOMAIN kept : Requeued(kept[j]) \in TrackedRow /\ WaitsForItsFile(Requeued(kept[j]))
  BY <1>1, RowWithColumn DEF TableOK, WaitsForItsFile
<1>4. after = [j \in DOMAIN kept |-> after[j]]
  BY DEF RequeueDone
<1> HIDE DEF kept, after
<1>5. \A j \in DOMAIN kept : after[j] \in TrackedRow /\ WaitsForItsFile(after[j])
  BY <1>1, <1>2, <1>3 DEF TableOK
<1>6. TableOK(after, next)
  BY <1>1, <1>4, <1>5, MappedRows
<1> QED  BY <1>6 DEF after

\* The startup recovery.
LEMMA RecoveredRows ==
    ASSUME NEW table, NEW next, TableOK(table, next)
    PROVE  TableOK(RequeueInterrupted(CancelRedundant(DedupeDone(table))), next)
<1> DEFINE kept == DedupeDone(table)
           pruned == CancelRedundant(kept)
           after == RequeueInterrupted(pruned)
<1>1. TableOK(kept, next)
  BY DeletedRows DEF DedupeDone
<1> HIDE DEF kept
<1>2. TableOK(pruned, next)
  <2>1. \A j \in DOMAIN kept :
          [kept[j] EXCEPT !.status = "cancelled"] \in TrackedRow
          /\ WaitsForItsFile([kept[j] EXCEPT !.status = "cancelled"])
    BY <1>1, RowWithColumn DEF TableOK, WaitsForItsFile, Pending, Statuses
  <2>2. \A j \in DOMAIN kept : pruned[j] \in TrackedRow /\ WaitsForItsFile(pruned[j])
    BY <1>1, <2>1 DEF CancelRedundant, TableOK
  <2> QED  BY <1>1, <2>2, MappedRows DEF CancelRedundant
<1> HIDE DEF pruned
<1>3. TableOK(after, next)
  <2>1. \A j \in DOMAIN pruned : pruned[j].status \in {"downloading", "verifying"} =>
          [pruned[j] EXCEPT !.status = "queued"] \in TrackedRow
          /\ WaitsForItsFile([pruned[j] EXCEPT !.status = "queued"])
    BY <1>2, RowWithColumn DEF TableOK, WaitsForItsFile, Pending, Statuses
  <2>2. \A j \in DOMAIN pruned : after[j] \in TrackedRow /\ WaitsForItsFile(after[j])
    BY <1>2, <2>1 DEF RequeueInterrupted, TableOK
  <2> QED  BY <1>2, <2>2, MappedRows DEF RequeueInterrupted
<1> QED  BY <1>3 DEF after, pruned, kept

----------------------------------------------------------------------------
(* The invariant.                                                          *)

DiskOK ==
    /\ up \in BOOLEAN
    /\ DOMAIN files \subseteq LibraryPaths /\ files \in [DOMAIN files -> Urls]
    /\ metadata \in [Sidecars -> Urls \cup {None}]
    /\ previews \subseteq Sidecars
    /\ scanned \subseteq LibraryPaths

TasksOK ==
    /\ deletions \in [Deleters -> DeletionRecord]
    /\ scan = NoScan \/ scan \in [path : LibraryPaths, url : Urls, hashed : BOOLEAN]

CheckOK ==
    /\ checking \in BOOLEAN /\ woken \in BOOLEAN
    /\ \A u \in todo : u \in Urls /\ ModelOf[u] # None /\ VersionOf[u] # None
    /\ current \in todo \cup {None}
    /\ answer = None \/ answer \in Seq(DOMAIN Number)
    /\ current = None => answer = None
    /\ ~checking => todo = {}

ShownOK == shown \in [Models -> Nat] /\ \A m \in Models : shown[m] \in DOMAIN Listings[m]

\* The invariant is about the table, the disk, the tasks and the checker.
LEMMA InvParts ==
    /\ UpdateInv <=> TableOK(rows, nextRow) /\ DiskOK /\ TasksOK /\ CheckOK /\ ShownOK
    /\ UpdateInv' <=> TableOK(rows', nextRow') /\ DiskOK' /\ TasksOK' /\ CheckOK' /\ ShownOK'
  BY DEF UpdateInv, UpdateTypeOK, LibraryTypeOK, RowsWaitForTheirFile, TableOK, DiskOK, TasksOK,
     CheckOK, ShownOK

\* An idle handler's record is one.
LEMMA NoDeletionIsOne == NoDeletion \in DeletionRecord
  BY LibraryAssumption DEF NoDeletion, DeletionRecord, DeletionSteps

\* Installations an earlier run left satisfy it.
LEMMA InitUpdateInv == ASSUME Init PROVE UpdateInv
<1>1. PICK lib \in Libraries :
        /\ rows = lib.rows
        /\ nextRow = Cardinality(DOMAIN lib.rows) + 1
        /\ files = [p \in {PathOf(u) : u \in lib.files} |-> p.url]
        /\ metadata = [s \in Sidecars |->
              IF \E u \in lib.described : Sidecar(PathOf(u)) = s
              THEN CHOOSE u \in lib.described : Sidecar(PathOf(u)) = s ELSE None]
        /\ previews = {Sidecar(PathOf(u)) : u \in lib.described}
  BY DEF Init, LibraryInit
<1>2. /\ lib.files \subseteq Urls /\ lib.described \subseteq Urls
      /\ \A j \in DOMAIN lib.rows : WaitsForItsFile(lib.rows[j])
  BY LibrariesAssumption
<1>3. PICK n \in 0..MaxRows : lib.rows \in [1..n -> TrackedRow]
  BY LibrariesAssumption
<1>4. Cardinality(1..n) = n /\ n \in Nat /\ MaxRows \in Nat /\ n <= MaxRows
  BY <1>3, FS_Interval, LibraryAssumption
<1>5. TableOK(rows, nextRow)
  BY <1>1, <1>2, <1>3, <1>4 DEF TableOK
<1>6. files \in [DOMAIN files -> Urls] /\ DOMAIN files \subseteq LibraryPaths
  BY <1>1, <1>2, PathsOfSources
<1>7. metadata \in [Sidecars -> Urls \cup {None}]
  BY <1>1, <1>2
<1>8. previews \subseteq Sidecars
  BY <1>1, <1>2, PathsOfSources
<1>9. DiskOK
  BY <1>6, <1>7, <1>8 DEF DiskOK, Init, LibraryInit
<1>10. TasksOK
  BY NoDeletionIsOne DEF TasksOK, Init, LibraryInit
<1>11. CheckOK
  BY DEF CheckOK, Init
<1>12. ShownOK
  <2>1. \A m \in Models : 1 \in DOMAIN Listings[m]
    <3> SUFFICES ASSUME NEW m \in Models PROVE 1 \in DOMAIN Listings[m]
      OBVIOUS
    <3>1. Listings[m] \in Seq(Seq(DOMAIN Number)) /\ Listings[m] # <<>>
      BY UpdateAssumption DEF Models
    <3> QED  BY <3>1
  <2> QED  BY <2>1 DEF ShownOK, Init
<1> QED  BY <1>5, <1>9, <1>10, <1>11, <1>12, InvParts

\* A download that changes rows alone: a request, an outcome, a requeue.
LEMMA DownloadRows ==
    ASSUME UpdateInv, Downloads
    PROVE  TableOK(rows', nextRow')
<1>1. TableOK(rows, nextRow)
  BY InvParts
<1>2. CASE \E u \in Urls : AddDownload(u)
  BY <1>1, <1>2, EnqueuedRow DEF AddDownload, EnqueueUrl
<1>3. ASSUME NEW j \in DOMAIN rows, NEW st \in Statuses, rows' = SetStatus(rows, j, st),
             nextRow' = nextRow, st \in Pending => rows[j].status \in Pending
      PROVE  TableOK(rows', nextRow')
  <2>1. /\ [rows[j] EXCEPT !.status = st] \in TrackedRow
        /\ WaitsForItsFile([rows[j] EXCEPT !.status = st])
    BY <1>1, <1>3, RowWithColumn DEF TableOK, WaitsForItsFile
  <2> QED  BY <1>1, <1>3, <2>1, UpdatedRow DEF SetStatus
<1>4. CASE \E j \in DOMAIN rows : PlaceFile(j) \/ FailRow(j) \/ CancelRow(j)
  BY <1>3, <1>4 DEF PlaceFile, FailRow, CancelRow, Statuses, Pending
<1>5. ASSUME NEW j \in DOMAIN rows, CompleteRow(j)  PROVE TableOK(rows', nextRow')
  <2> DEFINE row == [rows[j] EXCEPT !.status = "done", !.dest = PathOf(rows[j].url),
                                    !.hashed = rows[j].url \notin Unpublished]
  <2>1. rows[j] \in TrackedRow /\ PathOf(rows[j].url) \in LibraryPaths
    BY <1>1, PathsOfSources DEF TableOK, TrackedRow
  <2>2. row \in TrackedRow /\ WaitsForItsFile(row)
    BY <2>1 DEF TrackedRow, WaitsForItsFile, Statuses, Pending
  <2>3. rows' = Update(rows, j, row) /\ nextRow' = nextRow
    BY <1>5 DEF CompleteRow
  <2> HIDE DEF row
  <2> QED  BY <1>1, <2>2, <2>3, UpdatedRow
<1>6. ASSUME NEW j \in DOMAIN rows, Redownload(j)  PROVE TableOK(rows', nextRow')
  <2>1. Requeued(rows[j]) \in TrackedRow /\ WaitsForItsFile(Requeued(rows[j]))
    BY <1>1, RowWithColumn DEF TableOK, WaitsForItsFile
  <2> QED  BY <1>1, <1>6, <2>1, UpdatedRow DEF Redownload, RequeueOne
<1>7. CASE \E all \in BOOLEAN : RedownloadMissing(all)
  BY <1>1, <1>7, RequeuedRows DEF RedownloadMissing
<1> QED  BY <1>2, <1>4, <1>5, <1>6, <1>7 DEF Downloads

\* A download writes no file but its own.
LEMMA DownloadDisk ==
    ASSUME UpdateInv, Downloads
    PROVE  DiskOK' /\ TasksOK'
<1>1. DiskOK /\ TasksOK /\ TableOK(rows, nextRow)
  BY InvParts
<1>2. ASSUME NEW j \in DOMAIN rows, PlaceFile(j)  PROVE DiskOK' /\ TasksOK'
  <2> DEFINE path == PathOf(rows[j].url)
  <2>1. rows[j].url \in Urls
    BY <1>1 DEF TableOK, TrackedRow
  <2>2. path \in LibraryPaths /\ Sidecar(path) \in Sidecars
    BY <2>1, PathsOfSources
  <2> HIDE DEF path
  <2>3. /\ files' = With(files, path, rows[j].url)
        /\ metadata' = [metadata EXCEPT ![Sidecar(path)] = rows[j].url]
        /\ previews' \in {previews, previews \cup {Sidecar(path)}}
        /\ UNCHANGED <<up, scanned, deletions, scan>>
    BY <1>2 DEF PlaceFile, path
  <2>4. files' \in [DOMAIN files' -> Urls] /\ DOMAIN files' \subseteq LibraryPaths
    BY <1>1, <2>1, <2>2, <2>3 DEF DiskOK, With
  <2>5. metadata' \in [Sidecars -> Urls \cup {None}]
    BY <1>1, <2>1, <2>2, <2>3 DEF DiskOK
  <2>6. DiskOK'
    BY <1>1, <2>2, <2>3, <2>4, <2>5 DEF DiskOK
  <2> QED  BY <1>1, <2>3, <2>6 DEF TasksOK
<1>3. CASE UNCHANGED rowsOnly
  BY <1>1, <1>3 DEF rowsOnly, DiskOK, TasksOK
<1> QED  BY <1>2, <1>3 DEF Downloads, AddDownload, CompleteRow, FailRow, CancelRow, Redownload,
   RedownloadMissing

\* A handler's next step is one of a deletion.
LEMMA HandlersGoOn ==
    ASSUME TasksOK, NEW d \in Deleters, NEW step \in DeletionSteps, NEW fails \in BOOLEAN,
           GoesOn(d, step, fails), UNCHANGED scan
    PROVE  TasksOK'
<1>1. deletions[d] \in DeletionRecord
  BY DEF TasksOK
<1>2. [deletions[d] EXCEPT !.step = step, !.failed = @ \/ fails] \in DeletionRecord
  BY <1>1 DEF DeletionRecord
<1>3. deletions' = [deletions EXCEPT ![d] = [deletions[d] EXCEPT !.step = step, !.failed = @ \/ fails]]
  BY DEF GoesOn, TasksOK
<1> QED  BY <1>2, <1>3 DEF TasksOK

\* The four steps of a deletion.
LEMMA DeletionParts ==
    ASSUME UpdateInv, Deletion
    PROVE  TableOK(rows', nextRow') /\ DiskOK' /\ TasksOK'
<1>1. DiskOK /\ TasksOK /\ TableOK(rows, nextRow)
  BY InvParts
<1>2. ASSUME NEW d \in Deleters, NEW j \in DOMAIN rows, ListDeletion(d, j)
      PROVE  TableOK(rows', nextRow') /\ DiskOK' /\ TasksOK'
  <2> DEFINE sharers == IF rows[j].dest = None THEN {} ELSE Naming(rows, rows[j].dest) \ {j}
             new == [id |-> j, dest |-> rows[j].dest, failed |-> FALSE, step |-> "listed",
                     sharers |-> sharers]
  <2>1. DOMAIN rows \subseteq 1..MaxRows /\ MaxRows \in Nat
    BY <1>1, LibraryAssumption DEF TableOK
  <2>2. sharers \subseteq 1..MaxRows
    BY <2>1 DEF Naming
  <2>3. rows[j].dest \in LibraryPaths \cup {None} /\ j \in 0..MaxRows
    BY <1>1, <2>1 DEF TableOK, TrackedRow
  <2> HIDE DEF sharers
  <2>4. new \in DeletionRecord
    BY <2>2, <2>3 DEF DeletionRecord, DeletionSteps
  <2>5. deletions' = [deletions EXCEPT ![d] = new]
    BY <1>2 DEF ListDeletion, sharers
  <2> HIDE DEF new
  <2>6. TasksOK'
    BY <1>1, <1>2, <2>4, <2>5 DEF ListDeletion, TasksOK
  <2> QED  BY <1>1, <1>2, <2>6 DEF ListDeletion, DiskOK
<1>3. ASSUME NEW d \in Deleters, UnlinkModel(d)
      PROVE  TableOK(rows', nextRow') /\ DiskOK' /\ TasksOK'
  <2>1. TasksOK'
    BY <1>1, <1>3, HandlersGoOn DEF UnlinkModel, DeletionSteps
  <2>2. DiskOK'
    BY <1>1, <1>3 DEF UnlinkModel, DiskOK
  <2> QED  BY <1>1, <1>3, <2>1, <2>2 DEF UnlinkModel
<1>4. ASSUME NEW d \in Deleters, UnlinkSidecars(d)
      PROVE  TableOK(rows', nextRow') /\ DiskOK' /\ TasksOK'
  <2>1. TasksOK'
    BY <1>1, <1>4, HandlersGoOn DEF UnlinkSidecars, DeletionSteps
  <2>2. DiskOK'
    BY <1>1, <1>4 DEF UnlinkSidecars, DiskOK
  <2> QED  BY <1>1, <1>4, <2>1, <2>2 DEF UnlinkSidecars
<1>5. ASSUME NEW d \in Deleters, ForgetModel(d)
      PROVE  TableOK(rows', nextRow') /\ DiskOK' /\ TasksOK'
  <2>1. TasksOK' /\ DiskOK'
    BY <1>1, <1>5, NoDeletionIsOne DEF ForgetModel, TasksOK, DiskOK
  <2>2. TableOK(rows', nextRow')
    BY <1>1, <1>5, DeletedRows DEF ForgetModel
  <2> QED  BY <2>1, <2>2
<1> QED  BY <1>2, <1>3, <1>4, <1>5 DEF Deletion

\* The scanner's read and its registration.
LEMMA ScannerParts ==
    ASSUME UpdateInv, Scanner
    PROVE  TableOK(rows', nextRow') /\ DiskOK' /\ TasksOK'
<1>1. DiskOK /\ TasksOK /\ TableOK(rows, nextRow)
  BY InvParts
<1>2. ASSUME NEW path \in DOMAIN files, ReadFile(path)
      PROVE  TableOK(rows', nextRow') /\ DiskOK' /\ TasksOK'
  <2> DEFINE s == Sidecar(path)
  <2>1. path \in LibraryPaths /\ files[path] \in Urls /\ s \in Sidecars
    BY <1>1, LibraryPathsAreTyped DEF DiskOK
  <2>2. metadata[s] \in Urls \cup {None}
    BY <1>1, <2>1 DEF DiskOK
  <2> HIDE DEF s
  <2>3. /\ \/ metadata' = metadata
           \/ metadata' = [metadata EXCEPT ![s] = files[path]]
        /\ previews' \in {previews, previews \cup {s}}
        /\ scanned' = scanned \cup {path}
        /\ UNCHANGED <<up, rows, nextRow, files, deletions>>
    BY <1>2 DEF ReadFile, s
  <2>4. \/ scan' = scan \/ scan' = NoScan
        \/ metadata[s] # None /\ scan' = [path |-> path, url |-> metadata[s], hashed |-> TRUE]
        \/ scan' = [path |-> path, url |-> files[path], hashed |-> TRUE]
    BY <1>2 DEF ReadFile, s
  <2>5. DiskOK'
    BY <1>1, <2>1, <2>3 DEF DiskOK
  <2>6. scan' = NoScan \/ scan' \in [path : LibraryPaths, url : Urls, hashed : BOOLEAN]
    <3>1. CASE scan' = scan \/ scan' = NoScan
      BY <1>1, <3>1 DEF TasksOK
    <3>2. ASSUME NEW u \in Urls, scan' = [path |-> path, url |-> u, hashed |-> TRUE]
          PROVE  scan' \in [path : LibraryPaths, url : Urls, hashed : BOOLEAN]
      BY <2>1, <3>2
    <3> QED  BY <2>1, <2>2, <2>4, <3>1, <3>2
  <2>7. TasksOK'
    BY <1>1, <2>3, <2>6 DEF TasksOK, NoScan
  <2> QED  BY <1>1, <2>3, <2>5, <2>7
<1>3. CASE RegisterFile
  <2> DEFINE row == Tracked([ScannedRow(scan.path) EXCEPT !.url = scan.url], scan.hashed)
  <2>1. scan \in [path : LibraryPaths, url : Urls, hashed : BOOLEAN]
    BY <1>1, <1>3 DEF RegisterFile, TasksOK
  <2>2. scan.path \in LibraryPaths /\ scan.path.type \in Types
    BY <2>1, LibraryPathsAreTyped
  <2>3. row \in TrackedRow /\ row.status = "done"
    BY <2>1, <2>2 DEF Tracked, ScannedRow, TrackedRow, Statuses, Reasons, Checks
  <2>4. WaitsForItsFile(row)
    BY <2>3 DEF WaitsForItsFile, Pending
  <2>5. /\ rows' = rows \/ rows' = Insert(rows, nextRow, row)
        /\ nextRow' = IF rows' = rows THEN nextRow ELSE nextRow + 1
        /\ nextRow' <= MaxRows + 1
        /\ scan' = NoScan
        /\ UNCHANGED <<up, files, metadata, previews, deletions, scanned>>
    BY <1>3 DEF RegisterFile
  <2> HIDE DEF row
  <2>6. TableOK(rows', nextRow')
    <3>1. CASE rows' = rows
      BY <1>1, <2>5, <3>1
    <3>2. CASE rows' # rows
      BY <1>1, <2>3, <2>4, <2>5, <3>2, InsertedRow
    <3> QED  BY <3>1, <3>2
  <2> QED  BY <1>1, <2>5, <2>6 DEF DiskOK, TasksOK
<1> QED  BY <1>2, <1>3 DEF Scanner

\* Every step of the library keeps the table, the disk and the tasks in order.
LEMMA LibraryStepParts ==
    ASSUME UpdateInv, LibraryStep
    PROVE  TableOK(rows', nextRow') /\ DiskOK' /\ TasksOK'
<1>1. DiskOK /\ TasksOK /\ TableOK(rows, nextRow)
  BY InvParts
<1>2. CASE Repair
  BY <1>1, <1>2, DeletedRows DEF Repair, Repaired, rowsOnly, DiskOK, TasksOK
<1>3. CASE \E p \in DOMAIN files : UserRemoves(p)
  BY <1>1, <1>3 DEF UserRemoves, DiskOK, TasksOK
<1> QED  BY <1>2, <1>3, DownloadRows, DownloadDisk, DeletionParts, ScannerParts DEF LibraryStep

\* A time stamp or a flag changes nothing a row waits for.
LEMMA FlaggedRow ==
    ASSUME NEW row \in TrackedRow, WaitsForItsFile(row)
    PROVE  /\ \A when \in Checks :
                 /\ [row EXCEPT !.checked = when] \in TrackedRow
                 /\ WaitsForItsFile([row EXCEPT !.checked = when])
           /\ \A version \in VersionIds \cup {None} :
                 /\ [row EXCEPT !.available = version] \in TrackedRow
                 /\ WaitsForItsFile([row EXCEPT !.available = version])
<1>1. \A when \in Checks : WaitsForItsFile([row EXCEPT !.checked = when])
  <2> SUFFICES ASSUME NEW when \in Checks PROVE WaitsForItsFile([row EXCEPT !.checked = when])
    OBVIOUS
  <2> DEFINE new == [row EXCEPT !.checked = when]
  <2>1. new.status = row.status /\ new.dest = row.dest /\ new.url = row.url
    BY RowWithColumn
  <2> HIDE DEF new
  <2>2. WaitsForItsFile(new)
    BY <2>1 DEF WaitsForItsFile
  <2> QED  BY <2>2 DEF new
<1>2. \A version \in VersionIds \cup {None} : WaitsForItsFile([row EXCEPT !.available = version])
  <2> SUFFICES ASSUME NEW version \in VersionIds \cup {None}
               PROVE  WaitsForItsFile([row EXCEPT !.available = version])
    OBVIOUS
  <2> DEFINE new == [row EXCEPT !.available = version]
  <2>1. new.status = row.status /\ new.dest = row.dest /\ new.url = row.url
    BY RowWithColumn
  <2> HIDE DEF new
  <2>2. WaitsForItsFile(new)
    BY <2>1 DEF WaitsForItsFile
  <2> QED  BY <2>2 DEF new
<1> QED  BY <1>1, <1>2, RowWithColumn

\* Time stamps and flags touch one column of some rows.
LEMMA FlaggedRows ==
    ASSUME TableOK(rows, nextRow), NEW ids,
           \/ \E when \in Checks : SetChecked(ids, when)
           \/ \E version \in VersionIds \cup {None} : SetAvailable(ids, version)
    PROVE  TableOK(rows', nextRow)
<1>1. \A j \in DOMAIN rows :
        /\ \A when \in Checks : [rows[j] EXCEPT !.checked = when] \in TrackedRow
              /\ WaitsForItsFile([rows[j] EXCEPT !.checked = when])
        /\ \A version \in VersionIds \cup {None} :
              [rows[j] EXCEPT !.available = version] \in TrackedRow
              /\ WaitsForItsFile([rows[j] EXCEPT !.available = version])
  BY FlaggedRow DEF TableOK
<1>2. CASE \E when \in Checks : SetChecked(ids, when)
  <2>1. \A j \in DOMAIN rows : rows'[j] \in TrackedRow /\ WaitsForItsFile(rows'[j])
    BY <1>1, <1>2 DEF SetChecked, TableOK
  <2>2. rows' = [j \in DOMAIN rows |-> rows'[j]]
    BY <1>2 DEF SetChecked
  <2> QED  BY <2>1, <2>2, MappedRows
<1>3. CASE \E version \in VersionIds \cup {None} : SetAvailable(ids, version)
  <2>1. \A j \in DOMAIN rows : rows'[j] \in TrackedRow /\ WaitsForItsFile(rows'[j])
    BY <1>1, <1>3 DEF SetAvailable, TableOK
  <2>2. rows' = [j \in DOMAIN rows |-> rows'[j]]
    BY <1>3 DEF SetAvailable
  <2> QED  BY <2>1, <2>2, MappedRows
<1> QED  BY <1>2, <1>3

\* The rows that represent a model have a model and a version.
LEMMA RepresentativesAreVersions ==
    ASSUME TableOK(rows, nextRow)
    PROVE  \A u \in Representatives : u \in Urls /\ ModelOf[u] # None /\ VersionOf[u] # None
  BY DEF Representatives, WithStatus, TableOK, TrackedRow

\* What CivitAI shows of a model is one of its listings.
LEMMA AnswerIsListing ==
    ASSUME ShownOK, NEW u \in Urls, ModelOf[u] # None, VersionOf[u] # None
    PROVE  Listings[ModelOf[u]][shown[ModelOf[u]]] \in Seq(DOMAIN Number)
<1>1. ModelOf[u] \in Models /\ Listings[ModelOf[u]] \in Seq(Seq(DOMAIN Number))
  BY UpdateAssumption DEF Models
<1> QED  BY <1>1 DEF ShownOK

\* The steps of a check.
LEMMA CheckParts ==
    ASSUME UpdateInv, CheckStep \/ CheckFails
    PROVE  UpdateInv'
<1>1. TableOK(rows, nextRow) /\ DiskOK /\ TasksOK /\ CheckOK /\ ShownOK
  BY InvParts
<1>2. current # None => current \in Urls /\ ModelOf[current] # None /\ VersionOf[current] # None
  BY <1>1 DEF CheckOK
<1>3. CASE UNCHANGED libraryVars
  <2>1. TableOK(rows', nextRow') /\ DiskOK' /\ TasksOK'
    BY <1>1, <1>3 DEF libraryVars, DiskOK, TasksOK
  <2>2. CheckOK' /\ ShownOK'
    <3>1. CASE BeginCheck
      BY <1>1, <3>1, RepresentativesAreVersions DEF BeginCheck, CheckOK, ShownOK
    <3>2. CASE \E u \in todo : SkipModel(u) \/ AskModel(u)
      BY <1>1, <3>2 DEF SkipModel, AskModel, CheckOK, ShownOK
    <3>3. CASE CheckFails
      BY <1>1, <3>3 DEF CheckFails, NextModel, CheckOK, ShownOK
    <3>4. CASE EndCheck
      BY <1>1, <3>4 DEF EndCheck, CheckOK, ShownOK
    <3>5. CASE StoreCheck
      BY <1>1, <1>2, <3>5, AnswerIsListing DEF StoreCheck, CheckOK, ShownOK
    <3>6. CASE FlagUpdate
      BY <1>1, <3>6 DEF FlagUpdate, NextModel, CheckOK, ShownOK
    <3> QED  BY <3>1, <3>2, <3>3, <3>4, <3>5, <3>6 DEF CheckStep
  <2> QED  BY <2>1, <2>2, InvParts
<1>4. CASE StoreCheck
  <2>1. TableOK(rows', nextRow')
    BY <1>1, <1>4, FlaggedRows DEF StoreCheck, Checks
  <2>2. DiskOK' /\ TasksOK'
    BY <1>1, <1>4 DEF StoreCheck, rowsOnly, DiskOK, TasksOK
  <2>3. answer' \in Seq(DOMAIN Number)
    BY <1>1, <1>2, <1>4, AnswerIsListing DEF StoreCheck
  <2>4. CheckOK' /\ ShownOK'
    BY <1>1, <1>4, <2>3 DEF StoreCheck, CheckOK, ShownOK
  <2> QED  BY <2>1, <2>2, <2>4, InvParts
<1>5. CASE FlagUpdate
  <2>1. TableOK(rows', nextRow')
    <3>1. CASE IsUpdate(answer, VersionOf[current])
      <4>1. answer \in Seq(DOMAIN Number) /\ answer # <<>>
        BY <1>1, <1>5, <3>1 DEF FlagUpdate, CheckOK, IsUpdate
      <4>2. Head(answer) \in VersionIds
        BY <4>1, UpdateAssumption
      <4>3. SetAvailable(DoneRows(ModelOf[current]), Head(answer)) /\ nextRow' = nextRow
        BY <1>5, <3>1 DEF FlagUpdate
      <4> QED  BY <1>1, <4>2, <4>3, FlaggedRows
    <3>2. CASE ~IsUpdate(answer, VersionOf[current])
      BY <1>1, <1>5, <3>2 DEF FlagUpdate
    <3> QED  BY <3>1, <3>2
  <2>2. DiskOK' /\ TasksOK'
    BY <1>1, <1>5 DEF FlagUpdate, rowsOnly, DiskOK, TasksOK
  <2>3. CheckOK' /\ ShownOK'
    BY <1>1, <1>5 DEF FlagUpdate, NextModel, CheckOK, ShownOK
  <2> QED  BY <2>1, <2>2, <2>3, InvParts
<1> QED  BY <1>3, <1>4, <1>5 DEF CheckStep, CheckFails, BeginCheck, SkipModel, AskModel, EndCheck

\* The requests of the user, and what CivitAI publishes.
LEMMA RequestParts ==
    ASSUME UpdateInv, Requests
    PROVE  UpdateInv'
<1>1. TableOK(rows, nextRow) /\ DiskOK /\ TasksOK /\ CheckOK /\ ShownOK
  BY InvParts
<1>2. CASE CheckUpdates
  <2>1. TableOK(rows', nextRow') /\ DiskOK' /\ TasksOK'
    BY <1>1, <1>2 DEF CheckUpdates, libraryVars, DiskOK, TasksOK
  <2>2. CheckOK' /\ ShownOK'
    BY <1>1, <1>2 DEF CheckUpdates, CheckOK, ShownOK
  <2> QED  BY <2>1, <2>2, InvParts
<1>3. ASSUME NEW m \in Models, PublishVersion(m)  PROVE UpdateInv'
  <2>1. TableOK(rows', nextRow') /\ DiskOK' /\ TasksOK'
    BY <1>1, <1>3 DEF PublishVersion, libraryVars, DiskOK, TasksOK
  <2>2. CheckOK'
    BY <1>1, <1>3 DEF PublishVersion, CheckOK
  <2>3. Listings[m] \in Seq(Seq(DOMAIN Number)) /\ shown[m] \in DOMAIN Listings[m]
    BY <1>1, UpdateAssumption DEF ShownOK, Models
  <2>4. shown[m] + 1 \in DOMAIN Listings[m]
    BY <1>3, <2>3 DEF PublishVersion
  <2>5. ShownOK'
    BY <1>1, <1>3, <2>4 DEF PublishVersion, ShownOK
  <2> QED  BY <2>1, <2>2, <2>5, InvParts
<1>4. ASSUME NEW u \in Urls, DownloadVersion(u)  PROVE UpdateInv'
  <2> DEFINE after == Enqueue(rows, nextRow, Added(u))
  <2>1. TableOK(after, nextRow')
    BY <1>1, <1>4, EnqueuedRow DEF DownloadVersion
  <2>2. rows' = [j \in DOMAIN after |->
                    IF after[j].status = "done" /\ ModelOf[after[j].url] = ModelOf[u]
                    THEN [after[j] EXCEPT !.available = None] ELSE after[j]]
    BY <1>4 DEF DownloadVersion
  <2> HIDE DEF after
  <2>3. \A j \in DOMAIN after :
          [after[j] EXCEPT !.available = None] \in TrackedRow
          /\ WaitsForItsFile([after[j] EXCEPT !.available = None])
    BY <2>1, FlaggedRow DEF TableOK
  <2>4. \A j \in DOMAIN after : rows'[j] \in TrackedRow /\ WaitsForItsFile(rows'[j])
    BY <2>1, <2>2, <2>3 DEF TableOK
  <2>5. TableOK(rows', nextRow')
    BY <2>1, <2>2, <2>4, MappedRows
  <2>6. DiskOK' /\ TasksOK'
    BY <1>1, <1>4 DEF DownloadVersion, rowsOnly, DiskOK, TasksOK
  <2>7. CheckOK' /\ ShownOK'
    BY <1>1, <1>4 DEF DownloadVersion, updateVars, CheckOK, ShownOK
  <2> QED  BY <2>5, <2>6, <2>7, InvParts
<1> QED  BY <1>2, <1>3, <1>4 DEF Requests

\* What a crash inside its commit leaves of a row.
CutCommit(row, left) ==
    \/ left = [row EXCEPT !.dest = PathOf(row.url)]
    \/ left = [row EXCEPT !.dest = PathOf(row.url), !.hashed = TRUE]

\* A row of a cut commit names the file it waits for.
LEMMA CutCommitRow ==
    ASSUME NEW row \in TrackedRow, NEW left, CutCommit(row, left)
    PROVE  left \in TrackedRow /\ WaitsForItsFile(left) /\ left.dest = PathOf(row.url)
<1>1. row.url \in Urls /\ PathOf(row.url) \in LibraryPaths
  BY PathsOfSources DEF TrackedRow
<1>2. /\ left \in TrackedRow
      /\ left.dest = PathOf(row.url) /\ left.url = row.url
  BY <1>1 DEF TrackedRow, CutCommit
<1> QED  BY <1>2 DEF WaitsForItsFile

\* A crash cuts at most one row's commit.
LEMMA CrashRows ==
    ASSUME Crash
    PROVE  /\ nextRow' = nextRow
           /\ \/ rows' = rows
              \/ \E j \in WithStatus(rows, "downloading") : \E row :
                    CutCommit(rows[j], row) /\ rows' = Update(rows, j, row)
<1>1. CASE UNCHANGED rows
  BY <1>1 DEF Crash
<1>2. ASSUME NEW j \in WithStatus(rows, "downloading"), NEW row,
             \/ row = [rows[j] EXCEPT !.dest = PathOf(rows[j].url)]
             \/ row = [[rows[j] EXCEPT !.dest = PathOf(rows[j].url)] EXCEPT !.hashed = TRUE],
             rows' = Update(rows, j, row)
      PROVE  \E k \in WithStatus(rows, "downloading") : \E left :
                CutCommit(rows[k], left) /\ rows' = Update(rows, k, left)
  <2>1. CutCommit(rows[j], row)
    BY <1>2 DEF CutCommit
  <2> QED  BY <1>2, <2>1
<1> QED  BY <1>1, <1>2 DEF Crash

\* A stop forgets the tasks; a start recovers the rows.
LEMMA StopAndStart ==
    ASSUME UpdateInv, Stop \/ Start
    PROVE  UpdateInv'
<1>1. TableOK(rows, nextRow) /\ DiskOK /\ TasksOK /\ CheckOK /\ ShownOK
  BY InvParts
<1>2. CASE Stop
  <2>1. ASSUME NEW j \in WithStatus(rows, "downloading"), NEW row,
               CutCommit(rows[j], row), rows' = Update(rows, j, row), nextRow' = nextRow
        PROVE  TableOK(rows', nextRow')
    <3>1. j \in DOMAIN rows /\ rows[j] \in TrackedRow
      BY <1>1 DEF WithStatus, TableOK
    <3>2. row \in TrackedRow /\ WaitsForItsFile(row)
      BY <2>1, <3>1, CutCommitRow
    <3> QED  BY <1>1, <2>1, <3>2, UpdatedRow
  <2>2. TableOK(rows', nextRow')
    BY <1>1, <1>2, <2>1, CrashRows DEF Stop, Crash
  <2>3. DiskOK'
    BY <1>1, <1>2 DEF Stop, Crash, DiskOK
  <2>4. TasksOK'
    BY <1>2, NoDeletionIsOne DEF Stop, Crash, TasksOK, NoScan
  <2>5. CheckOK' /\ ShownOK'
    BY <1>1, <1>2 DEF Stop, CheckOK, ShownOK
  <2> QED  BY <2>2, <2>3, <2>4, <2>5, InvParts
<1>3. CASE Start
  <2>1. TableOK(rows', nextRow')
    BY <1>1, <1>3, RecoveredRows DEF Start, Boot
  <2>2. DiskOK' /\ TasksOK'
    BY <1>1, <1>3 DEF Start, Boot, DiskOK, TasksOK
  <2>3. CheckOK' /\ ShownOK'
    BY <1>1, <1>3 DEF Start, updateVars, CheckOK, ShownOK
  <2> QED  BY <2>1, <2>2, <2>3, InvParts
<1> QED  BY <1>2, <1>3

\* Every step preserves the invariant.
LEMMA NextUpdateInv == ASSUME UpdateInv, [Next]_vars PROVE UpdateInv'
<1>1. TableOK(rows, nextRow) /\ DiskOK /\ TasksOK /\ CheckOK /\ ShownOK
  BY InvParts
<1>2. CASE UNCHANGED updateVars /\ LibraryStep
  <2>1. CheckOK' /\ ShownOK'
    BY <1>1, <1>2 DEF updateVars, CheckOK, ShownOK
  <2> QED  BY <1>2, <2>1, LibraryStepParts, InvParts
<1>3. CASE DayPasses
  <2>1. TableOK(rows', nextRow')
    BY <1>1, <1>3, FlaggedRows DEF DayPasses, Checks
  <2>2. DiskOK' /\ TasksOK'
    BY <1>1, <1>3 DEF DayPasses, rowsOnly, DiskOK, TasksOK
  <2>3. CheckOK' /\ ShownOK'
    BY <1>1, <1>3 DEF DayPasses, updateVars, CheckOK, ShownOK
  <2> QED  BY <2>1, <2>2, <2>3, InvParts
<1>4. CASE UNCHANGED vars
  <2>1. TableOK(rows', nextRow') /\ DiskOK' /\ TasksOK'
    BY <1>1, <1>4 DEF vars, libraryVars, DiskOK, TasksOK
  <2>2. CheckOK' /\ ShownOK'
    BY <1>1, <1>4 DEF vars, updateVars, CheckOK, ShownOK
  <2> QED  BY <2>1, <2>2, InvParts
<1> QED  BY <1>2, <1>3, <1>4, CheckParts, RequestParts, StopAndStart DEF Next

\* The catalog's rows, the files, the tasks and the checker keep their types,
\* ids stay fresh, and a row that waits names no file but its own: in every
\* installation, whatever is asked, removed, scanned, repaired or crashes.
THEOREM LibraryInvariant == Spec => []UpdateInv
<1>1. Init => UpdateInv
  BY InitUpdateInv
<1>2. UpdateInv /\ [Next]_vars => UpdateInv'
  BY NextUpdateInv
<1> QED  BY <1>1, <1>2, PTL DEF Spec

----------------------------------------------------------------------------
(* Steps that keep every row and its file's name.                          *)

RowsStayNamed ==
    \A j \in DOMAIN rows :
        /\ j \in DOMAIN rows'
        /\ rows[j].dest # None => rows'[j].dest = rows[j].dest \/ rows'[j].status = "queued"

\* The three claims, for one file, one file that goes and one row.
FileStaysNamed(p) ==
    Naming(rows, p) # {} =>
        \/ Naming(rows', p) # {}
        \/ \E j \in Naming(rows, p) \cap DOMAIN rows' : rows'[j].status = "queued"
        \/ \E j \in Naming(rows, p), k \in WithStatus(rows, "done") \cap DOMAIN rows' :
              j # k /\ SameDedupKey(rows[j], rows[k])
        \/ \E d \in Deleters, j \in Naming(rows, p) : Forgets(d, j)

FileLeavesAllowed(p) ==
    \/ UserRemoves(p)
    \/ \E d \in Deleters :
          /\ deletions[d].dest = p /\ deletions[d].step = "listed"
          /\ Naming(rows, p) \cap deletions[d].sharers = {}

RowIsAccountedFor(j) ==
    \/ \E d \in Deleters : Forgets(d, j)
    \/ \E k \in DOMAIN rows' :
          \/ rows'[k].dest = rows[j].dest
          \/ k \in WithStatus(rows, "done") /\ SameDedupKey(rows[k], rows[j])
          \/ /\ rows'[k].dest # None /\ Exists(rows'[k].dest)
             /\ \/ FileName[rows'[k].dest.url] = FileName[rows[j].dest.url]
                \/ SameDigest(rows[j].dest, rows'[k].dest)

\* With those steps no file loses its name and no row goes.
LEMMA StayingIsEnough ==
    ASSUME RowsStayNamed
    PROVE  /\ \A p \in LibraryPaths : p # None => FileStaysNamed(p)
           /\ \A j \in DOMAIN rows : j \in DOMAIN rows'
  BY DEF RowsStayNamed, FileStaysNamed, Naming

\* An insertion is such a step: the id is fresh.
LEMMA InsertionsStay ==
    ASSUME TableOK(rows, nextRow), NEW row, rows' = Insert(rows, nextRow, row)
    PROVE  RowsStayNamed
<1>1. nextRow \notin DOMAIN rows
  BY DEF TableOK
<1> QED  BY <1>1 DEF Insert, RowsStayNamed

\* A new status alone is one.
LEMMA StatusesStay ==
    ASSUME TableOK(rows, nextRow), NEW j \in DOMAIN rows, NEW st \in Statuses,
           rows' = SetStatus(rows, j, st)
    PROVE  RowsStayNamed
<1> DEFINE row == [rows[j] EXCEPT !.status = st]
<1>1. row.dest = rows[j].dest
  BY RowWithColumn DEF TableOK
<1>2. rows' = Update(rows, j, row)
  BY DEF SetStatus
<1> HIDE DEF row
<1> QED  BY <1>1, <1>2 DEF Update, RowsStayNamed

\* Naming the file a row waits for is one: it names no other.
LEMMA CompletionsStay ==
    ASSUME TableOK(rows, nextRow), NEW j \in DOMAIN rows, NEW row,
           rows[j].status = "downloading", row.dest = PathOf(rows[j].url),
           rows' = Update(rows, j, row)
    PROVE  RowsStayNamed
<1>1. rows[j].dest \in {None, PathOf(rows[j].url)}
  BY DEF TableOK, WaitsForItsFile, Pending
<1> QED  BY <1>1 DEF Update, RowsStayNamed

\* Time stamps and flags are such steps.
LEMMA FlagsStay ==
    ASSUME TableOK(rows, nextRow), NEW ids,
           \/ \E when \in Checks : SetChecked(ids, when)
           \/ \E version \in VersionIds \cup {None} : SetAvailable(ids, version)
    PROVE  RowsStayNamed
<1>1. \A j \in DOMAIN rows :
        /\ \A when \in Checks : [rows[j] EXCEPT !.checked = when].dest = rows[j].dest
        /\ \A version \in VersionIds \cup {None} :
              [rows[j] EXCEPT !.available = version].dest = rows[j].dest
  BY RowWithColumn DEF TableOK
<1> QED  BY <1>1 DEF SetChecked, SetAvailable, RowsStayNamed

\* Downloads keep every row, but for the dedupe of RedownloadMissing.
LEMMA DownloadsStay ==
    ASSUME UpdateInv, Downloads, ~\E all \in BOOLEAN : RedownloadMissing(all)
    PROVE  RowsStayNamed
<1>1. TableOK(rows, nextRow)
  BY InvParts
<1>2. ASSUME NEW u \in Urls, AddDownload(u)  PROVE RowsStayNamed
  <2>1. CASE rows' = rows
    BY <2>1 DEF RowsStayNamed
  <2>2. CASE rows' = Insert(rows, nextRow, Added(u))
    BY <1>1, <2>2, InsertionsStay
  <2> QED  BY <1>2, <2>1, <2>2 DEF AddDownload, EnqueueUrl, Enqueue
<1>3. ASSUME NEW j \in DOMAIN rows, PlaceFile(j) \/ FailRow(j) \/ CancelRow(j)
      PROVE  RowsStayNamed
  <2>1. PICK st \in Statuses : rows' = SetStatus(rows, j, st)
    BY <1>3 DEF PlaceFile, FailRow, CancelRow, Statuses
  <2> QED  BY <1>1, <2>1, StatusesStay
<1>4. ASSUME NEW j \in DOMAIN rows, CompleteRow(j)  PROVE RowsStayNamed
  <2> DEFINE row == [rows[j] EXCEPT !.status = "done", !.dest = PathOf(rows[j].url),
                                    !.hashed = rows[j].url \notin Unpublished]
  <2>1. rows[j] \in TrackedRow
    BY <1>1 DEF TableOK
  <2>2. row.dest = PathOf(rows[j].url)
    BY <2>1 DEF TrackedRow
  <2>3. rows[j].status = "downloading" /\ rows' = Update(rows, j, row)
    BY <1>4 DEF CompleteRow
  <2> HIDE DEF row
  <2> QED  BY <1>1, <2>2, <2>3, CompletionsStay
<1>5. ASSUME NEW j \in DOMAIN rows, Redownload(j)  PROVE RowsStayNamed
  <2>1. Requeued(rows[j]).status = "queued"
    BY <1>1, RowWithColumn DEF TableOK
  <2>2. rows' = Update(rows, j, Requeued(rows[j]))
    BY <1>5 DEF Redownload, RequeueOne
  <2> QED  BY <2>1, <2>2 DEF Update, RowsStayNamed
<1> QED  BY <1>2, <1>3, <1>4, <1>5 DEF Downloads

\* So do the scanner, a deletion until it forgets, and the user.
LEMMA LibraryStays ==
    ASSUME UpdateInv, LibraryStep, ~\E d \in Deleters : ForgetModel(d), ~Repair,
           ~\E all \in BOOLEAN : RedownloadMissing(all)
    PROVE  RowsStayNamed
<1>1. TableOK(rows, nextRow)
  BY InvParts
<1>2. CASE UNCHANGED rows
  BY <1>2 DEF RowsStayNamed
<1>3. CASE RegisterFile
  <2>1. CASE UNCHANGED rows
    BY <1>2, <2>1
  <2>2. CASE \E row : rows' = Insert(rows, nextRow, row)
    BY <1>1, <2>2, InsertionsStay
  <2> QED  BY <1>3, <2>1, <2>2 DEF RegisterFile
<1>4. CASE Downloads
  BY <1>4, DownloadsStay
<1> QED  BY <1>2, <1>3, <1>4 DEF LibraryStep, Deletion, ListDeletion, UnlinkModel, UnlinkSidecars,
   Scanner, ReadFile, UserRemoves

\* And the checker, the requests about versions, time, and a stop.
LEMMA ChecksStay ==
    ASSUME UpdateInv, CheckStep \/ CheckFails \/ Requests \/ DayPasses \/ Stop
    PROVE  RowsStayNamed
<1>1. TableOK(rows, nextRow) /\ CheckOK
  BY InvParts
<1>2. CASE UNCHANGED rows
  BY <1>2 DEF RowsStayNamed
<1>3. CASE StoreCheck
  BY <1>1, <1>3, FlagsStay DEF StoreCheck, Checks
<1>4. CASE FlagUpdate
  <2>1. CASE IsUpdate(answer, VersionOf[current])
    <3>1. answer \in Seq(DOMAIN Number) /\ answer # <<>>
      BY <1>1, <1>4, <2>1 DEF FlagUpdate, CheckOK, IsUpdate
    <3>2. Head(answer) \in VersionIds
      BY <3>1, UpdateAssumption
    <3>3. SetAvailable(DoneRows(ModelOf[current]), Head(answer))
      BY <1>4, <2>1 DEF FlagUpdate
    <3> QED  BY <1>1, <3>2, <3>3, FlagsStay
  <2>2. CASE ~IsUpdate(answer, VersionOf[current])
    BY <1>2, <1>4, <2>2 DEF FlagUpdate
  <2> QED  BY <2>1, <2>2
<1>5. ASSUME NEW u \in Urls, DownloadVersion(u)  PROVE RowsStayNamed
  <2> DEFINE after == Enqueue(rows, nextRow, Added(u))
  <2>1. TableOK(after, nextRow')
    BY <1>1, <1>5, EnqueuedRow DEF DownloadVersion
  <2>2. \A j \in DOMAIN rows : j \in DOMAIN after /\ after[j] = rows[j]
    <3>1. nextRow \notin DOMAIN rows
      BY <1>1 DEF TableOK
    <3> QED  BY <3>1 DEF Enqueue, Insert
  <2>3. rows' = [j \in DOMAIN after |->
                    IF after[j].status = "done" /\ ModelOf[after[j].url] = ModelOf[u]
                    THEN [after[j] EXCEPT !.available = None] ELSE after[j]]
    BY <1>5 DEF DownloadVersion
  <2> HIDE DEF after
  <2>4. \A j \in DOMAIN after : [after[j] EXCEPT !.available = None].dest = after[j].dest
    BY <2>1, RowWithColumn DEF TableOK
  <2> QED  BY <2>2, <2>3, <2>4 DEF RowsStayNamed
<1>6. CASE DayPasses
  BY <1>1, <1>6, FlagsStay DEF DayPasses, Checks
<1>7. CASE Stop
  <2>1. ASSUME NEW j \in WithStatus(rows, "downloading"), NEW row,
               CutCommit(rows[j], row), rows' = Update(rows, j, row)
        PROVE  RowsStayNamed
    <3>1. j \in DOMAIN rows /\ rows[j].status = "downloading" /\ rows[j] \in TrackedRow
      BY <1>1 DEF WithStatus, TableOK
    <3>2. row.dest = PathOf(rows[j].url)
      BY <2>1, <3>1, CutCommitRow
    <3> QED  BY <1>1, <2>1, <3>1, <3>2, CompletionsStay
  <2> QED  BY <1>2, <1>7, <2>1, CrashRows DEF Stop
<1> QED  BY <1>2, <1>3, <1>4, <1>5, <1>6, <1>7 DEF CheckStep, CheckFails, BeginCheck, SkipModel,
   AskModel, EndCheck, Requests, CheckUpdates, PublishVersion, libraryVars

----------------------------------------------------------------------------
(* Steps that remove rows.                                                 *)

\* A deletion is the excuse of what it forgets, and forgets nothing that it
\* failed to unlink.
LEMMA ForgettingIsAccountedFor ==
    ASSUME UpdateInv, NEW d \in Deleters, ForgetModel(d)
    PROVE  /\ \A p \in DOMAIN files : FileStaysNamed(p)
           /\ \A j \in Dangling(rows) \ DOMAIN rows' : RowIsAccountedFor(j)
<1>1. CASE deletions[d].failed
  BY <1>1 DEF ForgetModel, FileStaysNamed, Dangling
<1>2. CASE ~deletions[d].failed
  <2>1. \A j \in DOMAIN rows : j # deletions[d].id => j \in DOMAIN rows' /\ rows'[j] = rows[j]
    BY <1>2 DEF ForgetModel, DeleteJobs
  <2>2. Forgets(d, deletions[d].id)
    BY <1>2 DEF ForgetModel, Forgets
  <2>3. \A j \in DOMAIN rows \ DOMAIN rows' : Forgets(d, j)
    BY <2>1, <2>2
  <2>4. ASSUME NEW p \in DOMAIN files  PROVE FileStaysNamed(p)
    <3>1. CASE \E j \in Naming(rows, p) : j \notin DOMAIN rows'
      <4>1. PICK j \in Naming(rows, p) : j \notin DOMAIN rows'
        BY <3>1
      <4>2. j \in DOMAIN rows
        BY DEF Naming
      <4>3. Forgets(d, j)
        BY <2>3, <4>1, <4>2
      <4> QED  BY <4>3 DEF FileStaysNamed
    <3>2. CASE \A j \in Naming(rows, p) : j \in DOMAIN rows'
      <4>1. \A j \in DOMAIN rows : j \in DOMAIN rows' => rows'[j] = rows[j]
        BY <1>2 DEF ForgetModel, DeleteJobs
      <4>2. \A j \in Naming(rows, p) : j \in Naming(rows', p)
        BY <3>2, <4>1 DEF Naming
      <4> QED  BY <4>2 DEF FileStaysNamed
    <3> QED  BY <3>1, <3>2
  <2>5. ASSUME NEW j \in Dangling(rows) \ DOMAIN rows'  PROVE RowIsAccountedFor(j)
    <3>1. j \in DOMAIN rows \ DOMAIN rows'
      BY DEF Dangling
    <3> QED  BY <2>3, <3>1 DEF RowIsAccountedFor
  <2> QED  BY <2>4, <2>5
<1> QED  BY <1>1, <1>2

\* A dedupe leaves a completed row of the version or path, and sends no row
\* away that it does not keep or queue.
LEMMA DedupingIsAccountedFor ==
    ASSUME UpdateInv, DOMAIN rows' = DOMAIN DedupeDone(rows),
           \A j \in DOMAIN rows' : rows'[j].dest = rows[j].dest \/ rows'[j].status = "queued"
    PROVE  /\ \A p \in DOMAIN files : FileStaysNamed(p)
           /\ \A j \in Dangling(rows) \ DOMAIN rows' : RowIsAccountedFor(j)
<1>1. DOMAIN rows \subseteq Nat
  BY InvParts DEF TableOK
<1>2. ASSUME NEW j \in DOMAIN rows \ DOMAIN rows'
      PROVE  \E k \in WithStatus(rows, "done") \cap DOMAIN rows' :
                /\ j # k
                /\ SameDedupKey(rows[k], rows[j]) /\ SameDedupKey(rows[j], rows[k])
  <2>1. PICK k \in DOMAIN DedupeDone(rows) :
           rows[k].status = "done" /\ SameDedupKey(rows[k], rows[j])
    BY <1>1, <1>2, DedupedAreKept
  <2>2. k \in DOMAIN rows /\ k # j
    BY <1>2 DEF DedupeDone, DeleteJobs
  <2>3. SameDedupKey(rows[j], rows[k])
    BY <2>1, DedupKeysMatch
  <2> QED  BY <2>1, <2>2, <2>3 DEF WithStatus
<1>3. ASSUME NEW p \in DOMAIN files  PROVE FileStaysNamed(p)
  <2> SUFFICES ASSUME NEW j \in Naming(rows, p)  PROVE FileStaysNamed(p)
    BY DEF FileStaysNamed
  <2>1. CASE j \in DOMAIN rows'
    BY <2>1 DEF FileStaysNamed, Naming
  <2>2. CASE j \notin DOMAIN rows'
    BY <1>2, <2>2 DEF FileStaysNamed, Naming
  <2> QED  BY <2>1, <2>2
<1>4. ASSUME NEW j \in Dangling(rows) \ DOMAIN rows'  PROVE RowIsAccountedFor(j)
  BY <1>2, <1>4 DEF RowIsAccountedFor, Dangling
<1> QED  BY <1>3, <1>4

\* The recovery at startup and RedownloadMissing both dedupe; a row that stays
\* keeps its destination or is queued again.
LEMMA RecoveryAndRequeuesDedupe ==
    ASSUME UpdateInv, Start \/ \E all \in BOOLEAN : RedownloadMissing(all)
    PROVE  /\ DOMAIN rows' = DOMAIN DedupeDone(rows)
           /\ \A j \in DOMAIN rows' : rows'[j].dest = rows[j].dest \/ rows'[j].status = "queued"
<1> DEFINE kept == DedupeDone(rows)
<1>1. TableOK(rows, nextRow) /\ TableOK(kept, nextRow)
  BY InvParts, DeletedRows DEF DedupeDone
<1>2. \A j \in DOMAIN kept : kept[j] = rows[j]
  BY DEF DedupeDone, DeleteJobs
<1> HIDE DEF kept
<1>3. \A j \in DOMAIN kept :
        /\ Requeued(kept[j]).status = "queued"
        /\ \A st \in Statuses : [kept[j] EXCEPT !.status = st].dest = kept[j].dest
        /\ \A st \in Statuses : [kept[j] EXCEPT !.status = st] \in TrackedRow
        /\ kept[j] \in TrackedRow
  BY <1>1, RowWithColumn DEF TableOK
<1>4. CASE Start
  <2> DEFINE pruned == CancelRedundant(kept)
  <2>1. rows' = RequeueInterrupted(pruned)
    BY <1>4 DEF Start, Boot, kept
  <2>2. DOMAIN pruned = DOMAIN kept
        /\ \A j \in DOMAIN kept : pruned[j].dest = kept[j].dest /\ pruned[j] \in TrackedRow
    BY <1>3 DEF CancelRedundant, Statuses
  <2> HIDE DEF pruned
  <2>3. \A j \in DOMAIN pruned : [pruned[j] EXCEPT !.status = "queued"].dest = pruned[j].dest
    BY <2>2, RowWithColumn DEF Statuses
  <2> QED  BY <1>2, <2>1, <2>2, <2>3 DEF RequeueInterrupted, kept
<1>5. ASSUME NEW all \in BOOLEAN, RedownloadMissing(all)
      PROVE  /\ DOMAIN rows' = DOMAIN kept
             /\ \A j \in DOMAIN kept : rows'[j] = kept[j] \/ rows'[j] = Requeued(kept[j])
  BY <1>5 DEF RedownloadMissing, RequeueDone, kept
<1> QED  BY <1>2, <1>3, <1>4, <1>5 DEF kept

\* Where a row stands in repair's order, before its id is looked at.
Weight(table, j) ==
    4 * Rank(ModelOf[table[j].url] # None) + 2 * Rank(VersionOf[table[j].url] # None)
        + Rank(table[j].hashed)

\* A row that sorts before another weighs less, or the same and is older.
LEMMA SortingFollowsWeight ==
    ASSUME NEW table, NEW k \in Nat, NEW j \in Nat, SortsBefore(table, k, j)
    PROVE  \/ Weight(table, k) < Weight(table, j)
           \/ Weight(table, k) = Weight(table, j) /\ k < j
<1> DEFINE a == SortKey(table, k)
           b == SortKey(table, j)
<1>1. /\ a = <<Rank(ModelOf[table[k].url] # None), Rank(VersionOf[table[k].url] # None),
               Rank(table[k].hashed), k>>
      /\ b = <<Rank(ModelOf[table[j].url] # None), Rank(VersionOf[table[j].url] # None),
               Rank(table[j].hashed), j>>
  BY DEF SortKey
<1>2. \A i \in 1..3 : a[i] \in 0..1 /\ b[i] \in 0..1
  BY <1>1 DEF Rank
<1>3. a[4] = k /\ b[4] = j
  BY <1>1
<1>4. /\ Weight(table, k) = 4 * a[1] + 2 * a[2] + a[3]
      /\ Weight(table, j) = 4 * b[1] + 2 * b[2] + b[3]
  BY <1>1 DEF Weight
<1>5. PICK i \in 1..4 : a[i] < b[i] /\ \A n \in 1..(i - 1) : a[n] = b[n]
  BY DEF SortsBefore, Precedes
<1> HIDE DEF a, b
<1>6. /\ a[1] \in 0..1 /\ a[2] \in 0..1 /\ a[3] \in 0..1
      /\ b[1] \in 0..1 /\ b[2] \in 0..1 /\ b[3] \in 0..1
  BY <1>2
<1>7. CASE i = 1
  BY <1>4, <1>5, <1>6, <1>7
<1>8. CASE i = 2
  <2>1. a[1] = b[1]
    BY <1>5, <1>8
  <2> QED  BY <1>4, <1>5, <1>6, <1>8, <2>1
<1>9. CASE i = 3
  <2>1. a[1] = b[1] /\ a[2] = b[2]
    BY <1>5, <1>9
  <2> QED  BY <1>4, <1>5, <1>6, <1>9, <2>1
<1>10. CASE i = 4
  <2>1. a[1] = b[1] /\ a[2] = b[2] /\ a[3] = b[3]
    BY <1>5, <1>10
  <2> QED  BY <1>3, <1>4, <1>5, <1>6, <1>10, <2>1
<1> QED  BY <1>5, <1>7, <1>8, <1>9, <1>10

\* Of the rows that name a path, repair's first is nobody's duplicate.
LEMMA FirstNamingIsNoDuplicate ==
    ASSUME NEW table, DOMAIN table \subseteq Nat, NEW p, Naming(table, p) # {}
    PROVE  \E m \in Naming(table, p) : m \notin Duplicates(table)
<1> DEFINE group == Naming(table, p)
           weights == {Weight(table, k) : k \in group}
<1>1. group \subseteq Nat /\ group # {}
  BY DEF Naming
<1>2. weights \in SUBSET Nat /\ weights # {}
  <2>1. \A k \in group : Weight(table, k) \in Nat
    BY DEF Weight, Rank
  <2> QED  BY <1>1, <2>1
<1>3. PICK w \in weights : \A v \in weights : w <= v
  <2> HIDE DEF weights
  <2> QED  BY <1>2, LeastId
<1> DEFINE lightest == {k \in group : Weight(table, k) = w}
<1>4. lightest \in SUBSET Nat /\ lightest # {}
  BY <1>1, <1>3
<1>5. PICK m \in lightest : \A k \in lightest : m <= k
  <2> HIDE DEF lightest
  <2> QED  BY <1>4, LeastId
<1>6. m \in group /\ Weight(table, m) = w /\ w \in Nat /\ m \in Nat
  BY <1>1, <1>2, <1>3, <1>5
<1>7. ASSUME NEW k \in group, SortsBefore(table, k, m)  PROVE FALSE
  <2>1. Weight(table, k) \in weights /\ k \in Nat
    BY <1>1
  <2>2. w <= Weight(table, k) /\ Weight(table, k) \in Nat
    BY <1>2, <1>3, <2>1
  <2> HIDE DEF weights
  <2>3. Weight(table, k) = w /\ k < m
    BY <1>6, <1>7, <2>1, <2>2, SortingFollowsWeight
  <2>4. m <= k
    BY <1>5, <1>7, <2>3
  <2> QED  BY <1>6, <2>1, <2>3, <2>4
<1>8. table[m].dest = p
  BY <1>6 DEF Naming
<1>9. m \notin Duplicates(table)
  BY <1>7, <1>8 DEF Duplicates
<1> QED  BY <1>6, <1>9

\* A repair leaves every file that is there a row, and with it whatever a
\* dropped row was covered by, though it looked among the rows it drops too.
LEMMA RepairingIsAccountedFor ==
    ASSUME UpdateInv, Repair
    PROVE  /\ \A p \in DOMAIN files : FileStaysNamed(p)
           /\ \A j \in Dangling(rows) \ DOMAIN rows' : RowIsAccountedFor(j)
<1>1. DOMAIN rows \subseteq Nat
  BY InvParts DEF TableOK
<1>2. DOMAIN rows' = DOMAIN rows \ (Duplicates(rows) \cup {j \in Dangling(rows) : Covered(rows, j)})
      /\ \A j \in DOMAIN rows' : rows'[j] = rows[j]
  BY DEF Repair, Repaired, DeleteJobs
<1>3. ASSUME NEW p, Exists(p), Naming(rows, p) # {}
      PROVE  \E g \in DOMAIN rows' : rows'[g].dest = p
  <2>1. PICK g \in Naming(rows, p) : g \notin Duplicates(rows)
    BY <1>1, <1>3, FirstNamingIsNoDuplicate
  <2>2. g \in DOMAIN rows /\ rows[g].dest = p /\ g \notin Dangling(rows)
    BY <1>3 DEF Naming, Dangling
  <2> QED  BY <1>2, <2>1, <2>2
<1>4. ASSUME NEW p \in DOMAIN files  PROVE FileStaysNamed(p)
  BY <1>3, <1>4 DEF FileStaysNamed, Exists, Naming
<1>5. ASSUME NEW j \in Dangling(rows) \ DOMAIN rows'  PROVE RowIsAccountedFor(j)
  <2> DEFINE p == rows[j].dest
  <2>1. j \in Naming(rows, p)
    BY DEF Naming, Dangling
  <2>2. PICK f \in Naming(rows, p) : f \notin Duplicates(rows)
    BY <1>1, <2>1, FirstNamingIsNoDuplicate
  <2>3. f \in DOMAIN rows /\ rows[f].dest = p
    BY <2>2 DEF Naming
  <2>4. CASE f \in DOMAIN rows'
    BY <1>2, <2>3, <2>4 DEF RowIsAccountedFor
  <2>5. CASE f \notin DOMAIN rows'
    <3>1. Covered(rows, f)
      BY <1>2, <2>2, <2>3, <2>5
    <3>2. PICK k \in DOMAIN rows :
             /\ rows[k].dest # None /\ Exists(rows[k].dest)
             /\ \/ rows[k].hashed /\ rows[f].hashed /\ rows[k].url = rows[f].url
                \/ FileName[rows[k].dest.url] = FileName[rows[f].dest.url]
      BY <3>1 DEF Covered
    <3> DEFINE q == rows[k].dest
    <3>3. k \in Naming(rows, q)
      BY DEF Naming
    <3>4. PICK g \in DOMAIN rows' : rows'[g].dest = q
      BY <1>3, <3>2, <3>3
    <3>5. FileName[q.url] = FileName[p.url] \/ SameDigest(p, q)
      BY <2>2, <2>3, <3>2, <3>3 DEF SameDigest
    <3> QED  BY <3>2, <3>4, <3>5 DEF RowIsAccountedFor
  <2> QED  BY <2>4, <2>5
<1> QED  BY <1>4, <1>5

\* Of all steps, four kinds remove rows; the others keep every name.
LEMMA StepsAreAccountedFor ==
    ASSUME UpdateInv, [Next]_vars
    PROVE  /\ \A p \in DOMAIN files : FileStaysNamed(p)
           /\ \A j \in Dangling(rows) \ DOMAIN rows' : RowIsAccountedFor(j)
<1>1. \A p \in DOMAIN files : p \in LibraryPaths /\ p # None
  BY InvParts, LibraryPathsAreTyped DEF DiskOK
<1>2. CASE RowsStayNamed
  BY <1>1, <1>2, StayingIsEnough DEF Dangling
<1>3. CASE \E d \in Deleters : ForgetModel(d)
  BY <1>3, ForgettingIsAccountedFor
<1>4. CASE Repair
  BY <1>4, RepairingIsAccountedFor
<1>5. CASE Start \/ \E all \in BOOLEAN : RedownloadMissing(all)
  BY <1>5, RecoveryAndRequeuesDedupe, DedupingIsAccountedFor
<1>6. CASE UNCHANGED vars
  BY <1>2, <1>6 DEF RowsStayNamed, vars, libraryVars
<1>7. CASE /\ LibraryStep /\ ~\E d \in Deleters : ForgetModel(d)
           /\ ~Repair /\ ~\E all \in BOOLEAN : RedownloadMissing(all)
  BY <1>2, <1>7, LibraryStays
<1>8. CASE CheckStep \/ CheckFails \/ Requests \/ DayPasses \/ Stop
  BY <1>2, <1>8, ChecksStay
<1> QED  BY <1>3, <1>4, <1>5, <1>6, <1>7, <1>8 DEF Next

----------------------------------------------------------------------------
(* Steps that remove files.                                                *)

\* A file leaves the disk at the user's hands or to a deletion that found the
\* path no other row's, so that no row that names it now shared it then.
LEMMA FilesLeaveAsAllowed ==
    ASSUME UpdateInv, [Next]_vars, NEW p \in DOMAIN files \ DOMAIN files'
    PROVE  FileLeavesAllowed(p)
<1>1. ASSUME NEW j \in DOMAIN rows, PlaceFile(j)  PROVE FALSE
  BY <1>1 DEF PlaceFile, With
<1>2. CASE Downloads
  BY <1>1, <1>2 DEF Downloads, AddDownload, CompleteRow, FailRow, CancelRow, Redownload,
     RedownloadMissing, rowsOnly
<1>3. ASSUME NEW d \in Deleters, UnlinkModel(d)  PROVE FileLeavesAllowed(p)
  <2>1. p \in OwnedPaths(d)
    BY <1>3 DEF UnlinkModel
  <2>2. deletions[d].sharers = {} /\ deletions[d].dest = p
    BY <2>1 DEF OwnedPaths
  <2> QED  BY <1>3, <2>2 DEF UnlinkModel, FileLeavesAllowed
<1>4. CASE Deletion
  BY <1>3, <1>4 DEF Deletion, ListDeletion, UnlinkSidecars, ForgetModel
<1>5. ASSUME NEW q \in DOMAIN files, UserRemoves(q)  PROVE FileLeavesAllowed(p)
  <2>1. p = q
    BY <1>5 DEF UserRemoves
  <2> QED  BY <1>5, <2>1 DEF FileLeavesAllowed
<1>6. CASE Repair \/ Scanner
  BY <1>6 DEF Repair, Scanner, ReadFile, RegisterFile, rowsOnly
<1>7. CASE LibraryStep
  BY <1>2, <1>4, <1>5, <1>6, <1>7 DEF LibraryStep
<1>8. CASE CheckStep \/ CheckFails
  BY <1>8 DEF CheckStep, CheckFails, BeginCheck, SkipModel, AskModel, StoreCheck, FlagUpdate,
     EndCheck, libraryVars, rowsOnly
<1>9. CASE Requests
  BY <1>9 DEF Requests, CheckUpdates, DownloadVersion, PublishVersion, libraryVars, rowsOnly
<1>10. CASE DayPasses \/ Stop \/ Start \/ UNCHANGED vars
  BY <1>10 DEF DayPasses, Stop, Start, Crash, Boot, rowsOnly, libraryVars, vars
<1> QED  BY <1>7, <1>8, <1>9, <1>10 DEF Next

----------------------------------------------------------------------------

\* The rows and the files they name come apart only in the ways listed, for any
\* number of sources, rows, files and handlers and whatever runs beside: a
\* failed unlink, a repair of rows that name one file, a scan, a crash between
\* the UPDATEs of a commit.  A file on disk that rows name keeps one of them but
\* for a requeue, a dedupe that keeps another row of the version, and a deletion
\* whose unlinks have succeeded, beside which the file was put back, or which
\* left it to rows that shared it and have let go since, or which looked when
\* the row named another file.  A file that rows name leaves the disk by the
\* user, or by a deletion that found none of them but its own naming it.
THEOREM NamedFilesStayNamed == Spec => FilesStayNamed
<1> DEFINE Step ==
        /\ \A p \in DOMAIN files \cap DOMAIN files' :
              Naming(rows, p) # {} =>
                  \/ Naming(rows', p) # {}
                  \/ \E j \in Naming(rows, p) \cap DOMAIN rows' : rows'[j].status = "queued"
                  \/ \E j \in Naming(rows, p), k \in WithStatus(rows, "done") \cap DOMAIN rows' :
                        j # k /\ SameDedupKey(rows[j], rows[k])
                  \/ \E d \in Deleters, j \in Naming(rows, p) : Forgets(d, j)
        /\ \A p \in DOMAIN files \ DOMAIN files' :
              \/ UserRemoves(p)
              \/ \E d \in Deleters :
                    /\ deletions[d].dest = p /\ deletions[d].step = "listed"
                    /\ Naming(rows, p) \cap deletions[d].sharers = {}
<1>1. ASSUME UpdateInv, [Next]_vars  PROVE Step
  <2>1. \A p \in DOMAIN files : FileStaysNamed(p)
    BY <1>1, StepsAreAccountedFor
  <2>2. \A p \in DOMAIN files \ DOMAIN files' : FileLeavesAllowed(p)
    BY <1>1, FilesLeaveAsAllowed
  <2> QED  BY <2>1, <2>2 DEF FileStaysNamed, FileLeavesAllowed
<1>2. UpdateInv /\ [Next]_vars => [Step]_libraryVars
  BY <1>1
<1> QED  BY <1>2, LibraryInvariant, PTL DEF Spec, FilesStayNamed

\* A row of a missing file goes only with its deletion, or when the catalog
\* still accounts for it: by a row of its path, by a row completed for its
\* version, or by a file on disk of its name or recorded digest that keeps a
\* row, although repair looks for that file among the rows it drops as well.
THEOREM MissingRowsAreAccountedFor == Spec => MissingAreAccountedFor
<1> DEFINE Step ==
        \A j \in Dangling(rows) \ DOMAIN rows' :
            \/ \E d \in Deleters : Forgets(d, j)
            \/ \E k \in DOMAIN rows' :
                  \/ rows'[k].dest = rows[j].dest
                  \/ k \in WithStatus(rows, "done") /\ SameDedupKey(rows[k], rows[j])
                  \/ /\ rows'[k].dest # None /\ Exists(rows'[k].dest)
                     /\ \/ FileName[rows'[k].dest.url] = FileName[rows[j].dest.url]
                        \/ SameDigest(rows[j].dest, rows'[k].dest)
<1>1. UpdateInv /\ [Next]_vars => [Step]_libraryVars
  BY StepsAreAccountedFor DEF RowIsAccountedFor
<1> QED  BY <1>1, LibraryInvariant, PTL DEF Spec, MissingAreAccountedFor

=============================================================================
