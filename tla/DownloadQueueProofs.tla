------------------------ MODULE DownloadQueueProofs ------------------------
(***************************************************************************)
(* The safety theorems of DownloadQueue.  One invariant, QueueInv, carries *)
(* them all: the job a worker transfers is claimed by its row's status, so *)
(* nothing can queue it again, so the loop never picks a job that is       *)
(* worked on.  The loop's operations, startup and crash preserve it by a   *)
(* lemma each; a worker's steps and the environment's preserve it because  *)
(* each of them fits one description (WorkerStep, EnvironmentStep) that is *)
(* enough.  The last part shows that the queue implements the board of     *)
(* JobBoard: initial states map to initial states, and every step maps to  *)
(* a step of the board or changes nothing there.                           *)
(***************************************************************************)
EXTENDS QueueBoard, CatalogProofs

USE DEF Phases, LoopPhases, TransferPhases, PublishedPhases, TailPhases, WorkPhases

\* The initial states satisfy the invariant (first start, or the tables an
\* earlier run left behind).
LEMMA InitInv == ASSUME Init PROVE QueueInv
<1>1. PICK n \in 0..MaxJobs : DOMAIN jobs = 1..n /\ nextId = n + 1
  BY DEF Init
<1>2. jobs \in InitialCatalogs /\ CatalogOK(jobs)
      /\ \A j \in WithStatus(jobs, "done") : jobs[j].dest # None
  BY InitialCatalogsAssumption DEF Init
<1>3. nextId \in JobIds /\ \A j \in DOMAIN jobs : j < nextId
  BY <1>1, BoundsAssumption DEF JobIds
<1>4. disk \subseteq Paths
  BY <1>2, StrayFilesAssumption DEF Init, Named, CatalogOK, Row
<1>5. TypeOK
  BY <1>2, <1>3, <1>4 DEF TypeOK, Init, EmptyMemory, NoRequest
<1>6. OneLoop /\ DownIsEmpty /\ IdsWereHandedOut /\ TasksKnowTheirRow
  BY <1>3 DEF Init, EmptyMemory, NoRequest, JobIds, OneLoop, DownIsEmpty,
              IdsWereHandedOut, TasksKnowTheirRow, KnowsItsRow
<1>7. PickedHasNoWorker /\ OneWorkerPerJob /\ TokensBelongToTasks /\ ProgressHasWorker
  BY DEF Init, EmptyMemory, PickedHasNoWorker, OneWorkerPerJob,
         TokensBelongToTasks, ProgressHasWorker, Working
<1>8. WorkedRowIsClaimed /\ DownloadingHasWorker /\ DoneNamesFile
  BY <1>2 DEF Init, EmptyMemory, WorkedRowIsClaimed, DownloadingHasWorker,
              DoneNamesFile, Working
<1> QED  BY <1>5, <1>6, <1>7, <1>8 DEF QueueInv

----------------------------------------------------------------------------
(* The environment.                                                        *)

\* What a request, a scan or a cancellation can do to the table.
EnvironmentRows ==
    \A j \in DOMAIN jobs' :
        \/ /\ j \in DOMAIN jobs
           /\ jobs'[j].status = jobs[j].status
           /\ jobs'[j].dest = jobs[j].dest
        \/ /\ j \in DOMAIN jobs
           /\ jobs'[j].status = "cancelled"
        \/ /\ j \in DOMAIN jobs
           /\ jobs[j].status = "done"
           /\ jobs'[j].status = "queued"
        \/ /\ j = nextId
           /\ jobs'[j].status \in {"queued", "done"}
           /\ jobs'[j].status = "done" => jobs'[j].dest # None

EnvironmentStep ==
    /\ TypeOK'
    /\ EnvironmentRows
    /\ nextId' \in {nextId, nextId + 1}
    /\ request'.id < nextId'
    /\ ~up => request' = NoRequest
    /\ UNCHANGED <<up, phase, task, snapshot, role, cursor, active, progress, originals>>

\* A step of that kind preserves the invariant.
LEMMA EnvironmentInv == ASSUME QueueInv, EnvironmentStep PROVE QueueInv'
<1> USE DEF QueueInv, TypeOK, EnvironmentStep
<1>1. OneLoop' /\ DownIsEmpty' /\ TasksKnowTheirRow'
  BY DEF OneLoop, DownIsEmpty, TasksKnowTheirRow, KnowsItsRow, Candidates
<1>2. IdsWereHandedOut'
  BY DEF IdsWereHandedOut, JobIds
<1>3. PickedHasNoWorker' /\ OneWorkerPerJob' /\ TokensBelongToTasks'
  BY DEF PickedHasNoWorker, OneWorkerPerJob, TokensBelongToTasks, Working
<1>4. ProgressHasWorker'
  BY DEF ProgressHasWorker
<1>5. WorkedRowIsClaimed'
  <2> SUFFICES ASSUME NEW s \in Slots, Working(s)', task'[s] \in DOMAIN jobs'
               PROVE  jobs'[task'[s]].status \in {"downloading", "cancelled"}
    BY DEF WorkedRowIsClaimed
  <2>1. Working(s) /\ task'[s] = task[s] /\ task[s] < nextId
    BY DEF Working, IdsWereHandedOut
  <2>2. task[s] # nextId
    BY <2>1 DEF JobIds
  <2> QED  BY <2>1, <2>2 DEF WorkedRowIsClaimed, EnvironmentRows
<1>6. DownloadingHasWorker'
  BY DEF DownloadingHasWorker, EnvironmentRows, Working, WithStatus
<1>7. DoneNamesFile'
  BY DEF DoneNamesFile, EnvironmentRows, WithStatus
<1> QED  BY <1>1, <1>2, <1>3, <1>4, <1>5, <1>6, <1>7

\* Inserting a row unless one answers the request: the table stays well formed
\* and gains at most the row `nextId`, in the state `queued` (enqueue).
LEMMA RequestEffect ==
    ASSUME TypeOK, NEW url \in Urls, NEW type \in Types \cup {None},
           NEW declared \in BOOLEAN, NEW file \in Files \cup {None},
           NEW reason \in Reasons, Request(url, type, declared, file, reason)
    PROVE  /\ CatalogOK(jobs')
           /\ nextId' \in {nextId, nextId + 1}
           /\ nextId' \in JobIds
           /\ \A j \in DOMAIN jobs' : j < nextId'
           /\ \A j \in DOMAIN jobs' :
                 \/ j \in DOMAIN jobs /\ jobs'[j] = jobs[j]
                 \/ j = nextId /\ jobs'[j].status = "queued"
           /\ DOMAIN jobs \subseteq DOMAIN jobs'
<1> DEFINE row == NewRow(url, type, declared, file, reason)
<1>1. row \in Row /\ row.status = "queued"
  BY DEF NewRow, Row, Statuses
<1>2. nextId \notin DOMAIN jobs
  BY DEF TypeOK, JobIds
<1>3. CASE jobs' = jobs
  BY <1>3 DEF TypeOK, Request
<1>4. CASE jobs' # jobs
  <2>1. jobs' = Insert(jobs, nextId, row) /\ nextId' = nextId + 1
    BY <1>4 DEF Request, Enqueue
  <2> HIDE DEF row
  <2>2. CatalogOK(jobs) /\ nextId \in JobIds
    BY DEF TypeOK
  <2>3. /\ CatalogOK(Insert(jobs, nextId, row))
        /\ DOMAIN Insert(jobs, nextId, row) = DOMAIN jobs \cup {nextId}
        /\ \A j \in DOMAIN jobs : j # nextId => Insert(jobs, nextId, row)[j] = jobs[j]
        /\ Insert(jobs, nextId, row)[nextId] = row
    BY <1>1, <2>2, InsertEffect, Z3
  <2>4. \A j \in DOMAIN jobs : j \in Nat /\ j < nextId
    BY <2>2 DEF CatalogOK, JobIds, TypeOK
  <2> QED  BY <1>1, <1>2, <2>1, <2>2, <2>3, <2>4 DEF JobIds
<1> QED  BY <1>3, <1>4

\* AddDownload and DownloadVersion.
LEMMA AddDownloadInv ==
    ASSUME QueueInv, NEW r \in Requests, AddDownload(r)
    PROVE  QueueInv'
<1>1. /\ r.url \in Urls /\ r.type \in Types \cup {None} /\ (r.type # None) \in BOOLEAN
      /\ r.file \in Files \cup {None} /\ "cli_add" \in Reasons
  BY RequestsAssumption DEF Reasons
<1>2. TypeOK /\ Request(r.url, r.type, r.type # None, r.file, "cli_add")
  BY DEF QueueInv, AddDownload
<1>3. /\ CatalogOK(jobs') /\ nextId' \in {nextId, nextId + 1} /\ nextId' \in JobIds
      /\ \A j \in DOMAIN jobs' : j < nextId'
      /\ \A j \in DOMAIN jobs' :
            \/ j \in DOMAIN jobs /\ jobs'[j] = jobs[j]
            \/ j = nextId /\ jobs'[j].status = "queued"
  BY <1>1, <1>2, RequestEffect
<1>4. EnvironmentRows
  BY <1>3 DEF EnvironmentRows
<1>5. TypeOK'
  BY <1>2, <1>3 DEF TypeOK, AddDownload, memory, slotVars
<1>6. EnvironmentStep
  BY <1>2, <1>3, <1>4, <1>5 DEF QueueInv, EnvironmentStep, AddDownload, memory,
     slotVars, IdsWereHandedOut, DownIsEmpty, TypeOK, JobIds
<1> QED  BY <1>6, EnvironmentInv

\* The scanner's register_existing.
LEMMA ScanFileInv ==
    ASSUME QueueInv, NEW path \in disk, ScanFile(path)
    PROVE  QueueInv'
<1> DEFINE row == ScannedRow(path)
<1>1. TypeOK /\ path \in Paths /\ CatalogOK(jobs) /\ nextId \in JobIds
  BY DEF QueueInv, TypeOK
<1>2. row \in Row /\ row.status = "done" /\ row.dest = path /\ path # None
  BY <1>1, CatalogAssumption DEF ScannedRow, Row, Paths, Statuses, Reasons
<1>3. /\ CatalogOK(jobs') /\ nextId' \in {nextId, nextId + 1} /\ nextId' \in JobIds
      /\ \A j \in DOMAIN jobs' : j < nextId'
      /\ EnvironmentRows
  <2>1. CASE jobs' = jobs
    BY <1>1, <2>1 DEF TypeOK, ScanFile, EnvironmentRows
  <2>2. CASE jobs' # jobs
    <3>1. jobs' = Insert(jobs, nextId, row) /\ nextId' = nextId + 1
      BY <2>2 DEF ScanFile, RegisterExisting
    <3> HIDE DEF row
    <3>2. /\ CatalogOK(Insert(jobs, nextId, row))
          /\ DOMAIN Insert(jobs, nextId, row) = DOMAIN jobs \cup {nextId}
          /\ \A j \in DOMAIN jobs :
                j # nextId => Insert(jobs, nextId, row)[j] = jobs[j]
          /\ Insert(jobs, nextId, row)[nextId] = row
      <4>1. CatalogOK(jobs) /\ nextId \in JobIds
        BY <1>1
      <4>2. row \in Row
        BY <1>2
      <4> QED  BY <4>1, <4>2, InsertEffect, Z3
    <3>3. \A j \in DOMAIN jobs : j \in Nat /\ j < nextId
      BY <1>1 DEF CatalogOK, JobIds, TypeOK
    <3> QED  BY <1>1, <1>2, <3>1, <3>2, <3>3 DEF JobIds, EnvironmentRows
  <2> QED  BY <2>1, <2>2
<1>4. TypeOK'
  BY <1>1, <1>3 DEF TypeOK, ScanFile, memory, slotVars
<1>5. EnvironmentStep
  BY <1>1, <1>3, <1>4 DEF QueueInv, EnvironmentStep, ScanFile, memory, slotVars,
     IdsWereHandedOut, DownIsEmpty, TypeOK, JobIds
<1> QED  BY <1>5, EnvironmentInv

\* Cancel, both halves, and the two halves of DeleteModel.
LEMMA CancelActiveInv ==
    ASSUME QueueInv, NEW j \in DOMAIN active, CancelActive(j)
    PROVE  QueueInv'
<1>1. TypeOK' /\ EnvironmentRows
  BY DEF QueueInv, TypeOK, CancelActive, EnvironmentRows
<1>2. EnvironmentStep
  BY <1>1 DEF QueueInv, EnvironmentStep, CancelActive, IdsWereHandedOut, DownIsEmpty
<1> QED  BY <1>2, EnvironmentInv

\* Looking up a job without a token changes the request alone.
LEMMA CancelLookupInv ==
    ASSUME QueueInv, NEW j \in DOMAIN jobs, CancelLookup(j)
    PROVE  QueueInv'
<1>1. j \in Nat /\ j < nextId
  BY DEF QueueInv, TypeOK, CatalogOK, JobIds
<1>2. TypeOK' /\ EnvironmentRows
  BY <1>1 DEF QueueInv, TypeOK, CancelLookup, slotVars, CancelRequest, EnvironmentRows
<1>3. EnvironmentStep
  BY <1>1, <1>2 DEF QueueInv, EnvironmentStep, CancelLookup, slotVars, CancelRequest
<1> QED  BY <1>3, EnvironmentInv

\* Cancelling the row of a job that has no token.
LEMMA CancelRowInv == ASSUME QueueInv, CancelRow PROVE QueueInv'
<1>1. CatalogOK(jobs) /\ "cancelled" \in Statuses
  BY DEF QueueInv, TypeOK, Statuses
<1>2. jobs' = SetStatus(jobs, request.id, "cancelled")
  BY DEF CancelRow
<1>3. /\ CatalogOK(jobs') /\ DOMAIN jobs' = DOMAIN jobs
      /\ \A j \in DOMAIN jobs :
            /\ j # request.id => jobs'[j] = jobs[j]
            /\ j = request.id => jobs'[j].status = "cancelled"
  BY <1>1, <1>2, SetStatusEffect, Z3
<1>4. EnvironmentRows
  BY <1>3 DEF EnvironmentRows
<1>5. TypeOK'
  BY <1>3 DEF QueueInv, TypeOK, CancelRow, slotVars, NoRequest
<1>6. EnvironmentStep
  BY <1>4, <1>5 DEF QueueInv, TypeOK, EnvironmentStep, CancelRow, slotVars, NoRequest, JobIds
<1> QED  BY <1>6, EnvironmentInv

\* The first half of a deletion changes the request alone.
LEMMA DeleteModelInv ==
    ASSUME QueueInv, NEW j \in DOMAIN jobs, DeleteModel(j)
    PROVE  QueueInv'
<1>1. j \in Nat /\ j < nextId /\ jobs[j].dest \in Paths \cup {None}
  BY DEF QueueInv, TypeOK, CatalogOK, JobIds, Row
<1>2. request'.kind = "delete" /\ request'.id = j
      /\ request' \in [kind : {"none", "cancel", "delete"}, id : Nat, path : Paths \cup {None}]
  BY <1>1 DEF DeleteModel, DeleteRequest
<1>3. TypeOK' /\ EnvironmentRows
  BY <1>2 DEF QueueInv, TypeOK, DeleteModel, slotVars, EnvironmentRows
<1>4. EnvironmentStep
  BY <1>1, <1>2, <1>3 DEF QueueInv, EnvironmentStep, DeleteModel, slotVars
<1> QED  BY <1>4, EnvironmentInv

\* Its second half drops one row, which no completed or claimed row needs.
LEMMA ForgetModelInv == ASSUME QueueInv, ForgetModel PROVE QueueInv'
<1> DEFINE gone == {request.id}
<1>1. CatalogOK(jobs) /\ jobs' = DeleteJobs(jobs, gone)
  BY DEF QueueInv, TypeOK, ForgetModel
<1> HIDE DEF gone
<1>2. /\ CatalogOK(jobs') /\ DOMAIN jobs' \subseteq DOMAIN jobs
      /\ \A j \in DOMAIN jobs' : jobs'[j] = jobs[j]
  <2>1. /\ CatalogOK(DeleteJobs(jobs, gone))
        /\ DOMAIN DeleteJobs(jobs, gone) = DOMAIN jobs \ gone
        /\ \A j \in DOMAIN jobs \ gone : DeleteJobs(jobs, gone)[j] = jobs[j]
    BY <1>1, DeleteEffect
  <2> QED  BY <1>1, <2>1
<1>3. EnvironmentRows
  BY <1>2 DEF EnvironmentRows
<1>4. TypeOK'
  BY <1>2 DEF QueueInv, TypeOK, ForgetModel, slotVars, NoRequest
<1>5. request'.id = 0 /\ request' = NoRequest /\ nextId' = nextId /\ 0 < nextId
  BY DEF QueueInv, TypeOK, ForgetModel, NoRequest, JobIds
<1>6. EnvironmentStep
  BY <1>3, <1>4, <1>5 DEF EnvironmentStep, ForgetModel, slotVars
<1> QED  BY <1>6, EnvironmentInv

\* A deletion that fails to unlink keeps the row.
LEMMA KeepModelInv == ASSUME QueueInv, KeepModel PROVE QueueInv'
<1>1. TypeOK' /\ EnvironmentRows
  BY DEF QueueInv, TypeOK, KeepModel, slotVars, NoRequest, EnvironmentRows
<1>2. EnvironmentStep
  BY <1>1 DEF QueueInv, TypeOK, EnvironmentStep, KeepModel, slotVars, NoRequest, JobIds
<1> QED  BY <1>2, EnvironmentInv

\* The two ways a completed row goes back to the queue.
LEMMA RedownloadMissingInv ==
    ASSUME QueueInv, NEW all \in BOOLEAN, RedownloadMissing(all)
    PROVE  QueueInv'
<1>1. CatalogOK(jobs) /\ jobs' = RequeueDone(jobs, ~all, disk)
  BY DEF QueueInv, TypeOK, RedownloadMissing
<1>2. /\ CatalogOK(jobs') /\ DOMAIN jobs' \subseteq DOMAIN jobs
      /\ \A j \in DOMAIN jobs' :
            \/ jobs'[j] = jobs[j]
            \/ jobs[j].status = "done" /\ jobs'[j].status = "queued"
  BY <1>1, RequeueDoneEffect, Z3
<1>3. TypeOK' /\ EnvironmentRows
  BY <1>2 DEF QueueInv, TypeOK, RedownloadMissing, memory, slotVars, EnvironmentRows
<1>4. EnvironmentStep
  BY <1>3 DEF QueueInv, EnvironmentStep, RedownloadMissing, memory, slotVars,
     IdsWereHandedOut, DownIsEmpty
<1> QED  BY <1>4, EnvironmentInv

\* Requeueing one completed row.
LEMMA RedownloadModelInv ==
    ASSUME QueueInv, NEW id \in DOMAIN jobs, RedownloadModel(id)
    PROVE  QueueInv'
<1>1. CatalogOK(jobs) /\ jobs' = RequeueOne(jobs, id) /\ jobs[id].status = "done"
  BY DEF QueueInv, TypeOK, RedownloadModel, CanRequeueOne, WithStatus
<1>2. /\ CatalogOK(jobs') /\ DOMAIN jobs' = DOMAIN jobs
      /\ \A j \in DOMAIN jobs :
            /\ j # id => jobs'[j] = jobs[j]
            /\ j = id => jobs'[j].status = "queued"
  BY <1>1, RequeueOneEffect, Z3
<1>3. EnvironmentRows
  BY <1>1, <1>2 DEF EnvironmentRows
<1>4. TypeOK'
  BY <1>2 DEF QueueInv, TypeOK, RedownloadModel, memory, slotVars
<1>5. EnvironmentStep
  BY <1>3, <1>4 DEF QueueInv, EnvironmentStep, RedownloadModel, memory, slotVars,
     IdsWereHandedOut, DownIsEmpty
<1> QED  BY <1>5, EnvironmentInv

\* A file the user removes.
LEMMA UserRemovesFileInv ==
    ASSUME QueueInv, NEW path \in disk, UserRemovesFile(path)
    PROVE  QueueInv'
<1>1. TypeOK' /\ EnvironmentRows
  BY DEF QueueInv, TypeOK, UserRemovesFile, memory, slotVars, EnvironmentRows
<1>2. EnvironmentStep
  BY <1>1 DEF QueueInv, EnvironmentStep, UserRemovesFile, memory, slotVars,
     IdsWereHandedOut, DownIsEmpty
<1> QED  BY <1>2, EnvironmentInv

----------------------------------------------------------------------------
(* The workers.                                                            *)

WorkerPhases == TransferPhases \cup PublishedPhases \cup TailPhases

\* What a worker can do to the table: record its outcome when it stops
\* working, insert one queued row, or leave statuses and destinations alone.
WorkerRows(s) ==
    \A j \in DOMAIN jobs' :
        \/ /\ j \in DOMAIN jobs
           /\ jobs'[j].status = jobs[j].status
           /\ jobs'[j].dest = jobs[j].dest
           /\ j = task[s] /\ Working(s) => Working(s)'
        \/ /\ j = task[s] /\ Working(s) /\ ~Working(s)'
           /\ jobs'[j].status \in {"done", "failed", "cancelled"}
           /\ jobs'[j].status = "done" => jobs'[j].dest # None
        \/ /\ j = nextId
           /\ jobs'[j].status = "queued"

WorkerStep(s) ==
    /\ TypeOK'
    /\ WorkerRows(s)
    /\ nextId' \in {nextId, nextId + 1}
    /\ phase[s] \in WorkerPhases
    /\ phase'[s] \in WorkerPhases
    /\ Working(s)' => Working(s)
    /\ KnowsItsRow(s)'
    /\ \A r \in Slots \ {s} :
          /\ phase'[r] = phase[r]
          /\ snapshot'[r] = snapshot[r]
          /\ role'[r] = role[r]
          /\ cursor'[r] = cursor[r]
    /\ active' = IF phase'[s] = "released"
                 THEN [j \in DOMAIN active \ {task[s]} |-> active[j]]
                 ELSE active
    /\ progress' \in {progress, progress \cup {task[s]}}
    /\ UNCHANGED <<up, task, originals, request>>

\* A step of that kind preserves the invariant.
LEMMA WorkerInv == ASSUME QueueInv, NEW s \in Slots, WorkerStep(s) PROVE QueueInv'
<1> USE DEF QueueInv, TypeOK, WorkerStep, WorkerPhases
<1>1. up /\ up' = up
  BY DEF DownIsEmpty
<1>2. OneLoop'
  BY DEF OneLoop
<1>3. DownIsEmpty'
  BY <1>1 DEF DownIsEmpty
<1>4. IdsWereHandedOut'
  <2>1. \A r \in Slots : phase'[r] # "free" => phase[r] # "free"
    OBVIOUS
  <2> QED  BY <2>1 DEF IdsWereHandedOut, JobIds
<1>5. TasksKnowTheirRow'
  <2>1. \A r \in Slots \ {s} : KnowsItsRow(r)'
    BY DEF TasksKnowTheirRow, KnowsItsRow, Candidates
  <2> QED  BY <2>1 DEF TasksKnowTheirRow
<1>6. \A r \in Slots : Working(r)' => Working(r)
  BY DEF Working
<1>7. PickedHasNoWorker'
  <2>1. \A r \in Slots : phase'[r] \in LoopPhases \ {"marked"} => phase'[r] = phase[r]
    OBVIOUS
  <2> QED  BY <1>6, <2>1 DEF PickedHasNoWorker
<1>8. OneWorkerPerJob'
  BY <1>6 DEF OneWorkerPerJob
<1>9. TokensBelongToTasks'
  <2>1. \A j \in DOMAIN active' : j \in DOMAIN active /\ active'[j] = active[j]
    OBVIOUS
  <2>2. phase'[s] = "released" => task[s] \notin DOMAIN active'
    OBVIOUS
  <2> QED  BY <2>1, <2>2 DEF TokensBelongToTasks
<1>10. ProgressHasWorker'
  BY DEF ProgressHasWorker
<1>11. WorkedRowIsClaimed'
  <2> SUFFICES ASSUME NEW r \in Slots, Working(r)', task'[r] \in DOMAIN jobs'
               PROVE  jobs'[task'[r]].status \in {"downloading", "cancelled"}
    BY DEF WorkedRowIsClaimed
  <2>1. Working(r) /\ task'[r] = task[r] /\ task[r] # nextId
    BY <1>6 DEF IdsWereHandedOut, JobIds
  <2>2. task[r] = task[s] /\ Working(s) => r = s
    BY <2>1 DEF OneWorkerPerJob
  <2> QED  BY <2>1, <2>2 DEF WorkedRowIsClaimed, WorkerRows
<1>12. DownloadingHasWorker'
  <2> SUFFICES ASSUME NEW j \in DOMAIN jobs', jobs'[j].status = "downloading"
               PROVE  \E r \in Slots : Working(r)' /\ task'[r] = j
    BY DEF DownloadingHasWorker, WithStatus
  <2>1. /\ j \in DOMAIN jobs /\ jobs[j].status = "downloading"
        /\ j = task[s] /\ Working(s) => Working(s)'
    BY DEF WorkerRows
  <2>2. PICK r \in Slots : Working(r) /\ task[r] = j
    BY <1>1, <2>1 DEF DownloadingHasWorker, WithStatus
  <2>3. Working(r)'
    BY <2>1, <2>2 DEF Working
  <2> QED  BY <2>2, <2>3
<1>13. DoneNamesFile'
  BY DEF DoneNamesFile, WorkerRows, WithStatus
<1> QED  BY <1>2, <1>3, <1>4, <1>5, <1>7, <1>8, <1>9, <1>10, <1>11, <1>12, <1>13

\* A worker that still knows its row can name its destination.
LEMMA DestIsPath ==
    ASSUME QueueInv, NEW s \in Slots, phase[s] \in WorkerPhases \ {"finished", "released"},
           NEW t \in Types
    PROVE  /\ snapshot[s] \in Row
           /\ DestOf(s, t) \in Paths
           /\ DestOf(s, t) # None
<1>1. snapshot[s] \in Row
  BY DEF QueueInv, TasksKnowTheirRow, KnowsItsRow, WorkerPhases
<1>2. DestOf(s, t) \in Paths
  BY <1>1 DEF Row, DestOf, Paths
<1> QED  BY <1>1, <1>2, CatalogAssumption

\* Transfer steps: content found or cloned on disk, a stream opened, a file
\* published, its placement recorded.
LEMMA FindContentInv ==
    ASSUME QueueInv, NEW s \in Slots, FindContent(s)
    PROVE  QueueInv'
<1>1. PICK t \in Types : role' = [role EXCEPT ![s] = t]
  BY DEF FindContent
<1>2. snapshot[s] \in Row
  BY DEF QueueInv, TasksKnowTheirRow, KnowsItsRow, FindContent
<1>3. TypeOK'
  BY <1>1 DEF QueueInv, TypeOK, FindContent, Advance, workerFrame
<1>4. WorkerStep(s)
  BY <1>1, <1>2, <1>3 DEF QueueInv, TypeOK, WorkerStep, WorkerRows, WorkerPhases,
     FindContent, Advance, workerFrame, Working, KnowsItsRow
<1> QED  BY <1>4, WorkerInv

\* Cloning a file changes the disk and the role alone.
LEMMA CloneContentInv ==
    ASSUME QueueInv, NEW s \in Slots, CloneContent(s)
    PROVE  QueueInv'
<1>1. PICK t \in Types : disk' = disk \cup {DestOf(s, t)} /\ role' = [role EXCEPT ![s] = t]
  BY DEF CloneContent
<1>2. snapshot[s] \in Row /\ DestOf(s, t) \in Paths
  BY DestIsPath DEF CloneContent, WorkerPhases
<1>3. TypeOK'
  BY <1>1, <1>2 DEF QueueInv, TypeOK, CloneContent, Advance, workerFrame
<1>4. WorkerStep(s)
  BY <1>1, <1>2, <1>3 DEF QueueInv, TypeOK, WorkerStep, WorkerRows, WorkerPhases,
     CloneContent, Advance, workerFrame, Working, KnowsItsRow
<1> QED  BY <1>4, WorkerInv

\* A stream that opens adds a progress entry for its own job.
LEMMA OpenStreamInv ==
    ASSUME QueueInv, NEW s \in Slots, OpenStream(s)
    PROVE  QueueInv'
<1>1. snapshot[s] \in Row /\ task[s] \in JobIds
  BY DEF QueueInv, TypeOK, TasksKnowTheirRow, KnowsItsRow, OpenStream, JobIds, IdsWereHandedOut
<1>2. TypeOK'
  BY <1>1 DEF QueueInv, TypeOK, OpenStream, Advance, workerFrame
<1>3. WorkerStep(s)
  BY <1>1, <1>2 DEF QueueInv, TypeOK, WorkerStep, WorkerRows, WorkerPhases,
     OpenStream, Advance, workerFrame, Working, KnowsItsRow
<1> QED  BY <1>3, WorkerInv

\* Publishing a file changes the disk and the role alone.
LEMMA PublishInv ==
    ASSUME QueueInv, NEW s \in Slots, Publish(s)
    PROVE  QueueInv'
<1>1. PICK t \in Types : disk' = disk \cup {DestOf(s, t)} /\ role' = [role EXCEPT ![s] = t]
  BY DEF Publish
<1>2. snapshot[s] \in Row /\ DestOf(s, t) \in Paths
  BY DestIsPath DEF Publish, WorkerPhases
<1>3. TypeOK'
  BY <1>1, <1>2 DEF QueueInv, TypeOK, Publish, Advance, workerFrame
<1>4. WorkerStep(s)
  BY <1>1, <1>2, <1>3 DEF QueueInv, TypeOK, WorkerStep, WorkerRows, WorkerPhases,
     Publish, Advance, workerFrame, Working, KnowsItsRow
<1> QED  BY <1>4, WorkerInv

\* The type of the row changes, never its status.
LEMMA RecordPlacementInv ==
    ASSUME QueueInv, NEW s \in Slots, RecordPlacement(s)
    PROVE  QueueInv'
<1>1. /\ phase[s] = "placed" /\ phase' = [phase EXCEPT ![s] = "succeeded"]
      /\ jobs' = SetType(jobs, task[s], role[s])
  BY DEF RecordPlacement, Advance
<1>2. CatalogOK(jobs) /\ role[s] \in Types /\ snapshot[s] \in Row
  BY <1>1 DEF QueueInv, TypeOK, TasksKnowTheirRow, KnowsItsRow
<1>3. /\ CatalogOK(jobs') /\ DOMAIN jobs' = DOMAIN jobs
      /\ \A j \in DOMAIN jobs : jobs'[j].dest = jobs[j].dest
      /\ \A j \in DOMAIN jobs : jobs'[j].status = jobs[j].status
  BY <1>1, <1>2, SetTypeEffect, Z3
<1>4. TypeOK'
  BY <1>3 DEF QueueInv, TypeOK, RecordPlacement, Advance, workerFrame
<1>5. WorkerRows(s)
  BY <1>1, <1>3 DEF WorkerRows, Working, QueueInv, TypeOK
<1>6. WorkerStep(s)
  BY <1>1, <1>2, <1>4, <1>5 DEF QueueInv, TypeOK, WorkerStep, WorkerPhases,
     RecordPlacement, workerFrame, Working, KnowsItsRow
<1> QED  BY <1>6, WorkerInv

\* What recording an outcome does to the table and to the variables it frames.
LEMMA OutcomeEffect ==
    ASSUME QueueInv, NEW s \in Slots, NEW st \in {"failed", "cancelled"},
           Working(s), RecordOutcome(s, st)
    PROVE  /\ CatalogOK(jobs') /\ DOMAIN jobs' = DOMAIN jobs
           /\ \A j \in DOMAIN jobs :
                 \/ j # task[s] /\ jobs'[j] = jobs[j]
                 \/ j = task[s] /\ jobs'[j].status = st
<1>1. CatalogOK(jobs) /\ st \in Statuses /\ jobs' = SetStatus(jobs, task[s], st)
  BY DEF QueueInv, TypeOK, Statuses, RecordOutcome
<1> QED  BY <1>1, SetStatusEffect, Z3

\* The three ways a transfer ends without a file.
LEMMA DenyInv == ASSUME QueueInv, NEW s \in Slots, Deny(s) PROVE QueueInv'
<1>1. Working(s) /\ RecordOutcome(s, "failed") /\ snapshot[s] \in Row
  BY DEF Deny, Working, QueueInv, TasksKnowTheirRow, KnowsItsRow
<1>2. /\ CatalogOK(jobs') /\ DOMAIN jobs' = DOMAIN jobs
      /\ \A j \in DOMAIN jobs :
            \/ j # task[s] /\ jobs'[j] = jobs[j]
            \/ j = task[s] /\ jobs'[j].status = "failed"
  BY <1>1, OutcomeEffect
<1>3. TypeOK'
  BY <1>2 DEF QueueInv, TypeOK, Deny, RecordOutcome, Advance, workerFrame
<1>4. WorkerRows(s)
  BY <1>1, <1>2 DEF WorkerRows, QueueInv, TypeOK, Deny, Advance, Working
<1>5. WorkerStep(s)
  BY <1>1, <1>3, <1>4 DEF QueueInv, TypeOK, WorkerStep, WorkerPhases, Deny,
     RecordOutcome, Advance, workerFrame, Working, KnowsItsRow
<1> QED  BY <1>5, WorkerInv

\* A failure ends the work on the row it records.
LEMMA FailInv == ASSUME QueueInv, NEW s \in Slots, Fail(s) PROVE QueueInv'
<1>1. Working(s) /\ RecordOutcome(s, "failed")
  BY DEF Fail, Working
<1>2. /\ CatalogOK(jobs') /\ DOMAIN jobs' = DOMAIN jobs
      /\ \A j \in DOMAIN jobs :
            \/ j # task[s] /\ jobs'[j] = jobs[j]
            \/ j = task[s] /\ jobs'[j].status = "failed"
  BY <1>1, OutcomeEffect
<1>3. TypeOK'
  BY <1>2 DEF QueueInv, TypeOK, Fail, RecordOutcome, Finish, Advance, workerFrame
<1>4. WorkerRows(s)
  BY <1>1, <1>2 DEF WorkerRows, QueueInv, TypeOK, Fail, Finish, Advance, Working
<1>5. WorkerStep(s)
  BY <1>1, <1>3, <1>4 DEF QueueInv, TypeOK, WorkerStep, WorkerPhases, Fail,
     RecordOutcome, Finish, Advance, workerFrame, Working, KnowsItsRow
<1> QED  BY <1>5, WorkerInv

\* So does a cancellation.
LEMMA ObserveCancelInv == ASSUME QueueInv, NEW s \in Slots, ObserveCancel(s) PROVE QueueInv'
<1>1. Working(s) /\ RecordOutcome(s, "cancelled")
  BY DEF ObserveCancel, Working
<1>2. /\ CatalogOK(jobs') /\ DOMAIN jobs' = DOMAIN jobs
      /\ \A j \in DOMAIN jobs :
            \/ j # task[s] /\ jobs'[j] = jobs[j]
            \/ j = task[s] /\ jobs'[j].status = "cancelled"
  BY <1>1, OutcomeEffect
<1>3. TypeOK'
  BY <1>2 DEF QueueInv, TypeOK, ObserveCancel, RecordOutcome, Finish, Advance, workerFrame
<1>4. WorkerRows(s)
  BY <1>1, <1>2 DEF WorkerRows, QueueInv, TypeOK, ObserveCancel, Finish, Advance, Working
<1>5. WorkerStep(s)
  BY <1>1, <1>3, <1>4 DEF QueueInv, TypeOK, WorkerStep, WorkerPhases, ObserveCancel,
     RecordOutcome, Finish, Advance, workerFrame, Working, KnowsItsRow
<1> QED  BY <1>5, WorkerInv

\* The commit of a finished transfer: the row is done and names its file.
LEMMA CommitEffect ==
    ASSUME QueueInv, NEW s \in Slots, CommitDone(s)
    PROVE  /\ CatalogOK(jobs') /\ DOMAIN jobs' = DOMAIN jobs
           /\ \A j \in DOMAIN jobs :
                 \/ j # task[s] /\ jobs'[j] = jobs[j]
                 \/ j = task[s] /\ jobs'[j].status = "done" /\ jobs'[j].dest # None
<1> DEFINE path == DestOf(s, role[s])
           withDest == SetDest(jobs, task[s], path)
           withType == SetType(withDest, task[s], role[s])
<1>1. /\ Working(s) /\ role[s] \in Types /\ phase[s] = "succeeded"
      /\ CatalogOK(jobs) /\ "done" \in Statuses
  BY DEF CommitDone, Working, QueueInv, TypeOK, TasksKnowTheirRow, KnowsItsRow, Statuses
<1>2. path \in Paths /\ path # None
  BY <1>1, DestIsPath DEF WorkerPhases
<1>3. jobs' = SetStatus(withType, task[s], "done")
  BY DEF CommitDone
<1> HIDE DEF path
<1>4. /\ CatalogOK(withDest) /\ DOMAIN withDest = DOMAIN jobs
      /\ \A j \in DOMAIN jobs :
            /\ j # task[s] => withDest[j] = jobs[j]
            /\ j = task[s] => withDest[j].dest = path
  BY <1>1, <1>2, SetDestEffect, Z3
<1> HIDE DEF withDest
<1>5. /\ CatalogOK(withType) /\ DOMAIN withType = DOMAIN jobs
      /\ \A j \in DOMAIN jobs :
            /\ j # task[s] => withType[j] = jobs[j]
            /\ j = task[s] => withType[j].dest = path
  BY <1>1, <1>4, SetTypeEffect, Z3
<1> HIDE DEF withType
<1> QED  BY <1>1, <1>2, <1>3, <1>5, SetStatusEffect, Z3

\* So does the commit, which also names the file.
LEMMA CommitDoneInv == ASSUME QueueInv, NEW s \in Slots, CommitDone(s) PROVE QueueInv'
<1>1. Working(s) /\ phase[s] = "succeeded"
  BY DEF CommitDone, Working
<1>2. /\ CatalogOK(jobs') /\ DOMAIN jobs' = DOMAIN jobs
      /\ \A j \in DOMAIN jobs :
            \/ j # task[s] /\ jobs'[j] = jobs[j]
            \/ j = task[s] /\ jobs'[j].status = "done" /\ jobs'[j].dest # None
  BY CommitEffect
<1>3. TypeOK'
  BY <1>2 DEF QueueInv, TypeOK, CommitDone, Finish, Advance, workerFrame
<1>4. WorkerRows(s)
  BY <1>1, <1>2 DEF WorkerRows, QueueInv, TypeOK, CommitDone, Finish, Advance, Working
<1>5. WorkerStep(s)
  BY <1>1, <1>3, <1>4 DEF QueueInv, TypeOK, WorkerStep, WorkerPhases, CommitDone,
     Finish, Advance, workerFrame, Working, KnowsItsRow
<1> QED  BY <1>5, WorkerInv

\* The search for a fallback version.
LEMMA AskForVersionsInv ==
    ASSUME QueueInv, NEW s \in Slots, AskForVersions(s)
    PROVE  QueueInv'
<1>1. /\ snapshot[s] \in Row /\ snapshot[s].url \in Urls
      /\ ModelOf[snapshot[s].url] # None
  BY DEF AskForVersions, QueueInv, TasksKnowTheirRow, KnowsItsRow, Row
<1>2. PICK i \in FirstCandidate(s) : cursor' = [cursor EXCEPT ![s] = i]
  BY DEF AskForVersions
<1>3. Candidates(s) \in Seq(Urls)
  BY <1>1, ListingAssumption DEF Candidates
<1>4. i \in Nat /\ i # 0
  <2>1. \A k \in DOMAIN Candidates(s) : k + 1 \in Nat /\ k + 1 # 0
    BY <1>3
  <2> QED  BY <1>2, <2>1 DEF FirstCandidate
<1>5. TypeOK'
  BY <1>2, <1>4 DEF QueueInv, TypeOK, AskForVersions, Advance, workerFrame
<1>6. WorkerStep(s)
  BY <1>1, <1>2, <1>4, <1>5 DEF QueueInv, TypeOK, WorkerStep, WorkerRows, WorkerPhases,
     AskForVersions, Advance, workerFrame, Working, KnowsItsRow
<1> QED  BY <1>6, WorkerInv

\* A fallback that has no versions to try ends.
LEMMA VersionsUnavailableInv ==
    ASSUME QueueInv, NEW s \in Slots, VersionsUnavailable(s)
    PROVE  QueueInv'
<1>1. TypeOK'
  BY DEF QueueInv, TypeOK, VersionsUnavailable, Finish, Advance, workerFrame
<1>2. WorkerStep(s)
  BY <1>1 DEF QueueInv, TypeOK, WorkerStep, WorkerRows, WorkerPhases,
     VersionsUnavailable, Finish, Advance, workerFrame, Working, KnowsItsRow
<1> QED  BY <1>2, WorkerInv

\* So does one that has tried them all.
LEMMA GiveUpFallbackInv ==
    ASSUME QueueInv, NEW s \in Slots, GiveUpFallback(s)
    PROVE  QueueInv'
<1>1. TypeOK'
  BY DEF QueueInv, TypeOK, GiveUpFallback, Finish, Advance, workerFrame
<1>2. WorkerStep(s)
  BY <1>1 DEF QueueInv, TypeOK, WorkerStep, WorkerRows, WorkerPhases,
     GiveUpFallback, Finish, Advance, workerFrame, Working, KnowsItsRow
<1> QED  BY <1>2, WorkerInv

\* The candidate under test stays one of the listing, or the first past its end.
LEMMA TestCandidateInv ==
    ASSUME QueueInv, NEW s \in Slots, TestCandidate(s)
    PROVE  QueueInv'
<1>1. /\ snapshot[s] \in Row /\ ModelOf[snapshot[s].url] # None
      /\ cursor[s] \in Nat /\ cursor[s] # 0
  BY DEF TestCandidate, QueueInv, TypeOK, TasksKnowTheirRow, KnowsItsRow
<1>2. CASE HasVersion(jobs, Candidates(s)[cursor[s]])
  <2>1. cursor' = [cursor EXCEPT ![s] = @ + 1] /\ phase' = phase
    BY <1>2 DEF TestCandidate
  <2>2. TypeOK'
    BY <1>1, <2>1 DEF QueueInv, TypeOK, TestCandidate, workerFrame
  <2>3. WorkerStep(s)
    BY <1>1, <2>1, <2>2 DEF QueueInv, TypeOK, WorkerStep, WorkerRows, WorkerPhases,
       TestCandidate, workerFrame, Working, KnowsItsRow
  <2> QED  BY <2>3, WorkerInv
<1>3. CASE ~HasVersion(jobs, Candidates(s)[cursor[s]])
  <2>1. cursor' = cursor /\ phase' = [phase EXCEPT ![s] = "substitute"]
    BY <1>3 DEF TestCandidate, Advance
  <2>2. TypeOK'
    BY <2>1 DEF QueueInv, TypeOK, TestCandidate, workerFrame
  <2>3. WorkerStep(s)
    BY <1>1, <2>1, <2>2 DEF QueueInv, TypeOK, WorkerStep, WorkerRows, WorkerPhases,
       TestCandidate, workerFrame, Working, KnowsItsRow, Candidates
  <2> QED  BY <2>3, WorkerInv
<1> QED  BY <1>2, <1>3

\* The fallback inserts one queued row at most, under the next id.
LEMMA FallbackEffect ==
    ASSUME QueueInv, NEW s \in Slots, EnqueueFallback(s)
    PROVE  /\ CatalogOK(jobs') /\ nextId' \in {nextId, nextId + 1} /\ nextId' \in JobIds
           /\ \A j \in DOMAIN jobs' : j < nextId'
           /\ \A j \in DOMAIN jobs' :
                 \/ j \in DOMAIN jobs /\ jobs'[j] = jobs[j]
                 \/ j = nextId /\ jobs'[j].status = "queued"
           /\ DOMAIN jobs \subseteq DOMAIN jobs'
<1> DEFINE url == Candidates(s)[cursor[s]]
           type == snapshot[s].type
<1>1. phase[s] = "substitute" /\ TypeOK
  BY DEF EnqueueFallback, QueueInv
<1>2. /\ snapshot[s] \in Row /\ ModelOf[snapshot[s].url] # None
      /\ cursor[s] \in Nat /\ cursor[s] # 0 /\ cursor[s] <= Len(Candidates(s))
  BY <1>1 DEF QueueInv, TypeOK, TasksKnowTheirRow, KnowsItsRow
<1>3. Candidates(s) \in Seq(Urls)
  BY <1>2, ListingAssumption DEF Candidates, Row
<1>4. url \in Urls /\ type \in Types \cup {None} /\ "access_denied_fallback" \in Reasons
  BY <1>2, <1>3 DEF Row, Reasons
<1>5. \/ Request(url, type, FALSE, None, "access_denied_fallback")
      \/ UNCHANGED <<jobs, nextId>>
  BY DEF EnqueueFallback
<1> HIDE DEF url, type
<1>6. CASE Request(url, type, FALSE, None, "access_denied_fallback")
  BY <1>1, <1>4, <1>6, RequestEffect
<1>7. CASE UNCHANGED <<jobs, nextId>>
  BY <1>1, <1>7 DEF TypeOK
<1> QED  BY <1>5, <1>6, <1>7

\* The substitute is queued, and the worker goes on to its end.
LEMMA EnqueueFallbackInv ==
    ASSUME QueueInv, NEW s \in Slots, EnqueueFallback(s)
    PROVE  QueueInv'
<1>1. /\ CatalogOK(jobs') /\ nextId' \in {nextId, nextId + 1} /\ nextId' \in JobIds
      /\ \A j \in DOMAIN jobs' : j < nextId'
      /\ \A j \in DOMAIN jobs' :
            \/ j \in DOMAIN jobs /\ jobs'[j] = jobs[j]
            \/ j = nextId /\ jobs'[j].status = "queued"
  BY FallbackEffect
<1>2. phase' = [phase EXCEPT ![s] = "finished"] /\ ~Working(s)
  BY DEF EnqueueFallback, Finish, Advance, Working
<1>3. TypeOK'
  BY <1>1 DEF QueueInv, TypeOK, EnqueueFallback, Finish, Advance
<1>4. WorkerRows(s)
  BY <1>1, <1>2 DEF WorkerRows
<1>5. WorkerStep(s)
  BY <1>1, <1>2, <1>3, <1>4 DEF QueueInv, TypeOK, WorkerStep, WorkerPhases,
     EnqueueFallback, Finish, Working, KnowsItsRow
<1> QED  BY <1>5, WorkerInv

\* active.remove(&job_id).
LEMMA RemoveTokenInv ==
    ASSUME QueueInv, NEW s \in Slots, RemoveToken(s)
    PROVE  QueueInv'
<1>1. TypeOK'
  BY DEF QueueInv, TypeOK, RemoveToken, Advance, workerFrame
<1>2. WorkerStep(s)
  BY <1>1 DEF QueueInv, TypeOK, WorkerStep, WorkerRows, WorkerPhases,
     RemoveToken, Advance, workerFrame, Working, KnowsItsRow
<1> QED  BY <1>2, WorkerInv

\* The end of a worker: its permit is free again.
LEMMA EndWorkerInv == ASSUME QueueInv, NEW s \in Slots, EndWorker(s) PROVE QueueInv'
<1> USE DEF QueueInv, TypeOK, EndWorker, Release, Advance, workerFrame
<1>1. TypeOK'
  OBVIOUS
<1>2. OneLoop' /\ DownIsEmpty' /\ IdsWereHandedOut'
  BY DEF OneLoop, DownIsEmpty, IdsWereHandedOut, JobIds
<1>3. TasksKnowTheirRow'
  BY DEF TasksKnowTheirRow, KnowsItsRow, Candidates
<1>4. \A r \in Slots : /\ Working(r)' <=> Working(r)
                       /\ r # s => task'[r] = task[r]
  BY DEF Working
<1>5. ~Working(s) /\ phase'[s] = "free"
  BY DEF Working
<1>6. PickedHasNoWorker' /\ OneWorkerPerJob' /\ WorkedRowIsClaimed'
  BY <1>4, <1>5 DEF PickedHasNoWorker, OneWorkerPerJob, WorkedRowIsClaimed
<1>7. DownloadingHasWorker'
  BY <1>4, <1>5 DEF DownloadingHasWorker, WithStatus
<1>8. TokensBelongToTasks'
  BY DEF TokensBelongToTasks
<1>9. ProgressHasWorker'
  BY DEF ProgressHasWorker
<1>10. DoneNamesFile'
  BY DEF DoneNamesFile, WithStatus
<1> QED  BY <1>1, <1>2, <1>3, <1>6, <1>7, <1>8, <1>9, <1>10

----------------------------------------------------------------------------
(* The loop.                                                               *)

\* The job picked is queued, so no worker has it: its row would be claimed.
LEMMA PickJobInv ==
    ASSUME QueueInv, NEW s \in Slots, NEW j \in DOMAIN jobs, PickJob(s, j)
    PROVE  QueueInv'
<1> USE DEF QueueInv, TypeOK, PickJob, Advance
<1>1. j \in JobIds /\ jobs[j] \in Row /\ jobs[j].status = "queued"
  BY DEF CatalogOK, IsNextQueued, WithStatus
<1>2. TypeOK'
  BY <1>1 DEF JobIds
<1>3. OneLoop' /\ DownIsEmpty'
  BY DEF OneLoop, DownIsEmpty
<1>4. IdsWereHandedOut'
  BY <1>1 DEF IdsWereHandedOut, JobIds
<1>5. TasksKnowTheirRow'
  BY <1>1 DEF TasksKnowTheirRow, KnowsItsRow, Candidates
<1>6. \A r \in Slots : /\ Working(r)' <=> Working(r)
                       /\ r # s => task'[r] = task[r]
  BY DEF Working
<1>7. ~Working(s) /\ phase'[s] = "picked" /\ task'[s] = j
  BY DEF Working
<1>8. \A r \in Slots : Working(r) => task[r] # j
  BY <1>1 DEF WorkedRowIsClaimed
<1>9. PickedHasNoWorker'
  <2> SUFFICES ASSUME NEW a \in Slots, NEW b \in Slots, Working(b)',
                      phase'[a] \in LoopPhases \ {"marked"}
               PROVE  task'[a] # task'[b]
    BY DEF PickedHasNoWorker
  <2>1. a = s /\ b # s /\ Working(b)
    BY <1>6, <1>7
  <2> QED  BY <1>6, <1>7, <1>8, <2>1
<1>10. OneWorkerPerJob' /\ WorkedRowIsClaimed'
  BY <1>6, <1>7 DEF OneWorkerPerJob, WorkedRowIsClaimed
<1>11. DownloadingHasWorker'
  BY <1>6, <1>7 DEF DownloadingHasWorker, WithStatus
<1>12. TokensBelongToTasks' /\ ProgressHasWorker' /\ DoneNamesFile'
  BY DEF TokensBelongToTasks, ProgressHasWorker, DoneNamesFile, WithStatus
<1> QED  BY <1>2, <1>3, <1>4, <1>5, <1>9, <1>10, <1>11, <1>12

\* The look at the originals of an update changes nothing but the loop's plan.
LEMMA CheckOriginalsInv ==
    ASSUME QueueInv, NEW s \in Slots, CheckOriginals(s)
    PROVE  QueueInv'
<1> USE DEF QueueInv, TypeOK, Advance
<1>1. PICK p \in {"skipping", "cleared"} : phase' = [phase EXCEPT ![s] = p]
  BY DEF CheckOriginals
<1>2. originals' \subseteq JobIds /\ \A j \in originals' : j < nextId
  BY DEF CheckOriginals, DoneJobsForModel, WithStatus, CatalogOK, IdsWereHandedOut
<1>3. /\ phase[s] = "picked"
      /\ UNCHANGED <<up, jobs, nextId, disk, task, snapshot, role, cursor, token,
                     active, progress, request>>
  BY DEF CheckOriginals
<1>4. TypeOK'
  BY <1>1, <1>2, <1>3
<1>5. OneLoop' /\ DownIsEmpty' /\ IdsWereHandedOut'
  BY <1>1, <1>2, <1>3 DEF OneLoop, DownIsEmpty, IdsWereHandedOut
<1>6. TasksKnowTheirRow'
  BY <1>1, <1>3 DEF TasksKnowTheirRow, KnowsItsRow, Candidates
<1>7. \A r \in Slots : Working(r)' <=> Working(r)
  BY <1>1, <1>3 DEF Working
<1>8. PickedHasNoWorker'
  BY <1>1, <1>3, <1>7 DEF PickedHasNoWorker
<1>9. OneWorkerPerJob' /\ WorkedRowIsClaimed'
  BY <1>3, <1>7 DEF OneWorkerPerJob, WorkedRowIsClaimed
<1>10. DownloadingHasWorker'
  BY <1>3, <1>7 DEF DownloadingHasWorker, WithStatus
<1>11. TokensBelongToTasks' /\ ProgressHasWorker' /\ DoneNamesFile'
  BY <1>1, <1>3 DEF TokensBelongToTasks, ProgressHasWorker, DoneNamesFile, WithStatus
<1> QED  BY <1>4, <1>5, <1>6, <1>8, <1>9, <1>10, <1>11

\* Skipping an update drops rows and gives the permit back.
LEMMA SkipUpdateInv == ASSUME QueueInv, NEW s \in Slots, SkipUpdate(s) PROVE QueueInv'
<1> DEFINE gone == originals \cup {task[s]}
<1>1. CatalogOK(jobs) /\ jobs' = DeleteJobs(jobs, gone)
  BY DEF QueueInv, TypeOK, SkipUpdate
<1> HIDE DEF gone
<1>2. /\ CatalogOK(jobs') /\ DOMAIN jobs' \subseteq DOMAIN jobs
      /\ \A j \in DOMAIN jobs' : jobs'[j] = jobs[j]
  <2>1. /\ CatalogOK(DeleteJobs(jobs, gone))
        /\ DOMAIN DeleteJobs(jobs, gone) = DOMAIN jobs \ gone
        /\ \A j \in DOMAIN jobs \ gone : DeleteJobs(jobs, gone)[j] = jobs[j]
    BY <1>1, DeleteEffect
  <2> QED  BY <1>1, <2>1
<1>3. TypeOK'
  BY <1>2 DEF QueueInv, TypeOK, SkipUpdate, Release, Advance
<1> USE DEF QueueInv, TypeOK, SkipUpdate, Release, Advance
<1>4. OneLoop' /\ DownIsEmpty' /\ IdsWereHandedOut'
  BY DEF OneLoop, DownIsEmpty, IdsWereHandedOut, JobIds
<1>5. TasksKnowTheirRow'
  BY DEF TasksKnowTheirRow, KnowsItsRow, Candidates
<1>6. \A r \in Slots : /\ Working(r)' <=> Working(r)
                       /\ r # s => task'[r] = task[r]
  BY DEF Working
<1>7. ~Working(s) /\ phase'[s] = "free" /\ up' = up
  BY DEF Working
<1>8. PickedHasNoWorker' /\ OneWorkerPerJob'
  BY <1>6, <1>7 DEF PickedHasNoWorker, OneWorkerPerJob
<1>9. TokensBelongToTasks' /\ ProgressHasWorker'
  BY DEF TokensBelongToTasks, ProgressHasWorker
<1> HIDE DEF SkipUpdate
<1>10. WorkedRowIsClaimed'
  BY <1>2, <1>6, <1>7 DEF WorkedRowIsClaimed
<1>11. DownloadingHasWorker'
  BY <1>2, <1>6, <1>7 DEF DownloadingHasWorker, WithStatus
<1>12. DoneNamesFile'
  BY <1>2 DEF DoneNamesFile, WithStatus
<1> QED  BY <1>3, <1>4, <1>5, <1>8, <1>9, <1>10, <1>11, <1>12

\* Marking the picked job: from here on its row claims it for this worker.
LEMMA MarkDownloadingInv ==
    ASSUME QueueInv, NEW s \in Slots, MarkDownloading(s)
    PROVE  QueueInv'
<1>1. /\ CatalogOK(jobs) /\ "downloading" \in Statuses
      /\ jobs' = SetStatus(jobs, task[s], "downloading")
  BY DEF QueueInv, TypeOK, MarkDownloading, Statuses
<1>2. /\ CatalogOK(jobs') /\ DOMAIN jobs' = DOMAIN jobs
      /\ \A j \in DOMAIN jobs :
            /\ j # task[s] => jobs'[j] = jobs[j]
            /\ j = task[s] => jobs'[j].status = "downloading"
  BY <1>1, SetStatusEffect, Z3
<1>3. TypeOK'
  BY <1>2 DEF QueueInv, TypeOK, MarkDownloading, Advance
<1>4. /\ phase[s] \in LoopPhases \ {"marked"}
      /\ phase' = [phase EXCEPT ![s] = "marked"]
      /\ UNCHANGED <<up, nextId, disk, task, snapshot, role, cursor, token, active,
                     progress, originals, request>>
  BY DEF MarkDownloading, Advance
<1> USE DEF QueueInv, TypeOK
<1>5. OneLoop' /\ DownIsEmpty' /\ IdsWereHandedOut'
  BY <1>4 DEF OneLoop, DownIsEmpty, IdsWereHandedOut
<1>6. TasksKnowTheirRow'
  BY <1>4 DEF TasksKnowTheirRow, KnowsItsRow, Candidates
<1>7. \A r \in Slots : r # s => (Working(r)' <=> Working(r))
  BY <1>4 DEF Working
<1>8. ~Working(s) /\ Working(s)'
  BY <1>4 DEF Working
<1>9. \A r \in Slots : Working(r) => task[r] # task[s]
  BY <1>4 DEF PickedHasNoWorker
<1>10. PickedHasNoWorker'
  BY <1>4, <1>7 DEF PickedHasNoWorker, OneLoop
<1>11. OneWorkerPerJob'
  BY <1>4, <1>7, <1>9 DEF OneWorkerPerJob
<1>12. WorkedRowIsClaimed'
  BY <1>2, <1>4, <1>7 DEF WorkedRowIsClaimed
<1>13. DownloadingHasWorker'
  <2> SUFFICES ASSUME up, NEW j \in DOMAIN jobs', jobs'[j].status = "downloading"
               PROVE  \E r \in Slots : Working(r)' /\ task'[r] = j
    BY <1>4 DEF DownloadingHasWorker, WithStatus
  <2>1. CASE j = task[s]
    BY <1>4, <1>8, <2>1
  <2>2. CASE j # task[s]
    <3>1. PICK r \in Slots : Working(r) /\ task[r] = j
      BY <1>2, <2>2 DEF DownloadingHasWorker, WithStatus
    <3> QED  BY <1>4, <1>7, <1>8, <3>1
  <2> QED  BY <2>1, <2>2
<1>14. TokensBelongToTasks' /\ ProgressHasWorker'
  BY <1>4 DEF TokensBelongToTasks, ProgressHasWorker
<1>15. DoneNamesFile'
  BY <1>2 DEF DoneNamesFile, WithStatus
<1> QED  BY <1>3, <1>5, <1>6, <1>10, <1>11, <1>12, <1>13, <1>14, <1>15

\* Registering the token and spawning the worker.
LEMMA SpawnInv == ASSUME QueueInv, NEW s \in Slots, Spawn(s) PROVE QueueInv'
<1> USE DEF QueueInv, TypeOK, Spawn, Advance
<1>1. task[s] \in JobIds
  BY DEF IdsWereHandedOut, JobIds
<1>2. TypeOK'
  BY <1>1
<1>3. OneLoop' /\ DownIsEmpty' /\ IdsWereHandedOut'
  BY DEF OneLoop, DownIsEmpty, IdsWereHandedOut
<1>4. TasksKnowTheirRow'
  BY DEF TasksKnowTheirRow, KnowsItsRow, Candidates
<1>5. \A r \in Slots : Working(r)' <=> Working(r)
  BY DEF Working
<1>6. PickedHasNoWorker' /\ OneWorkerPerJob' /\ WorkedRowIsClaimed'
  BY <1>5 DEF PickedHasNoWorker, OneWorkerPerJob, WorkedRowIsClaimed
<1>7. DownloadingHasWorker'
  BY <1>5 DEF DownloadingHasWorker, WithStatus
<1>8. TokensBelongToTasks' /\ ProgressHasWorker' /\ DoneNamesFile'
  BY DEF TokensBelongToTasks, ProgressHasWorker, DoneNamesFile, WithStatus
<1> QED  BY <1>2, <1>3, <1>4, <1>6, <1>7, <1>8

----------------------------------------------------------------------------
(* Crash and startup.                                                      *)

\* A crash forgets every task.  Whatever part of a commit it keeps, a row that
\* is done names its file: the status is the last UPDATE.
LEMMA CrashInv == ASSUME QueueInv, Crash PROVE QueueInv'
<1>1. /\ CatalogOK(jobs') /\ DOMAIN jobs' = DOMAIN jobs
      /\ DoneNamesFile'
  <2>1. CASE UNCHANGED jobs
    BY <2>1 DEF QueueInv, TypeOK, DoneNamesFile, WithStatus
  <2>2. ASSUME NEW s \in Slots, CrashDuringCommit(s)
        PROVE  CatalogOK(jobs') /\ DOMAIN jobs' = DOMAIN jobs /\ DoneNamesFile'
    <3> DEFINE path == DestOf(s, role[s])
               withDest == SetDest(jobs, task[s], path)
    <3>1. CatalogOK(jobs) /\ role[s] \in Types /\ phase[s] = "succeeded"
      BY <2>2 DEF CrashDuringCommit, QueueInv, TypeOK, TasksKnowTheirRow, KnowsItsRow
    <3>2. path \in Paths /\ path # None
      BY <3>1, DestIsPath DEF WorkerPhases
    <3>3. jobs' = withDest \/ jobs' = SetType(withDest, task[s], role[s])
      BY <2>2 DEF CrashDuringCommit
    <3> HIDE DEF path
    <3>4. /\ CatalogOK(withDest) /\ DOMAIN withDest = DOMAIN jobs
          /\ \A j \in DOMAIN jobs :
                /\ j # task[s] => withDest[j] = jobs[j]
                /\ j = task[s] => withDest[j].dest = path
                /\ withDest[j].status = jobs[j].status
      BY <3>1, <3>2, SetDestEffect, Z3
    <3> HIDE DEF withDest
    <3>5. /\ CatalogOK(jobs') /\ DOMAIN jobs' = DOMAIN withDest
          /\ \A j \in DOMAIN withDest :
                /\ jobs'[j].dest = withDest[j].dest
                /\ jobs'[j].status = withDest[j].status
      <4>1. CASE jobs' = withDest
        BY <3>4, <4>1
      <4>2. CASE jobs' = SetType(withDest, task[s], role[s])
        BY <3>1, <3>4, <4>2, SetTypeEffect, Z3
      <4> QED  BY <3>3, <4>1, <4>2
    <3> QED  BY <3>2, <3>4, <3>5 DEF QueueInv, DoneNamesFile, WithStatus
  <2> QED  BY <2>1, <2>2 DEF Crash
<1>2. /\ up' = FALSE /\ nextId' = nextId /\ disk' = disk /\ LoseMemory
  BY DEF Crash
<1>3. TypeOK'
  BY <1>1, <1>2 DEF QueueInv, TypeOK, LoseMemory, NoRequest
<1>4. OneLoop' /\ DownIsEmpty' /\ IdsWereHandedOut' /\ TasksKnowTheirRow'
  BY <1>2 DEF QueueInv, TypeOK, JobIds, LoseMemory, NoRequest, OneLoop, DownIsEmpty,
     IdsWereHandedOut, TasksKnowTheirRow, KnowsItsRow
<1>5. PickedHasNoWorker' /\ OneWorkerPerJob' /\ WorkedRowIsClaimed'
  BY <1>2 DEF LoseMemory, PickedHasNoWorker, OneWorkerPerJob, WorkedRowIsClaimed, Working
<1>6. DownloadingHasWorker' /\ TokensBelongToTasks' /\ ProgressHasWorker'
  BY <1>2 DEF LoseMemory, DownloadingHasWorker, TokensBelongToTasks, ProgressHasWorker
<1> QED  BY <1>1, <1>3, <1>4, <1>5, <1>6 DEF QueueInv

\* The three recovery statements, in their order, in terms of the table they
\* start from: what is left, and what becomes of each row.
LEMMA RecoveredEffect ==
    ASSUME NEW table, CatalogOK(table)
    PROVE  LET kept == DedupeDone(table)
           IN  /\ CatalogOK(kept)
               /\ CatalogOK(Recovered(table))
               /\ DOMAIN Recovered(table) = DOMAIN kept
               /\ DOMAIN kept \subseteq DOMAIN table
               /\ \A j \in DOMAIN kept :
                     /\ kept[j] = table[j]
                     /\ Recovered(table)[j].url = kept[j].url
                     /\ Recovered(table)[j].dest = kept[j].dest
                     /\ Recovered(table)[j].status =
                            IF IsRedundant(kept, j) THEN "cancelled"
                            ELSE IF kept[j].status \in {"downloading", "verifying"}
                            THEN "queued" ELSE kept[j].status
<1> DEFINE kept == DedupeDone(table)
           pruned == CancelRedundant(kept)
           after == RequeueInterrupted(pruned)
<1>1. /\ CatalogOK(kept) /\ DOMAIN kept \subseteq DOMAIN table
      /\ \A j \in DOMAIN kept : kept[j] = table[j]
  BY DedupeEffect, Z3
<1>2. Recovered(table) = after
  BY DEF Recovered
<1> HIDE DEF kept
<1>3. /\ CatalogOK(pruned) /\ DOMAIN pruned = DOMAIN kept
      /\ \A j \in DOMAIN kept :
            /\ pruned[j].status = IF IsRedundant(kept, j) THEN "cancelled" ELSE kept[j].status
            /\ pruned[j].url = kept[j].url
            /\ pruned[j].dest = kept[j].dest
  BY <1>1, CancelRedundantEffect, Z3
<1> HIDE DEF pruned
<1>4. /\ CatalogOK(after) /\ DOMAIN after = DOMAIN pruned
      /\ \A j \in DOMAIN pruned :
            /\ after[j].status = IF pruned[j].status \in {"downloading", "verifying"}
                                THEN "queued" ELSE pruned[j].status
            /\ after[j].url = pruned[j].url
            /\ after[j].dest = pruned[j].dest
  BY <1>3, RequeueInterruptedEffect, Z3
<1> HIDE DEF after
<1> QED  BY <1>1, <1>2, <1>3, <1>4 DEF kept

\* Startup leaves no row that claims a worker.
LEMMA BootInv == ASSUME QueueInv, Boot PROVE QueueInv'
<1> DEFINE kept == DedupeDone(jobs)
<1>1. CatalogOK(jobs) /\ jobs' = Recovered(jobs)
  BY DEF QueueInv, TypeOK, Boot
<1>2. /\ CatalogOK(jobs') /\ DOMAIN jobs' \subseteq DOMAIN jobs
      /\ \A j \in DOMAIN jobs' :
            /\ jobs'[j].dest = jobs[j].dest
            /\ jobs'[j].status # "downloading"
            /\ jobs'[j].status = "done" => jobs[j].status = "done"
  BY <1>1, RecoveredEffect
<1>3. ~up /\ up' = TRUE
      /\ UNCHANGED <<nextId, disk, phase, task, snapshot, role, cursor, token,
                     active, progress, originals, request>>
  BY DEF Boot, memory, slotVars
<1> USE DEF QueueInv, TypeOK
<1>4. TypeOK'
  BY <1>2, <1>3
<1>5. OneLoop' /\ DownIsEmpty' /\ IdsWereHandedOut' /\ TasksKnowTheirRow'
  BY <1>3 DEF OneLoop, DownIsEmpty, IdsWereHandedOut, TasksKnowTheirRow,
     KnowsItsRow, Candidates
<1>6. \A s \in Slots : phase[s] = "free"
  BY <1>3 DEF DownIsEmpty
<1>7. PickedHasNoWorker' /\ OneWorkerPerJob' /\ WorkedRowIsClaimed'
  BY <1>3, <1>6 DEF PickedHasNoWorker, OneWorkerPerJob, WorkedRowIsClaimed, Working
<1>8. DownloadingHasWorker'
  BY <1>2 DEF DownloadingHasWorker, WithStatus
<1>9. TokensBelongToTasks' /\ ProgressHasWorker'
  BY <1>3 DEF TokensBelongToTasks, ProgressHasWorker
<1>10. DoneNamesFile'
  BY <1>2 DEF DoneNamesFile, WithStatus
<1> QED  BY <1>4, <1>5, <1>7, <1>8, <1>9, <1>10

----------------------------------------------------------------------------
(* The theorems.                                                           *)

\* Every step of the system preserves the invariant.
LEMMA NextInv == ASSUME QueueInv, [Next]_vars PROVE QueueInv'
<1>1. CASE UNCHANGED vars
  BY <1>1 DEF vars, memory, slotVars, QueueInv, TypeOK, OneLoop, DownIsEmpty,
     IdsWereHandedOut, TasksKnowTheirRow, KnowsItsRow, Candidates, PickedHasNoWorker,
     OneWorkerPerJob, WorkedRowIsClaimed, DownloadingHasWorker, TokensBelongToTasks,
     ProgressHasWorker, DoneNamesFile, Working, WithStatus
<1>2. CASE Crash
  BY <1>2, CrashInv
<1>3. CASE Boot
  BY <1>3, BootInv
<1>4. ASSUME NEW s \in Slots, LoopStep(s)
      PROVE  QueueInv'
  BY <1>4, PickJobInv, CheckOriginalsInv, SkipUpdateInv, MarkDownloadingInv, SpawnInv
     DEF LoopStep
<1>5. ASSUME NEW s \in Slots, NetworkStep(s)
      PROVE  QueueInv'
  BY <1>5, FindContentInv, CloneContentInv, OpenStreamInv, DenyInv, PublishInv, FailInv,
     CommitDoneInv, AskForVersionsInv, VersionsUnavailableInv DEF NetworkStep
<1>6. ASSUME NEW s \in Slots, LocalStep(s)
      PROVE  QueueInv'
  BY <1>6, ObserveCancelInv, RecordPlacementInv, GiveUpFallbackInv, TestCandidateInv,
     EnqueueFallbackInv, RemoveTokenInv, EndWorkerInv DEF LocalStep
<1>7. CASE Environment
  BY <1>7, AddDownloadInv, CancelActiveInv, CancelLookupInv, CancelRowInv,
     RedownloadMissingInv, RedownloadModelInv, DeleteModelInv, ForgetModelInv,
     KeepModelInv, ScanFileInv, UserRemovesFileInv DEF Environment
<1> QED  BY <1>1, <1>2, <1>3, <1>4, <1>5, <1>6, <1>7 DEF Next

\* The invariant holds in every state the daemon and its environment reach,
\* for any number of permits, versions, types, files, requests and rows, and
\* any table an earlier run left.
THEOREM Invariant == Spec => []QueueInv
<1>1. Init => QueueInv
  BY InitInv
<1>2. QueueInv /\ [Next]_vars => QueueInv'
  BY NextInv
<1> QED  BY <1>1, <1>2, PTL DEF Spec

\* Every variable keeps its type; in particular the ids handed out are fresh.
THEOREM TypeCorrect == Spec => []TypeOK
<1>1. QueueInv => TypeOK
  BY DEF QueueInv
<1> QED  BY <1>1, Invariant, PTL

\* Two workers never transfer one job, whatever is requeued, cancelled or
\* deleted between next_queued and set_status (queue.rs run).
THEOREM ExclusiveWork == Spec => []OneWorkerPerJob
<1>1. QueueInv => OneWorkerPerJob
  BY DEF QueueInv
<1> QED  BY <1>1, Invariant, PTL

\* The row of a job that is being transferred says so, was cancelled, or is
\* gone: no request puts it back in the queue before its worker is done.
THEOREM WorkIsClaimed == Spec => []WorkedRowIsClaimed
<1>1. QueueInv => WorkedRowIsClaimed
  BY DEF QueueInv
<1> QED  BY <1>1, Invariant, PTL

\* A running daemon strands no `downloading` row (requeue_interrupted).
THEOREM NothingStranded == Spec => []DownloadingHasWorker
<1>1. QueueInv => DownloadingHasWorker
  BY DEF QueueInv
<1> QED  BY <1>1, Invariant, PTL

\* A cancellation token in ActiveTasks is one of a live task that works on the
\* job it is filed under.
THEOREM TokensAreLive == Spec => []TokensBelongToTasks
<1>1. QueueInv => TokensBelongToTasks
  BY DEF QueueInv
<1> QED  BY <1>1, Invariant, PTL

\* A progress entry is one of a task that has not ended.
THEOREM ProgressIsLive == Spec => []ProgressHasTask
<1>1. QueueInv => ProgressHasTask
  BY DEF QueueInv, ProgressHasWorker, ProgressHasTask
<1> QED  BY <1>1, Invariant, PTL

\* A completed row names its file, across crashes in the middle of a commit.
THEOREM CommitIsOrdered == Spec => []DoneNamesFile
<1>1. QueueInv => DoneNamesFile
  BY DEF QueueInv
<1> QED  BY <1>1, Invariant, PTL

\* What startup recovery leaves queued is not completed under another row: the
\* order of its three statements makes it so.
LEMMA BootStep ==
    ASSUME TypeOK, Boot, NEW j \in WithStatus(jobs, "queued")', NEW d \in WithStatus(jobs, "done")',
           VersionOf[jobs'[j].url] # None
    PROVE  VersionOf[jobs'[d].url] # VersionOf[jobs'[j].url]
<1> DEFINE kept == DedupeDone(jobs)
<1>1. CatalogOK(jobs) /\ jobs' = Recovered(jobs)
  BY DEF TypeOK, Boot
<1>2. /\ DOMAIN jobs' = DOMAIN kept
      /\ CatalogOK(kept)
      /\ \A k \in DOMAIN kept :
            /\ jobs'[k].url = kept[k].url
            /\ jobs'[k].status = IF IsRedundant(kept, k) THEN "cancelled"
                                 ELSE IF kept[k].status \in {"downloading", "verifying"}
                                 THEN "queued" ELSE kept[k].status
  BY <1>1, RecoveredEffect
<1> HIDE DEF kept
<1>3. j \in DOMAIN kept /\ kept[j].status \in Pending /\ ~IsRedundant(kept, j)
  BY <1>2 DEF WithStatus, Pending
<1>4. d \in DOMAIN kept /\ kept[d].status = "done"
  BY <1>2 DEF WithStatus
<1>5. jobs'[j].url = kept[j].url /\ jobs'[d].url = kept[d].url
  BY <1>2, <1>3, <1>4
<1> QED  BY <1>3, <1>4, <1>5 DEF IsRedundant, WithStatus

\* Restarting sends no completed version back to the queue.
THEOREM RestartRedoesNothing == Spec => BootQueuesNothingCompleted
<1>1. TypeOK /\ [Next]_vars =>
        [~up /\ up' =>
            \A j \in WithStatus(jobs, "queued")' :
                VersionOf[jobs'[j].url] # None =>
                    \A d \in WithStatus(jobs, "done")' :
                        VersionOf[jobs'[d].url] # VersionOf[jobs'[j].url]]_vars
  <2> SUFFICES ASSUME TypeOK, [Next]_vars, ~up, up'
               PROVE  Boot
    BY BootStep
  <2>1. up' # up
    OBVIOUS
  <2>2. CASE UNCHANGED vars
    BY <2>1, <2>2 DEF vars
  <2>3. CASE Crash
    BY <2>3 DEF Crash
  <2>4. ASSUME NEW s \in Slots, LoopStep(s) \/ NetworkStep(s) \/ LocalStep(s)
        PROVE  up' = up
    BY <2>4 DEF LoopStep, PickJob, CheckOriginals, SkipUpdate, MarkDownloading, Spawn,
       NetworkStep, FindContent, CloneContent, OpenStream, Deny, Publish, Fail, AskForVersions,
       VersionsUnavailable, LocalStep, ObserveCancel, RecordPlacement, CommitDone, GiveUpFallback,
       TestCandidate, EnqueueFallback, RemoveToken, EndWorker, RecordOutcome, workerFrame
  <2>5. CASE Environment
    BY <2>1, <2>5 DEF Environment, AddDownload, CancelActive, CancelLookup, CancelRow,
       RedownloadMissing, RedownloadModel, DeleteModel, ForgetModel, KeepModel,
       ScanFile, UserRemovesFile
  <2> QED  BY <2>1, <2>2, <2>3, <2>4, <2>5 DEF Next
<1> QED  BY <1>1, TypeCorrect, PTL DEF Spec, BootQueuesNothingCompleted

\* Every statement but the deletions keeps the rows: an UPDATE changes them in
\* place and an INSERT adds one.
LEMMA StatementsKeepRows ==
    ASSUME NEW table
    PROVE  /\ \A id, row : DOMAIN Update(table, id, row) = DOMAIN table
           /\ \A id, st : DOMAIN SetStatus(table, id, st) = DOMAIN table
           /\ \A id, path : DOMAIN SetDest(table, id, path) = DOMAIN table
           /\ \A id, type : DOMAIN SetType(table, id, type) = DOMAIN table
           /\ \A id : DOMAIN RequeueOne(table, id) = DOMAIN table
           /\ \A id, row : DOMAIN table \subseteq DOMAIN Enqueue(table, id, row)
           /\ \A id, path : DOMAIN table \subseteq DOMAIN RegisterExisting(table, id, path)
  BY DEF Update, SetStatus, SetDest, SetType, RequeueOne, Enqueue, Insert, RegisterExisting

\* A crash in the middle of a commit loses columns, never the row.
LEMMA CrashKeepsRows == ASSUME Crash PROVE DOMAIN jobs' = DOMAIN jobs
  BY StatementsKeepRows DEF Crash, CrashDuringCommit

\* The loop loses rows only when it skips an update.
LEMMA LoopKeepsRows ==
    ASSUME NEW s \in Slots, LoopStep(s), ~SkipUpdate(s)
    PROVE  DOMAIN jobs' = DOMAIN jobs
<1>1. CASE MarkDownloading(s)
  BY <1>1, StatementsKeepRows DEF MarkDownloading
<1>2. CASE UNCHANGED jobs
  BY <1>2
<1> QED  BY <1>1, <1>2 DEF LoopStep, PickJob, CheckOriginals, Spawn

\* A worker loses no row.
LEMMA WorkersKeepRows ==
    ASSUME NEW s \in Slots, NetworkStep(s) \/ LocalStep(s)
    PROVE  DOMAIN jobs \subseteq DOMAIN jobs'
<1>1. CASE Deny(s) \/ Fail(s) \/ ObserveCancel(s) \/ RecordPlacement(s) \/ CommitDone(s)
  <2>1. CASE RecordOutcome(s, "failed") \/ RecordOutcome(s, "cancelled")
    BY <2>1, StatementsKeepRows DEF RecordOutcome
  <2>2. CASE RecordPlacement(s)
    BY <2>2, StatementsKeepRows DEF RecordPlacement
  <2>3. CASE CommitDone(s)
    BY <2>3, StatementsKeepRows DEF CommitDone
  <2>4. CASE Deny(s) \/ Fail(s) \/ ObserveCancel(s)
    BY <2>4, <2>1 DEF Deny, Fail, ObserveCancel
  <2> QED  BY <1>1, <2>2, <2>3, <2>4
<1>2. CASE EnqueueFallback(s)
  <2> DEFINE row == NewRow(Candidates(s)[cursor[s]], snapshot[s].type, FALSE, None,
                           "access_denied_fallback")
  <2>1. jobs' = jobs \/ jobs' = Enqueue(jobs, nextId, row)
    BY <1>2 DEF EnqueueFallback, Request
  <2> HIDE DEF row
  <2> QED  BY <2>1, StatementsKeepRows
<1>3. CASE FindContent(s) \/ CloneContent(s) \/ OpenStream(s) \/ Publish(s)
  BY <1>3 DEF FindContent, CloneContent, OpenStream, Publish
<1>4. CASE AskForVersions(s) \/ VersionsUnavailable(s) \/ GiveUpFallback(s) \/ TestCandidate(s)
  BY <1>4 DEF AskForVersions, VersionsUnavailable, GiveUpFallback, TestCandidate
<1>5. CASE RemoveToken(s) \/ EndWorker(s)
  BY <1>5 DEF RemoveToken, EndWorker
<1> QED  BY <1>1, <1>2, <1>3, <1>4, <1>5 DEF NetworkStep, LocalStep

\* Of the environment only a deletion and a dedupe remove rows.
LEMMA RequestsKeepRows ==
    ASSUME Environment, ~ForgetModel, ~\E all \in BOOLEAN : RedownloadMissing(all)
    PROVE  DOMAIN jobs \subseteq DOMAIN jobs'
<1>1. CASE UNCHANGED jobs
  BY <1>1
<1>2. CASE \E r \in Requests : AddDownload(r)
  BY <1>2, StatementsKeepRows DEF AddDownload, Request
<1>3. CASE CancelRow
  BY <1>3, StatementsKeepRows DEF CancelRow
<1>4. CASE \E j \in DOMAIN jobs : RedownloadModel(j)
  BY <1>4, StatementsKeepRows DEF RedownloadModel
<1>5. CASE \E path \in disk : ScanFile(path)
  BY <1>5, StatementsKeepRows DEF ScanFile
<1> QED  BY <1>1, <1>2, <1>3, <1>4, <1>5 DEF Environment, CancelActive, CancelLookup,
   DeleteModel, KeepModel, UserRemovesFile

\* The dedupe at startup and the one before rows are requeued (daemon/mod.rs,
\* requeue_done) remove a row only where a completed duplicate stays.
LEMMA DedupesKeepOne ==
    ASSUME TypeOK, Boot \/ \E all \in BOOLEAN : RedownloadMissing(all),
           NEW j \in DOMAIN jobs \ DOMAIN jobs'
    PROVE  \E k \in DOMAIN jobs' : jobs[k].status = "done" /\ SameDedupKey(jobs[k], jobs[j])
<1>1. DOMAIN jobs \subseteq Nat
  BY DEF TypeOK, CatalogOK, JobIds
<1>2. DOMAIN jobs' = DOMAIN DedupeDone(jobs)
  BY DEF Boot, Recovered, RequeueInterrupted, CancelRedundant, RedownloadMissing, RequeueDone
<1> QED  BY <1>1, <1>2, DedupedAreKept

\* Each step that loses a row has one of the three excuses.
LEMMA RowsLeaveFor ==
    ASSUME QueueInv, Next, NEW j \in DOMAIN jobs \ DOMAIN jobs'
    PROVE  \/ request = DeleteRequest(j, request.path)
           \/ \E s \in Slots : phase[s] = "skipping" /\ j \in originals \cup {task[s]}
           \/ \E k \in DOMAIN jobs' :
                 /\ jobs[k].status = "done"
                 /\ SameDedupKey(jobs[k], jobs[j])
<1>1. CASE Crash
  BY <1>1, CrashKeepsRows
<1>2. CASE Boot
  BY <1>2, DedupesKeepOne DEF QueueInv
<1>3. ASSUME NEW s \in Slots, LoopStep(s)
      PROVE  phase[s] = "skipping" /\ j \in originals \cup {task[s]}
  <2>1. SkipUpdate(s)
    BY <1>3, LoopKeepsRows
  <2> QED  BY <2>1 DEF SkipUpdate, DeleteJobs
<1>4. ASSUME NEW s \in Slots, NetworkStep(s) \/ LocalStep(s)
      PROVE  FALSE
  BY <1>4, WorkersKeepRows
<1>5. CASE ForgetModel
  <2>1. j = request.id /\ request.kind = "delete"
    BY <1>5 DEF ForgetModel, DeleteJobs
  <2> QED  BY <2>1 DEF QueueInv, TypeOK, DeleteRequest
<1>6. CASE Environment /\ ~ForgetModel
  BY <1>6, RequestsKeepRows, DedupesKeepOne DEF QueueInv
<1> QED  BY <1>1, <1>2, <1>3, <1>4, <1>5, <1>6 DEF Next

\* Rows leave the catalog only by the user's deletion, with the update that is
\* skipped, or as duplicates of a completed row that stays: whatever crashes,
\* restarts, requests and workers do, and whatever the table held.
THEOREM RowsAreKept == Spec => RowsAreNotLost
<1>1. QueueInv /\ [Next]_vars =>
        [\A j \in DOMAIN jobs \ DOMAIN jobs' :
            \/ request = DeleteRequest(j, request.path)
            \/ \E s \in Slots : phase[s] = "skipping" /\ j \in originals \cup {task[s]}
            \/ \E k \in DOMAIN jobs' :
                  /\ jobs[k].status = "done"
                  /\ SameDedupKey(jobs[k], jobs[j])]_vars
  BY RowsLeaveFor
<1> QED  BY <1>1, Invariant, PTL DEF Spec, RowsAreNotLost

----------------------------------------------------------------------------
(* With one permit.                                                        *)

\* Registration is what lets a worker start, and nothing unregisters it while
\* the only permit is the worker's own.
LEMMA LonePermitStep ==
    ASSUME \A a, b \in Slots : a = b, QueueInv, RunningIsCancellable, [Next]_vars
    PROVE  RunningIsCancellable'
<1> SUFFICES ASSUME NEW s \in Slots, phase'[s] \in TransferPhases
             PROVE  task'[s] \in DOMAIN active' /\ active'[task'[s]] = s
  BY DEF RunningIsCancellable
<1>1. CASE Spawn(s)
  BY <1>1 DEF Spawn, QueueInv, TypeOK
<1>2. CASE UNCHANGED <<task, active>> /\ phase[s] \in TransferPhases
  BY <1>2 DEF RunningIsCancellable
<1>3. CASE UNCHANGED vars \/ Boot \/ Environment
  <2>1. UNCHANGED <<phase, task, active>>
    BY <1>3 DEF vars, memory, slotVars, Boot, Environment, AddDownload, CancelActive,
       CancelLookup, CancelRow, RedownloadMissing, RedownloadModel, DeleteModel, ForgetModel,
       KeepModel, ScanFile, UserRemovesFile
  <2> QED  BY <2>1, <1>2
<1>4. CASE Crash
  BY <1>4 DEF Crash, LoseMemory
<1>5. CASE LoopStep(s) /\ ~Spawn(s)
  <2>1. phase'[s] \in LoopPhases \cup {"free"}
    BY <1>5 DEF LoopStep, PickJob, CheckOriginals, SkipUpdate, MarkDownloading, Advance,
       Release, QueueInv, TypeOK
  <2> QED  BY <2>1
<1>6. CASE FindContent(s) \/ CloneContent(s) \/ Deny(s) \/ Fail(s) \/ Publish(s)
  <2>1. phase'[s] \in {"succeeded", "placed", "fallback", "finished"}
    BY <1>6 DEF FindContent, CloneContent, Deny, Fail, Publish, Finish, Advance,
       QueueInv, TypeOK
  <2> QED  BY <2>1
<1>7. CASE OpenStream(s)
  <2>1. UNCHANGED <<task, active>> /\ phase[s] = "resolving"
    BY <1>7 DEF OpenStream
  <2> QED  BY <2>1, <1>2
<1>8. CASE CommitDone(s) \/ AskForVersions(s) \/ VersionsUnavailable(s) \/ LocalStep(s)
  <2>1. phase'[s] \in {"finished", "candidates", "succeeded", "substitute", "released", "free"}
    BY <1>8 DEF CommitDone, AskForVersions, VersionsUnavailable, LocalStep, ObserveCancel,
       RecordPlacement, GiveUpFallback, TestCandidate, EnqueueFallback, RemoveToken, EndWorker,
       Finish, Release, Advance, QueueInv, TypeOK
  <2> QED  BY <2>1
<1> QED  BY <1>1, <1>3, <1>4, <1>5, <1>6, <1>7, <1>8 DEF Next, NetworkStep

\* With max_concurrent_downloads = 1, the default, every running transfer has
\* its token in ActiveTasks.  With two permits this is false: remove(&job_id)
\* may take the token of the job's next worker.
THEOREM LonePermitIsCancellable ==
    ASSUME \A a, b \in Slots : a = b
    PROVE  Spec => []RunningIsCancellable
<1>1. Init => RunningIsCancellable
  BY DEF Init, EmptyMemory, RunningIsCancellable
<1>2. QueueInv /\ RunningIsCancellable /\ [Next]_vars => RunningIsCancellable'
  BY LonePermitStep
<1> QED  BY <1>1, <1>2, Invariant, PTL DEF Spec

----------------------------------------------------------------------------
(* The queue implements the board.  Steps that touch neither a status nor  *)
(* a holder are stutters; the others are one lemma each.  The refinement   *)
(* needs QueueInv, and that the row the loop has picked is still queued,   *)
(* cancelled or gone.                                                      *)

BoardStep == [Board!Next]_(Board!vars)

\* The loop's plan, and the rows it has picked.
Planned(s) == phase[s] \in LoopPhases \ {"marked"}

\* A status names a stage.
LEMMA StageTypes ==
    /\ StageOf("queued") = "waiting"
    /\ StageOf("downloading") = "held" /\ StageOf("verifying") = "held"
    /\ StageOf("done") = "complete"
    /\ StageOf("failed") = "abandoned" /\ StageOf("cancelled") = "abandoned"
    /\ \A st \in Statuses : StageOf(st) \in Board!Stages
<1>1. /\ StageOf("queued") = "waiting"
      /\ StageOf("downloading") = "held" /\ StageOf("verifying") = "held"
      /\ StageOf("done") = "complete"
      /\ StageOf("failed") = "abandoned" /\ StageOf("cancelled") = "abandoned"
  BY DEF StageOf
<1> QED  BY <1>1 DEF Statuses, Board!Stages

\* Steps that keep every status and every holder are stutters of the board.
LEMMA Stutter ==
    ASSUME up' = up,
           DOMAIN jobs' = DOMAIN jobs,
           \A j \in DOMAIN jobs : jobs'[j].status = jobs[j].status,
           \A s \in Slots : Working(s)' <=> Working(s),
           \A s \in Slots : Working(s) => task'[s] = task[s]
    PROVE  BoardStep
<1>1. Stages' = Stages
  BY DEF Stages
<1>2. Holdings' = Holdings
  BY DEF Holdings, Working
<1> QED  BY <1>1, <1>2 DEF BoardStep, Board!vars

\* What keeps the planned jobs, and cancels their rows at most, keeps them waiting.
LEMMA PlannedKept ==
    ASSUME PickedRowWaits,
           \A s \in Slots : Planned(s)' => Planned(s) /\ task'[s] = task[s],
           \A s \in Slots :
              Planned(s)' /\ task[s] \in DOMAIN jobs' =>
                  /\ task[s] \in DOMAIN jobs
                  /\ jobs'[task[s]].status \in {jobs[task[s]].status, "cancelled"}
    PROVE  PickedRowWaits'
BY DEF PickedRowWaits, Planned

\* The initial states.
LEMMA InitRefines == ASSUME Init PROVE Board!Init /\ PickedRowWaits
<1>1. QueueInv
  BY InitInv
<1>2. Holdings = Board!Idle
  BY DEF Init, EmptyMemory, Holdings, Working, Board!Idle
<1>3. DOMAIN Stages = DOMAIN jobs /\ DOMAIN jobs \subseteq Nat \ {0}
  BY <1>1 DEF Stages, QueueInv, TypeOK, CatalogOK, JobIds
<1>4. \A j \in DOMAIN jobs : jobs[j].status \in Statuses
  BY <1>1 DEF QueueInv, TypeOK, CatalogOK, Row
<1>5. Stages \in [DOMAIN Stages -> Board!Stages]
  BY <1>3, <1>4, StageTypes DEF Stages
<1>6. PickedRowWaits
  BY DEF Init, EmptyMemory, PickedRowWaits
<1> QED  BY <1>2, <1>3, <1>5, <1>6 DEF Board!Init, Init

----------------------------------------------------------------------------
(* Steps the board does not see.                                           *)

\* The loop between two points at which it touches a row.
LEMMA LoopStutters ==
    ASSUME QueueInv, PickedRowWaits, NEW s \in Slots,
           (\E j \in DOMAIN jobs : PickJob(s, j)) \/ CheckOriginals(s) \/ Spawn(s)
    PROVE  BoardStep /\ PickedRowWaits'
<1> USE DEF QueueInv, TypeOK, Working, Planned, Advance
<1>1. ASSUME NEW j \in DOMAIN jobs, PickJob(s, j) PROVE BoardStep /\ PickedRowWaits'
  <2>1. jobs[j].status = "queued" /\ jobs' = jobs /\ up' = up
    BY <1>1 DEF PickJob, IsNextQueued, WithStatus
  <2>2. BoardStep
    BY <1>1, <2>1, Stutter DEF PickJob
  <2>3. PickedRowWaits'
    BY <1>1, <2>1 DEF PickedRowWaits, PickJob
  <2> QED  BY <2>2, <2>3
<1>2. ASSUME CheckOriginals(s) PROVE BoardStep /\ PickedRowWaits'
  <2>1. /\ \E p \in {"skipping", "cleared"} : phase' = [phase EXCEPT ![s] = p]
        /\ phase[s] = "picked"
        /\ UNCHANGED <<up, jobs, task>>
    BY <1>2 DEF CheckOriginals
  <2>2. BoardStep
    BY <2>1, Stutter
  <2>3. PickedRowWaits'
    BY <2>1, PlannedKept
  <2> QED  BY <2>2, <2>3
<1>3. ASSUME Spawn(s) PROVE BoardStep /\ PickedRowWaits'
  <2>1. BoardStep
    BY <1>3, Stutter DEF Spawn
  <2>2. PickedRowWaits'
    BY <1>3, PlannedKept DEF Spawn
  <2> QED  BY <2>1, <2>2
<1> QED  BY <1>1, <1>2, <1>3

\* Between two points at which a worker touches its row.
LEMMA WorkerStutters ==
    ASSUME QueueInv, PickedRowWaits, NEW s \in Slots,
           \/ FindContent(s) \/ CloneContent(s) \/ OpenStream(s) \/ Publish(s)
           \/ AskForVersions(s) \/ VersionsUnavailable(s) \/ GiveUpFallback(s)
           \/ TestCandidate(s) \/ RemoveToken(s) \/ EndWorker(s)
    PROVE  BoardStep /\ PickedRowWaits'
<1> USE DEF QueueInv, TypeOK, Working, Planned, Advance, Finish, Release, workerFrame
<1>1. /\ UNCHANGED <<up, jobs>>
      /\ \A r \in Slots \ {s} : phase'[r] = phase[r] /\ task'[r] = task[r]
      /\ phase'[s] \notin LoopPhases
      /\ \/ phase[s] \in WorkPhases /\ phase'[s] \in WorkPhases /\ task'[s] = task[s]
         \/ phase[s] \notin WorkPhases /\ phase'[s] \notin WorkPhases
  <2>1. CASE FindContent(s) \/ CloneContent(s) \/ OpenStream(s) \/ Publish(s)
    BY <2>1 DEF FindContent, CloneContent, OpenStream, Publish
  <2>2. CASE AskForVersions(s) \/ VersionsUnavailable(s) \/ GiveUpFallback(s)
    BY <2>2 DEF AskForVersions, VersionsUnavailable, GiveUpFallback
  <2>3. CASE TestCandidate(s)
    BY <2>3 DEF TestCandidate
  <2>4. CASE RemoveToken(s) \/ EndWorker(s)
    BY <2>4 DEF RemoveToken, EndWorker
  <2> QED  BY <2>1, <2>2, <2>3, <2>4
<1>2. BoardStep
  BY <1>1, Stutter
<1>3. PickedRowWaits'
  BY <1>1, PlannedKept
<1> QED  BY <1>2, <1>3

\* The type a transfer ended up with is no business of the board.
LEMMA RecordStutters ==
    ASSUME QueueInv, PickedRowWaits, NEW s \in Slots, RecordPlacement(s)
    PROVE  BoardStep /\ PickedRowWaits'
<1>1. /\ CatalogOK(jobs) /\ role[s] \in Types
      /\ jobs' = SetType(jobs, task[s], role[s])
  BY DEF RecordPlacement, QueueInv, TypeOK, TasksKnowTheirRow, KnowsItsRow
<1>2. /\ DOMAIN jobs' = DOMAIN jobs
      /\ \A j \in DOMAIN jobs : jobs'[j].status = jobs[j].status
  BY <1>1, SetTypeEffect, Z3
<1>3. /\ up' = up /\ task' = task
      /\ phase[s] = "placed" /\ phase' = [phase EXCEPT ![s] = "succeeded"]
      /\ phase \in [Slots -> Phases]
  BY DEF RecordPlacement, workerFrame, Advance, QueueInv, TypeOK
<1>4. BoardStep
  BY <1>2, <1>3, Stutter DEF Working
<1>5. PickedRowWaits'
  BY <1>2, <1>3, PlannedKept DEF Planned
<1> QED  BY <1>4, <1>5

\* Requests that change no row.
LEMMA RequestStutters ==
    ASSUME QueueInv, PickedRowWaits,
           \/ \E j \in DOMAIN active : CancelActive(j)
           \/ \E j \in DOMAIN jobs : CancelLookup(j)
           \/ \E j \in DOMAIN jobs : DeleteModel(j)
           \/ KeepModel
           \/ \E path \in disk : UserRemovesFile(path)
    PROVE  BoardStep /\ PickedRowWaits'
<1>1. UNCHANGED <<up, jobs, phase, task>>
  BY DEF CancelActive, CancelLookup, DeleteModel, KeepModel, UserRemovesFile, memory, slotVars
<1>2. BoardStep
  BY <1>1, Stutter DEF Working
<1>3. PickedRowWaits'
  BY <1>1, PlannedKept DEF Planned
<1> QED  BY <1>2, <1>3

----------------------------------------------------------------------------
(* Steps of the board.                                                     *)

\* A step of a slot leaves the other slots' holders alone.
LEMMA OneHolderChanges ==
    ASSUME QueueInv, NEW s \in Slots, NEW held,
           \A r \in Slots \ {s} : phase'[r] = phase[r] /\ task'[r] = task[r],
           (IF phase'[s] \in WorkPhases THEN task'[s] ELSE 0) = held
    PROVE  Holdings' = [Holdings EXCEPT ![s] = held]
BY DEF Holdings, QueueInv, TypeOK

\* Marking a row is a claim: nobody holds the job, and its row waits or was
\* cancelled.
LEMMA MarkIsClaim ==
    ASSUME QueueInv, PickedRowWaits, NEW s \in Slots, MarkDownloading(s)
    PROVE  BoardStep /\ PickedRowWaits'
<1> DEFINE j == task[s]
<1>1. /\ CatalogOK(jobs) /\ "downloading" \in Statuses
      /\ jobs' = SetStatus(jobs, j, "downloading")
  BY DEF QueueInv, TypeOK, MarkDownloading, Statuses
<1>2. /\ DOMAIN jobs' = DOMAIN jobs
      /\ \A k \in DOMAIN jobs :
            /\ k # j => jobs'[k] = jobs[k]
            /\ k = j => jobs'[k].status = "downloading"
  BY <1>1, SetStatusEffect, Z3
<1>3. /\ phase[s] \in LoopPhases \ {"marked"}
      /\ phase' = [phase EXCEPT ![s] = "marked"]
      /\ task' = task /\ up' = up
  BY DEF MarkDownloading, Advance
<1>4. /\ up /\ j \in Nat \ {0}
      /\ \A r \in Slots : Working(r) => task[r] # j
      /\ \A r \in Slots : Planned(r) => r = s
      /\ phase \in [Slots -> Phases]
  BY <1>3 DEF QueueInv, TypeOK, DownIsEmpty, IdsWereHandedOut, PickedHasNoWorker, OneLoop, Planned
<1>5. PickedRowWaits'
  BY <1>3, <1>4 DEF PickedRowWaits, Planned
<1>6. j \in DOMAIN jobs => StageOf(jobs[j].status) \in {"waiting", "abandoned"}
  BY <1>3, StageTypes DEF PickedRowWaits
<1>7. Holdings' = [Holdings EXCEPT ![s] = j]
  BY <1>3, <1>4, OneHolderChanges
<1>8. Holdings[s] = 0 /\ ~Board!Held(j)
  BY <1>3, <1>4 DEF Holdings, Board!Held, Working
<1>9. Stages' = [k \in DOMAIN Stages |-> IF k = j THEN "held" ELSE Stages[k]]
  BY <1>2, StageTypes DEF Stages
<1>10. j \in DOMAIN Stages => Stages[j] \in {"waiting", "abandoned"}
  BY <1>6 DEF Stages
<1>11. Board!Claim(s, j)
  BY <1>3, <1>4, <1>7, <1>8, <1>9, <1>10 DEF Board!Claim, Board!Mark
<1>12. Holdings'[s] = j
  BY <1>3, <1>4 DEF Holdings
<1> QED  BY <1>5, <1>11, <1>12 DEF BoardStep, Board!Next

\* A step that records an outcome settles the job.
LEMMA OutcomeIsSettle ==
    ASSUME QueueInv, PickedRowWaits, NEW s \in Slots,
           NEW st \in {"done", "failed", "cancelled"},
           Working(s), phase[s] # "marked",
           DOMAIN jobs' = DOMAIN jobs,
           \A j \in DOMAIN jobs :
              \/ j # task[s] /\ jobs'[j] = jobs[j]
              \/ j = task[s] /\ jobs'[j].status = st,
           \E p \in TailPhases : phase' = [phase EXCEPT ![s] = p],
           task' = task, up' = up
    PROVE  BoardStep /\ PickedRowWaits'
<1>1. PICK p \in TailPhases : phase' = [phase EXCEPT ![s] = p]
  OBVIOUS
<1>2. /\ task[s] \in Nat \ {0} /\ phase \in [Slots -> Phases]
      /\ \A r \in Slots : Planned(r) => task[r] # task[s]
  BY DEF QueueInv, TypeOK, IdsWereHandedOut, PickedHasNoWorker, Planned, Working
<1>3. PickedRowWaits'
  <2>1. \A r \in Slots : Planned(r)' => Planned(r)
    BY <1>1, <1>2 DEF Planned
  <2> QED  BY <1>2, <2>1 DEF PickedRowWaits, Planned
<1>4. Holdings' = [Holdings EXCEPT ![s] = 0]
  BY <1>1, <1>2, OneHolderChanges
<1>5. Holdings[s] = task[s]
  BY DEF Holdings, Working
<1>6. PICK stage \in {"complete", "abandoned"} : StageOf(st) = stage
  BY StageTypes
<1>7. Stages' = [k \in DOMAIN Stages |-> IF k = task[s] THEN stage ELSE Stages[k]]
  BY <1>6 DEF Stages
<1>8. Board!Mark(Holdings[s], stage)
  BY <1>5, <1>7 DEF Board!Mark
<1>9. Board!Settle(s)
  BY <1>2, <1>4, <1>5, <1>8 DEF Board!Settle
<1> QED  BY <1>3, <1>9 DEF BoardStep, Board!Next

\* The four ways a transfer ends.
LEMMA WorkerSettles ==
    ASSUME QueueInv, PickedRowWaits, NEW s \in Slots,
           Deny(s) \/ Fail(s) \/ ObserveCancel(s) \/ CommitDone(s)
    PROVE  BoardStep /\ PickedRowWaits'
<1>1. ASSUME Deny(s) PROVE BoardStep /\ PickedRowWaits'
  <2>1. Working(s) /\ RecordOutcome(s, "failed") /\ phase[s] # "marked"
    BY <1>1 DEF Deny, Working
  <2>2. phase' = [phase EXCEPT ![s] = "fallback"] /\ task' = task /\ up' = up
    BY <1>1 DEF Deny, RecordOutcome, workerFrame, Advance
  <2> QED  BY <2>1, <2>2, OutcomeEffect, OutcomeIsSettle
<1>2. ASSUME Fail(s) PROVE BoardStep /\ PickedRowWaits'
  <2>1. Working(s) /\ RecordOutcome(s, "failed") /\ phase[s] # "marked"
    BY <1>2 DEF Fail, Working
  <2>2. phase' = [phase EXCEPT ![s] = "finished"] /\ task' = task /\ up' = up
    BY <1>2 DEF Fail, RecordOutcome, workerFrame, Finish, Advance
  <2> QED  BY <2>1, <2>2, OutcomeEffect, OutcomeIsSettle
<1>3. ASSUME ObserveCancel(s) PROVE BoardStep /\ PickedRowWaits'
  <2>1. Working(s) /\ RecordOutcome(s, "cancelled") /\ phase[s] # "marked"
    BY <1>3 DEF ObserveCancel, Working
  <2>2. phase' = [phase EXCEPT ![s] = "finished"] /\ task' = task /\ up' = up
    BY <1>3 DEF ObserveCancel, RecordOutcome, workerFrame, Finish, Advance
  <2> QED  BY <2>1, <2>2, OutcomeEffect, OutcomeIsSettle
<1>4. ASSUME CommitDone(s) PROVE BoardStep /\ PickedRowWaits'
  <2>1. Working(s) /\ phase[s] # "marked"
    BY <1>4 DEF CommitDone, Working
  <2>2. phase' = [phase EXCEPT ![s] = "finished"] /\ task' = task /\ up' = up
    BY <1>4 DEF CommitDone, workerFrame, Finish, Advance
  <2>3. /\ DOMAIN jobs' = DOMAIN jobs
        /\ \A j \in DOMAIN jobs :
              \/ j # task[s] /\ jobs'[j] = jobs[j]
              \/ j = task[s] /\ jobs'[j].status = "done"
    BY <1>4, CommitEffect
  <2> QED  BY <2>1, <2>2, <2>3, OutcomeIsSettle
<1> QED  BY <1>1, <1>2, <1>3, <1>4

\* Rows that are deleted leave the board.
LEMMA DeleteIsRemove ==
    ASSUME QueueInv, PickedRowWaits, NEW gone, jobs' = DeleteJobs(jobs, gone), up' = up, up,
           \A s \in Slots : Working(s)' <=> Working(s),
           \A s \in Slots : Working(s) => task'[s] = task[s],
           \A s \in Slots : Planned(s)' => Planned(s) /\ task'[s] = task[s]
    PROVE  BoardStep /\ PickedRowWaits'
<1>1. CatalogOK(jobs)
  BY DEF QueueInv, TypeOK
<1>2. /\ DOMAIN jobs' = DOMAIN jobs \ gone
      /\ \A j \in DOMAIN jobs \ gone : jobs'[j] = jobs[j]
  <2>1. /\ DOMAIN DeleteJobs(jobs, gone) = DOMAIN jobs \ gone
        /\ \A j \in DOMAIN jobs \ gone : DeleteJobs(jobs, gone)[j] = jobs[j]
    BY <1>1, DeleteEffect
  <2> QED  BY <2>1
<1>3. PickedRowWaits'
  BY <1>2, PlannedKept
<1>4. Holdings' = Holdings
  BY DEF Holdings, Working
<1>5. DOMAIN Stages' \subseteq DOMAIN Stages /\ Stages' = [j \in DOMAIN Stages' |-> Stages[j]]
  BY <1>2 DEF Stages
<1>6. Board!Remove
  BY <1>4, <1>5 DEF Board!Remove
<1> QED  BY <1>3, <1>6 DEF BoardStep, Board!Next

\* The two ways a row is deleted while the daemon runs.
LEMMA DeletionIsRemove ==
    ASSUME QueueInv, PickedRowWaits, ForgetModel \/ \E s \in Slots : SkipUpdate(s)
    PROVE  BoardStep /\ PickedRowWaits'
<1>1. ASSUME ForgetModel PROVE BoardStep /\ PickedRowWaits'
  <2>1. up /\ up' = up /\ UNCHANGED <<phase, task>>
    BY <1>1 DEF ForgetModel, QueueInv, TypeOK, DownIsEmpty, NoRequest, slotVars
  <2>2. jobs' = DeleteJobs(jobs, {request.id})
    BY <1>1 DEF ForgetModel
  <2> QED  BY <2>1, <2>2, DeleteIsRemove DEF Working, Planned
<1>2. ASSUME NEW s \in Slots, SkipUpdate(s) PROVE BoardStep /\ PickedRowWaits'
  <2>1. /\ up /\ up' = up /\ phase[s] = "skipping"
        /\ phase' = [phase EXCEPT ![s] = "free"]
        /\ task' = [task EXCEPT ![s] = 0]
        /\ phase \in [Slots -> Phases] /\ task \in [Slots -> Nat]
    BY <1>2 DEF SkipUpdate, Release, Advance, QueueInv, TypeOK, DownIsEmpty
  <2>2. jobs' = DeleteJobs(jobs, originals \cup {task[s]})
    BY <1>2 DEF SkipUpdate
  <2>3. /\ \A r \in Slots : Working(r)' <=> Working(r)
        /\ \A r \in Slots : Working(r) => task'[r] = task[r]
        /\ \A r \in Slots : Planned(r)' => Planned(r) /\ task'[r] = task[r]
    BY <2>1 DEF Working, Planned
  <2> QED  BY <2>1, <2>2, <2>3, DeleteIsRemove
<1> QED  BY <1>1, <1>2

\* A step that adds the row `nextId`, waiting or completed, or no row at all.
LEMMA InsertIsPost ==
    ASSUME QueueInv, PickedRowWaits, up, up' = up,
           NEW st \in {"queued", "done"},
           DOMAIN jobs \subseteq DOMAIN jobs',
           \A j \in DOMAIN jobs' :
              \/ j \in DOMAIN jobs /\ jobs'[j] = jobs[j]
              \/ j = nextId /\ jobs'[j].status = st,
           \A s \in Slots : Working(s)' <=> Working(s),
           \A s \in Slots : Working(s) => task'[s] = task[s],
           \A s \in Slots : Planned(s)' => Planned(s) /\ task'[s] = task[s]
    PROVE  BoardStep /\ PickedRowWaits'
<1>1. /\ nextId \in Nat \ {0} /\ nextId \notin DOMAIN jobs
      /\ \A s \in Slots : task[s] # nextId
  BY DEF QueueInv, TypeOK, JobIds, IdsWereHandedOut
<1>2. PickedRowWaits'
  BY <1>1, PlannedKept
<1>3. Holdings' = Holdings
  BY DEF Holdings, Working
<1>4. CASE nextId \notin DOMAIN jobs'
  <2>1. DOMAIN jobs' = DOMAIN jobs /\ \A j \in DOMAIN jobs : jobs'[j].status = jobs[j].status
    BY <1>4
  <2> QED  BY <1>2, <2>1, Stutter
<1>5. CASE nextId \in DOMAIN jobs'
  <2>1. /\ DOMAIN Stages' = DOMAIN Stages \cup {nextId}
        /\ nextId \notin DOMAIN Stages
    BY <1>1, <1>5 DEF Stages
  <2>2. PICK stage \in {"waiting", "complete"} : StageOf(st) = stage
    BY StageTypes
  <2>3. Stages' = [j \in DOMAIN Stages \cup {nextId} |->
                      IF j = nextId THEN stage ELSE Stages[j]]
    BY <1>1, <1>5, <2>1, <2>2 DEF Stages
  <2>4. ~Board!Held(nextId)
    BY <1>1 DEF Board!Held, Holdings
  <2>5. Board!Put(nextId, stage)
    BY <2>3 DEF Board!Put
  <2>6. Board!Post(nextId)
    BY <1>1, <1>3, <2>1, <2>4, <2>5 DEF Board!Post
  <2>7. nextId \in DOMAIN Stages'
    BY <2>1
  <2> QED  BY <1>2, <2>6, <2>7 DEF BoardStep, Board!Next
<1> QED  BY <1>4, <1>5

\* The three ways a row is inserted.
LEMMA InsertionIsPost ==
    ASSUME QueueInv, PickedRowWaits,
           \/ \E r \in Requests : AddDownload(r)
           \/ \E path \in disk : ScanFile(path)
           \/ \E s \in Slots : EnqueueFallback(s)
    PROVE  BoardStep /\ PickedRowWaits'
<1>1. ASSUME NEW r \in Requests, AddDownload(r) PROVE BoardStep /\ PickedRowWaits'
  <2>1. /\ r.url \in Urls /\ r.type \in Types \cup {None} /\ (r.type # None) \in BOOLEAN
        /\ r.file \in Files \cup {None} /\ "cli_add" \in Reasons
    BY RequestsAssumption DEF Reasons
  <2>2. TypeOK /\ Request(r.url, r.type, r.type # None, r.file, "cli_add")
    BY <1>1 DEF QueueInv, AddDownload
  <2>3. /\ DOMAIN jobs \subseteq DOMAIN jobs'
        /\ \A j \in DOMAIN jobs' :
              \/ j \in DOMAIN jobs /\ jobs'[j] = jobs[j]
              \/ j = nextId /\ jobs'[j].status = "queued"
    BY <2>1, <2>2, RequestEffect
  <2>4. up /\ up' = up /\ UNCHANGED <<phase, task>>
    BY <1>1 DEF AddDownload, memory, slotVars
  <2> QED  BY <2>3, <2>4, InsertIsPost DEF Working, Planned
<1>2. ASSUME NEW path \in disk, ScanFile(path) PROVE BoardStep /\ PickedRowWaits'
  <2> DEFINE row == ScannedRow(path)
  <2>1. CatalogOK(jobs) /\ nextId \in JobIds /\ row \in Row /\ row.status = "done"
    BY CatalogAssumption DEF QueueInv, TypeOK, ScannedRow, Row, Paths, Statuses, Reasons
  <2>2. jobs' = jobs \/ jobs' = Insert(jobs, nextId, row)
    BY <1>2 DEF ScanFile, RegisterExisting
  <2> HIDE DEF row
  <2>3. /\ DOMAIN jobs \subseteq DOMAIN jobs'
        /\ \A j \in DOMAIN jobs' :
              \/ j \in DOMAIN jobs /\ jobs'[j] = jobs[j]
              \/ j = nextId /\ jobs'[j].status = "done"
    <3>1. CASE jobs' = jobs
      BY <3>1
    <3>2. CASE jobs' = Insert(jobs, nextId, row)
      <4>1. /\ CatalogOK(Insert(jobs, nextId, row))
            /\ DOMAIN Insert(jobs, nextId, row) = DOMAIN jobs \cup {nextId}
            /\ \A j \in DOMAIN jobs : j # nextId => Insert(jobs, nextId, row)[j] = jobs[j]
            /\ Insert(jobs, nextId, row)[nextId] = row
        <5>1. CatalogOK(jobs) /\ nextId \in JobIds
          BY <2>1
        <5>2. row \in Row
          BY <2>1
        <5> QED  BY <5>1, <5>2, InsertEffect, Z3
      <4>2. /\ DOMAIN jobs' = DOMAIN jobs \cup {nextId}
            /\ \A j \in DOMAIN jobs : j # nextId => jobs'[j] = jobs[j]
            /\ jobs'[nextId] = row
        BY <3>2, <4>1
      <4>3. nextId \notin DOMAIN jobs
        BY DEF QueueInv, TypeOK, JobIds
      <4>4. ASSUME NEW j \in DOMAIN jobs'
            PROVE  \/ j \in DOMAIN jobs /\ jobs'[j] = jobs[j]
                   \/ j = nextId /\ jobs'[j].status = "done"
        <5>1. CASE j \in DOMAIN jobs
          BY <4>2, <4>3, <5>1
        <5>2. CASE j = nextId
          BY <2>1, <4>2, <5>2
        <5> QED  BY <4>2, <5>1, <5>2
      <4> QED  BY <4>2, <4>4
    <3> QED  BY <2>2, <3>1, <3>2
  <2>4. up /\ up' = up /\ UNCHANGED <<phase, task>>
    BY <1>2 DEF ScanFile, memory, slotVars
  <2> QED  BY <2>3, <2>4, InsertIsPost DEF Working, Planned
<1>3. ASSUME NEW s \in Slots, EnqueueFallback(s) PROVE BoardStep /\ PickedRowWaits'
  <2>1. /\ up /\ up' = up /\ task' = task
        /\ phase[s] = "substitute" /\ phase' = [phase EXCEPT ![s] = "finished"]
        /\ phase \in [Slots -> Phases]
    BY <1>3 DEF EnqueueFallback, Finish, Advance, QueueInv, TypeOK, DownIsEmpty
  <2>2. /\ DOMAIN jobs \subseteq DOMAIN jobs'
        /\ \A j \in DOMAIN jobs' :
              \/ j \in DOMAIN jobs /\ jobs'[j] = jobs[j]
              \/ j = nextId /\ jobs'[j].status = "queued"
    BY <1>3, FallbackEffect
  <2> QED  BY <2>1, <2>2, InsertIsPost DEF Working, Planned
<1> QED  BY <1>1, <1>2, <1>3

\* A row cancelled without a token is withdrawn, if it is still there.
LEMMA CancelIsWithdraw ==
    ASSUME QueueInv, PickedRowWaits, CancelRow
    PROVE  BoardStep /\ PickedRowWaits'
<1> DEFINE j == request.id
<1>1. /\ CatalogOK(jobs) /\ "cancelled" \in Statuses
      /\ jobs' = SetStatus(jobs, j, "cancelled")
  BY DEF QueueInv, TypeOK, CancelRow, Statuses
<1>2. /\ DOMAIN jobs' = DOMAIN jobs
      /\ \A k \in DOMAIN jobs :
            /\ k # j => jobs'[k] = jobs[k]
            /\ k = j => jobs'[k].status = "cancelled"
  BY <1>1, SetStatusEffect, Z3
<1>3. /\ up /\ up' = up
      /\ UNCHANGED <<phase, task>>
  BY DEF CancelRow, slotVars, QueueInv, DownIsEmpty, TypeOK, NoRequest
<1>4. PickedRowWaits'
  BY <1>2, <1>3, PlannedKept DEF Planned
<1>5. CASE j \notin DOMAIN jobs
  <2>1. BoardStep
    BY <1>2, <1>3, <1>5, Stutter DEF Working
  <2> QED  BY <1>4, <2>1
<1>6. CASE j \in DOMAIN jobs
  <2>1. Holdings' = Holdings
    BY <1>3 DEF Holdings
  <2>2. Stages' = [k \in DOMAIN Stages |-> IF k = j THEN "abandoned" ELSE Stages[k]]
    BY <1>2, StageTypes DEF Stages
  <2>3. Board!Withdraw(j)
    BY <1>3, <2>1, <2>2 DEF Board!Withdraw, Board!Mark
  <2>4. j \in DOMAIN Stages
    BY <1>6 DEF Stages
  <2> QED  BY <1>4, <2>3, <2>4 DEF BoardStep, Board!Next
<1> QED  BY <1>5, <1>6

\* Completed rows go back to the queue, which nobody holds.
LEMMA RequeueIsRepeat ==
    ASSUME QueueInv, PickedRowWaits, up, UNCHANGED <<up, phase, task>>,
           DOMAIN jobs' \subseteq DOMAIN jobs,
           \A j \in DOMAIN jobs \ DOMAIN jobs' : jobs[j].status = "done",
           \A j \in DOMAIN jobs' :
              \/ jobs'[j] = jobs[j]
              \/ jobs[j].status = "done" /\ jobs'[j].status = "queued"
    PROVE  BoardStep /\ PickedRowWaits'
<1>1. \A s \in Slots : Working(s) /\ task[s] \in DOMAIN jobs => jobs[task[s]].status # "done"
  BY DEF QueueInv, WorkedRowIsClaimed
<1>2. \A s \in Slots : Planned(s) /\ task[s] \in DOMAIN jobs => jobs[task[s]].status # "done"
  BY DEF PickedRowWaits, Planned
<1>3. PickedRowWaits'
  BY <1>2, PlannedKept DEF Planned
<1>4. Holdings' = Holdings
  BY DEF Holdings
<1>5. /\ DOMAIN Stages = DOMAIN jobs /\ DOMAIN Stages' = DOMAIN jobs'
      /\ \A j \in DOMAIN jobs : Stages[j] = StageOf(jobs[j].status)
      /\ \A j \in DOMAIN jobs' : Stages'[j] = StageOf(jobs'[j].status)
      /\ Stages' = [j \in DOMAIN Stages' |-> Stages'[j]]
  BY DEF Stages
<1>6. \A j \in DOMAIN jobs : jobs[j].status = "done" => ~Board!Held(j)
  <2>1. ASSUME NEW j \in DOMAIN jobs, Board!Held(j)
        PROVE  jobs[j].status # "done"
    <3>1. j # 0
      BY DEF QueueInv, TypeOK, CatalogOK, JobIds
    <3>2. PICK s \in Slots : Holdings[s] = j
      BY <2>1 DEF Board!Held
    <3>3. Working(s) /\ task[s] = j
      BY <3>1, <3>2 DEF Holdings, Working
    <3> QED  BY <1>1, <3>3
  <2> QED  BY <2>1
<1>7. \A j \in DOMAIN Stages \ DOMAIN Stages' : Stages[j] = "complete"
  BY <1>5, StageTypes
<1>8. \A j \in DOMAIN Stages' :
          Stages'[j] # Stages[j] =>
              Stages[j] = "complete" /\ Stages'[j] = "waiting" /\ ~Board!Held(j)
  BY <1>5, <1>6, StageTypes
<1>9. Board!Repeat
  BY <1>4, <1>5, <1>7, <1>8 DEF Board!Repeat
<1> QED  BY <1>3, <1>9 DEF BoardStep, Board!Next

\* The two requests that do completed rows again.
LEMMA RedownloadIsRepeat ==
    ASSUME QueueInv, PickedRowWaits,
           \/ \E all \in BOOLEAN : RedownloadMissing(all)
           \/ \E j \in DOMAIN jobs : RedownloadModel(j)
    PROVE  BoardStep /\ PickedRowWaits'
<1>1. ASSUME NEW all \in BOOLEAN, RedownloadMissing(all) PROVE BoardStep /\ PickedRowWaits'
  <2>1. /\ CatalogOK(jobs) /\ jobs' = RequeueDone(jobs, ~all, disk)
        /\ up /\ UNCHANGED <<up, phase, task>>
    BY <1>1 DEF QueueInv, TypeOK, RedownloadMissing, memory, slotVars
  <2>2. /\ DOMAIN jobs' \subseteq DOMAIN jobs
        /\ \A j \in DOMAIN jobs' :
              \/ jobs'[j] = jobs[j]
              \/ jobs[j].status = "done" /\ jobs'[j].status = "queued"
        /\ \A j \in DOMAIN jobs \ DOMAIN jobs' : jobs[j].status = "done"
    BY <2>1, RequeueDoneEffect, Z3
  <2> QED  BY <2>1, <2>2, RequeueIsRepeat
<1>2. ASSUME NEW id \in DOMAIN jobs, RedownloadModel(id) PROVE BoardStep /\ PickedRowWaits'
  <2>1. /\ CatalogOK(jobs) /\ jobs' = RequeueOne(jobs, id) /\ jobs[id].status = "done"
        /\ up /\ UNCHANGED <<up, phase, task>>
    BY <1>2 DEF QueueInv, TypeOK, RedownloadModel, CanRequeueOne, WithStatus, memory, slotVars
  <2>2. /\ DOMAIN jobs' = DOMAIN jobs
        /\ \A j \in DOMAIN jobs :
              /\ j # id => jobs'[j] = jobs[j]
              /\ j = id => jobs'[j].status = "queued"
    BY <2>1, RequeueOneEffect, Z3
  <2> QED  BY <2>1, <2>2, RequeueIsRepeat
<1> QED  BY <1>1, <1>2

\* The UPDATEs of a commit that a crash cuts short keep every status.
LEMMA PartialCommitEffect ==
    ASSUME QueueInv, NEW s \in Slots, CrashDuringCommit(s)
    PROVE  /\ DOMAIN jobs' = DOMAIN jobs
           /\ \A j \in DOMAIN jobs : jobs'[j].status = jobs[j].status
<1> DEFINE path == DestOf(s, role[s])
           withDest == SetDest(jobs, task[s], path)
<1>1. CatalogOK(jobs) /\ role[s] \in Types /\ phase[s] = "succeeded"
  BY DEF CrashDuringCommit, QueueInv, TypeOK, TasksKnowTheirRow, KnowsItsRow
<1>2. path \in Paths
  BY <1>1, DestIsPath DEF WorkerPhases
<1>3. jobs' = withDest \/ jobs' = SetType(withDest, task[s], role[s])
  BY DEF CrashDuringCommit
<1> HIDE DEF path
<1>4. /\ CatalogOK(withDest) /\ DOMAIN withDest = DOMAIN jobs
      /\ \A j \in DOMAIN jobs : withDest[j].status = jobs[j].status
  BY <1>1, <1>2, SetDestEffect, Z3
<1> HIDE DEF withDest
<1>5. CASE jobs' = withDest
  BY <1>4, <1>5
<1>6. CASE jobs' = SetType(withDest, task[s], role[s])
  <2>1. /\ DOMAIN jobs' = DOMAIN withDest
        /\ \A j \in DOMAIN withDest : jobs'[j].status = withDest[j].status
    BY <1>1, <1>4, <1>6, SetTypeEffect, Z3
  <2> QED  BY <1>4, <2>1
<1> QED  BY <1>3, <1>5, <1>6

\* A crash closes the board.
LEMMA CrashIsClose ==
    ASSUME QueueInv, PickedRowWaits, Crash
    PROVE  BoardStep /\ PickedRowWaits'
<1>1. /\ DOMAIN jobs' = DOMAIN jobs
      /\ \A j \in DOMAIN jobs : jobs'[j].status = jobs[j].status
  BY PartialCommitEffect DEF Crash
<1>2. up /\ up' = FALSE /\ phase' = [s \in Slots |-> "free"]
  BY DEF Crash, LoseMemory
<1>3. Stages' = Stages
  BY <1>1 DEF Stages
<1>4. Holdings' = Board!Idle
  BY <1>2 DEF Holdings, Board!Idle
<1>5. PickedRowWaits'
  BY <1>2 DEF PickedRowWaits
<1>6. Board!Close
  BY <1>2, <1>3, <1>4 DEF Board!Close
<1> QED  BY <1>5, <1>6 DEF BoardStep, Board!Next

\* The startup recovery reopens it.
LEMMA BootIsReopen ==
    ASSUME QueueInv, PickedRowWaits, Boot
    PROVE  BoardStep /\ PickedRowWaits'
<1>1. CatalogOK(jobs) /\ jobs' = Recovered(jobs)
  BY DEF QueueInv, TypeOK, Boot
<1>2. /\ ~up /\ up' = TRUE
      /\ UNCHANGED <<phase, task>>
      /\ \A s \in Slots : phase[s] = "free"
  BY DEF Boot, memory, slotVars, QueueInv, DownIsEmpty
<1>3. /\ DOMAIN jobs' = DOMAIN DedupeDone(jobs)
      /\ DOMAIN jobs' \subseteq DOMAIN jobs
      /\ \A j \in DOMAIN jobs' :
            /\ DedupeDone(jobs)[j] = jobs[j]
            /\ jobs'[j].status =
                  IF IsRedundant(DedupeDone(jobs), j) THEN "cancelled"
                  ELSE IF jobs[j].status \in {"downloading", "verifying"}
                  THEN "queued" ELSE jobs[j].status
  BY <1>1, RecoveredEffect
<1>4. \A j \in DOMAIN jobs \ DOMAIN jobs' : jobs[j].status = "done"
  BY <1>1, <1>3, DedupeEffect
<1>5. /\ DOMAIN Stages = DOMAIN jobs /\ DOMAIN Stages' = DOMAIN jobs'
      /\ \A j \in DOMAIN jobs : Stages[j] = StageOf(jobs[j].status)
      /\ \A j \in DOMAIN jobs' : Stages'[j] = StageOf(jobs'[j].status)
      /\ Stages' = [j \in DOMAIN Stages' |-> Stages'[j]]
  BY DEF Stages
<1>6. \A j \in DOMAIN jobs' :
          /\ jobs[j].status \in Statuses
          /\ IsRedundant(DedupeDone(jobs), j) =>
                jobs[j].status \in {"queued", "downloading", "verifying"}
  BY <1>1, <1>3 DEF CatalogOK, Row, IsRedundant, Pending
<1>7. ASSUME NEW j \in DOMAIN Stages'
      PROVE  CASE Stages[j] = "held"    -> Stages'[j] \in {"waiting", "abandoned"}
               [] Stages[j] = "waiting" -> Stages'[j] \in {"waiting", "abandoned"}
               [] OTHER                 -> Stages'[j] = Stages[j]
  <2>1. /\ Stages[j] = StageOf(jobs[j].status)
        /\ Stages'[j] = StageOf(jobs'[j].status)
    BY <1>3, <1>5
  <2>2. /\ Stages[j] \in {"held", "waiting"} => Stages'[j] \in {"waiting", "abandoned"}
        /\ Stages[j] \notin {"held", "waiting"} => Stages'[j] = Stages[j]
    BY <1>3, <1>5, <1>6, <2>1, StageTypes DEF Statuses
  <2> QED  BY <2>2
<1>8. Holdings' = Holdings
  BY <1>2 DEF Holdings
<1>9. \A j \in DOMAIN Stages \ DOMAIN Stages' : Stages[j] = "complete"
  BY <1>4, <1>5, StageTypes
<1>10. Board!Reopen
  BY <1>2, <1>3, <1>5, <1>7, <1>8, <1>9 DEF Board!Reopen
<1>11. PickedRowWaits'
  BY <1>2 DEF PickedRowWaits
<1> QED  BY <1>10, <1>11 DEF BoardStep, Board!Next

----------------------------------------------------------------------------
(* The theorems about the board.                                           *)

\* Every step of the queue is a step of the board, or none.
LEMMA NextRefines ==
    ASSUME QueueInv, PickedRowWaits, [Next]_vars
    PROVE  BoardStep /\ PickedRowWaits'
<1>1. CASE UNCHANGED vars
  <2>1. UNCHANGED <<up, jobs, phase, task>>
    BY <1>1 DEF vars, memory, slotVars
  <2>2. BoardStep
    BY <2>1, Stutter DEF Working
  <2>3. PickedRowWaits'
    BY <2>1 DEF PickedRowWaits
  <2> QED  BY <2>2, <2>3
<1>2. CASE Crash
  BY <1>2, CrashIsClose
<1>3. CASE Boot
  BY <1>3, BootIsReopen
<1>4. ASSUME NEW s \in Slots, LoopStep(s)
      PROVE  BoardStep /\ PickedRowWaits'
  BY <1>4, LoopStutters, MarkIsClaim, DeletionIsRemove DEF LoopStep
<1>5. ASSUME NEW s \in Slots, NetworkStep(s)
      PROVE  BoardStep /\ PickedRowWaits'
  BY <1>5, WorkerStutters, WorkerSettles DEF NetworkStep
<1>6. ASSUME NEW s \in Slots, LocalStep(s)
      PROVE  BoardStep /\ PickedRowWaits'
  BY <1>6, WorkerStutters, WorkerSettles, RecordStutters, InsertionIsPost DEF LocalStep
<1>7. CASE Environment
  BY <1>7, InsertionIsPost, RequestStutters, CancelIsWithdraw, RedownloadIsRepeat,
     DeletionIsRemove DEF Environment
<1> QED  BY <1>1, <1>2, <1>3, <1>4, <1>5, <1>6, <1>7 DEF Next

\* The row the loop has picked is never one that was worked on meanwhile.
THEOREM PickedStillWaits == Spec => []PickedRowWaits
<1>1. Init => PickedRowWaits
  BY InitRefines
<1>2. QueueInv /\ PickedRowWaits /\ [Next]_vars => PickedRowWaits'
  BY NextRefines
<1> QED  BY <1>1, <1>2, Invariant, PTL DEF Spec

\* The download queue implements the board, for any number of permits, versions,
\* requests and rows: a job has one holder at most, completed jobs start again
\* only when asked, and a restart neither loses nor repeats one.
THEOREM Refinement == Spec => ImplementsBoard
<1>1. Init => Board!Init
  BY InitRefines
<1>2. QueueInv /\ PickedRowWaits /\ [Next]_vars => [Board!Next]_(Board!vars)
  BY NextRefines DEF BoardStep
<1> QED  BY <1>1, <1>2, Invariant, PickedStillWaits, PTL DEF Spec, ImplementsBoard, Board!Spec

=============================================================================
