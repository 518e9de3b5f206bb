--------------------------- MODULE CatalogProofs ---------------------------
(***************************************************************************)
(* What each statement of Catalog does to the jobs table, for every table: *)
(* it keeps rows well formed, and says which rows change, and how.         *)
(***************************************************************************)
EXTENDS Catalog, WellFoundedInduction, TLAPS

\* Lists the fields of a well-formed row one by one.
LEMMA RowFields ==
    ASSUME NEW row \in Row
    PROVE  /\ row.url \in Urls
           /\ row.type \in Types \cup {None}
           /\ row.declared \in BOOLEAN
           /\ row.file \in Files \cup {None}
           /\ row.dest \in Paths \cup {None}
           /\ row.status \in Statuses
           /\ row.reason \in Reasons
BY DEF Row

\* Changing one field of a row to a value of that field's range gives a row
\* (set_status, set_dest_path and set_model_type on one row).
LEMMA RowWithField ==
    ASSUME NEW row \in Row
    PROVE  /\ \A st \in Statuses : /\ [row EXCEPT !.status = st] \in Row
                                   /\ [row EXCEPT !.status = st].status = st
                                   /\ [row EXCEPT !.status = st].dest = row.dest
           /\ \A path \in Paths \cup {None} :
                 /\ [row EXCEPT !.dest = path] \in Row
                 /\ [row EXCEPT !.dest = path].status = row.status
                 /\ [row EXCEPT !.dest = path].dest = path
           /\ \A type \in Types :
                 /\ [row EXCEPT !.type = type] \in Row
                 /\ [row EXCEPT !.type = type].status = row.status
                 /\ [row EXCEPT !.type = type].dest = row.dest
BY DEF Row

\* A row sent back to the queue is queued and names no file (requeue_one).
LEMMA RequeuedRow ==
    ASSUME NEW row \in Row
    PROVE  Requeued(row) \in Row /\ Requeued(row).status = "queued"
BY DEF Row, Requeued, Statuses

----------------------------------------------------------------------------

\* An UPDATE by id keeps every other row and inserts none.
LEMMA UpdateEffect ==
    ASSUME NEW jobs, CatalogOK(jobs), NEW id, NEW row, id \in DOMAIN jobs => row \in Row
    PROVE  /\ CatalogOK(Update(jobs, id, row))
           /\ DOMAIN Update(jobs, id, row) = DOMAIN jobs
           /\ \A j \in DOMAIN jobs :
                 Update(jobs, id, row)[j] = IF j = id THEN row ELSE jobs[j]
BY DEF CatalogOK, Update

\* set_status: the row, if it is there, has the new status; no other changes.
LEMMA SetStatusEffect ==
    ASSUME NEW jobs, CatalogOK(jobs), NEW id, NEW st \in Statuses
    PROVE  /\ CatalogOK(SetStatus(jobs, id, st))
           /\ DOMAIN SetStatus(jobs, id, st) = DOMAIN jobs
           /\ \A j \in DOMAIN jobs :
                 /\ j # id => SetStatus(jobs, id, st)[j] = jobs[j]
                 /\ j = id => SetStatus(jobs, id, st)[j].status = st
                 /\ SetStatus(jobs, id, st)[j].dest = jobs[j].dest
<1> DEFINE row == [jobs[id] EXCEPT !.status = st]
<1>1. id \in DOMAIN jobs =>
        /\ row \in Row
        /\ row.status = st
        /\ row.dest = jobs[id].dest
  BY RowWithField DEF CatalogOK
<1>2. SetStatus(jobs, id, st) = Update(jobs, id, row)
  BY DEF SetStatus
<1> HIDE DEF row
<1> QED  BY <1>1, <1>2, UpdateEffect

\* set_dest_path changes no status.
LEMMA SetDestEffect ==
    ASSUME NEW jobs, CatalogOK(jobs), NEW id, NEW path \in Paths
    PROVE  /\ CatalogOK(SetDest(jobs, id, path))
           /\ DOMAIN SetDest(jobs, id, path) = DOMAIN jobs
           /\ \A j \in DOMAIN jobs :
                 /\ j # id => SetDest(jobs, id, path)[j] = jobs[j]
                 /\ j = id => SetDest(jobs, id, path)[j].dest = path
                 /\ SetDest(jobs, id, path)[j].status = jobs[j].status
<1> DEFINE row == [jobs[id] EXCEPT !.dest = path]
<1>1. id \in DOMAIN jobs =>
        /\ row \in Row
        /\ row.status = jobs[id].status
        /\ row.dest = path
  BY RowWithField DEF CatalogOK
<1>2. SetDest(jobs, id, path) = Update(jobs, id, row)
  BY DEF SetDest
<1> HIDE DEF row
<1> QED  BY <1>1, <1>2, UpdateEffect

\* set_model_type changes neither a status nor a destination.
LEMMA SetTypeEffect ==
    ASSUME NEW jobs, CatalogOK(jobs), NEW id, NEW type \in Types
    PROVE  /\ CatalogOK(SetType(jobs, id, type))
           /\ DOMAIN SetType(jobs, id, type) = DOMAIN jobs
           /\ \A j \in DOMAIN jobs :
                 /\ j # id => SetType(jobs, id, type)[j] = jobs[j]
                 /\ SetType(jobs, id, type)[j].dest = jobs[j].dest
                 /\ SetType(jobs, id, type)[j].status = jobs[j].status
<1> DEFINE row == [jobs[id] EXCEPT !.type = type]
<1>1. id \in DOMAIN jobs =>
        /\ row \in Row
        /\ row.status = jobs[id].status
        /\ row.dest = jobs[id].dest
  BY RowWithField DEF CatalogOK
<1>2. SetType(jobs, id, type) = Update(jobs, id, row)
  BY DEF SetType
<1> HIDE DEF row
<1> QED  BY <1>1, <1>2, UpdateEffect

\* requeue_one: the row is queued, no other changes.
LEMMA RequeueOneEffect ==
    ASSUME NEW jobs, CatalogOK(jobs), NEW id
    PROVE  /\ CatalogOK(RequeueOne(jobs, id))
           /\ DOMAIN RequeueOne(jobs, id) = DOMAIN jobs
           /\ \A j \in DOMAIN jobs :
                 /\ j # id => RequeueOne(jobs, id)[j] = jobs[j]
                 /\ j = id => RequeueOne(jobs, id)[j].status = "queued"
<1> DEFINE row == Requeued(jobs[id])
<1>1. id \in DOMAIN jobs =>
        row \in Row /\ row.status = "queued"
  BY RequeuedRow DEF CatalogOK
<1>2. RequeueOne(jobs, id) = Update(jobs, id, row)
  BY DEF RequeueOne
<1> HIDE DEF row
<1> QED  BY <1>1, <1>2, UpdateEffect

\* Deleted rows are gone, the others are as they were.
LEMMA DeleteEffect ==
    ASSUME NEW jobs, CatalogOK(jobs), NEW ids
    PROVE  /\ CatalogOK(DeleteJobs(jobs, ids))
           /\ DOMAIN DeleteJobs(jobs, ids) = DOMAIN jobs \ ids
           /\ \A j \in DOMAIN jobs \ ids : DeleteJobs(jobs, ids)[j] = jobs[j]
BY DEF CatalogOK, DeleteJobs

\* A new row under a new id leaves the others as they were.
LEMMA InsertEffect ==
    ASSUME NEW jobs, CatalogOK(jobs), NEW id \in JobIds, NEW row \in Row
    PROVE  /\ CatalogOK(Insert(jobs, id, row))
           /\ DOMAIN Insert(jobs, id, row) = DOMAIN jobs \cup {id}
           /\ \A j \in DOMAIN jobs : j # id => Insert(jobs, id, row)[j] = jobs[j]
           /\ Insert(jobs, id, row)[id] = row
BY DEF CatalogOK, Insert

----------------------------------------------------------------------------

\* Removing duplicates changes no row that stays, and removes completed rows
\* alone (dedupe_done_jobs).
LEMMA DedupeEffect ==
    ASSUME NEW jobs, CatalogOK(jobs)
    PROVE  /\ CatalogOK(DedupeDone(jobs))
           /\ DOMAIN DedupeDone(jobs) \subseteq DOMAIN jobs
           /\ \A j \in DOMAIN DedupeDone(jobs) : DedupeDone(jobs)[j] = jobs[j]
           /\ \A j \in DOMAIN jobs \ DOMAIN DedupeDone(jobs) : jobs[j].status = "done"
<1>1. \A j \in Superseded(jobs) : j \in DOMAIN jobs /\ jobs[j].status = "done"
  BY DEF Superseded, WithStatus
<1>2. DedupeDone(jobs) = DeleteJobs(jobs, Superseded(jobs))
  BY DEF DedupeDone
<1>3. /\ CatalogOK(DeleteJobs(jobs, Superseded(jobs)))
      /\ DOMAIN DeleteJobs(jobs, Superseded(jobs)) = DOMAIN jobs \ Superseded(jobs)
      /\ \A j \in DOMAIN jobs \ Superseded(jobs) :
            DeleteJobs(jobs, Superseded(jobs))[j] = jobs[j]
  BY DeleteEffect
<1> QED  BY <1>1, <1>2, <1>3

\* A non-empty set of ids has a least one.
LEMMA LeastId ==
    ASSUME NEW ids \in SUBSET Nat, ids # {}
    PROVE  \E m \in ids : \A k \in ids : m <= k
<1>1. PICK m \in ids : \A k \in ids : ~(<<k, m>> \in OpToRel(<, Nat))
  BY NatLessThanWellFounded, WFMin, Zenon
<1>2. \A k \in ids : ~(k < m)
  BY <1>1 DEF OpToRel
<1> QED  BY <1>2

\* Rows are duplicates of each other in both directions, and of the same rows.
LEMMA DedupKeysMatch ==
    /\ \A a, b : SameDedupKey(a, b) => SameDedupKey(b, a)
    /\ \A a, b, c : SameDedupKey(a, b) /\ SameDedupKey(b, c) => SameDedupKey(a, c)
BY DEF SameDedupKey

\* Of the duplicates of a row that is removed, one stays: the canonical row of
\* a group is nobody's duplicate (ORDER BY in dedupe_done_jobs).
LEMMA DedupeKeepsOne ==
    ASSUME NEW jobs, DOMAIN jobs \subseteq Nat, NEW j \in Superseded(jobs)
    PROVE  \E k \in DOMAIN DedupeDone(jobs) :
              jobs[k].status = "done" /\ SameDedupKey(jobs[k], jobs[j])
<1> DEFINE group == {k \in WithStatus(jobs, "done") : SameDedupKey(jobs[k], jobs[j])}
           placed == {k \in group : jobs[k].dest # None}
<1>1. group \subseteq DOMAIN jobs /\ DOMAIN jobs \subseteq Nat
  BY DEF WithStatus
<1>2. group # {}
  BY DEF Superseded
<1>3. ASSUME NEW m \in group, NEW k \in WithStatus(jobs, "done"), SameDedupKey(jobs[k], jobs[m])
      PROVE  k \in group
  BY <1>3, DedupKeysMatch
<1>4. \E m \in group : \A k \in group : ~KeptBefore(jobs, k, m)
  <2>1. CASE placed # {}
    <3>1. PICK m \in placed : \A k \in placed : m <= k
      <4> HIDE DEF placed
      <4>1. placed \in SUBSET Nat
        BY <1>1 DEF placed
      <4> QED  BY <2>1, <4>1, LeastId
    <3>2. ASSUME NEW k \in group, KeptBefore(jobs, k, m)  PROVE FALSE
      <4>1. jobs[k].dest # None /\ k < m
        BY <3>2, <3>1 DEF KeptBefore
      <4>2. m <= k
        BY <4>1, <3>1
      <4> QED  BY <4>1, <4>2, <1>1
    <3> QED  BY <3>2
  <2>2. CASE placed = {}
    <3>1. PICK m \in group : \A k \in group : m <= k
      <4>1. group \in SUBSET Nat
        BY <1>1
      <4> HIDE DEF group
      <4> QED  BY <1>2, <4>1, LeastId
    <3>2. ASSUME NEW k \in group, KeptBefore(jobs, k, m)  PROVE FALSE
      <4>1. k < m
        BY <3>2, <2>2 DEF KeptBefore
      <4>2. m <= k
        BY <3>1
      <4> QED  BY <4>1, <4>2, <1>1
    <3> QED  BY <3>2
  <2> QED  BY <2>1, <2>2
<1>5. PICK m \in group : \A k \in group : ~KeptBefore(jobs, k, m)
  BY <1>4
<1>6. m \notin Superseded(jobs)
  BY <1>3, <1>5 DEF Superseded
<1> QED  BY <1>1, <1>6 DEF DedupeDone, DeleteJobs, WithStatus

\* What a dedupe removes stays, as another row of its version or path.
LEMMA DedupedAreKept ==
    ASSUME NEW jobs, DOMAIN jobs \subseteq Nat, NEW j \in DOMAIN jobs \ DOMAIN DedupeDone(jobs)
    PROVE  \E k \in DOMAIN DedupeDone(jobs) :
              jobs[k].status = "done" /\ SameDedupKey(jobs[k], jobs[j])
BY DedupeKeepsOne DEF DedupeDone, DeleteJobs

\* requeue_done leaves pending, failed and cancelled rows alone; a completed
\* row is removed, requeued or left as it was.
LEMMA RequeueDoneEffect ==
    ASSUME NEW jobs, CatalogOK(jobs), NEW onlyMissing, NEW disk
    PROVE  LET after == RequeueDone(jobs, onlyMissing, disk)
           IN  /\ CatalogOK(after)
               /\ DOMAIN after \subseteq DOMAIN jobs
               /\ \A j \in DOMAIN after :
                     \/ after[j] = jobs[j]
                     \/ jobs[j].status = "done" /\ after[j].status = "queued"
               /\ \A j \in DOMAIN jobs \ DOMAIN after : jobs[j].status = "done"
<1> DEFINE kept == DedupeDone(jobs)
           after == RequeueDone(jobs, onlyMissing, disk)
<1>1. /\ CatalogOK(kept)
      /\ DOMAIN kept \subseteq DOMAIN jobs
      /\ \A j \in DOMAIN kept : kept[j] = jobs[j]
      /\ \A j \in DOMAIN jobs \ DOMAIN kept : jobs[j].status = "done"
  BY DedupeEffect
<1>2. DOMAIN after = DOMAIN kept
  BY DEF RequeueDone
<1>3. \A j \in DOMAIN kept :
        \/ after[j] = kept[j]
        \/ kept[j].status = "done" /\ after[j] = Requeued(kept[j])
  BY DEF RequeueDone
<1>4. \A j \in DOMAIN kept :
        Requeued(kept[j]) \in Row /\ Requeued(kept[j]).status = "queued"
  BY <1>1, RequeuedRow DEF CatalogOK
<1>5. after = [j \in DOMAIN after |-> after[j]]
  BY DEF RequeueDone
<1>6. CatalogOK(after)
  <2>1. \A j \in DOMAIN after : after[j] \in Row
    BY <1>1, <1>2, <1>3, <1>4 DEF CatalogOK
  <2> HIDE DEF kept, after
  <2> QED  BY <2>1, <1>1, <1>2, <1>5 DEF CatalogOK
<1> QED
  <2> HIDE DEF kept
  <2> QED  BY <1>1, <1>2, <1>3, <1>4, <1>6

----------------------------------------------------------------------------
(* The startup recovery's statements.                                      *)

\* cancel_redundant_pending_jobs changes the status of redundant rows alone.
LEMMA CancelRedundantEffect ==
    ASSUME NEW jobs, CatalogOK(jobs)
    PROVE  /\ CatalogOK(CancelRedundant(jobs))
           /\ DOMAIN CancelRedundant(jobs) = DOMAIN jobs
           /\ \A j \in DOMAIN jobs :
                 /\ CancelRedundant(jobs)[j].status =
                        IF IsRedundant(jobs, j) THEN "cancelled" ELSE jobs[j].status
                 /\ CancelRedundant(jobs)[j].url = jobs[j].url
                 /\ CancelRedundant(jobs)[j].dest = jobs[j].dest
<1>1. \A j \in DOMAIN jobs :
        /\ jobs[j] \in Row
        /\ [jobs[j] EXCEPT !.status = "cancelled"] \in Row
        /\ [jobs[j] EXCEPT !.status = "cancelled"].status = "cancelled"
        /\ [jobs[j] EXCEPT !.status = "cancelled"].url = jobs[j].url
        /\ [jobs[j] EXCEPT !.status = "cancelled"].dest = jobs[j].dest
  BY DEF CatalogOK, Row, Statuses
<1> QED  BY <1>1 DEF CancelRedundant, CatalogOK

\* After requeue_interrupted no row is downloading or verifying.
LEMMA RequeueInterruptedEffect ==
    ASSUME NEW jobs, CatalogOK(jobs)
    PROVE  /\ CatalogOK(RequeueInterrupted(jobs))
           /\ DOMAIN RequeueInterrupted(jobs) = DOMAIN jobs
           /\ \A j \in DOMAIN jobs :
                 /\ RequeueInterrupted(jobs)[j].status =
                        IF jobs[j].status \in {"downloading", "verifying"}
                        THEN "queued" ELSE jobs[j].status
                 /\ RequeueInterrupted(jobs)[j].url = jobs[j].url
                 /\ RequeueInterrupted(jobs)[j].dest = jobs[j].dest
<1>1. \A j \in DOMAIN jobs :
        /\ jobs[j] \in Row
        /\ [jobs[j] EXCEPT !.status = "queued"] \in Row
        /\ [jobs[j] EXCEPT !.status = "queued"].status = "queued"
        /\ [jobs[j] EXCEPT !.status = "queued"].url = jobs[j].url
        /\ [jobs[j] EXCEPT !.status = "queued"].dest = jobs[j].dest
  BY DEF CatalogOK, Row, Statuses
<1> QED  BY <1>1 DEF RequeueInterrupted, CatalogOK

=============================================================================
