--------------------------- MODULE TransferProofs ---------------------------
(***************************************************************************)
(* The safety theorems of Transfer, for any set of jobs, sources, contents *)
(* and installations.                                                      *)
(***************************************************************************)
EXTENDS Transfer, FiniteSetTheorems, TLAPS

----------------------------------------------------------------------------
(* Paths and contents.                                                     *)

\* Both placements of a job are paths a model may have.
LEMMA PlacesAreModelPaths ==
    ASSUME NEW j \in Jobs
    PROVE  Provisional(j) \in ModelPaths /\ Final(j) \in ModelPaths
  BY DEF Provisional, Final, ModelPaths, Dirs, Names

\* A whole file is a file: a sequence of chunks.
LEMMA WholeTyped ==
    ASSUME NEW c \in Contents
    PROVE  Whole(c) \in Seq(Chunks) /\ Len(Whole(c)) = Full
<1>1. \A i \in 1..Full : <<c, i>> \in Chunks
  BY DEF Chunks
<1> QED  BY <1>1, SizeAssumption DEF Whole

\* A digest names the content it was computed from.
LEMMA DigestIsContent ==
    ASSUME NEW path
    PROVE  /\ DigestOf(path) \in Contents \cup {None}
           /\ DigestOf(path) # None => files[path] = Whole(DigestOf(path))
<1>1. CASE \E c \in Contents : files[path] = Whole(c)
  BY <1>1 DEF DigestOf
<1>2. CASE ~\E c \in Contents : files[path] = Whole(c)
  BY <1>2 DEF DigestOf
<1> QED  BY <1>1, <1>2

\* A file that matches the digest of a source is its whole content.
LEMMA MatchIsWhole ==
    ASSUME NEW j \in Jobs, NEW path, Matches(j, path)
    PROVE  /\ Source[j].hash \in Contents
           /\ files[path] = Whole(Source[j].hash)
  BY DigestIsContent DEF Matches

----------------------------------------------------------------------------
(* The file system's operations.                                           *)

\* A write at one path leaves every file a sequence of chunks.
LEMMA WithTyped ==
    ASSUME TypeOK, NEW path, NEW chunks \in Seq(Chunks), Len(chunks) <= Full + 1,
           files' = With(files, path, chunks)
    PROVE  /\ DOMAIN files' = DOMAIN files \cup {path}
           /\ \A p \in DOMAIN files' : files'[p] \in Seq(Chunks) /\ Len(files'[p]) <= Full + 1
  BY DEF With, TypeOK, StorageTyped

\* unlink(2) takes the path away, and the name of whoever has it open.
LEMMA UnlinkEffect ==
    ASSUME TypeOK, NEW path, Unlink(path)
    PROVE  /\ DOMAIN files' = DOMAIN files \ {path}
           /\ \A p \in DOMAIN files' : files'[p] = files[p]
           /\ fd' \in [Jobs -> DOMAIN files' \cup {None}]
           /\ \A k \in Jobs : fd[k] # path => fd'[k] = fd[k]
           /\ \A k \in Jobs : fd'[k] \in {fd[k], None}
  BY DEF Unlink, Without, TypeOK, StorageTyped

\* rename(2) empties one path and fills the other, whatever was there.
LEMMA MoveEffect ==
    ASSUME TypeOK, NEW from \in DOMAIN files, NEW to, from # to, Move(from, to)
    PROVE  /\ DOMAIN files' = (DOMAIN files \ {from}) \cup {to}
           /\ files'[to] = files[from]
           /\ \A p \in DOMAIN files \ {from, to} : files'[p] = files[p]
           /\ fd' \in [Jobs -> DOMAIN files' \cup {None}]
           /\ \A k \in Jobs : fd[k] \notin {from, to} => fd'[k] = fd[k]
           /\ \A k \in Jobs : fd'[k] \in {fd[k], to, None}
           /\ \A k \in Jobs : fd'[k] = to => fd[k] = from \/ to = None
<1> DEFINE rest == Without(files, from)
<1>1. /\ DOMAIN rest = DOMAIN files \ {from}
      /\ \A p \in DOMAIN files \ {from} : rest[p] = files[p]
  BY DEF Without
<1>2. files' = With(rest, to, files[from])
  BY DEF Move
<1> HIDE DEF rest
<1>3. /\ DOMAIN files' = DOMAIN rest \cup {to}
      /\ files'[to] = files[from]
      /\ \A p \in DOMAIN rest \ {to} : files'[p] = rest[p]
  BY <1>2 DEF With
<1>4. /\ DOMAIN files' = (DOMAIN files \ {from}) \cup {to}
      /\ \A p \in DOMAIN files \ {from, to} : files'[p] = files[p]
  BY <1>1, <1>3
<1>5. \A k \in Jobs : fd[k] \in DOMAIN files \cup {None}
  BY DEF TypeOK, StorageTyped
<1>6. fd' = [k \in Jobs |-> CASE fd[k] = from -> to [] fd[k] = to -> None [] OTHER -> fd[k]]
  BY DEF Move
<1>7. \A k \in Jobs :
        fd'[k] = IF fd[k] = from THEN to ELSE IF fd[k] = to THEN None ELSE fd[k]
  BY <1>6, Zenon
<1> QED  BY <1>3, <1>4, <1>5, <1>6, <1>7

\* Writing a chunk, with holes before it if it comes late.
LEMMA WrittenTyped ==
    ASSUME NEW chunks \in Seq(Chunks), Len(chunks) <= Full + 1,
           NEW at \in 0..Full, NEW chunk \in Chunks
    PROVE  /\ Written(chunks, at, chunk) \in Seq(Chunks)
           /\ Len(Written(chunks, at, chunk)) <= Full + 1
<1> DEFINE n == IF Len(chunks) > at THEN Len(chunks) ELSE at + 1
<1>1. n \in Nat /\ n <= Full + 1
  BY SizeAssumption
<1>2. \A i \in 1..n :
        (IF i = at + 1 THEN chunk ELSE IF i <= Len(chunks) THEN chunks[i] ELSE None) \in Chunks
  BY DEF Chunks
<1>3. Written(chunks, at, chunk)
        = [i \in 1..n |-> IF i = at + 1 THEN chunk
                          ELSE IF i <= Len(chunks) THEN chunks[i] ELSE None]
  BY DEF Written
<1> HIDE DEF n
<1>4. Written(chunks, at, chunk) \in Seq(Chunks) /\ Len(Written(chunks, at, chunk)) = n
  BY <1>1, <1>2, <1>3
<1> QED  BY <1>1, <1>4

----------------------------------------------------------------------------
(* Types.                                                                  *)

\* The initial files are whole and the initial rows are typed.
LEMMA InitTyped == ASSUME Init PROVE TypeOK
<1>1. PICK w \in Workloads :
        /\ limit = w.limit
        /\ phase = [j \in Jobs |-> IF j \in w.queued THEN "queued"
                                  ELSE IF j \in w.done THEN "done" ELSE "absent"]
        /\ files = [p \in {Final(j) : j \in w.done} |->
                      Whole(Source[CHOOSE j \in w.done : Final(j) = p].content)]
        /\ dest = [j \in Jobs |-> IF j \in w.done THEN Final(j) ELSE None]
        /\ digest = [j \in Jobs |-> IF j \in w.done THEN Source[j].content ELSE None]
  BY DEF Init
<1>2. w.done \subseteq Jobs
  BY SizeAssumption
<1>3. \A p \in DOMAIN files : files[p] \in Seq(Chunks) /\ Len(files[p]) <= Full + 1
  <2> SUFFICES ASSUME NEW p \in DOMAIN files
               PROVE  files[p] \in Seq(Chunks) /\ Len(files[p]) <= Full + 1
    OBVIOUS
  <2> DEFINE j == CHOOSE j \in w.done : Final(j) = p
  <2>1. j \in Jobs /\ files[p] = Whole(Source[j].content)
    BY <1>1, <1>2
  <2> HIDE DEF j
  <2>2. Source[j].content \in Contents
    BY <2>1, SourceAssumption
  <2>3. Whole(Source[j].content) \in Seq(Chunks) /\ Len(Whole(Source[j].content)) = Full
    BY <2>2, WholeTyped
  <2> QED  BY <2>1, <2>3, SizeAssumption
<1>4. phase \in [Jobs -> Phases]
  BY <1>1 DEF Phases, Settled
<1>5. dest \in [Jobs -> ModelPaths \cup {None}]
  BY <1>1, PlacesAreModelPaths
<1>6. digest \in [Jobs -> Contents \cup {None}]
  BY <1>1, SourceAssumption
<1>7. /\ resume \in [Jobs -> 0..(Full + 1)] /\ received \in [Jobs -> 0..Full]
      /\ skipped \in [Jobs -> 0..(Full + 1)]
  BY SizeAssumption DEF Init
<1> QED  BY <1>1, <1>3, <1>4, <1>5, <1>6, <1>7 DEF TypeOK, StorageTyped, RowsTyped, Init

\* Nothing happens to the files.
LEMMA StillTyped ==
    ASSUME StorageTyped, UNCHANGED <<files, fd>>
    PROVE  StorageTyped'
  BY DEF StorageTyped

\* unlink(2) keeps the types.
LEMMA UnlinkTyped ==
    ASSUME TypeOK, NEW path, Unlink(path)
    PROVE  StorageTyped'
  BY UnlinkEffect DEF TypeOK, StorageTyped

\* rename(2) keeps the types.
LEMMA MoveTyped ==
    ASSUME TypeOK, NEW from \in DOMAIN files, NEW to, from # to, Move(from, to)
    PROVE  StorageTyped'
<1>1. /\ DOMAIN files' = (DOMAIN files \ {from}) \cup {to}
      /\ files'[to] = files[from]
      /\ \A p \in DOMAIN files \ {from, to} : files'[p] = files[p]
  BY MoveEffect
<1>2. fd' \in [Jobs -> DOMAIN files' \cup {None}]
  BY MoveEffect
<1> QED  BY <1>1, <1>2 DEF TypeOK, StorageTyped

\* A worker that fails leaves typed rows.
LEMMA FailTyped ==
    ASSUME RowsTyped, NEW j \in Jobs, Fail(j)
    PROVE  RowsTyped'
  BY SizeAssumption DEF RowsTyped, Fail, Advance, Forget, Phases, Settled

\* So does a worker that has its placement.
LEMMA SucceedTyped ==
    ASSUME RowsTyped, NEW j \in Jobs, NEW path \in ModelPaths,
           NEW c \in Contents \cup {None}, Succeed(j, path, c)
    PROVE  RowsTyped'
  BY SizeAssumption DEF RowsTyped, Succeed, Advance, Forget, Phases, Settled

\* Before any byte is sent.
LEMMA PrepareTyped == ASSUME TypeOK, NEW j \in Jobs, Prepare(j) PROVE TypeOK'
<1>1. StorageTyped /\ RowsTyped
  BY DEF TypeOK
<1>2. UNCHANGED <<files, fd>>
  BY DEF Prepare, ReuseExisting, RefuseExisting, ChooseDonor, BeginTransfer
<1>3. CASE ReuseExisting(j)
  <2>1. Source[j].hash \in Contents
    BY <1>3, MatchIsWhole DEF ReuseExisting
  <2>2. RowsTyped'
    BY <1>1, <1>3, <2>1, SucceedTyped, PlacesAreModelPaths DEF ReuseExisting
  <2> QED  BY <1>1, <1>2, <2>2, StillTyped DEF TypeOK
<1>4. CASE RefuseExisting(j)
  BY <1>1, <1>2, <1>4, FailTyped, StillTyped DEF RefuseExisting, TypeOK
<1>5. CASE ChooseDonor(j)
  <2>1. PICK k \in Jobs : donor' = [donor EXCEPT ![j] = dest[k]]
    BY <1>5 DEF ChooseDonor, Donors
  <2> QED  BY <1>1, <1>2, <1>5, <2>1, StillTyped DEF ChooseDonor, TypeOK, RowsTyped, Advance, Phases
<1>6. CASE BeginTransfer(j)
  <2> DEFINE r == IF Exists(ProvisionalTmp(j)) THEN Len(files[ProvisionalTmp(j)]) ELSE 0
  <2>1. r \in 0..(Full + 1)
    BY <1>1, SizeAssumption DEF Exists, StorageTyped
  <2>2. resume' = [resume EXCEPT ![j] = r]
    BY <1>6 DEF BeginTransfer
  <2>3. resume'[j] = r /\ skipped' = [skipped EXCEPT ![j] = resume'[j]]
    BY <1>1, <1>6, <2>2 DEF BeginTransfer, RowsTyped
  <2> HIDE DEF r
  <2> QED  BY <1>1, <1>2, <1>6, <2>1, <2>2, <2>3, StillTyped DEF BeginTransfer, TypeOK, RowsTyped, Advance, Phases
<1> QED  BY <1>3, <1>4, <1>5, <1>6 DEF Prepare

\* The publication of a clone.
LEMMA CloneTyped == ASSUME TypeOK, ClonesAreOwn, NEW j \in Jobs, Clone(j) PROVE TypeOK'
<1>1. StorageTyped /\ RowsTyped
  BY DEF TypeOK
<1>2. \A path : Matches(j, path) => Source[j].hash \in Contents \cup {None}
  BY MatchIsWhole
<1>3. Provisional(j) \in ModelPaths
  BY PlacesAreModelPaths
<1>4. CASE CloneFindsFile(j)
  <2>1. RowsTyped'
    BY <1>1, <1>2, <1>3, <1>4, SucceedTyped, FailTyped DEF CloneFindsFile
  <2> QED  BY <1>1, <1>4, <2>1, StillTyped DEF CloneFindsFile, TypeOK
<1>5. CASE CloneDonor(j)
  <2>1. /\ files[donor[j]] \in Seq(Chunks) /\ Len(files[donor[j]]) <= Full + 1
        /\ files' = With(files, CloneOf(j), files[donor[j]])
    BY <1>1, <1>5 DEF CloneDonor, Exists, StorageTyped
  <2>2. StorageTyped'
    BY <1>1, <1>5, <2>1, WithTyped DEF CloneDonor, local, StorageTyped
  <2> QED  BY <1>1, <1>5, <2>2 DEF CloneDonor, local, TypeOK, RowsTyped, Advance, Phases
<1>6. CASE CloneFails(j)
  BY <1>1, <1>6, FailTyped, StillTyped DEF CloneFails, TypeOK
<1>7. CASE RejectClone(j)
  <2>1. StorageTyped' /\ RowsTyped'
    BY <1>1, <1>7, FailTyped, UnlinkTyped DEF RejectClone, DiscardClone
  <2> QED  BY <2>1 DEF TypeOK
<1>8. CASE PublishClone(j)
  <2>1. RowsTyped'
    BY <1>1, <1>2, <1>3, <1>8, SucceedTyped, FailTyped DEF PublishClone
  <2>2. CloneOf(j) # Provisional(j)
    BY DEF CloneOf, CloneTmp, Provisional, Model
  <2>3. CloneOf(j) \in DOMAIN files
    BY <1>8 DEF PublishClone, ClonesAreOwn, Exists
  <2>4. StorageTyped'
    BY <1>8, <2>2, <2>3, MoveTyped, UnlinkTyped DEF PublishClone
  <2> QED  BY <2>1, <2>4 DEF TypeOK
<1> QED  BY <1>4, <1>5, <1>6, <1>7, <1>8 DEF Clone

\* The answer to the request.
LEMMA AnswerTyped == ASSUME TypeOK, NEW j \in Jobs, Answer(j) PROVE TypeOK'
<1>1. StorageTyped /\ RowsTyped
  BY DEF TypeOK
<1>2. CASE AnswerPartial(j)
  <2>1. CASE Renamed(j)
    <3>1. /\ ProvisionalTmp(j) \in DOMAIN files /\ ProvisionalTmp(j) # TmpOf(j)
          /\ Move(ProvisionalTmp(j), TmpOf(j))
      BY <1>2, <2>1 DEF AnswerPartial, Renamed, Exists
    <3>2. StorageTyped'
      BY <3>1, MoveTyped
    <3> QED  BY <1>1, <1>2, <3>2 DEF AnswerPartial, TypeOK, RowsTyped, Advance, Phases
  <2>2. CASE ~Renamed(j)
    BY <1>1, <1>2, <2>2, StillTyped DEF AnswerPartial, TypeOK, RowsTyped, Advance, Phases
  <2> QED  BY <2>1, <2>2
<1>3. CASE AnswerUnsatisfiable(j)
  BY <1>1, <1>3, FailTyped, StillTyped DEF AnswerUnsatisfiable, TypeOK
<1>4. CASE AnswerWhole(j)
  <2>1. StorageTyped'
    BY <1>1, <1>4, UnlinkTyped, StillTyped DEF AnswerWhole
  <2> QED  BY <1>1, <1>4, <2>1, SizeAssumption DEF AnswerWhole, TypeOK, RowsTyped, Advance, Phases
<1> QED  BY <1>2, <1>3, <1>4 DEF Answer

\* The body of the answer, from the open file to the renamed one.
LEMMA TransferTyped ==
    ASSUME TypeOK, NEW j \in Jobs, OpenTmp(j) \/ Receive(j) \/ Verify(j) \/ Publish(j)
    PROVE  TypeOK'
<1>1. StorageTyped /\ RowsTyped
  BY DEF TypeOK
<1>2. CASE OpenTmp(j)
  <2> DEFINE chunks == IF resume[j] > 0 /\ Exists(TmpOf(j)) THEN files[TmpOf(j)] ELSE <<>>
  <2>1. chunks \in Seq(Chunks) /\ Len(chunks) <= Full + 1
    BY <1>1, SizeAssumption DEF Exists, StorageTyped
  <2>2. files' = With(files, TmpOf(j), chunks)
    BY <1>2 DEF OpenTmp
  <2> HIDE DEF chunks
  <2>3. StorageTyped'
    BY <1>1, <1>2, <2>1, <2>2, WithTyped DEF OpenTmp, StorageTyped
  <2> QED  BY <1>1, <1>2, <2>3 DEF OpenTmp, TypeOK, RowsTyped, Advance, Phases
<1>3. CASE Receive(j)
  <2>1. CASE fd[j] = None
    <3>1. StorageTyped'
      BY <1>1, <1>3, <2>1, StillTyped DEF Receive
    <3> QED  BY <1>1, <1>3, <3>1, SizeAssumption DEF Receive, TypeOK, RowsTyped, Advance, Phases
  <2>2. CASE fd[j] # None
    <3> DEFINE chunks == files[fd[j]]
               at == IF resume[j] > 0 THEN Len(chunks) ELSE received[j]
               next == IF at > Full THEN chunks ELSE Written(chunks, at, NextChunk(j))
    <3>1. fd[j] \in DOMAIN files
      BY <1>1, <2>2 DEF StorageTyped
    <3>2. chunks \in Seq(Chunks) /\ Len(chunks) <= Full + 1 /\ at \in Nat
      BY <1>1, <3>1 DEF StorageTyped, RowsTyped
    <3>3. skipped[j] + received[j] + 1 \in 1..Full
      BY <1>1, <1>3, SizeAssumption DEF Receive, RowsTyped
    <3>4. NextChunk(j) \in Chunks
      BY <3>3, SourceAssumption DEF NextChunk, Chunks
    <3>5. files' = With(files, fd[j], next)
      BY <1>3, <2>2 DEF Receive
    <3> HIDE DEF chunks, at
    <3>6. next \in Seq(Chunks) /\ Len(next) <= Full + 1
      <4>1. CASE at > Full
        BY <3>2, <4>1
      <4>2. CASE ~(at > Full)
        <5>1. at \in 0..Full
          BY <3>2, <4>2, SizeAssumption
        <5>2. /\ Written(chunks, at, NextChunk(j)) \in Seq(Chunks)
              /\ Len(Written(chunks, at, NextChunk(j))) <= Full + 1
          BY <3>2, <3>4, <5>1, WrittenTyped
        <5> QED  BY <4>2, <5>2
      <4> QED  BY <4>1, <4>2
    <3> HIDE DEF next
    <3>7. StorageTyped'
      BY <1>1, <1>3, <3>1, <3>5, <3>6, WithTyped DEF Receive, StorageTyped
    <3> QED  BY <1>1, <1>3, <3>7, SizeAssumption DEF Receive, TypeOK, RowsTyped, Advance, Phases
  <2> QED  BY <2>1, <2>2
<1>4. CASE Verify(j)
  <2> DEFINE ok == (resume[j] > 0 => Exists(TmpOf(j))) /\ Acceptable(j)
  <2>1. CASE ok
    <3>1. ComputedDigest(j) \in Contents \cup {None}
      BY DigestIsContent, SourceAssumption DEF ComputedDigest
    <3> QED  BY <1>1, <1>4, <2>1, <3>1 DEF Verify, Close, TypeOK, StorageTyped, RowsTyped, Advance, Phases
  <2>2. CASE ~ok
    <3>1. StorageTyped'
      BY <1>1, <1>4, <2>2 DEF Verify, Without, StorageTyped
    <3>2. RowsTyped'
      BY <1>1, <1>4, <2>2, FailTyped DEF Verify
    <3> QED  BY <3>1, <3>2 DEF TypeOK
  <2> QED  BY <2>1, <2>2
<1>5. CASE Publish(j)
  <2>1. TmpOf(j) # Final(j)
    BY DEF TmpOf, Tmp, Final, Model
  <2>2. StorageTyped'
    BY <1>5, <2>1, MoveTyped DEF Publish, Exists
  <2>3. RowsTyped'
    BY <1>1, <1>5, SucceedTyped, PlacesAreModelPaths DEF Publish, RowsTyped
  <2> QED  BY <2>2, <2>3 DEF TypeOK
<1> QED  BY <1>2, <1>3, <1>4, <1>5

\* Every step of the system keeps the types.
LEMMA StepTyped ==
    ASSUME TypeOK, ClonesAreOwn, [Next]_vars
    PROVE  TypeOK'
<1>1. StorageTyped /\ RowsTyped
  BY DEF TypeOK
<1>2. ASSUME NEW j \in Jobs, Start(j) \/ Commit(j) \/ Retry(j) \/ Redownload(j)
      PROVE  TypeOK'
  <2>1. UNCHANGED <<files, fd>>
    BY <1>2 DEF Start, Commit, Retry, Redownload, local
  <2>2. RowsTyped'
    BY <1>1, <1>2 DEF Start, Commit, Retry, Redownload, local, RowsTyped, Advance, Phases, Settled
  <2> QED  BY <1>1, <2>1, <2>2, StillTyped DEF TypeOK
<1>3. ASSUME NEW j \in Jobs, PublishFails(j) \/ RestartFails(j) \/ DiscardClone(j)
      PROVE  TypeOK'
  <2>1. RowsTyped'
    BY <1>1, <1>3, FailTyped DEF PublishFails, RestartFails, DiscardClone
  <2>2. StorageTyped'
    BY <1>1, <1>3, StillTyped, UnlinkTyped DEF PublishFails, RestartFails, DiscardClone
  <2> QED  BY <2>1, <2>2 DEF TypeOK
<1>4. ASSUME NEW j \in Jobs, BreakOff(j)
      PROVE  TypeOK'
  <2>1. RowsTyped'
    BY <1>1, <1>4, FailTyped DEF BreakOff
  <2> QED  BY <1>1, <1>4, <2>1 DEF BreakOff, Close, TypeOK, StorageTyped
<1>5. ASSUME NEW j \in Jobs, CancelTransfer(j)
      PROVE  TypeOK'
  <2>1. StorageTyped'
    BY <1>1, <1>5 DEF CancelTransfer, Without, StorageTyped
  <2> QED  BY <1>1, <1>5, <2>1, SizeAssumption
           DEF CancelTransfer, TypeOK, RowsTyped, Advance, Forget, Phases, Settled
<1>9. ASSUME NEW j \in Jobs, AnswerPartialUnrenamed(j)
      PROVE  TypeOK'
  BY <1>1, <1>9, StillTyped, SizeAssumption
     DEF AnswerPartialUnrenamed, TypeOK, RowsTyped, Advance, Phases
<1>6. ASSUME NEW path, UserRemoves(path)
      PROVE  TypeOK'
  <2>1. StorageTyped'
    BY <1>6, UnlinkTyped DEF UserRemoves
  <2> QED  BY <1>1, <1>6, <2>1 DEF UserRemoves, TypeOK, RowsTyped
<1>7. CASE Crash
  BY <1>1, <1>7, SizeAssumption DEF Crash, TypeOK, StorageTyped, RowsTyped, Phases, Settled
<1>8. CASE UNCHANGED vars
  BY <1>1, <1>8 DEF vars, TypeOK, StorageTyped, RowsTyped
<1> QED
  BY <1>2, <1>3, <1>4, <1>5, <1>6, <1>7, <1>8, <1>9,
     PrepareTyped, CloneTyped, AnswerTyped, TransferTyped
     DEF Next, Undisturbed, WorkerStep, Disturbance

----------------------------------------------------------------------------
(* Beginnings of a content.                                                *)

\* Part(c, n) has n chunks; none of them is the empty file, all the whole one.
LEMMA PartProperties ==
    ASSUME NEW c, NEW n \in 0..Full
    PROVE  /\ Len(Part(c, n)) = n
           /\ \A i \in 1..n : Part(c, n)[i] = <<c, i>>
           /\ Part(c, 0) = << >>
           /\ Part(c, Full) = Whole(c)
  BY SizeAssumption DEF Part, Whole

\* The next chunk after a beginning makes the next beginning.
LEMMA PartWritten ==
    ASSUME NEW c, NEW n \in 0..Full, n < Full
    PROVE  Written(Part(c, n), n, <<c, n + 1>>) = Part(c, n + 1)
<1>1. Len(Part(c, n)) = n
  BY PartProperties
<1>2. Written(Part(c, n), n, <<c, n + 1>>)
        = [i \in 1..(n + 1) |-> IF i = n + 1 THEN <<c, n + 1>>
                                ELSE IF i <= n THEN Part(c, n)[i] ELSE None]
  BY <1>1, SizeAssumption DEF Written
<1>3. \A i \in 1..(n + 1) :
        (IF i = n + 1 THEN <<c, n + 1>> ELSE IF i <= n THEN Part(c, n)[i] ELSE None) = <<c, i>>
  BY PartProperties
<1> QED  BY <1>2, <1>3 DEF Part

\* A beginning is a subsequence of the whole content.
LEMMA PartIsSubSeq ==
    ASSUME NEW c, NEW n \in 0..Full
    PROVE  SubSeq(Whole(c), 1, n) = Part(c, n)
  BY SizeAssumption DEF Part, Whole

----------------------------------------------------------------------------
(* What a step leaves to the other jobs.                                   *)

\* Temporary files, clones and destinations have different paths.
LEMMA PathsApart ==
    ASSUME NEW j \in Jobs
    PROVE  /\ OwnPaths(j) \cap ModelPaths = {}
           /\ None \notin OwnPaths(j)
           /\ \A k \in Jobs : CloneOf(k) \notin OwnPaths(j) \cup ModelPaths
  BY PathAssumption
     DEF OwnPaths, TmpOf, ProvisionalTmp, Tmp, ModelPaths, Model, CloneOf, CloneTmp, Provisional

\* No step makes a row of the catalog, or takes one away.
RowsStay == \A k \in Jobs : phase'[k] = "absent" <=> phase[k] = "absent"

\* So who shares temporary files with whom never changes.
LEMMA SoleStays ==
    ASSUME RowsStay, NEW j \in Jobs
    PROVE  Sole(j)' <=> Sole(j)
  BY DEF RowsStay, Sole, TmpOf, ProvisionalTmp

\* The paths a worker of j can reach.
Reach(j) == OwnPaths(j) \cup {CloneOf(j)} \cup ModelPaths \cup {fd[j]}

\* None of them is a temporary file of a job that shares none.
LEMMA ReachApart ==
    ASSUME HandlesApart, NEW j \in Jobs, phase[j] # "absent",
           NEW k \in Jobs \ {j}, Sole(k)
    PROVE  OwnPaths(k) \cap Reach(j) = {}
<1>1. OwnPaths(k) \cap OwnPaths(j) = {}
  BY DEF Sole, OwnPaths
<1>2. fd[j] \notin OwnPaths(k)
  BY DEF HandlesApart
<1> QED  BY <1>1, <1>2, PathsApart DEF Reach

\* The temporary files of k, and its hold on them, are as they were.
KeepsOwn(k) ==
    /\ \A p \in OwnPaths(k) :
          /\ p \in DOMAIN files' <=> p \in DOMAIN files
          /\ p \in DOMAIN files => files'[p] = files[p]
    /\ fd[k] = TmpOf(k) => fd'[k] = TmpOf(k)

OthersKeep(j) == HandlesApart' /\ \A k \in Jobs \ {j} : Sole(k) => KeepsOwn(k)

\* A step that leaves all files alone.
LEMMA StillKeeps ==
    ASSUME TypeOK, HandlesApart, RowsStay, NEW j \in Jobs, UNCHANGED <<files, fd>>
    PROVE  OthersKeep(j)
<1>1. HandlesApart'
  BY SoleStays DEF HandlesApart, OwnPaths, TmpOf, ProvisionalTmp
<1> QED  BY <1>1 DEF OthersKeep, KeepsOwn

\* A step that removes a file within the worker's reach.
LEMMA UnlinkKeeps ==
    ASSUME TypeOK, HandlesApart, RowsStay, NEW j \in Jobs, phase[j] # "absent",
           NEW path \in Reach(j), Unlink(path)
    PROVE  OthersKeep(j)
<1>1. /\ DOMAIN files' = DOMAIN files \ {path}
      /\ \A p \in DOMAIN files' : files'[p] = files[p]
      /\ \A k \in Jobs : fd[k] # path => fd'[k] = fd[k]
      /\ \A k \in Jobs : fd'[k] \in {fd[k], None}
  BY UnlinkEffect
<1>2. HandlesApart'
  BY <1>1, SoleStays, PathsApart DEF HandlesApart, OwnPaths, TmpOf, ProvisionalTmp
<1>3. ASSUME NEW k \in Jobs \ {j}, Sole(k)
      PROVE  KeepsOwn(k)
  <2>1. path \notin OwnPaths(k)
    BY <1>3, ReachApart
  <2> QED  BY <1>1, <2>1 DEF KeepsOwn, OwnPaths
<1> QED  BY <1>2, <1>3 DEF OthersKeep

\* A step that renames a file within the worker's reach.
LEMMA MoveKeeps ==
    ASSUME TypeOK, HandlesApart, RowsStay, NEW j \in Jobs, phase[j] # "absent",
           NEW from \in DOMAIN files, NEW to, from # to, Move(from, to),
           from \in OwnPaths(j) \cup {CloneOf(j)},
           to \in OwnPaths(j) \cup ModelPaths, from = CloneOf(j) => to \in ModelPaths
    PROVE  OthersKeep(j)
<1>1. /\ DOMAIN files' = (DOMAIN files \ {from}) \cup {to}
      /\ \A p \in DOMAIN files \ {from, to} : files'[p] = files[p]
      /\ \A k \in Jobs : fd[k] \notin {from, to} => fd'[k] = fd[k]
      /\ \A k \in Jobs : fd'[k] \in {fd[k], to, None}
      /\ \A k \in Jobs : fd'[k] = to => fd[k] = from \/ to = None
  <2>1. /\ DOMAIN files' = (DOMAIN files \ {from}) \cup {to}
        /\ \A p \in DOMAIN files \ {from, to} : files'[p] = files[p]
    BY MoveEffect
  <2>2. \A k \in Jobs : fd[k] \notin {from, to} => fd'[k] = fd[k]
    BY MoveEffect
  <2>3. \A k \in Jobs : fd'[k] \in {fd[k], to, None}
    BY MoveEffect
  <2>4. \A k \in Jobs : fd'[k] = to => fd[k] = from \/ to = None
    <3>1. fd' = [k \in Jobs |-> CASE fd[k] = from -> to [] fd[k] = to -> None [] OTHER -> fd[k]]
      BY DEF Move
    <3>2. \A k \in Jobs :
            fd'[k] = IF fd[k] = from THEN to ELSE IF fd[k] = to THEN None ELSE fd[k]
      BY <3>1, Zenon
    <3> QED  BY <3>2
  <2> QED  BY <2>1, <2>2, <2>3, <2>4
<1>2. ASSUME NEW k \in Jobs \ {j}, Sole(k)
      PROVE  from \notin OwnPaths(k) /\ to \notin OwnPaths(k)
  BY <1>2, ReachApart DEF Reach
<1>3. ASSUME NEW k \in Jobs, NEW i \in Jobs, k # i, Sole(k)
      PROVE  fd'[i] \notin OwnPaths(k)
  <2>1. fd[i] \notin OwnPaths(k) /\ None \notin OwnPaths(k)
    BY <1>3, PathsApart DEF HandlesApart
  <2>2. CASE k # j
    BY <1>1, <1>2, <1>3, <2>1, <2>2
  <2>3. CASE k = j
    <3>1. CASE to \in ModelPaths
      BY <1>1, <2>1, <2>3, <3>1, PathsApart
    <3>2. CASE to \in OwnPaths(j)
      <4>1. from \in OwnPaths(j) /\ to # None
        BY <2>1, <2>3, <3>2, PathsApart
      <4>2. fd'[i] # to
        BY <1>1, <2>1, <2>3, <4>1
      <4> QED  BY <1>1, <2>1, <4>2
    <3> QED  BY <3>1, <3>2, PathsApart
  <2> QED  BY <2>2, <2>3
<1>4. HandlesApart'
  BY <1>3, SoleStays DEF HandlesApart, OwnPaths, TmpOf, ProvisionalTmp
<1>5. ASSUME NEW k \in Jobs \ {j}, Sole(k)
      PROVE  KeepsOwn(k)
  BY <1>1, <1>2, <1>5 DEF KeepsOwn, OwnPaths
<1> QED  BY <1>4, <1>5 DEF OthersKeep

\* What a step of job j says of the rows and workers of the other jobs.
OthersStay(j) ==
    /\ limit' = limit
    /\ \A k \in Jobs \ {j} :
          /\ phase'[k] = phase[k] /\ digest'[k] = digest[k]
          /\ resume'[k] = resume[k] /\ skipped'[k] = skipped[k]
          /\ received'[k] = received[k]

\* A job whose files and row a step leaves alone keeps its invariant.
LEMMA KeptWorkerInv ==
    ASSUME TypeOK, NEW k \in Jobs, WorkerInv(k), RowsStay, limit' = limit,
           phase'[k] = phase[k], digest'[k] = digest[k],
           resume'[k] = resume[k], skipped'[k] = skipped[k], received'[k] = received[k],
           Sole(k) \/ (limit = 1 /\ phase[k] \notin Settled) => KeepsOwn(k),
           limit = 1 /\ phase[k] \notin Settled =>
                (Exists(Provisional(k))' => Exists(Provisional(k)))
    PROVE  WorkerInv(k)'
<1>1. Sole(k)' <=> Sole(k)
  BY SoleStays
<1>2. Alone(k)' <=> Alone(k)
  BY <1>1 DEF Alone
<1>3. /\ (TmpOf(k))' = TmpOf(k) /\ (ProvisionalTmp(k))' = ProvisionalTmp(k)
      /\ (Provisional(k))' = Provisional(k) /\ (OwnPaths(k))' = OwnPaths(k)
  BY DEF TmpOf, ProvisionalTmp, Provisional, OwnPaths
<1>4. PartialFileIsOwn(k)' /\ OffsetIsLength(k)'
  BY <1>1, <1>3 DEF WorkerInv, PartialFileIsOwn, OffsetIsLength, KeepsOwn, Exists, OwnPaths
<1>5. BodyIsCounted(k)' /\ BodyIsPlaced(k)'
  BY <1>3 DEF WorkerInv, BodyIsCounted, BodyIsPlaced, Placed
<1>6. phase[k] \in {"requesting", "opening", "streaming", "received", "verified"}
        => phase[k] \notin Settled
  BY DEF Settled
<1>7. StreamsIntoOwnFile(k)'
  <2>1. fd[k] = TmpOf(k) => TmpOf(k) \in DOMAIN files
    BY PathsApart DEF TypeOK, StorageTyped, OwnPaths
  <2> QED
    BY <1>1, <1>2, <1>3, <1>6, <2>1
       DEF WorkerInv, StreamsIntoOwnFile, KeepsOwn, Exists, OwnPaths, Alone, Placed
<1>8. VerifiedFileStays(k)'
  BY <1>1, <1>2, <1>3, <1>6
     DEF WorkerInv, VerifiedFileStays, KeepsOwn, Exists, OwnPaths, Alone
<1>9. DestinationStaysFree(k)'
  BY <1>3, <1>6 DEF WorkerInv, DestinationStaysFree
<1> QED  BY <1>4, <1>5, <1>7, <1>8, <1>9 DEF WorkerInv

\* A step of a worker preserves the invariant if it does so for its own job
\* and keeps to its own files.
LEMMA WorkerStepInv ==
    ASSUME TransferInv, NEW j \in Jobs, TypeOK', ClonesAreOwn', RowsStay,
           OthersStay(j), OthersKeep(j), j \in Busy, WorkerInv(j)'
    PROVE  TransferInv'
<1>1. OneWorkerAtLimitOne'
  BY DEF TransferInv, OneWorkerAtLimitOne, OthersStay, Busy
<1>2. ASSUME NEW k \in Jobs \ {j}
      PROVE  WorkerInv(k)'
  <2>1. limit = 1 => phase[k] \in Settled
    BY DEF TransferInv, OneWorkerAtLimitOne, Busy
  <2> QED  BY <2>1, KeptWorkerInv DEF TransferInv, OthersStay, OthersKeep
<1> QED  BY <1>1, <1>2 DEF TransferInv, OthersKeep

\* So does a step that starts, queues or removes no file.
LEMMA RowStepInv ==
    ASSUME TransferInv, NEW j \in Jobs, TypeOK', RowsStay, OthersStay(j),
           UNCHANGED <<files, fd>>, phase'[j] # "cloned",
           limit = 1 /\ j \in Busy' => Busy \subseteq {j}, WorkerInv(j)'
    PROVE  TransferInv'
<1>1. OneWorkerAtLimitOne'
  BY DEF TransferInv, OneWorkerAtLimitOne, OthersStay, Busy
<1>2. ASSUME NEW k \in Jobs \ {j}
      PROVE  WorkerInv(k)'
  <2>1. KeepsOwn(k)
    BY DEF KeepsOwn
  <2> QED  BY <2>1, KeptWorkerInv DEF TransferInv, OthersStay, Exists, Provisional
<1>3. HandlesApart'
  BY StillKeeps DEF TransferInv, OthersKeep
<1>4. ClonesAreOwn'
  BY DEF TransferInv, ClonesAreOwn, OthersStay, Exists, CloneOf, CloneTmp, Provisional
<1> QED  BY <1>1, <1>2, <1>3, <1>4 DEF TransferInv

----------------------------------------------------------------------------
(* The steps of a worker.                                                  *)

\* A phase change is the job's own.
LEMMA AdvanceFrame ==
    ASSUME TypeOK, NEW j \in Jobs, phase[j] # "absent", NEW p, p # "absent", Advance(j, p)
    PROVE  RowsStay /\ phase'[j] = p /\ \A k \in Jobs \ {j} : phase'[k] = phase[k]
  BY DEF TypeOK, RowsTyped, Advance, RowsStay

\* A worker that ends forgets its own transfer only.
LEMMA ForgetFrame ==
    ASSUME TypeOK, NEW j \in Jobs, Forget(j)
    PROVE  /\ resume'[j] = 0 /\ received'[j] = 0
           /\ \A k \in Jobs \ {j} :
                 /\ resume'[k] = resume[k] /\ skipped'[k] = skipped[k]
                 /\ received'[k] = received[k]
  BY DEF TypeOK, RowsTyped, Forget

\* Failing is a matter of the job's own row.
LEMMA FailFrame ==
    ASSUME TypeOK, NEW j \in Jobs, phase[j] # "absent", Fail(j)
    PROVE  RowsStay /\ OthersStay(j) /\ phase'[j] = "failed" /\ received'[j] = 0
<1>1. RowsStay /\ phase'[j] = "failed" /\ \A k \in Jobs \ {j} : phase'[k] = phase[k]
  BY AdvanceFrame DEF Fail
<1> QED  BY <1>1, ForgetFrame DEF Fail, OthersStay

\* So is having the placement.
LEMMA SucceedFrame ==
    ASSUME TypeOK, NEW j \in Jobs, phase[j] # "absent", NEW path, NEW c, Succeed(j, path, c)
    PROVE  /\ RowsStay /\ OthersStay(j) /\ phase'[j] = "published" /\ received'[j] = 0
           /\ dest'[j] = path
<1>1. RowsStay /\ phase'[j] = "published" /\ \A k \in Jobs \ {j} : phase'[k] = phase[k]
  BY AdvanceFrame DEF Succeed
<1>2. dest'[j] = path /\ \A k \in Jobs \ {j} : digest'[k] = digest[k]
  BY DEF Succeed, TypeOK, RowsTyped
<1> QED  BY <1>1, <1>2, ForgetFrame DEF Succeed, OthersStay

\* The partial file of a job is still its own if no byte was written to it.
LEMMA PartialKept ==
    ASSUME NEW j \in Jobs, PartialFileIsOwn(j), RowsStay,
           ProvisionalTmp(j) \in DOMAIN files' =>
              /\ ProvisionalTmp(j) \in DOMAIN files
              /\ files'[ProvisionalTmp(j)] = files[ProvisionalTmp(j)]
    PROVE  PartialFileIsOwn(j)'
  BY SoleStays DEF PartialFileIsOwn, Exists, ProvisionalTmp

\* Nothing else is asked of a job without an answer to its request.
LEMMA IdleWorkerInv ==
    ASSUME NEW j \in Jobs, PartialFileIsOwn(j)', received'[j] = 0,
           phase'[j] \in Settled \cup {"resolving", "cloning", "cloned", "published"}
    PROVE  WorkerInv(j)'
  BY DEF WorkerInv, OffsetIsLength, BodyIsPlaced, BodyIsCounted, StreamsIntoOwnFile,
         VerifiedFileStays, DestinationStaysFree, Settled

\* No clone but the job's own is moved or removed.
LEMMA ClonesKept ==
    ASSUME ClonesAreOwn, NEW j \in Jobs, OthersStay(j), phase'[j] # "cloned",
           \A k \in Jobs \ {j} :
              phase[k] = "cloned" /\ CloneOf(k) \in DOMAIN files => CloneOf(k) \in DOMAIN files'
    PROVE  ClonesAreOwn'
  BY DEF ClonesAreOwn, OthersStay, Exists, CloneOf, CloneTmp, Provisional

\* Before any byte is sent: no file is touched, and a transfer begins at the
\* length its provisional file has, with a free destination.
LEMMA PrepareInv == ASSUME TransferInv, NEW j \in Jobs, Prepare(j) PROVE TransferInv'
<1>1. /\ TypeOK /\ StorageTyped /\ RowsTyped /\ HandlesApart /\ ClonesAreOwn
      /\ PartialFileIsOwn(j) /\ BodyIsCounted(j)
  BY DEF TransferInv, TypeOK, WorkerInv
<1>2. phase[j] = "resolving" /\ UNCHANGED <<files, fd>> /\ j \in Busy
  BY DEF Prepare, ReuseExisting, RefuseExisting, ChooseDonor, BeginTransfer, Busy, Settled
<1>3. received[j] = 0
  BY <1>1, <1>2 DEF BodyIsCounted
<1>4. TypeOK'
  BY <1>1, PrepareTyped
<1>5. ASSUME RowsStay, OthersStay(j), phase'[j] # "cloned", WorkerInv(j)'
      PROVE  TransferInv'
  BY <1>1, <1>2, <1>4, <1>5, ClonesKept, StillKeeps, WorkerStepInv
<1>6. RowsStay => PartialFileIsOwn(j)'
  BY <1>1, <1>2, PartialKept
<1>7. CASE ReuseExisting(j)
  BY <1>1, <1>2, <1>5, <1>6, <1>7, SucceedFrame, IdleWorkerInv DEF ReuseExisting
<1>8. CASE RefuseExisting(j)
  BY <1>1, <1>2, <1>5, <1>6, <1>8, FailFrame, IdleWorkerInv DEF RefuseExisting, Settled
<1>9. CASE ChooseDonor(j)
  <2>1. RowsStay /\ phase'[j] = "cloning" /\ OthersStay(j) /\ received'[j] = 0
    BY <1>1, <1>2, <1>3, <1>9, AdvanceFrame DEF ChooseDonor, OthersStay
  <2> QED  BY <1>5, <1>6, <2>1, IdleWorkerInv
<1>10. CASE BeginTransfer(j)
  <2>1. RowsStay /\ phase'[j] = "requesting" /\ OthersStay(j) /\ received'[j] = 0
    BY <1>1, <1>2, <1>3, <1>10, AdvanceFrame DEF BeginTransfer, OthersStay, RowsTyped
  <2>2. resume'[j] = IF Exists(ProvisionalTmp(j)) THEN Len(files[ProvisionalTmp(j)]) ELSE 0
    BY <1>1, <1>10 DEF BeginTransfer, RowsTyped
  <2>3. OffsetIsLength(j)'
    BY <1>2, <2>1, <2>2 DEF OffsetIsLength, Exists, ProvisionalTmp
  <2>4. DestinationStaysFree(j)'
    BY <1>2, <1>10 DEF DestinationStaysFree, BeginTransfer, Occupied, Exists, Provisional
  <2>7. skipped'[j] = resume'[j]
    BY <1>1, <1>10 DEF BeginTransfer, RowsTyped
  <2>5. /\ BodyIsCounted(j)' /\ BodyIsPlaced(j)'
        /\ StreamsIntoOwnFile(j)' /\ VerifiedFileStays(j)'
    BY <2>1, <2>7 DEF BodyIsCounted, BodyIsPlaced, Placed, StreamsIntoOwnFile, VerifiedFileStays
  <2>6. WorkerInv(j)'
    BY <1>6, <2>1, <2>3, <2>4, <2>5 DEF WorkerInv
  <2> QED  BY <1>5, <2>1, <2>6
<1> QED  BY <1>7, <1>8, <1>9, <1>10 DEF Prepare

\* The publication of a clone: the clone is one worker's until it is renamed or
\* removed, and no temporary file is touched.
LEMMA CloneInv ==
    ASSUME TransferInv, NEW j \in Jobs, Clone(j) \/ DiscardClone(j)
    PROVE  TransferInv'
<1>1. /\ TypeOK /\ StorageTyped /\ RowsTyped /\ HandlesApart /\ ClonesAreOwn
      /\ PartialFileIsOwn(j) /\ BodyIsCounted(j)
  BY DEF TransferInv, TypeOK, WorkerInv
<1>2. phase[j] \in {"cloning", "cloned"} /\ phase[j] # "absent" /\ j \in Busy
  BY DEF Clone, CloneFindsFile, CloneDonor, CloneFails, RejectClone, DiscardClone, PublishClone,
         Busy, Settled
<1>3. TypeOK'
  BY <1>1, CloneTyped, StepTyped DEF Next, Disturbance
<1>4. /\ CloneOf(j) \notin OwnPaths(j) \cup ModelPaths /\ Provisional(j) \in ModelPaths
      /\ CloneOf(j) # Provisional(j) /\ OwnPaths(j) \cap ModelPaths = {}
      /\ CloneOf(j) \in Reach(j)
  BY PathsApart, PlacesAreModelPaths DEF Reach
<1>5. ASSUME RowsStay, phase'[j] \in {"failed", "published", "cloned"}, received'[j] = 0,
             DOMAIN files' \cap OwnPaths(j) \subseteq DOMAIN files,
             \A p \in OwnPaths(j) \cap DOMAIN files' : files'[p] = files[p]
      PROVE  WorkerInv(j)'
  <2>1. PartialFileIsOwn(j)'
    BY <1>1, <1>5, PartialKept DEF OwnPaths
  <2> QED  BY <1>5, <2>1, IdleWorkerInv DEF Settled
<1>6. CASE CloneFindsFile(j)
  <2>1. /\ RowsStay /\ OthersStay(j) /\ phase'[j] \in {"failed", "published"}
        /\ received'[j] = 0
    BY <1>1, <1>2, <1>6, FailFrame, SucceedFrame DEF CloneFindsFile
  <2>2. UNCHANGED <<files, fd>>
    BY <1>6 DEF CloneFindsFile
  <2>3. WorkerInv(j)'
    BY <1>5, <2>1, <2>2
  <2> QED  BY <1>1, <1>2, <1>3, <2>1, <2>2, <2>3, ClonesKept, StillKeeps, WorkerStepInv
<1>7. CASE CloneDonor(j)
  <2>1. RowsStay /\ OthersStay(j) /\ phase'[j] = "cloned" /\ received'[j] = 0
    BY <1>1, <1>2, <1>7, AdvanceFrame DEF CloneDonor, OthersStay, local, BodyIsCounted
  <2>2. /\ DOMAIN files' = DOMAIN files \cup {CloneOf(j)} /\ fd' = fd
        /\ \A p \in DOMAIN files \ {CloneOf(j)} : files'[p] = files[p]
    BY <1>7 DEF CloneDonor, With, local
  <2>3. WorkerInv(j)'
    BY <1>4, <1>5, <2>1, <2>2
  <2>4. OthersKeep(j)
    <3>1. HandlesApart'
      BY <1>1, <2>1, <2>2, SoleStays DEF HandlesApart, OwnPaths, TmpOf, ProvisionalTmp
    <3>2. \A k \in Jobs : CloneOf(j) \notin OwnPaths(k)
      BY PathsApart
    <3> QED  BY <2>2, <3>1, <3>2 DEF OthersKeep, KeepsOwn
  <2>5. ClonesAreOwn'
    <3>1. CloneOf(j) \notin DOMAIN files
      BY <1>7 DEF CloneDonor, Exists
    <3> QED  BY <1>1, <2>1, <2>2, <3>1
             DEF ClonesAreOwn, OthersStay, Exists, CloneOf, CloneTmp, Provisional
  <2> QED  BY <1>2, <1>3, <2>1, <2>3, <2>4, <2>5, WorkerStepInv
<1>8. CASE CloneFails(j)
  <2>1. RowsStay /\ OthersStay(j) /\ phase'[j] = "failed" /\ received'[j] = 0
    BY <1>1, <1>2, <1>8, FailFrame DEF CloneFails
  <2>2. UNCHANGED <<files, fd>>
    BY <1>8 DEF CloneFails
  <2>3. WorkerInv(j)'
    BY <1>5, <2>1, <2>2
  <2> QED  BY <1>1, <1>2, <1>3, <2>1, <2>2, <2>3, ClonesKept, StillKeeps, WorkerStepInv
<1>9. ASSUME phase[j] = "cloned", Unlink(CloneOf(j)), RowsStay, OthersStay(j),
             phase'[j] \in {"failed", "published"}, received'[j] = 0
      PROVE  TransferInv'
  <2>1. /\ DOMAIN files' = DOMAIN files \ {CloneOf(j)}
        /\ \A p \in DOMAIN files' : files'[p] = files[p]
    BY <1>1, <1>9, UnlinkEffect
  <2>2. WorkerInv(j)'
    BY <1>5, <1>9, <2>1
  <2>3. OthersKeep(j)
    BY <1>1, <1>2, <1>4, <1>9, UnlinkKeeps
  <2>4. ClonesAreOwn'
    <3>1. \A k \in Jobs \ {j} : phase[k] = "cloned" => CloneOf(k) # CloneOf(j)
      BY <1>1, <1>9 DEF ClonesAreOwn
    <3> QED  BY <1>1, <1>9, <2>1, <3>1, ClonesKept
  <2> QED  BY <1>2, <1>3, <1>9, <2>2, <2>3, <2>4, WorkerStepInv
<1>10. CASE RejectClone(j) \/ DiscardClone(j)
  BY <1>1, <1>2, <1>9, <1>10, FailFrame DEF RejectClone, DiscardClone
<1>11. CASE PublishClone(j)
  <2>1. CASE Exists(Provisional(j))
    BY <1>1, <1>2, <1>9, <1>11, <2>1, FailFrame, SucceedFrame DEF PublishClone
  <2>2. CASE ~Exists(Provisional(j))
    <3>1. /\ Move(CloneOf(j), Provisional(j)) /\ CloneOf(j) \in DOMAIN files
          /\ phase[j] = "cloned"
      BY <1>1, <1>11, <2>2 DEF PublishClone, ClonesAreOwn, Exists
    <3>2. RowsStay /\ OthersStay(j) /\ phase'[j] = "published" /\ received'[j] = 0
      BY <1>1, <1>2, <1>11, <2>2, SucceedFrame DEF PublishClone
    <3>3. /\ DOMAIN files' = (DOMAIN files \ {CloneOf(j)}) \cup {Provisional(j)}
          /\ \A p \in DOMAIN files \ {CloneOf(j), Provisional(j)} : files'[p] = files[p]
      BY <1>1, <1>4, <3>1, MoveEffect
    <3>4. WorkerInv(j)'
      BY <1>4, <1>5, <3>2, <3>3
    <3>5. OthersKeep(j)
      BY <1>1, <1>2, <1>4, <3>1, <3>2, MoveKeeps
    <3>6. ClonesAreOwn'
      <4>1. \A k \in Jobs \ {j} : phase[k] = "cloned" => CloneOf(k) # CloneOf(j)
        BY <1>1, <3>1 DEF ClonesAreOwn
      <4> QED  BY <1>1, <3>2, <3>3, <4>1, ClonesKept
    <3> QED  BY <1>2, <1>3, <3>2, <3>4, <3>5, <3>6, WorkerStepInv
  <2> QED  BY <2>1, <2>2
<1> QED  BY <1>6, <1>7, <1>8, <1>10, <1>11 DEF Clone

\* The answer: what is resumed has the length asked for, under its final name;
\* what is not is removed and asked for from the start.
LEMMA AnswerInv ==
    ASSUME TransferInv, NEW j \in Jobs, Answer(j) \/ AnswerPartialUnrenamed(j)
    PROVE  TransferInv'
<1>1. /\ TypeOK /\ StorageTyped /\ RowsTyped /\ HandlesApart /\ ClonesAreOwn
      /\ PartialFileIsOwn(j) /\ OffsetIsLength(j) /\ BodyIsPlaced(j) /\ BodyIsCounted(j)
      /\ DestinationStaysFree(j)
  BY DEF TransferInv, TypeOK, WorkerInv
<1>2. /\ phase[j] = "requesting" /\ phase[j] # "absent" /\ j \in Busy /\ received[j] = 0
      /\ skipped[j] = resume[j]
  BY <1>1 DEF Answer, AnswerPartial, AnswerPartialUnrenamed, AnswerUnsatisfiable, AnswerWhole,
              Busy, Settled, BodyIsPlaced, Placed, BodyIsCounted
<1>3. TypeOK'
  BY <1>1, AnswerTyped, StepTyped DEF Next, Disturbance
<1>4. /\ Provisional(j) \in ModelPaths /\ OwnPaths(j) \cap ModelPaths = {}
      /\ ProvisionalTmp(j) \in OwnPaths(j) /\ TmpOf(j) \in OwnPaths(j)
      /\ OwnPaths(j) \subseteq Reach(j)
      /\ \A k \in Jobs : CloneOf(k) \notin OwnPaths(j)
  BY PathsApart, PlacesAreModelPaths DEF OwnPaths, Reach
<1>5. ASSUME RowsStay, phase'[j] = "opening", limit' = limit, received'[j] = 0,
             skipped'[j] < Full, PartialFileIsOwn(j)', OffsetIsLength(j)',
             skipped'[j] = resume'[j] \/ (resume'[j] = 0 /\ TmpOf(j) # ProvisionalTmp(j)),
             Provisional(j) \notin DOMAIN files => Provisional(j) \notin DOMAIN files'
      PROVE  WorkerInv(j)'
  <2>1. DestinationStaysFree(j)'
    BY <1>1, <1>2, <1>5 DEF DestinationStaysFree, Exists, Provisional
  <2>2. BodyIsPlaced(j)'
    BY <1>5 DEF BodyIsPlaced, Placed, TmpOf, ProvisionalTmp
  <2> QED  BY <1>5, <2>1, <2>2
           DEF WorkerInv, BodyIsCounted, StreamsIntoOwnFile, VerifiedFileStays
<1>6. CASE AnswerPartial(j)
  <2>1. /\ RowsStay /\ OthersStay(j) /\ phase'[j] = "opening" /\ received'[j] = 0
        /\ resume' = resume /\ skipped' = skipped /\ resume[j] > 0 /\ resume[j] < Full
    BY <1>1, <1>2, <1>6, AdvanceFrame DEF AnswerPartial, OthersStay
  <2>4. ASSUME Sole(j)
        PROVE  files[ProvisionalTmp(j)] = Part(Source[j].content, resume[j])
    <3>1. Exists(ProvisionalTmp(j)) /\ Len(files[ProvisionalTmp(j)]) = resume[j]
      BY <1>1, <1>2, <2>1, <2>4 DEF OffsetIsLength
    <3>2. PICK n \in 0..Full : files[ProvisionalTmp(j)] = Part(Source[j].content, n)
      BY <1>1, <2>4, <3>1 DEF PartialFileIsOwn
    <3> QED  BY <3>1, <3>2, PartProperties
  <2>2. CASE Renamed(j)
    <3>1. /\ ProvisionalTmp(j) \in DOMAIN files /\ ProvisionalTmp(j) # TmpOf(j)
          /\ Move(ProvisionalTmp(j), TmpOf(j))
      BY <1>6, <2>2 DEF AnswerPartial, Renamed, Exists
    <3>2. /\ DOMAIN files' = (DOMAIN files \ {ProvisionalTmp(j)}) \cup {TmpOf(j)}
          /\ files'[TmpOf(j)] = files[ProvisionalTmp(j)]
      BY <1>1, <3>1, MoveEffect
    <3>3. PartialFileIsOwn(j)'
      BY <1>1, <2>1, <3>1, <3>2, PartialKept
    <3>4. OffsetIsLength(j)'
      BY <2>1, <2>4, <3>2, SoleStays DEF OffsetIsLength, Exists, TmpOf
    <3>5. WorkerInv(j)'
      BY <1>2, <1>4, <1>5, <2>1, <3>2, <3>3, <3>4 DEF OthersStay
    <3>6. OthersKeep(j)
      BY <1>1, <1>2, <1>4, <2>1, <3>1, MoveKeeps
    <3>7. ClonesAreOwn'
      BY <1>1, <1>4, <2>1, <3>2, ClonesKept
    <3> QED  BY <1>2, <1>3, <2>1, <3>5, <3>6, <3>7, WorkerStepInv
  <2>3. CASE ~Renamed(j)
    <3>1. UNCHANGED <<files, fd>>
      BY <1>6, <2>3 DEF AnswerPartial
    <3>2. PartialFileIsOwn(j)'
      BY <1>1, <2>1, <3>1, PartialKept
    <3>3. OffsetIsLength(j)'
      <4>1. Sole(j) => Exists(ProvisionalTmp(j))
        BY <1>1, <1>2, <2>1 DEF OffsetIsLength
      <4> QED  BY <2>1, <2>3, <2>4, <3>1, <4>1, SoleStays DEF OffsetIsLength, Exists, TmpOf, Renamed
    <3>4. WorkerInv(j)'
      BY <1>2, <1>5, <2>1, <3>1, <3>2, <3>3 DEF OthersStay
    <3> QED  BY <1>1, <1>2, <1>3, <2>1, <3>1, <3>4, ClonesKept, StillKeeps, WorkerStepInv
  <2> QED  BY <2>2, <2>3
<1>9. CASE AnswerPartialUnrenamed(j)
  <2>1. /\ RowsStay /\ OthersStay(j) /\ phase'[j] = "opening" /\ received'[j] = 0
        /\ resume'[j] = 0 /\ skipped' = skipped /\ resume[j] < Full
        /\ TmpOf(j) # ProvisionalTmp(j) /\ UNCHANGED <<files, fd>>
    BY <1>1, <1>2, <1>9, AdvanceFrame DEF AnswerPartialUnrenamed, Renamed, OthersStay, RowsTyped
  <2>2. PartialFileIsOwn(j)' /\ OffsetIsLength(j)'
    BY <1>1, <2>1, PartialKept DEF OffsetIsLength
  <2>3. WorkerInv(j)'
    BY <1>2, <1>5, <2>1, <2>2 DEF OthersStay
  <2> QED  BY <1>1, <1>2, <1>3, <2>1, <2>3, ClonesKept, StillKeeps, WorkerStepInv
<1>7. CASE AnswerUnsatisfiable(j)
  <2>1. RowsStay /\ OthersStay(j) /\ phase'[j] = "failed" /\ received'[j] = 0
    BY <1>1, <1>2, <1>7, FailFrame DEF AnswerUnsatisfiable
  <2>2. UNCHANGED <<files, fd>>
    BY <1>7 DEF AnswerUnsatisfiable
  <2>3. WorkerInv(j)'
    BY <1>1, <2>1, <2>2, PartialKept, IdleWorkerInv DEF Settled
  <2> QED  BY <1>1, <1>2, <1>3, <2>1, <2>2, <2>3, ClonesKept, StillKeeps, WorkerStepInv
<1>8. CASE AnswerWhole(j)
  <2>1. /\ RowsStay /\ OthersStay(j) /\ phase'[j] = "opening" /\ received'[j] = 0
        /\ resume'[j] = 0 /\ skipped'[j] = 0
    BY <1>1, <1>2, <1>8, AdvanceFrame DEF AnswerWhole, OthersStay, RowsTyped
  <2>2. UNCHANGED <<files, fd>> \/ Unlink(ProvisionalTmp(j))
    BY <1>8 DEF AnswerWhole
  <2>3. /\ \/ DOMAIN files' = DOMAIN files
           \/ DOMAIN files' = DOMAIN files \ {ProvisionalTmp(j)}
        /\ \A p \in DOMAIN files' : files'[p] = files[p]
    BY <1>1, <2>2, UnlinkEffect
  <2>4. PartialFileIsOwn(j)'
    BY <1>1, <2>1, <2>3, PartialKept
  <2>5. OffsetIsLength(j)'
    BY <2>1 DEF OffsetIsLength
  <2>6. WorkerInv(j)'
    BY <1>4, <1>5, <2>1, <2>3, <2>4, <2>5, SizeAssumption DEF OthersStay
  <2>7. OthersKeep(j)
    BY <1>1, <1>2, <1>4, <2>1, <2>2, StillKeeps, UnlinkKeeps
  <2>8. ClonesAreOwn'
    BY <1>1, <1>4, <2>1, <2>3, ClonesKept
  <2> QED  BY <1>2, <1>3, <2>1, <2>6, <2>7, <2>8, WorkerStepInv
<1> QED  BY <1>6, <1>7, <1>8, <1>9 DEF Answer

\* Opening: the file holds what the offset says, or nothing.
LEMMA OpenInv == ASSUME TransferInv, NEW j \in Jobs, OpenTmp(j) PROVE TransferInv'
<1>1. /\ TypeOK /\ StorageTyped /\ RowsTyped /\ HandlesApart /\ ClonesAreOwn
      /\ PartialFileIsOwn(j) /\ OffsetIsLength(j) /\ BodyIsPlaced(j) /\ BodyIsCounted(j)
      /\ DestinationStaysFree(j)
  BY DEF TransferInv, TypeOK, WorkerInv
<1>2. /\ phase[j] = "opening" /\ j \in Busy /\ received[j] = 0 /\ skipped[j] < Full
      /\ skipped[j] = resume[j] \/ (resume[j] = 0 /\ TmpOf(j) # ProvisionalTmp(j))
  BY <1>1 DEF OpenTmp, Busy, Settled, BodyIsCounted, BodyIsPlaced, Placed
<1>3. TypeOK'
  BY <1>1, TransferTyped
<1>4. /\ Provisional(j) \in ModelPaths /\ OwnPaths(j) \cap ModelPaths = {}
      /\ TmpOf(j) \in OwnPaths(j) /\ TmpOf(j) \in Reach(j)
  BY PathsApart, PlacesAreModelPaths DEF OwnPaths, Reach
<1>5. /\ RowsStay /\ OthersStay(j) /\ phase'[j] = "streaming"
      /\ resume' = resume /\ received' = received /\ digest' = digest /\ skipped' = skipped
  BY <1>1, <1>2, AdvanceFrame DEF OpenTmp, OthersStay
<1> DEFINE c == Source[j].content
           chunks == IF resume[j] > 0 /\ Exists(TmpOf(j)) THEN files[TmpOf(j)] ELSE <<>>
<1>6. /\ DOMAIN files' = DOMAIN files \cup {TmpOf(j)} /\ files'[TmpOf(j)] = chunks
      /\ \A p \in DOMAIN files \ {TmpOf(j)} : files'[p] = files[p]
      /\ fd' = [fd EXCEPT ![j] = TmpOf(j)]
  BY DEF OpenTmp, With
<1>7. resume[j] \in 0..Full /\ skipped[j] \in 0..Full
  BY <1>1, <1>2, SizeAssumption DEF RowsTyped
<1>8. Sole(j) \/ resume[j] = 0 => chunks = Part(c, resume[j])
  <2>1. CASE resume[j] = 0
    BY <2>1, PartProperties, SizeAssumption
  <2>2. CASE Sole(j) /\ resume[j] > 0
    BY <1>1, <1>2, <2>2 DEF OffsetIsLength
  <2> QED  BY <1>7, <2>1, <2>2
<1> HIDE DEF chunks
<1>9. WorkerInv(j)'
  <2>1. PartialFileIsOwn(j)'
    <3> DEFINE p == ProvisionalTmp(j)
    <3> SUFFICES ASSUME Sole(j), p \in DOMAIN files'
                 PROVE  \E n \in 0..Full : files'[p] = Part(c, n)
      BY <1>5, SoleStays DEF PartialFileIsOwn, Exists, ProvisionalTmp
    <3>1. CASE p = TmpOf(j)
      BY <1>6, <1>7, <1>8, <3>1
    <3>2. CASE p # TmpOf(j)
      BY <1>1, <1>6, <3>2 DEF PartialFileIsOwn, Exists
    <3> QED  BY <3>1, <3>2
  <2>2. OffsetIsLength(j)' /\ BodyIsCounted(j)' /\ VerifiedFileStays(j)'
    BY <1>2, <1>5, <1>7 DEF OffsetIsLength, BodyIsCounted, VerifiedFileStays
  <2>5. BodyIsPlaced(j)'
    BY <1>2, <1>5 DEF BodyIsPlaced, Placed, TmpOf, ProvisionalTmp
  <2>3. StreamsIntoOwnFile(j)'
    <3>1. fd'[j] = TmpOf(j) /\ resume[j] + received[j] = resume[j]
      BY <1>1, <1>2, <1>6, <1>7 DEF StorageTyped
    <3> QED  BY <1>5, <1>6, <1>8, <3>1, SoleStays DEF StreamsIntoOwnFile, TmpOf
  <2>4. DestinationStaysFree(j)'
    BY <1>1, <1>2, <1>4, <1>5, <1>6 DEF DestinationStaysFree, Exists, Provisional, OthersStay
  <2> QED  BY <2>1, <2>2, <2>3, <2>4, <2>5 DEF WorkerInv
<1>10. OthersKeep(j)
  <2>1. ASSUME NEW k \in Jobs \ {j}, Sole(k)
        PROVE  TmpOf(j) \notin OwnPaths(k)
    BY <1>1, <1>2, <1>4, <2>1, ReachApart
  <2>2. HandlesApart'
    BY <1>1, <1>5, <1>6, <2>1, SoleStays
       DEF HandlesApart, OwnPaths, TmpOf, ProvisionalTmp, StorageTyped
  <2> QED  BY <1>1, <1>6, <2>1, <2>2 DEF OthersKeep, KeepsOwn, StorageTyped
<1>11. ClonesAreOwn'
  BY <1>1, <1>5, <1>6, ClonesKept
<1> QED  BY <1>2, <1>3, <1>5, <1>9, <1>10, <1>11, WorkerStepInv

\* Receiving: a worker nobody interferes with adds the next chunk of its
\* content to the chunks before it.
LEMMA ReceiveInv == ASSUME TransferInv, NEW j \in Jobs, Receive(j) PROVE TransferInv'
<1>1. /\ TypeOK /\ StorageTyped /\ RowsTyped /\ HandlesApart /\ ClonesAreOwn
      /\ PartialFileIsOwn(j) /\ BodyIsPlaced(j) /\ BodyIsCounted(j) /\ StreamsIntoOwnFile(j)
      /\ DestinationStaysFree(j)
  BY DEF TransferInv, TypeOK, WorkerInv
<1>2. /\ phase[j] = "streaming" /\ j \in Busy /\ skipped[j] + received[j] < Full
      /\ Placed(j) \/ (resume[j] = 0 /\ TmpOf(j) # ProvisionalTmp(j))
  BY <1>1 DEF Receive, Busy, Settled, BodyIsPlaced
<1>3. TypeOK'
  BY <1>1, TransferTyped
<1>4. /\ RowsStay /\ OthersStay(j) /\ fd' = fd /\ resume' = resume /\ skipped' = skipped
      /\ received'[j] = received[j] + 1 /\ phase'[j] \in {"streaming", "received"}
      /\ phase'[j] = "received" <=> skipped[j] + received[j] + 1 = Full
  <2> DEFINE next == IF skipped[j] + received[j] + 1 = Full THEN "received" ELSE "streaming"
  <2>1. Advance(j, next) /\ next \in {"streaming", "received"}
    BY DEF Receive
  <2>2. next = "received" <=> skipped[j] + received[j] + 1 = Full
    OBVIOUS
  <2> HIDE DEF next
  <2>3. RowsStay /\ phase'[j] = next /\ \A k \in Jobs \ {j} : phase'[k] = phase[k]
    BY <1>1, <1>2, <2>1, AdvanceFrame
  <2> QED  BY <1>1, <2>1, <2>2, <2>3 DEF Receive, OthersStay, RowsTyped
<1> DEFINE c == Source[j].content
           n == resume[j] + received[j]
<1>5. /\ n \in 0..Full /\ n + 1 \in 0..Full /\ n < Full
      /\ resume[j] + received'[j] = n + 1 /\ resume[j] \in Nat /\ received[j] \in Nat
      /\ skipped[j] \in Nat
  BY <1>1, <1>2, <1>4, SizeAssumption DEF RowsTyped, Placed
<1>6. OffsetIsLength(j)' /\ VerifiedFileStays(j)' /\ BodyIsPlaced(j)'
  BY <1>2, <1>4 DEF OffsetIsLength, VerifiedFileStays, BodyIsPlaced, Placed, TmpOf, ProvisionalTmp
<1>7. BodyIsCounted(j)'
  BY <1>2, <1>4, <1>5, SizeAssumption DEF BodyIsCounted
<1>8. TmpOf(j) \in OwnPaths(j) /\ TmpOf(j) # None
  BY PathsApart DEF OwnPaths
<1>9. CASE fd[j] = None
  <2>1. files' = files
    BY <1>9 DEF Receive
  <2>2. ~Alone(j)
    BY <1>1, <1>2, <1>8, <1>9 DEF StreamsIntoOwnFile
  <2>3. StreamsIntoOwnFile(j)' /\ PartialFileIsOwn(j)'
    BY <1>1, <1>4, <2>1, <2>2, SoleStays, PartialKept DEF StreamsIntoOwnFile, Alone, OthersStay
  <2>4. DestinationStaysFree(j)'
    BY <1>1, <1>2, <1>4, <2>1 DEF DestinationStaysFree, OthersStay, Exists, Provisional
  <2>5. WorkerInv(j)'
    BY <1>6, <1>7, <2>3, <2>4 DEF WorkerInv
  <2> QED  BY <1>1, <1>2, <1>3, <1>4, <2>1, <2>5, ClonesKept, StillKeeps, WorkerStepInv
<1>10. CASE fd[j] # None
  <2> DEFINE chunks == files[fd[j]]
             at == IF resume[j] > 0 THEN Len(chunks) ELSE received[j]
             next == IF at > Full THEN chunks ELSE Written(chunks, at, NextChunk(j))
  <2>1. fd[j] \in DOMAIN files
    BY <1>1, <1>10 DEF StorageTyped
  <2>2. /\ DOMAIN files' = DOMAIN files /\ files'[fd[j]] = next
        /\ \A p \in DOMAIN files \ {fd[j]} : files'[p] = files[p]
    BY <1>10, <2>1 DEF Receive, With
  <2>3. Alone(j) => fd[j] = TmpOf(j)
    BY <1>1, <1>2 DEF StreamsIntoOwnFile
  <2>4. Alone(j) /\ Placed(j) /\ (resume[j] = 0 \/ Sole(j)) => next = Part(c, n + 1)
    <3> SUFFICES ASSUME Alone(j), Placed(j), resume[j] = 0 \/ Sole(j)
                 PROVE  next = Part(c, n + 1)
      OBVIOUS
    <3>1. chunks = Part(c, n)
      BY <1>1, <1>2, <2>3 DEF StreamsIntoOwnFile
    <3>2. Len(chunks) = n
      BY <1>5, <3>1, PartProperties
    <3>3. at = n
      <4>1. CASE resume[j] > 0
        BY <3>2, <4>1
      <4>2. CASE resume[j] = 0
        BY <1>5, <4>2
      <4> QED  BY <1>5, <4>1, <4>2
    <3>4. NextChunk(j) = <<c, n + 1>>
      BY DEF NextChunk, Placed
    <3>5. next = Written(Part(c, n), n, <<c, n + 1>>)
      <4> HIDE DEF at, n
      <4>1. ~(n > Full)
        BY <1>5, SizeAssumption
      <4> QED  BY <3>1, <3>3, <3>4, <4>1
    <3> HIDE DEF next, n, c
    <3> QED  BY <1>5, <3>5, PartWritten
  <2> HIDE DEF next
  <2>5. PartialFileIsOwn(j)'
    <3> DEFINE p == ProvisionalTmp(j)
    <3> SUFFICES ASSUME Sole(j), p \in DOMAIN files'
                 PROVE  \E m \in 0..Full : files'[p] = Part(c, m)
      BY <1>4, SoleStays DEF PartialFileIsOwn, Exists, ProvisionalTmp
    <3>1. CASE p = fd[j]
      <4>1. Placed(j)
        BY <1>2, <2>3, <3>1 DEF Alone
      <4> QED  BY <1>5, <2>2, <2>4, <3>1, <4>1 DEF Alone
    <3>2. CASE p # fd[j]
      BY <1>1, <2>2, <3>2 DEF PartialFileIsOwn, Exists
    <3> QED  BY <3>1, <3>2
  <2>6. StreamsIntoOwnFile(j)'
    BY <1>4, <1>5, <2>2, <2>3, <2>4, SoleStays
       DEF StreamsIntoOwnFile, Alone, Placed, OthersStay, TmpOf
  <2>7. DestinationStaysFree(j)'
    BY <1>1, <1>2, <1>4, <2>2 DEF DestinationStaysFree, OthersStay, Exists, Provisional
  <2>8. WorkerInv(j)'
    BY <1>6, <1>7, <2>5, <2>6, <2>7 DEF WorkerInv
  <2>9. OthersKeep(j)
    <3>1. HandlesApart'
      BY <1>1, <1>4, SoleStays DEF HandlesApart, OwnPaths, TmpOf, ProvisionalTmp
    <3>2. \A k \in Jobs \ {j} : Sole(k) => fd[j] \notin OwnPaths(k)
      BY <1>1 DEF HandlesApart
    <3> QED  BY <1>4, <2>2, <3>1, <3>2 DEF OthersKeep, KeepsOwn
  <2>10. ClonesAreOwn'
    BY <1>1, <1>4, <2>2, ClonesKept
  <2> QED  BY <1>2, <1>3, <1>4, <2>8, <2>9, <2>10, WorkerStepInv
<1> QED  BY <1>9, <1>10

\* Closing the temporary file, or removing it whoever has it open.
LEMMA CloseKeeps ==
    ASSUME TypeOK, HandlesApart, RowsStay, NEW j \in Jobs, Close(j), files' = files
    PROVE  OthersKeep(j)
<1>1. /\ \A k \in Jobs \ {j} : fd'[k] = fd[k]
      /\ fd'[j] = None
  BY DEF Close, TypeOK, StorageTyped
<1>2. HandlesApart'
  BY <1>1, SoleStays, PathsApart DEF HandlesApart, OwnPaths, TmpOf, ProvisionalTmp
<1> QED  BY <1>1, <1>2 DEF OthersKeep, KeepsOwn

\* Removing the temporary file takes it from every worker that has it open,
\* none of which is a worker that shares no file.
LEMMA DropKeeps ==
    ASSUME TypeOK, HandlesApart, RowsStay, NEW j \in Jobs, phase[j] # "absent",
           files' = Without(files, TmpOf(j)),
           fd' = [k \in Jobs |-> IF k = j \/ fd[k] = TmpOf(j) THEN None ELSE fd[k]]
    PROVE  /\ OthersKeep(j)
           /\ DOMAIN files' = DOMAIN files \ {TmpOf(j)}
           /\ \A p \in DOMAIN files' : files'[p] = files[p]
<1>1. /\ DOMAIN files' = DOMAIN files \ {TmpOf(j)}
      /\ \A p \in DOMAIN files' : files'[p] = files[p]
  BY DEF Without
<1>2. HandlesApart'
  BY SoleStays, PathsApart DEF HandlesApart, OwnPaths, TmpOf, ProvisionalTmp
<1>3. ASSUME NEW k \in Jobs \ {j}, Sole(k)
      PROVE  KeepsOwn(k)
  <2>1. TmpOf(j) \notin OwnPaths(k)
    BY <1>3, ReachApart DEF Reach, OwnPaths
  <2> QED  BY <1>1, <2>1 DEF KeepsOwn, OwnPaths
<1> QED  BY <1>1, <1>2, <1>3 DEF OthersKeep

\* A worker that is done with its temporary file keeps the invariant.
LEMMA EndInv ==
    ASSUME TransferInv, NEW j \in Busy, TypeOK', RowsStay, OthersStay(j), OthersKeep(j),
           received'[j] = 0, phase'[j] \in {"failed", "cancelled", "published", "done"},
           \A p \in OwnPaths(j) \cap DOMAIN files' : p \in DOMAIN files /\ files'[p] = files[p],
           \A k \in Jobs : CloneOf(k) \in DOMAIN files => CloneOf(k) \in DOMAIN files'
    PROVE  TransferInv'
<1>1. j \in Jobs /\ PartialFileIsOwn(j) /\ ClonesAreOwn
  BY DEF Busy, TransferInv, WorkerInv
<1>2. PartialFileIsOwn(j)'
  BY <1>1, PartialKept DEF OwnPaths
<1>3. WorkerInv(j)'
  BY <1>1, <1>2, IdleWorkerInv DEF Settled
<1>4. ClonesAreOwn'
  BY <1>1, ClonesKept
<1> QED  BY <1>1, <1>3, <1>4, WorkerStepInv

\* Verifying: what passes is the whole content the source has a digest of.
LEMMA VerifyInv == ASSUME TransferInv, NEW j \in Jobs, Verify(j) PROVE TransferInv'
<1>1. /\ TypeOK /\ StorageTyped /\ RowsTyped /\ HandlesApart /\ ClonesAreOwn
      /\ PartialFileIsOwn(j) /\ BodyIsPlaced(j) /\ BodyIsCounted(j) /\ StreamsIntoOwnFile(j)
      /\ DestinationStaysFree(j)
  BY DEF TransferInv, TypeOK, WorkerInv
<1>2. phase[j] = "received" /\ j \in Busy /\ skipped[j] + received[j] = Full
  BY <1>1 DEF Verify, Busy, Settled, BodyIsCounted
<1>3. TypeOK'
  BY <1>1, TransferTyped
<1>4. \A k \in Jobs : CloneOf(k) \notin OwnPaths(j)
  BY PathsApart
<1> DEFINE ok == (resume[j] > 0 => Exists(TmpOf(j))) /\ Acceptable(j)
<1>5. CASE ok
  <2>1. /\ Advance(j, "verified") /\ digest' = [digest EXCEPT ![j] = ComputedDigest(j)]
        /\ Close(j) /\ UNCHANGED <<limit, files, dest, donor, resume, skipped, received>>
    BY <1>5 DEF Verify
  <2>2. RowsStay /\ OthersStay(j) /\ phase'[j] = "verified"
    BY <1>1, <1>2, <2>1, AdvanceFrame DEF OthersStay, RowsTyped
  <2>3. OthersKeep(j)
    BY <1>1, <2>1, <2>2, CloseKeeps
  <2>4. PartialFileIsOwn(j)'
    BY <1>1, <2>1, <2>2, PartialKept
  <2>5. VerifiedFileStays(j)'
    <3> SUFFICES ASSUME Alone(j), Source[j].hash # None
                 PROVE  /\ digest'[j] = Source[j].hash
                        /\ Exists(TmpOf(j)) => files[TmpOf(j)] = Whole(Source[j].hash)
      BY <2>1, <2>2, SoleStays DEF VerifiedFileStays, Alone, Exists, TmpOf
    <3>1. ComputedDigest(j) = Source[j].hash
      BY <1>5 DEF Acceptable
    <3>2. digest'[j] = Source[j].hash
      BY <1>1, <2>1, <3>1 DEF RowsTyped
    <3>3. CASE resume[j] = 0
      <4>1. Source[j].content = Source[j].hash /\ skipped[j] = 0
        BY <3>1, <3>3 DEF ComputedDigest
      <4>2. received[j] = Full
        BY <1>1, <1>2, <4>1, SizeAssumption DEF RowsTyped
      <4>3. files[TmpOf(j)] = Part(Source[j].content, Full)
        BY <1>1, <1>2, <3>3, <4>1, <4>2, SizeAssumption DEF StreamsIntoOwnFile, Placed
      <4> QED  BY <3>2, <4>1, <4>3, PartProperties, SizeAssumption
    <3>4. CASE resume[j] # 0
      BY <1>1, <3>1, <3>2, <3>4, DigestIsContent DEF ComputedDigest, RowsTyped
    <3> QED  BY <3>3, <3>4
  <2>6. OffsetIsLength(j)' /\ BodyIsPlaced(j)' /\ BodyIsCounted(j)' /\ StreamsIntoOwnFile(j)'
    BY <2>2 DEF OffsetIsLength, BodyIsPlaced, BodyIsCounted, StreamsIntoOwnFile
  <2>7. DestinationStaysFree(j)'
    BY <1>1, <1>2, <2>1 DEF DestinationStaysFree, Exists, Provisional
  <2>8. WorkerInv(j)'
    BY <2>4, <2>5, <2>6, <2>7 DEF WorkerInv
  <2>9. ClonesAreOwn'
    BY <1>1, <2>1, <2>2, ClonesKept
  <2> QED  BY <1>2, <1>3, <2>2, <2>3, <2>8, <2>9, WorkerStepInv
<1>6. CASE ~ok
  <2>1. /\ Fail(j) /\ files' = Without(files, TmpOf(j))
        /\ fd' = [k \in Jobs |-> IF k = j \/ fd[k] = TmpOf(j) THEN None ELSE fd[k]]
    BY <1>6 DEF Verify
  <2>2. RowsStay /\ OthersStay(j) /\ phase'[j] = "failed" /\ received'[j] = 0
    BY <1>1, <1>2, <2>1, FailFrame
  <2>3. /\ OthersKeep(j) /\ DOMAIN files' = DOMAIN files \ {TmpOf(j)}
        /\ \A p \in DOMAIN files' : files'[p] = files[p]
    BY <1>1, <1>2, <2>1, <2>2, DropKeeps
  <2> QED  BY <1>2, <1>3, <1>4, <2>2, <2>3, EndInv DEF OwnPaths
<1> QED  BY <1>5, <1>6

\* The rename, and what follows it.
LEMMA PublishInv ==
    ASSUME TransferInv, NEW j \in Jobs, Publish(j) \/ PublishFails(j) \/ Commit(j)
    PROVE  TransferInv'
<1>1. TypeOK /\ RowsTyped /\ HandlesApart /\ ClonesAreOwn /\ BodyIsCounted(j)
  BY DEF TransferInv, TypeOK, WorkerInv
<1>2. phase[j] \in {"verified", "published"} /\ phase[j] # "absent" /\ j \in Busy
  BY DEF Publish, PublishFails, Commit, Busy, Settled
<1>3. TypeOK'
  BY <1>1, StepTyped DEF Next, Undisturbed, WorkerStep
<1>4. /\ OwnPaths(j) \cap ModelPaths = {} /\ Final(j) \in ModelPaths
      /\ TmpOf(j) \in OwnPaths(j)
      /\ \A k \in Jobs : CloneOf(k) \notin OwnPaths(j)
  BY PathsApart, PlacesAreModelPaths DEF OwnPaths
<1>5. CASE Publish(j)
  <2>1. TmpOf(j) \in DOMAIN files /\ TmpOf(j) # Final(j) /\ Move(TmpOf(j), Final(j))
    BY <1>4, <1>5 DEF Publish, Exists
  <2>2. RowsStay /\ OthersStay(j) /\ phase'[j] = "published" /\ received'[j] = 0
    BY <1>1, <1>2, <1>5, SucceedFrame DEF Publish
  <2>3. /\ DOMAIN files' = (DOMAIN files \ {TmpOf(j)}) \cup {Final(j)}
        /\ \A p \in DOMAIN files \ {TmpOf(j), Final(j)} : files'[p] = files[p]
    BY <1>1, <2>1, MoveEffect
  <2>4. OthersKeep(j)
    BY <1>1, <1>2, <1>4, <2>1, <2>2, MoveKeeps
  <2> QED  BY <1>2, <1>3, <1>4, <2>2, <2>3, <2>4, EndInv
<1>6. CASE PublishFails(j)
  <2>1. RowsStay /\ OthersStay(j) /\ phase'[j] = "failed" /\ received'[j] = 0
    BY <1>1, <1>2, <1>6, FailFrame DEF PublishFails
  <2>2. UNCHANGED <<files, fd>>
    BY <1>6 DEF PublishFails
  <2> QED  BY <1>1, <1>2, <1>3, <2>1, <2>2, StillKeeps, EndInv
<1>7. CASE Commit(j)
  <2>1. RowsStay /\ OthersStay(j) /\ phase'[j] = "done" /\ received'[j] = 0
    BY <1>1, <1>2, <1>7, AdvanceFrame DEF Commit, local, OthersStay, BodyIsCounted
  <2>2. UNCHANGED <<files, fd>>
    BY <1>7 DEF Commit, local
  <2> QED  BY <1>1, <1>2, <1>3, <2>1, <2>2, StillKeeps, EndInv
<1> QED  BY <1>5, <1>6, <1>7

\* A broken connection, a second request that fails, a cancellation.
LEMMA BreakInv ==
    ASSUME TransferInv, NEW j \in Jobs,
           BreakOff(j) \/ RestartFails(j) \/ CancelTransfer(j)
    PROVE  TransferInv'
<1>1. TypeOK /\ RowsTyped /\ HandlesApart /\ ClonesAreOwn
  BY DEF TransferInv, TypeOK
<1>2. phase[j] # "absent" /\ j \in Busy
  BY DEF BreakOff, RestartFails, CancelTransfer, Busy, Settled
<1>3. TypeOK'
  BY <1>1, StepTyped DEF Next, Undisturbed, Disturbance
<1>4. /\ TmpOf(j) \in OwnPaths(j) /\ ProvisionalTmp(j) \in OwnPaths(j) /\ OwnPaths(j) \subseteq Reach(j)
      /\ \A k \in Jobs : CloneOf(k) \notin OwnPaths(j)
  BY PathsApart DEF OwnPaths, Reach
<1>5. CASE BreakOff(j)
  <2>1. RowsStay /\ OthersStay(j) /\ phase'[j] = "failed" /\ received'[j] = 0
    BY <1>1, <1>2, <1>5, FailFrame DEF BreakOff
  <2>2. files' = files /\ Close(j)
    BY <1>5 DEF BreakOff
  <2> QED  BY <1>1, <1>2, <1>3, <2>1, <2>2, CloseKeeps, EndInv
<1>6. CASE RestartFails(j)
  <2>1. RowsStay /\ OthersStay(j) /\ phase'[j] = "failed" /\ received'[j] = 0
    BY <1>1, <1>2, <1>6, FailFrame DEF RestartFails
  <2>2. Unlink(ProvisionalTmp(j))
    BY <1>6 DEF RestartFails
  <2>3. /\ DOMAIN files' = DOMAIN files \ {ProvisionalTmp(j)}
        /\ \A p \in DOMAIN files' : files'[p] = files[p]
    BY <1>1, <2>2, UnlinkEffect
  <2>4. OthersKeep(j)
    BY <1>1, <1>2, <1>4, <2>1, <2>2, UnlinkKeeps
  <2> QED  BY <1>2, <1>3, <1>4, <2>1, <2>3, <2>4, EndInv
<1>7. CASE CancelTransfer(j)
  <2>1. /\ RowsStay /\ phase'[j] = "cancelled"
        /\ \A k \in Jobs \ {j} : phase'[k] = phase[k]
    BY <1>1, <1>2, <1>7, AdvanceFrame DEF CancelTransfer
  <2>2. OthersStay(j) /\ received'[j] = 0
    BY <1>1, <1>7, <2>1, ForgetFrame DEF CancelTransfer, OthersStay
  <2>3. /\ OthersKeep(j) /\ DOMAIN files' = DOMAIN files \ {TmpOf(j)}
        /\ \A p \in DOMAIN files' : files'[p] = files[p]
    BY <1>1, <1>2, <1>7, <2>1, DropKeeps DEF CancelTransfer
  <2> QED  BY <1>2, <1>3, <1>4, <2>1, <2>2, <2>3, EndInv
<1> QED  BY <1>5, <1>6, <1>7

----------------------------------------------------------------------------
(* The queue, the user and crashes.                                        *)

\* With one permit, a worker starts only when no other one is there.
LEMMA StartsAlone ==
    ASSUME TypeOK, Cardinality(Busy) < limit, limit = 1
    PROVE  Busy = {}
<1>1. IsFiniteSet(Busy)
  BY SizeAssumption, FS_Subset DEF Busy
<1>2. Cardinality(Busy) \in Nat
  BY <1>1, FS_CardinalityType
<1>3. Cardinality(Busy) = 0
  BY <1>2
<1> QED  BY <1>1, <1>3, FS_EmptySet

\* Starting a worker, and queueing a row again.
LEMMA RowInv ==
    ASSUME TransferInv, NEW j \in Jobs, Start(j) \/ Retry(j) \/ Redownload(j)
    PROVE  TransferInv'
<1>1. TypeOK /\ RowsTyped /\ ClonesAreOwn /\ BodyIsCounted(j) /\ PartialFileIsOwn(j)
  BY DEF TransferInv, TypeOK, WorkerInv
<1>2. phase[j] \in {"queued", "failed", "cancelled", "done"} /\ phase[j] # "absent"
  BY DEF Start, Retry, Redownload
<1>3. TypeOK'
  BY <1>1, StepTyped DEF Next, Undisturbed, Disturbance
<1>4. UNCHANGED <<limit, files, fd, resume, skipped, received>>
  BY DEF Start, Retry, Redownload, local
<1>5. /\ RowsStay /\ phase'[j] \in {"queued", "resolving"}
      /\ \A k \in Jobs \ {j} : phase'[k] = phase[k]
  BY <1>1, <1>2, AdvanceFrame DEF Start, Retry, Redownload
<1>6. OthersStay(j)
  BY <1>1, <1>4, <1>5 DEF OthersStay, Start, Retry, Redownload, local, RowsTyped
<1>7. WorkerInv(j)'
  <2>1. received'[j] = 0
    BY <1>1, <1>2, <1>4 DEF BodyIsCounted
  <2>2. PartialFileIsOwn(j)'
    BY <1>1, <1>4, <1>5, PartialKept
  <2> QED  BY <1>5, <2>1, <2>2, IdleWorkerInv DEF Settled
<1>8. limit = 1 /\ j \in Busy' => Busy \subseteq {j}
  <2>1. CASE Start(j)
    BY <1>1, <2>1, StartsAlone DEF Start
  <2>2. CASE Retry(j) \/ Redownload(j)
    <3>1. phase'[j] = "queued"
      BY <1>1, <2>2 DEF Retry, Redownload, Advance, RowsTyped
    <3> QED  BY <3>1 DEF Busy, Settled
  <2> QED  BY <2>1, <2>2
<1> QED  BY <1>3, <1>4, <1>5, <1>6, <1>7, <1>8, RowStepInv

\* The user removes a model: no worker has a temporary file there.
LEMMA RemoveInv == ASSUME TransferInv, NEW path, UserRemoves(path) PROVE TransferInv'
<1>1. TypeOK /\ HandlesApart /\ ClonesAreOwn /\ OneWorkerAtLimitOne
  BY DEF TransferInv
<1>2. /\ path \in ModelPaths /\ Unlink(path)
      /\ UNCHANGED <<limit, phase, dest, digest, donor, resume, skipped, received>>
  BY DEF UserRemoves
<1>3. TypeOK'
  BY <1>1, <1>2, StepTyped, UnlinkTyped DEF TypeOK, RowsTyped
<1>4. /\ DOMAIN files' = DOMAIN files \ {path}
      /\ \A p \in DOMAIN files' : files'[p] = files[p]
      /\ \A k \in Jobs : fd[k] # path => fd'[k] = fd[k]
      /\ \A k \in Jobs : fd'[k] \in {fd[k], None}
  BY <1>1, <1>2, UnlinkEffect
<1>5. RowsStay
  BY <1>2 DEF RowsStay
<1>6. ASSUME NEW k \in Jobs
      PROVE  WorkerInv(k)'
  <2>1. path \notin OwnPaths(k)
    BY <1>2, PathsApart
  <2>2. KeepsOwn(k)
    BY <1>4, <2>1 DEF KeepsOwn, OwnPaths
  <2>3. Exists(Provisional(k))' => Exists(Provisional(k))
    BY <1>4 DEF Exists, Provisional
  <2> QED  BY <1>1, <1>2, <1>5, <2>2, <2>3, KeptWorkerInv DEF TransferInv
<1>7. HandlesApart'
  BY <1>1, <1>4, <1>5, SoleStays, PathsApart DEF HandlesApart, OwnPaths, TmpOf, ProvisionalTmp
<1>8. ClonesAreOwn'
  <2>1. \A k \in Jobs : CloneOf(k) # path
    BY <1>2, PathsApart
  <2> QED  BY <1>1, <1>2, <1>4, <2>1
           DEF ClonesAreOwn, Exists, CloneOf, CloneTmp, Provisional
<1>9. OneWorkerAtLimitOne'
  BY <1>1, <1>2 DEF OneWorkerAtLimitOne, Busy
<1> QED  BY <1>3, <1>6, <1>7, <1>8, <1>9 DEF TransferInv

\* A crash leaves the files, a beginning of its content to every job that
\* shares none, and no worker.
LEMMA CrashInv == ASSUME TransferInv, Crash PROVE TransferInv'
<1>1. TypeOK /\ RowsTyped
  BY DEF TransferInv, TypeOK
<1>2. TypeOK'
  BY <1>1, StepTyped DEF TransferInv, Next, Disturbance
<1>3. /\ UNCHANGED <<limit, files>>
      /\ \A k \in Jobs : /\ phase'[k] \in Settled /\ received'[k] = 0 /\ fd'[k] = None
                         /\ phase'[k] = "absent" <=> phase[k] = "absent"
  BY <1>1 DEF Crash, Busy, Settled, RowsTyped
<1>4. RowsStay
  BY <1>3 DEF RowsStay
<1>5. ASSUME NEW k \in Jobs
      PROVE  WorkerInv(k)'
  <2>1. PartialFileIsOwn(k)'
    BY <1>3, <1>4, PartialKept DEF TransferInv, WorkerInv
  <2> QED  BY <1>3, <2>1, IdleWorkerInv
<1>6. OneWorkerAtLimitOne' /\ ClonesAreOwn'
  BY <1>3 DEF OneWorkerAtLimitOne, ClonesAreOwn, Busy, Settled
<1>7. HandlesApart'
  BY <1>3, PathsApart DEF HandlesApart, OwnPaths, TmpOf, ProvisionalTmp
<1> QED  BY <1>2, <1>5, <1>6, <1>7 DEF TransferInv

----------------------------------------------------------------------------
(* The theorems.                                                           *)

\* No worker runs and no temporary file exists initially.
LEMMA InitInv == ASSUME Init PROVE TransferInv
<1>1. TypeOK
  BY InitTyped
<1>2. PICK w \in Workloads :
        /\ phase = [j \in Jobs |-> IF j \in w.queued THEN "queued"
                                  ELSE IF j \in w.done THEN "done" ELSE "absent"]
        /\ files = [p \in {Final(j) : j \in w.done} |->
                      Whole(Source[CHOOSE j \in w.done : Final(j) = p].content)]
        /\ w.done \subseteq Jobs
  BY SizeAssumption DEF Init
<1>3. DOMAIN files \subseteq ModelPaths
  BY <1>2, PlacesAreModelPaths
<1>4. \A j \in Jobs : phase[j] \in {"queued", "done", "absent"} /\ fd[j] = None /\ received[j] = 0
  BY <1>2 DEF Init
<1>5. ASSUME NEW j \in Jobs
      PROVE  WorkerInv(j)
  <2>1. PartialFileIsOwn(j)
    BY <1>3, PathsApart DEF PartialFileIsOwn, Exists, OwnPaths
  <2> QED  BY <1>4, <2>1
           DEF WorkerInv, OffsetIsLength, BodyIsPlaced, BodyIsCounted, StreamsIntoOwnFile,
               VerifiedFileStays, DestinationStaysFree
<1>6. OneWorkerAtLimitOne /\ ClonesAreOwn
  BY <1>4 DEF OneWorkerAtLimitOne, ClonesAreOwn, Busy, Settled
<1>7. HandlesApart
  BY <1>4, PathsApart DEF HandlesApart
<1> QED  BY <1>1, <1>5, <1>6, <1>7 DEF TransferInv

\* Every step preserves the invariant.
LEMMA NextInv == ASSUME TransferInv, [Next]_vars PROVE TransferInv'
<1>1. CASE UNCHANGED vars
  <2>1. TypeOK'
    BY <1>1, StepTyped DEF TransferInv
  <2>2. RowsStay
    BY <1>1 DEF vars, RowsStay
  <2>3. OneWorkerAtLimitOne' /\ ClonesAreOwn' /\ HandlesApart'
    BY <1>1, <2>2, SoleStays
       DEF TransferInv, vars, OneWorkerAtLimitOne, ClonesAreOwn, HandlesApart, Busy, Exists,
           CloneOf, CloneTmp, Provisional, OwnPaths, TmpOf, ProvisionalTmp
  <2>4. ASSUME NEW k \in Jobs PROVE WorkerInv(k)'
    BY <1>1, <2>2, KeptWorkerInv DEF TransferInv, vars, KeepsOwn, Exists, Provisional
  <2> QED  BY <2>1, <2>3, <2>4 DEF TransferInv
<1> QED
  BY <1>1, PrepareInv, CloneInv, AnswerInv, OpenInv, ReceiveInv, VerifyInv, PublishInv,
     BreakInv, RowInv, RemoveInv, CrashInv
     DEF Next, Undisturbed, WorkerStep, Disturbance

\* The inductive invariant holds of every reachable state.
THEOREM TransferInvariant == Spec => []TransferInv
<1>1. Init => TransferInv
  BY InitInv
<1>2. TransferInv /\ [Next]_vars => TransferInv'
  BY NextInv
<1> QED  BY <1>1, <1>2, PTL DEF Spec

\* Every variable of a transfer keeps its type: in particular a handle is
\* either closed, orphaned or on a file that exists.
THEOREM TransferTypeCorrect == Spec => []TypeOK
<1>1. TransferInv => TypeOK
  BY DEF TransferInv
<1> QED  BY <1>1, TransferInvariant, PTL

\* What a resumed transfer has written, however many failures, cancellations
\* and crashes came before, is a part of its own content.
THEOREM ResumedFilesAreOwn == Spec => []ResumesOwnPrefix
<1>1. ASSUME TransferInv PROVE ResumesOwnPrefix
  <2> SUFFICES ASSUME NEW j \in Jobs, Sole(j), phase[j] = "streaming", resume[j] > 0
               PROVE  files[fd[j]] = SubSeq(Whole(Source[j].content), 1, resume[j] + received[j])
    BY DEF ResumesOwnPrefix
  <2>3. Placed(j)
    BY <1>1 DEF TransferInv, WorkerInv, BodyIsPlaced
  <2>1. /\ fd[j] = TmpOf(j)
        /\ files[TmpOf(j)] = Part(Source[j].content, resume[j] + received[j])
    BY <1>1, <2>3 DEF TransferInv, WorkerInv, StreamsIntoOwnFile, Alone
  <2>2. resume[j] + received[j] \in 0..Full
    BY <1>1, <2>3, SizeAssumption
       DEF TransferInv, WorkerInv, BodyIsCounted, Placed, TypeOK, RowsTyped
  <2> QED  BY <2>1, <2>2, PartIsSubSeq
<1> QED  BY <1>1, TransferInvariant, PTL

\* The steps that report a placement.
LEMMA PublishingSteps ==
    ASSUME TypeOK, Next, NEW j \in Jobs, Publishes(j)
    PROVE  \/ ReuseExisting(j) \/ Publish(j)
           \/ CloneFindsFile(j) /\ Matches(j, Provisional(j))
           \/ PublishClone(j)
<1> USE DEF Publishes
<1>1. phase \in [Jobs -> Phases]
  BY DEF TypeOK, RowsTyped
<1>2. ASSUME NEW k \in Jobs, Prepare(k)
      PROVE  k = j /\ ReuseExisting(j)
  BY <1>1, <1>2 DEF Prepare, ReuseExisting, RefuseExisting, ChooseDonor, BeginTransfer,
                    Succeed, Fail, Advance
<1>3. ASSUME NEW k \in Jobs, Clone(k)
      PROVE  k = j /\ ((CloneFindsFile(j) /\ Matches(j, Provisional(j))) \/ PublishClone(j))
  <2>1. ~CloneDonor(k) /\ ~CloneFails(k) /\ ~RejectClone(k)
    BY <1>1 DEF CloneDonor, CloneFails, RejectClone, DiscardClone, Fail, Advance
  <2>2. CASE CloneFindsFile(k)
    BY <1>1, <2>2 DEF CloneFindsFile, Succeed, Fail, Advance
  <2>3. CASE PublishClone(k)
    BY <1>1, <2>3 DEF PublishClone, Succeed, Fail, Advance
  <2> QED  BY <1>3, <2>1, <2>2, <2>3 DEF Clone
<1>4. ASSUME NEW k \in Jobs, Answer(k) \/ OpenTmp(k) \/ PublishFails(k) \/ Commit(k)
      PROVE  FALSE
  BY <1>1, <1>4 DEF Answer, AnswerPartial, AnswerUnsatisfiable, AnswerWhole, OpenTmp,
                    PublishFails, Commit, Fail, Advance
<1>5. ASSUME NEW k \in Jobs, Receive(k) \/ Verify(k)
      PROVE  FALSE
  BY <1>1, <1>5 DEF Receive, Verify, Fail, Advance
<1>6. ASSUME NEW k \in Jobs, Publish(k)
      PROVE  k = j
  BY <1>1, <1>6 DEF Publish, Succeed, Advance
<1>7. ASSUME NEW k \in Jobs,
             \/ Start(k) \/ Retry(k) \/ BreakOff(k) \/ RestartFails(k)
             \/ CancelTransfer(k) \/ Redownload(k) \/ DiscardClone(k)
             \/ AnswerPartialUnrenamed(k)
      PROVE  FALSE
  BY <1>1, <1>7 DEF Start, Retry, BreakOff, RestartFails, CancelTransfer, Redownload,
                    DiscardClone, AnswerPartialUnrenamed, Fail, Advance
<1>8. ASSUME NEW path, UserRemoves(path)
      PROVE  FALSE
  BY <1>8 DEF UserRemoves
<1>9. CASE Crash
  BY <1>9 DEF Crash
<1> QED
  BY <1>2, <1>3, <1>4, <1>5, <1>6, <1>7, <1>8, <1>9 DEF Next, Undisturbed, WorkerStep, Disturbance

\* A placement that is reported verified, by a row that publishes a digest, is
\* a file with exactly the content of that digest (`download`, all four ways to
\* complete).
THEOREM VerifiedPlacements == Spec => VerifiedIsWhole
<1>1. ASSUME TransferInv, Next, NEW j \in Jobs,
             Publishes(j), Source[j].hash # None, Alone(j)
      PROVE  dest'[j] \in DOMAIN files' /\ files'[dest'[j]] = Whole(Source[j].hash)
  <2>1. TypeOK /\ RowsTyped /\ ClonesAreOwn /\ VerifiedFileStays(j)
    BY <1>1 DEF TransferInv, TypeOK, WorkerInv
  <2>2. \A path, d : Succeed(j, path, d) => dest'[j] = path
    BY <2>1 DEF Succeed, RowsTyped
  <2>3. CASE ReuseExisting(j) \/ (CloneFindsFile(j) /\ Matches(j, Provisional(j)))
    <3>1. /\ Exists(Provisional(j)) /\ Matches(j, Provisional(j)) /\ files' = files
          /\ dest'[j] = Provisional(j)
      BY <2>2, <2>3 DEF ReuseExisting, Occupied, CloneFindsFile
    <3> QED  BY <3>1, MatchIsWhole DEF Exists
  <2>4. CASE PublishClone(j)
    <3> DEFINE to == Provisional(j)
               from == CloneOf(j)
    <3>1. from \in DOMAIN files /\ from # to
      BY <2>1, <2>4, PathsApart, PlacesAreModelPaths DEF PublishClone, ClonesAreOwn, Exists
    <3>2. CASE ~Exists(to)
      <4>1. Matches(j, from) /\ Move(from, to) /\ dest'[j] = to
        BY <2>2, <2>4, <3>2 DEF PublishClone
      <4>2. to \in DOMAIN files' /\ files'[to] = files[from]
        <5> HIDE DEF to, from
        <5>1. /\ DOMAIN files' = (DOMAIN files \ {from}) \cup {to}
              /\ files'[to] = files[from]
          BY <2>1, <3>1, <4>1, MoveEffect
        <5> QED  BY <5>1
      <4> QED  BY <4>1, <4>2, MatchIsWhole
    <3>3. CASE Exists(to)
      <4>1. ~Fail(j)
        BY <1>1, <2>1 DEF Fail, Advance, Publishes, RowsTyped
      <4>2. Matches(j, to) /\ Unlink(from) /\ dest'[j] = to
        BY <2>2, <2>4, <3>3, <4>1 DEF PublishClone
      <4>3. to \in DOMAIN files' /\ files'[to] = files[to]
        BY <2>1, <3>1, <3>3, <4>2, UnlinkEffect DEF Exists
      <4> QED  BY <4>2, <4>3, MatchIsWhole
    <3> QED  BY <3>2, <3>3
  <2>5. CASE Publish(j)
    <3>1. /\ TmpOf(j) \in DOMAIN files /\ Move(TmpOf(j), Final(j)) /\ dest'[j] = Final(j)
          /\ phase[j] = "verified"
      BY <2>2, <2>5 DEF Publish, Exists
    <3>2. TmpOf(j) # Final(j)
      BY PathsApart, PlacesAreModelPaths DEF OwnPaths
    <3>3. /\ DOMAIN files' = (DOMAIN files \ {TmpOf(j)}) \cup {Final(j)}
          /\ files'[Final(j)] = files[TmpOf(j)]
      BY <2>1, <3>1, <3>2, MoveEffect
    <3> QED  BY <1>1, <2>1, <3>1, <3>3 DEF VerifiedFileStays, Exists
  <2> QED  BY <1>1, <2>1, <2>3, <2>4, <2>5, PublishingSteps
<1>2. TransferInv /\ [Next]_vars =>
        [\A j \in Jobs :
            Publishes(j) /\ Source[j].hash # None /\ Alone(j) =>
                /\ dest'[j] \in DOMAIN files'
                /\ files'[dest'[j]] = Whole(Source[j].hash)]_vars
  BY <1>1
<1> QED  BY <1>2, TransferInvariant, PTL DEF Spec, VerifiedIsWhole

\* The steps that change a file at a destination while it stays there.
LEMMA ReplacingSteps ==
    ASSUME TransferInv, Next, NEW p \in ModelPaths, p \in DOMAIN files, p \in DOMAIN files',
           files'[p] # files[p]
    PROVE  \E j \in Jobs : \/ Receive(j) /\ fd[j] = p
                           \/ Publish(j) /\ p = Final(j)
<1>1. TypeOK /\ ClonesAreOwn
  BY DEF TransferInv
<1>2. \A path : ~Unlink(path)
  BY <1>1, UnlinkEffect
<1>3. files' # files
  OBVIOUS
<1>4. \A k \in Jobs : /\ p \notin OwnPaths(k) /\ p # CloneOf(k)
                      /\ TmpOf(k) \in OwnPaths(k) /\ ProvisionalTmp(k) \in OwnPaths(k)
  BY PathsApart DEF OwnPaths
<1>5. \A k \in Jobs : files' # Without(files, TmpOf(k))
  BY DEF Without
<1>6. ASSUME NEW k \in Jobs, Prepare(k)
      PROVE  FALSE
  BY <1>3, <1>6 DEF Prepare, ReuseExisting, RefuseExisting, ChooseDonor, BeginTransfer
<1>7. ASSUME NEW k \in Jobs, Clone(k)
      PROVE  FALSE
  <2>1. CASE CloneDonor(k)
    BY <1>4, <2>1 DEF CloneDonor, With
  <2>2. CASE PublishClone(k)
    <3>1. /\ Move(CloneOf(k), Provisional(k)) /\ Provisional(k) \notin DOMAIN files
          /\ CloneOf(k) \in DOMAIN files
      BY <1>1, <1>2, <2>2 DEF PublishClone, Exists, ClonesAreOwn
    <3>2. \A q \in DOMAIN files \ {CloneOf(k), Provisional(k)} : files'[q] = files[q]
      BY <1>1, <3>1, MoveEffect
    <3> QED  BY <1>4, <3>1, <3>2
  <2> QED  BY <1>2, <1>3, <1>7, <2>1, <2>2 
           DEF Clone, CloneFindsFile, CloneFails, RejectClone, DiscardClone
<1>8. ASSUME NEW k \in Jobs, Answer(k)
      PROVE  FALSE
  <2>1. /\ AnswerPartial(k) /\ Renamed(k)
        /\ Move(ProvisionalTmp(k), TmpOf(k))
    BY <1>2, <1>3, <1>8 DEF Answer, AnswerPartial, AnswerUnsatisfiable, AnswerWhole
  <2>2. \A q \in DOMAIN files \ {ProvisionalTmp(k), TmpOf(k)} : files'[q] = files[q]
    BY <1>1, <2>1, MoveEffect DEF Renamed, Exists
  <2> QED  BY <1>4, <2>2
<1>9. ASSUME NEW k \in Jobs, OpenTmp(k)
      PROVE  FALSE
  BY <1>4, <1>9 DEF OpenTmp, With
<1>10. ASSUME NEW k \in Jobs, Receive(k)
       PROVE  fd[k] = p
  BY <1>3, <1>10 DEF Receive, With
<1>11. ASSUME NEW k \in Jobs, Publish(k)
       PROVE  p = Final(k)
  <2>1. TmpOf(k) \in DOMAIN files /\ TmpOf(k) # Final(k) /\ Move(TmpOf(k), Final(k))
    BY <1>4, <1>11, PathsApart, PlacesAreModelPaths DEF Publish, Exists
  <2>2. \A q \in DOMAIN files \ {TmpOf(k), Final(k)} : files'[q] = files[q]
    BY <1>1, <2>1, MoveEffect
  <2> QED  BY <1>4, <2>2
<1>12. ASSUME NEW k \in Jobs, Verify(k) \/ CancelTransfer(k) \/ BreakOff(k) \/ RestartFails(k)
                              \/ DiscardClone(k)
       PROVE  FALSE
  BY <1>2, <1>3, <1>5, <1>12 DEF Verify, CancelTransfer, BreakOff, RestartFails, DiscardClone
<1>13. ASSUME NEW k \in Jobs,
              \/ Start(k) \/ PublishFails(k) \/ Commit(k) \/ Retry(k) \/ Redownload(k)
              \/ AnswerPartialUnrenamed(k)
       PROVE  FALSE
  BY <1>3, <1>13 DEF Start, PublishFails, Commit, Retry, Redownload, AnswerPartialUnrenamed
<1>14. ~Crash /\ \A path : ~UserRemoves(path)
  BY <1>2, <1>3 DEF Crash, UserRemoves
<1> QED
  BY <1>6, <1>7, <1>8, <1>9, <1>10, <1>11, <1>12, <1>13, <1>14
     DEF Next, Undisturbed, WorkerStep, Disturbance

\* A file at a destination is changed only by a second worker or by a rename to
\* a destination that was not checked beforehand; a clone publication, and one
\* worker whose source names its file, never replace anything.
THEOREM Replacements == Spec => ReplacementsAreKnown
<1>1. ASSUME TransferInv, Next, NEW p \in ModelPaths,
             p \in DOMAIN files, p \in DOMAIN files', files'[p] # files[p]
      PROVE  \E j \in Jobs :
                /\ phase[j] \in {"streaming", "verified"}
                /\ limit > 1 \/ ~Source[j].named \/ Final(j) # Provisional(j)
  <2>1. limit \in Nat \ {0}
    BY <1>1, SizeAssumption DEF TransferInv, TypeOK, RowsTyped
  <2>2. PICK j \in Jobs : (Receive(j) /\ fd[j] = p) \/ (Publish(j) /\ p = Final(j))
    BY <1>1, ReplacingSteps
  <2>3. CASE Receive(j) /\ fd[j] = p
    <3>1. phase[j] = "streaming"
      BY <2>3 DEF Receive
    <3>2. ~Alone(j)
      BY <1>1, <2>3, <3>1, PathsApart DEF TransferInv, WorkerInv, StreamsIntoOwnFile, OwnPaths
    <3> QED  BY <2>1, <3>1, <3>2 DEF Alone
  <2>4. CASE Publish(j) /\ p = Final(j)
    <3>1. phase[j] = "verified"
      BY <2>4 DEF Publish
    <3>2. limit = 1 /\ Source[j].named => p # Provisional(j)
      BY <1>1, <3>1 DEF TransferInv, WorkerInv, DestinationStaysFree, Exists
    <3> QED  BY <2>1, <2>4, <3>1, <3>2
  <2> QED  BY <2>2, <2>3, <2>4
<1>2. TransferInv /\ [Next]_vars =>
        [\A p \in ModelPaths :
            p \in DOMAIN files /\ p \in DOMAIN files' /\ files'[p] # files[p] =>
                \E j \in Jobs :
                    /\ phase[j] \in {"streaming", "verified"}
                    /\ limit > 1 \/ ~Source[j].named \/ Final(j) # Provisional(j)]_vars
  BY <1>1
<1> QED  BY <1>2, TransferInvariant, PTL DEF Spec, ReplacementsAreKnown
=============================================================================
