------------------------------ MODULE Transfer ------------------------------
(***************************************************************************)
(* One transfer seen from the file system: `download` of                   *)
(* src/daemon/downloader.rs and the clone publication of                   *)
(* src/daemon/store.rs, for several jobs that may share temporary names    *)
(* and destinations, with failures, cancellations, crashes and retries.    *)
(*                                                                         *)
(* A file is the sequence of its chunks.  Chunk i of content c is <<c, i>>,*)
(* so a file that mixes contents, or holds them at the wrong place, is     *)
(* told apart from a whole one, which is what a SHA-256 does.  An open     *)
(* file is followed through renames: `fd` is the path its inode has now,   *)
(* or None once it has none, and what is written to it then is lost.       *)
(*                                                                         *)
(* Source[j].reflinks are the directories whose files can be cloned into   *)
(* the directory of j: those of a filesystem that shares extents.          *)
(***************************************************************************)
EXTENDS Naturals, Sequences, FiniteSets

CONSTANTS
    Jobs,      \* rows of the catalog, one worker each at most
    Source,    \* what the resolution of a job yields, see SourceAssumption
    Contents,  \* distinct contents, each named by its digest
    Full,      \* chunks of a whole file
    Repeated,  \* rows that may be downloaded again once done, a bound
    Workloads, \* installations to start from: max_concurrent_downloads, the rows
               \* that are queued and the rows that are done
    None

Names == {Source[j].name : j \in Jobs}
Dirs  == {Source[j].dir : j \in Jobs} \cup {Source[j].final : j \in Jobs}

\* A destination, the temporary file of a transfer, the one of a clone.
Model(dir, name) == <<"model", dir, name>>
Tmp(dir, stem)   == <<"tmp", dir, stem>>
CloneTmp(path)   == <<"clone", path[2], path[3]>>

ModelPaths == {Model(d, n) : d \in Dirs, n \in Names}

ASSUME SourceAssumption ==
    \A j \in Jobs :
        /\ Source[j].content \in Contents        \* what the server sends
        /\ Source[j].hash \in Contents \cup {None}   \* the digest it publishes
        /\ Source[j].named \in BOOLEAN           \* is the name known beforehand
        /\ Source[j].ranges \in BOOLEAN          \* does it answer Range requests
        /\ Source[j].safetensors \in BOOLEAN     \* the extension of its name
        /\ Source[j].noreplace \in BOOLEAN       \* is RENAME_NOREPLACE known there

ASSUME SizeAssumption ==
    /\ Full \in Nat \ {0} /\ Repeated \subseteq Jobs /\ IsFiniteSet(Jobs)
    /\ \A w \in Workloads :
          /\ w.queued \subseteq Jobs /\ w.done \subseteq Jobs \ w.queued
          /\ w.limit \in Nat \ {0}
    /\ None \notin Contents \cup Jobs

Whole(c) == [i \in 1..Full |-> <<c, i>>]

\* The placement resolved before the transfer, and the one after inspection.
Provisional(j) == Model(Source[j].dir, Source[j].name)
Final(j)       == Model(Source[j].final, Source[j].name)

\* with_extension("tmp") of the last URL segment, and of the file's name.
ProvisionalTmp(j) == Tmp(Source[j].dir, Source[j].segment)
TmpOf(j)          == Tmp(Source[j].dir, Source[j].stem)

ASSUME PathAssumption ==
    \A j \in Jobs : None \notin {TmpOf(j), ProvisionalTmp(j)}

VARIABLES
    limit,     \* max_concurrent_downloads of this installation
    files,     \* path -> chunks of the file there
    phase,     \* per job: status of its row, or where its worker is
    dest,      \* per job: dest_path, or the path its worker is about to fill
    digest,    \* per job: the digest recorded for it
    donor,     \* per job: the file its worker clones from
    resume,    \* per job: resume_from
    skipped,   \* per job: chunks of the content before the body it asked for
    fd,        \* per job: path of the temporary file its worker has open
    received   \* per job: chunks of the body received so far

vars == <<limit, files, phase, dest, digest, donor, resume, skipped, fd, received>>

Settled == {"absent", "queued", "done", "failed", "cancelled"}
Phases  == Settled \cup {"resolving", "cloning", "cloned", "requesting", "opening",
                         "streaming", "received", "verified", "published"}

Busy == {j \in Jobs : phase[j] \notin Settled}

Exists(path) == path \in DOMAIN files

\* Bytes of some content, or a hole.
Chunks == (Contents \X (1..Full)) \cup {None}

StorageTyped ==
    /\ \A p \in DOMAIN files : files[p] \in Seq(Chunks) /\ Len(files[p]) <= Full + 1
    /\ fd \in [Jobs -> DOMAIN files \cup {None}]

RowsTyped ==
    /\ \E w \in Workloads : limit = w.limit
    /\ phase \in [Jobs -> Phases]
    /\ dest \in [Jobs -> ModelPaths \cup {None}]
    /\ digest \in [Jobs -> Contents \cup {None}]
    /\ donor \in [Jobs -> ModelPaths \cup {None}]
    /\ resume \in [Jobs -> 0..(Full + 1)]
    /\ skipped \in [Jobs -> 0..(Full + 1)]
    /\ received \in [Jobs -> 0..Full]

TypeOK == StorageTyped /\ RowsTyped

Init ==
    /\ \E w \in Workloads :
          /\ limit = w.limit
          /\ phase = [j \in Jobs |-> IF j \in w.queued THEN "queued"
                                    ELSE IF j \in w.done THEN "done" ELSE "absent"]
          /\ files = [p \in {Final(j) : j \in w.done} |->
                        Whole(Source[CHOOSE j \in w.done : Final(j) = p].content)]
          /\ dest = [j \in Jobs |-> IF j \in w.done THEN Final(j) ELSE None]
          /\ digest = [j \in Jobs |-> IF j \in w.done THEN Source[j].content ELSE None]
    /\ donor = [j \in Jobs |-> None]
    /\ resume = [j \in Jobs |-> 0] /\ skipped = [j \in Jobs |-> 0]
    /\ fd = [j \in Jobs |-> None]
    /\ received = [j \in Jobs |-> 0]

----------------------------------------------------------------------------
(* The file system.                                                        *)

Advance(j, p) == phase' = [phase EXCEPT ![j] = p]

With(fs, path, chunks) ==
    [p \in DOMAIN fs \cup {path} |-> IF p = path THEN chunks ELSE fs[p]]

Without(fs, path) == [p \in DOMAIN fs \ {path} |-> fs[p]]

\* Whoever holds the file `path` open goes on writing to nobody's file.
Unlink(path) ==
    /\ files' = Without(files, path)
    /\ fd' = [k \in Jobs |-> IF fd[k] = path THEN None ELSE fd[k]]

\* rename(2): replaces `to`; an open file keeps its inode under the new name.
Move(from, to) ==
    /\ files' = With(Without(files, from), to, files[from])
    /\ fd' = [k \in Jobs |-> CASE fd[k] = from -> to
                              [] fd[k] = to   -> None
                              [] OTHER        -> fd[k]]

\* Write one chunk after skipping `at` of them.  The skipped ones may be holes.
Written(chunks, at, chunk) ==
    [i \in 1..(IF Len(chunks) > at THEN Len(chunks) ELSE at + 1) |->
        IF i = at + 1 THEN chunk
        ELSE IF i <= Len(chunks) THEN chunks[i] ELSE None]

\* The content a file has, None when it is no whole content.
DigestOf(path) ==
    IF \E c \in Contents : files[path] = Whole(c)
    THEN CHOOSE c \in Contents : files[path] = Whole(c)
    ELSE None

\* What a worker forgets when it ends.
Forget(j) ==
    /\ donor' = [donor EXCEPT ![j] = None]
    /\ resume' = [resume EXCEPT ![j] = 0]
    /\ skipped' = [skipped EXCEPT ![j] = 0]
    /\ received' = [received EXCEPT ![j] = 0]

Close(j) == fd' = [fd EXCEPT ![j] = None]

Fail(j) == Advance(j, "failed") /\ Forget(j) /\ UNCHANGED <<limit, dest, digest>>

\* The worker has the placement `path`, whose digest is `c`; its row is next.
Succeed(j, path, c) ==
    /\ Advance(j, "published")
    /\ dest' = [dest EXCEPT ![j] = path]
    /\ digest' = [digest EXCEPT ![j] = c]
    /\ Forget(j)
    /\ UNCHANGED limit

----------------------------------------------------------------------------
(* Before any byte is sent.                                                *)

local == <<dest, digest, donor, resume, skipped, fd, received>>

\* The queue starts a worker when a permit is free.
Start(j) ==
    /\ phase[j] = "queued"
    /\ Cardinality(Busy) < limit
    /\ Advance(j, "resolving")
    /\ UNCHANGED <<limit, files, local>>

\* Only a source that names its file beforehand has its destination checked.
Occupied(j) == Source[j].named /\ Exists(Provisional(j))

Matches(j, path) == Source[j].hash # None /\ DigestOf(path) = Source[j].hash

ReuseExisting(j) ==
    /\ phase[j] = "resolving"
    /\ Occupied(j) /\ Matches(j, Provisional(j))
    /\ Succeed(j, Provisional(j), Source[j].hash)
    /\ UNCHANGED <<files, fd>>

\* Other content, or no digest to tell: the file there is left alone.
RefuseExisting(j) ==
    /\ phase[j] = "resolving"
    /\ Occupied(j) /\ ~Matches(j, Provisional(j))
    /\ Fail(j)
    /\ UNCHANGED <<files, fd>>

\* Faulty variant of Donors: a completed row whose file is gone is offered.
AnyDonors(j) ==
    IF Source[j].hash = None \/ ~Source[j].named THEN {}
    ELSE {k \in Jobs \ {j} : phase[k] = "done" /\ digest[k] = Source[j].hash}

\* find_done_job_by_sha256: completed rows of this digest whose file is there.
Donors(j) ==
    IF Source[j].hash = None \/ ~Source[j].named THEN {}
    ELSE {k \in Jobs \ {j} :
            phase[k] = "done" /\ digest[k] = Source[j].hash /\ Exists(dest[k])}

ChooseDonor(j) ==
    /\ phase[j] = "resolving"
    /\ ~Occupied(j)
    /\ \E k \in Donors(j) : donor' = [donor EXCEPT ![j] = dest[k]]
    /\ Advance(j, "cloning")
    /\ UNCHANGED <<limit, files, dest, digest, resume, skipped, fd, received>>

\* resume_from is the length of whatever file has the provisional name.
BeginTransfer(j) ==
    /\ phase[j] = "resolving"
    /\ ~Occupied(j) /\ Donors(j) = {}
    /\ resume' = [resume EXCEPT ![j] =
                    IF Exists(ProvisionalTmp(j)) THEN Len(files[ProvisionalTmp(j)]) ELSE 0]
    /\ skipped' = [skipped EXCEPT ![j] = resume'[j]]
    /\ Advance(j, "requesting")
    /\ UNCHANGED <<limit, files, dest, digest, donor, fd, received>>

----------------------------------------------------------------------------
(* publish_by_clone.                                                       *)

CloneOf(j) == CloneTmp(Provisional(j))

\* The destination was free a moment ago; if not, its content decides.
CloneFindsFile(j) ==
    /\ phase[j] = "cloning"
    /\ Exists(Provisional(j))
    /\ IF Matches(j, Provisional(j))
       THEN Succeed(j, Provisional(j), Source[j].hash)
       ELSE Fail(j)
    /\ UNCHANGED <<files, fd>>

\* FICLONE needs one filesystem that shares extents for both files.
Clonable(j, path) == path[2] \in Source[j].reflinks

\* clone_file: the temporary file must be new.
CloneDonor(j) ==
    /\ phase[j] = "cloning"
    /\ ~Exists(Provisional(j))
    /\ Exists(donor[j]) /\ Clonable(j, donor[j]) /\ ~Exists(CloneOf(j))
    /\ files' = With(files, CloneOf(j), files[donor[j]])
    /\ Advance(j, "cloned")
    /\ UNCHANGED <<limit, local>>

\* The donor is gone, a temporary file of that name is already there, or the
\* filesystem refuses, after which the new file is removed again: a clone that
\* cannot be made fails the placement, and nothing is downloaded instead.
CloneFails(j) ==
    /\ phase[j] = "cloning"
    /\ ~Exists(Provisional(j))
    /\ ~Exists(donor[j]) \/ ~Clonable(j, donor[j]) \/ Exists(CloneOf(j))
    /\ Fail(j)
    /\ UNCHANGED <<files, fd>>

\* The clone cannot be read or renamed, for any reason.
DiscardClone(j) ==
    /\ phase[j] = "cloned"
    /\ Unlink(CloneOf(j))
    /\ Fail(j)

\* Is the rename tried at all: the kernel looks for the destination first.
Renamable(j) == Source[j].noreplace \/ Exists(Provisional(j))

\* The clone is not the content asked for, the donor's file having changed, or
\* its filesystem has no rename that replaces nothing.
RejectClone(j) ==
    /\ phase[j] = "cloned"
    /\ ~Matches(j, CloneOf(j)) \/ ~Renamable(j)
    /\ DiscardClone(j)

\* Faulty variant of PublishClone: a plain rename.
PublishCloneReplacing(j) ==
    /\ phase[j] = "cloned"
    /\ Matches(j, CloneOf(j)) /\ Renamable(j)
    /\ Move(CloneOf(j), Provisional(j))
    /\ Succeed(j, Provisional(j), Source[j].hash)

\* rename_noreplace; the loser of a race compares digests.
PublishClone(j) ==
    /\ phase[j] = "cloned"
    /\ Matches(j, CloneOf(j)) /\ Renamable(j)
    /\ IF ~Exists(Provisional(j))
       THEN Move(CloneOf(j), Provisional(j)) /\ Succeed(j, Provisional(j), Source[j].hash)
       ELSE /\ Unlink(CloneOf(j))
            /\ IF Matches(j, Provisional(j))
               THEN Succeed(j, Provisional(j), Source[j].hash)
               ELSE Fail(j)

----------------------------------------------------------------------------
(* The transfer.                                                           *)

\* A renamed provisional file, when the final temporary name is another one.
Renamed(j) == ProvisionalTmp(j) # TmpOf(j) /\ Exists(ProvisionalTmp(j))

\* 206: the rest is coming.  If the provisional file is gone nothing is moved.
AnswerPartial(j) ==
    /\ phase[j] = "requesting"
    /\ resume[j] > 0 /\ Source[j].ranges /\ resume[j] < Full
    /\ IF Renamed(j)
       THEN Move(ProvisionalTmp(j), TmpOf(j))
       ELSE UNCHANGED <<files, fd>>
    /\ Advance(j, "opening")
    /\ UNCHANGED <<limit, dest, digest, donor, resume, skipped, received>>

\* The provisional file is there and cannot be renamed: resume_from is reset,
\* and the rest that is coming is taken for a whole body.
AnswerPartialUnrenamed(j) ==
    /\ phase[j] = "requesting"
    /\ resume[j] > 0 /\ Source[j].ranges /\ resume[j] < Full
    /\ Renamed(j)
    /\ resume' = [resume EXCEPT ![j] = 0]
    /\ Advance(j, "opening")
    /\ UNCHANGED <<limit, files, dest, digest, donor, skipped, fd, received>>

\* 416: nothing is left to send, which the client takes for a failure.
AnswerUnsatisfiable(j) ==
    /\ phase[j] = "requesting"
    /\ Source[j].ranges /\ resume[j] >= Full
    /\ Fail(j)
    /\ UNCHANGED <<files, fd>>

\* Faulty variant of AnswerWhole: resume_from keeps its value.
AnswerWholeKeepingOffset(j) ==
    /\ phase[j] = "requesting"
    /\ resume[j] > 0 => ~Source[j].ranges
    /\ IF resume[j] > 0
       THEN Unlink(ProvisionalTmp(j))
       ELSE UNCHANGED <<files, fd>>
    /\ skipped' = [skipped EXCEPT ![j] = 0]
    /\ Advance(j, "opening")
    /\ UNCHANGED <<limit, dest, digest, donor, resume, received>>

\* 200 to a request without a range, or to one whose range is not supported:
\* the partial file goes and the request is sent again without a range.
AnswerWhole(j) ==
    /\ phase[j] = "requesting"
    /\ resume[j] > 0 => ~Source[j].ranges
    /\ IF resume[j] > 0
       THEN Unlink(ProvisionalTmp(j))
       ELSE UNCHANGED <<files, fd>>
    /\ resume' = [resume EXCEPT ![j] = 0]
    /\ skipped' = [skipped EXCEPT ![j] = 0]
    /\ Advance(j, "opening")
    /\ UNCHANGED <<limit, dest, digest, donor, received>>

\* The second request fails after the partial file went.
RestartFails(j) ==
    /\ phase[j] = "requesting"
    /\ resume[j] > 0 /\ ~Source[j].ranges
    /\ Unlink(ProvisionalTmp(j))
    /\ Fail(j)

\* Append to what is there, or truncate it; the inode stays either way.
OpenTmp(j) ==
    /\ phase[j] = "opening"
    /\ files' = With(files, TmpOf(j),
                     IF resume[j] > 0 /\ Exists(TmpOf(j)) THEN files[TmpOf(j)] ELSE <<>>)
    /\ fd' = [fd EXCEPT ![j] = TmpOf(j)]
    /\ Advance(j, "streaming")
    /\ UNCHANGED <<limit, dest, digest, donor, resume, skipped, received>>

\* The next chunk of the body; resume_from says where it goes, except that an
\* appending file decides that itself.
NextChunk(j) == <<Source[j].content, skipped[j] + received[j] + 1>>

\* A file others append to as well may outgrow its content: it is cut one chunk
\* past a whole one, which no digest matches either.
Receive(j) ==
    /\ phase[j] = "streaming"
    /\ skipped[j] + received[j] < Full
    /\ received' = [received EXCEPT ![j] = @ + 1]
    /\ IF fd[j] = None
       THEN UNCHANGED files
       ELSE LET chunks == files[fd[j]]
                at == IF resume[j] > 0 THEN Len(chunks) ELSE received[j]
            IN  files' = With(files, fd[j],
                              IF at > Full THEN chunks ELSE Written(chunks, at, NextChunk(j)))
    /\ Advance(j, IF skipped[j] + received[j] + 1 = Full THEN "received" ELSE "streaming")
    /\ UNCHANGED <<limit, dest, digest, donor, resume, skipped, fd>>

\* A server or the file system fails the worker: what was received stays.
BreakOff(j) ==
    /\ phase[j] \in {"resolving", "cloning", "requesting", "opening", "streaming",
                     "received", "verified"}
    /\ Fail(j)
    /\ Close(j)
    /\ UNCHANGED files

\* Faulty variant of CancelTransfer: the other workers' handles are forgotten.
CancelTransferAlone(j) ==
    /\ phase[j] = "streaming"
    /\ Advance(j, "cancelled")
    /\ Forget(j)
    /\ files' = Without(files, TmpOf(j))
    /\ UNCHANGED <<limit, dest, digest, fd>>

\* The partial file goes, under whoever else has it open as well.
CancelTransfer(j) ==
    /\ phase[j] = "streaming"
    /\ Advance(j, "cancelled")
    /\ Forget(j)
    /\ files' = Without(files, TmpOf(j))
    /\ fd' = [k \in Jobs |-> IF k = j \/ fd[k] = TmpOf(j) THEN None ELSE fd[k]]
    /\ UNCHANGED <<limit, dest, digest>>

\* Faulty variant of ComputedDigest: what was received stands for the file.
ReceivedDigest(j) == Source[j].content

\* A resumed transfer is hashed from the file, any other as it was received; a
\* body without the beginning of its content has no content's digest.
ComputedDigest(j) ==
    IF resume[j] > 0 THEN DigestOf(TmpOf(j))
    ELSE IF skipped[j] = 0 THEN Source[j].content ELSE None

\* Without a digest to compare, a safetensors file must at least have its header.
HasHeader(path) == \E c \in Contents : files[path] # <<>> /\ files[path][1] = <<c, 1>>

Acceptable(j) ==
    IF Source[j].hash # None
    THEN ComputedDigest(j) = Source[j].hash
    ELSE Source[j].safetensors => Exists(TmpOf(j)) /\ HasHeader(TmpOf(j))

\* The digest is compared; what does not match is removed.
Verify(j) ==
    /\ phase[j] = "received"
    /\ IF (resume[j] > 0 => Exists(TmpOf(j))) /\ Acceptable(j)
       THEN /\ Advance(j, "verified")
            /\ digest' = [digest EXCEPT ![j] = ComputedDigest(j)]
            /\ Close(j)
            /\ UNCHANGED <<limit, files, dest, donor, resume, skipped, received>>
       ELSE /\ Fail(j)
            /\ files' = Without(files, TmpOf(j))
            /\ fd' = [k \in Jobs |-> IF k = j \/ fd[k] = TmpOf(j) THEN None ELSE fd[k]]

\* The placement is resolved again from the content, then a plain rename.
Publish(j) ==
    /\ phase[j] = "verified"
    /\ Exists(TmpOf(j))
    /\ Move(TmpOf(j), Final(j))
    /\ Succeed(j, Final(j), digest[j])

PublishFails(j) ==
    /\ phase[j] = "verified"
    /\ ~Exists(TmpOf(j))
    /\ Fail(j)
    /\ UNCHANGED <<files, fd>>

\* Sidecars and a preview are written, then the row becomes Done.
Commit(j) ==
    /\ phase[j] = "published"
    /\ Advance(j, "done")
    /\ UNCHANGED <<limit, files, local>>

----------------------------------------------------------------------------
(* The user, and crashes.                                                  *)

\* Asked for again after a failure or a cancellation.
Retry(j) ==
    /\ phase[j] \in {"failed", "cancelled"}
    /\ Advance(j, "queued")
    /\ UNCHANGED <<limit, files, local>>

\* requeue_one: the row forgets its file, which stays.
Redownload(j) ==
    /\ phase[j] = "done" /\ j \in Repeated
    /\ Advance(j, "queued")
    /\ dest' = [dest EXCEPT ![j] = None]
    /\ digest' = [digest EXCEPT ![j] = None]
    /\ UNCHANGED <<limit, files, donor, resume, skipped, fd, received>>

UserRemoves(path) ==
    /\ path \in ModelPaths
    /\ Unlink(path)
    /\ UNCHANGED <<limit, phase, dest, digest, donor, resume, skipped, received>>

\* Files stay, workers go; the startup recovery queues their rows again.
Crash ==
    /\ Busy # {}
    /\ phase' = [j \in Jobs |-> IF j \in Busy THEN "queued" ELSE phase[j]]
    /\ dest' = [j \in Jobs |-> IF j \in Busy THEN None ELSE dest[j]]
    /\ digest' = [j \in Jobs |-> IF j \in Busy THEN None ELSE digest[j]]
    /\ donor' = [j \in Jobs |-> None]
    /\ resume' = [j \in Jobs |-> 0] /\ skipped' = [j \in Jobs |-> 0]
    /\ fd' = [j \in Jobs |-> None]
    /\ received' = [j \in Jobs |-> 0]
    /\ UNCHANGED <<limit, files>>

Prepare(j) ==
    \/ ReuseExisting(j) \/ RefuseExisting(j) \/ ChooseDonor(j) \/ BeginTransfer(j)

Clone(j) ==
    \/ CloneFindsFile(j) \/ CloneDonor(j) \/ CloneFails(j) \/ RejectClone(j)
    \/ PublishClone(j)

Answer(j) == AnswerPartial(j) \/ AnswerUnsatisfiable(j) \/ AnswerWhole(j)

\* What a worker does when nothing goes wrong around it.
WorkerStep(j) ==
    \/ Prepare(j) \/ Clone(j) \/ Answer(j) \/ OpenTmp(j) \/ Receive(j) \/ Verify(j)
    \/ Publish(j) \/ PublishFails(j) \/ Commit(j)

Disturbance ==
    \/ \E j \in Jobs : BreakOff(j) \/ DiscardClone(j) \/ AnswerPartialUnrenamed(j)
                       \/ RestartFails(j) \/ CancelTransfer(j) \/ Redownload(j)
    \/ \E path \in DOMAIN files : UserRemoves(path)
    \/ Crash

Undisturbed == \E j \in Jobs : Start(j) \/ WorkerStep(j) \/ Retry(j)

Next == Undisturbed \/ Disturbance

Spec == Init /\ [][Next]_vars

\* The loop takes the oldest queued row first, so a row that keeps failing does
\* not keep another one waiting.  A worker has no fairness of its own: it waits
\* for servers without a timeout.
Fairness ==
    \A j \in Jobs : SF_vars(Start(j))

FairSpec == Spec /\ Fairness

----------------------------------------------------------------------------
(* Properties.                                                             *)

\* No other row of the catalog uses a temporary file of this one.
Sole(j) ==
    \A k \in {i \in Jobs : phase[i] # "absent"} \ {j} :
        {TmpOf(k), ProvisionalTmp(k)} \cap {TmpOf(j), ProvisionalTmp(j)} = {}

\* No other worker can come between the steps of this job's.
Alone(j) == limit = 1 \/ Sole(j)

Publishes(j) == phase[j] # "published" /\ phase'[j] = "published"

\* What is reported as a verified placement is the whole content the source
\* published a digest of, after any number of resumed, failed, cancelled and
\* crashed attempts, of this job or another that left its partial file under
\* the same name: with one download at a time (the default), or with several
\* as long as no other job uses this one's temporary file.
VerifiedIsWhole ==
    [][\A j \in Jobs :
          Publishes(j) /\ Source[j].hash # None /\ Alone(j) =>
              /\ dest'[j] \in DOMAIN files'
              /\ files'[dest'[j]] = Whole(Source[j].hash)]_vars

\* The steps that may put other content where a file already is: the rename of
\* a transfer whose destination was not the one checked beforehand, or that
\* runs beside another.  A clone publication never does, whatever appears at
\* its destination after the check.
ReplacementsAreKnown ==
    [][\A p \in ModelPaths :
          p \in DOMAIN files /\ p \in DOMAIN files' /\ files'[p] # files[p] =>
              \E j \in Jobs :
                  /\ phase[j] \in {"streaming", "verified"}
                  /\ limit > 1 \/ ~Source[j].named \/ Final(j) # Provisional(j)]_vars

\* The resumed part of a transfer is a part of its own content, unless another
\* job uses the name of its temporary file.
ResumesOwnPrefix ==
    \A j \in Jobs :
        Sole(j) /\ phase[j] = "streaming" /\ resume[j] > 0 /\ fd[j] # None =>
            files[fd[j]] = SubSeq(Whole(Source[j].content), 1, resume[j] + received[j])

\* May the file of a completed row become the placement of this one.
Reusable(j, path) ==
    /\ Matches(j, path) /\ Clonable(j, path)
    /\ Source[j].noreplace /\ ~Exists(CloneOf(j))

\* Why a job that is asked for again and again may fail every time: a file it
\* cannot verify is at its destination; a completed row it is to be cloned from
\* has lost its content, or is on another filesystem or on one that shares no
\* extents, or a clone that a crash left behind has the name of the new one, or
\* the clone cannot be renamed without replacing; a complete temporary file
\* leaves the server nothing to send; the server sends something else than it
\* announced.
NeverSucceeds(j) ==
    \/ Occupied(j) /\ ~Matches(j, Provisional(j))
    \/ \E k \in Donors(j) : Exists(dest[k]) /\ ~Reusable(j, dest[k])
    \/ Source[j].ranges /\ Exists(ProvisionalTmp(j)) /\ Len(files[ProvisionalTmp(j)]) >= Full
    \/ Source[j].hash \notin {Source[j].content, None}

Calm == <>[][Undisturbed]_vars
AskedAgain == \A j \in Jobs : WF_vars(Retry(j))
ServersAnswer == \A j \in Jobs : WF_vars(WorkerStep(j))

\* When the disturbances are over and the servers answer, a job that is asked
\* for again after every failure is completed, except for the reasons
\* NeverSucceeds lists.
RetriesSucceed ==
    Calm /\ AskedAgain /\ ServersAnswer =>
        \A j \in Jobs :
            phase[j] # "absent" /\ Alone(j) =>
                <>[](phase[j] = "done" \/ NeverSucceeds(j))

\* Nothing but the user takes or changes a file at a destination: the claim of
\* the placement document for every publication.
DestinationsAreKept ==
    [][\A p \in ModelPaths :
          p \in DOMAIN files /\ p \in DOMAIN files' => files'[p] = files[p]]_vars

----------------------------------------------------------------------------
(* Why the properties hold: the inductive invariant of TransferProofs.     *)

\* The first n chunks of a content.
Part(c, n) == [i \in 1..n |-> <<c, i>>]

\* max_concurrent_downloads = 1 leaves one worker at a time.
OneWorkerAtLimitOne == limit = 1 => \A j, k \in Busy : j = k

\* A clone that is about to be published is there, and one worker's.
ClonesAreOwn ==
    \A j \in Jobs : phase[j] = "cloned" =>
        /\ Exists(CloneOf(j))
        /\ \A k \in Jobs \ {j} : phase[k] = "cloned" => CloneOf(k) # CloneOf(j)

\* The temporary files of a job.
OwnPaths(j) == {TmpOf(j), ProvisionalTmp(j)}

\* A file nobody else names is open in nobody else's worker.
HandlesApart ==
    \A j, k \in Jobs : j # k /\ Sole(j) => fd[k] \notin OwnPaths(j)

\* What is resumed from, if nobody else names it, is a beginning of the content.
PartialFileIsOwn(j) ==
    Sole(j) /\ Exists(ProvisionalTmp(j)) =>
        \E n \in 0..Full : files[ProvisionalTmp(j)] = Part(Source[j].content, n)

\* The offset asked for is the length of the file it will be appended to.
OffsetIsLength(j) ==
    Sole(j) /\ resume[j] > 0 =>
        /\ phase[j] = "requesting" =>
              Exists(ProvisionalTmp(j)) /\ Len(files[ProvisionalTmp(j)]) = resume[j]
        /\ phase[j] = "opening" =>
              Exists(TmpOf(j)) /\ files[TmpOf(j)] = Part(Source[j].content, resume[j])

\* The body goes where it belongs, unless a rename failed: then it is the rest of
\* the content and goes to the beginning of the file.
Placed(j) == resume[j] = skipped[j]

BodyIsPlaced(j) ==
    /\ phase[j] = "requesting" => Placed(j)
    /\ phase[j] \in {"opening", "streaming", "received"} =>
          Placed(j) \/ (resume[j] = 0 /\ TmpOf(j) # ProvisionalTmp(j))

\* How much of the body has come.
BodyIsCounted(j) ==
    /\ phase[j] \notin {"streaming", "received", "verified"} => received[j] = 0
    /\ phase[j] = "opening" => skipped[j] < Full
    /\ phase[j] = "streaming" => skipped[j] + received[j] < Full
    /\ phase[j] = "received" => skipped[j] + received[j] = Full

\* A worker nobody interferes with fills the file its name stands for.
StreamsIntoOwnFile(j) ==
    phase[j] \in {"streaming", "received"} /\ Alone(j) =>
        /\ fd[j] = TmpOf(j)
        /\ Placed(j) /\ (resume[j] = 0 \/ Sole(j)) =>
              files[TmpOf(j)] = Part(Source[j].content, resume[j] + received[j])

\* What was verified is still there when it is renamed.
VerifiedFileStays(j) ==
    phase[j] = "verified" /\ Alone(j) /\ Source[j].hash # None =>
        /\ digest[j] = Source[j].hash
        /\ Exists(TmpOf(j)) => files[TmpOf(j)] = Whole(Source[j].hash)

\* A destination found free stays free while there is one worker.
DestinationStaysFree(j) ==
    /\ phase[j] \in {"requesting", "opening", "streaming", "received", "verified"}
    /\ limit = 1 /\ Source[j].named
    => ~Exists(Provisional(j))

WorkerInv(j) ==
    /\ PartialFileIsOwn(j) /\ OffsetIsLength(j) /\ BodyIsPlaced(j) /\ BodyIsCounted(j)
    /\ StreamsIntoOwnFile(j) /\ VerifiedFileStays(j) /\ DestinationStaysFree(j)

\* What every step of every worker, of the user and of a crash preserves.
TransferInv ==
    /\ TypeOK /\ OneWorkerAtLimitOne /\ ClonesAreOwn /\ HandlesApart
    /\ \A j \in Jobs : WorkerInv(j)

=============================================================================
