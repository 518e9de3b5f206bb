----------------------------- MODULE QueueBoard -----------------------------
(***************************************************************************)
(* The download queue implements the board of JobBoard: the holder of a    *)
(* permit holds its job from the statement that marks the row Downloading  *)
(* to the one that records the outcome, and a row's status is its stage.   *)
(***************************************************************************)
EXTENDS DownloadQueue

StageOf(st) ==
    IF st = "queued" THEN "waiting"
    ELSE IF st \in {"downloading", "verifying"} THEN "held"
    ELSE IF st = "done" THEN "complete"
    ELSE "abandoned"

Stages == [j \in DOMAIN jobs |-> StageOf(jobs[j].status)]

Holdings == [s \in Slots |-> IF phase[s] \in WorkPhases THEN task[s] ELSE 0]

Board == INSTANCE JobBoard
    WITH Workers <- Slots, Nobody <- 0,
         open <- up, stage <- Stages, holds <- Holdings

\* Every behaviour of the queue is one of the board: a job is claimed by one
\* worker at a time and settled by its holder alone, completed jobs are done
\* again only when the user asks, and a restart loses and repeats none, with
\* every interleaving of the loop's two locks, the workers' and the requests'.
ImplementsBoard == Board!Spec

\* The loop's picked job has not been worked on since it was read: its row is
\* still queued, or was cancelled or deleted under it.  Part of the refinement.
PickedRowWaits ==
    \A s \in Slots :
        phase[s] \in LoopPhases \ {"marked"} /\ task[s] \in DOMAIN jobs =>
            jobs[task[s]].status \in {"queued", "cancelled"}

=============================================================================
