------------------------------ MODULE JobBoard ------------------------------
(***************************************************************************)
(* What the download queue promises, without slots, tokens, locks or       *)
(* files: a board of jobs that workers claim one by one.  A job is held    *)
(* by one worker at most; only its holder completes it; a completed job    *)
(* is neither claimed nor completed again until it is reopened, and it is  *)
(* reopened only while nobody holds it; when the board reopens after a     *)
(* crash, nothing is held and what was held waits again or is given up.    *)
(* Jobs may be withdrawn or taken off the board at any time, also while    *)
(* they are held, which the holder notices no sooner than at its end.      *)
(***************************************************************************)
EXTENDS Naturals

CONSTANTS
    Workers,
    Nobody    \* what an idle worker holds; no job has this id

VARIABLES
    open,    \* is the board in use
    stage,   \* job id -> stage, for the jobs on the board
    holds    \* worker -> id of the job it holds, or Nobody

vars == <<open, stage, holds>>

Stages == {"waiting", "held", "complete", "abandoned"}

Held(j) == \E w \in Workers : holds[w] = j

Idle == [w \in Workers |-> Nobody]

Init ==
    /\ open = FALSE
    /\ DOMAIN stage \subseteq Nat \ {Nobody}
    /\ stage \in [DOMAIN stage -> Stages]
    /\ holds = Idle

Put(j, st) == stage' = [i \in DOMAIN stage \cup {j} |-> IF i = j THEN st ELSE stage[i]]

\* The stage of a job that may have been taken off the board.
Mark(j, st) == stage' = [i \in DOMAIN stage |-> IF i = j THEN st ELSE stage[i]]

\* A new job: one to do, or one found done.
Post(j) ==
    /\ open
    /\ j \in Nat \ {Nobody}
    /\ j \notin DOMAIN stage /\ ~Held(j)
    /\ \E st \in {"waiting", "complete"} : Put(j, st)
    /\ UNCHANGED <<open, holds>>

\* A job that was withdrawn, or removed, a moment ago may still be claimed.
Claim(w, j) ==
    /\ open
    /\ j \in Nat \ {Nobody}
    /\ holds[w] = Nobody /\ ~Held(j)
    /\ j \in DOMAIN stage => stage[j] \in {"waiting", "abandoned"}
    /\ holds' = [holds EXCEPT ![w] = j]
    /\ Mark(j, "held")
    /\ UNCHANGED open

Settle(w) ==
    /\ holds[w] # Nobody
    /\ \E st \in {"complete", "abandoned"} : Mark(holds[w], st)
    /\ holds' = [holds EXCEPT ![w] = Nobody]
    /\ UNCHANGED open

Withdraw(j) ==
    /\ open
    /\ Mark(j, "abandoned")
    /\ UNCHANGED <<open, holds>>

Remove ==
    /\ open
    /\ DOMAIN stage' \subseteq DOMAIN stage
    /\ stage' = [j \in DOMAIN stage' |-> stage[j]]
    /\ UNCHANGED <<open, holds>>

\* Completed jobs are done again; duplicates among them may go.
Repeat ==
    /\ open
    /\ DOMAIN stage' \subseteq DOMAIN stage
    /\ \A j \in DOMAIN stage \ DOMAIN stage' : stage[j] = "complete"
    /\ stage' = [j \in DOMAIN stage' |-> stage'[j]]
    /\ \A j \in DOMAIN stage' :
          stage'[j] # stage[j] =>
              stage[j] = "complete" /\ stage'[j] = "waiting" /\ ~Held(j)
    /\ UNCHANGED <<open, holds>>

\* The daemon stops: nobody holds anything, the board keeps what it says.
Close ==
    /\ open
    /\ open' = FALSE
    /\ holds' = Idle
    /\ UNCHANGED stage

\* What was held waits again, what is answered by a completed job is given up,
\* completed duplicates go; nothing completed is started again.
Reopen ==
    /\ ~open
    /\ open' = TRUE
    /\ DOMAIN stage' \subseteq DOMAIN stage
    /\ \A j \in DOMAIN stage \ DOMAIN stage' : stage[j] = "complete"
    /\ stage' = [j \in DOMAIN stage' |-> stage'[j]]
    /\ \A j \in DOMAIN stage' :
          CASE stage[j] = "held"    -> stage'[j] \in {"waiting", "abandoned"}
            [] stage[j] = "waiting" -> stage'[j] \in {"waiting", "abandoned"}
            [] OTHER                -> stage'[j] = stage[j]
    /\ UNCHANGED holds

Next ==
    \/ \E j \in DOMAIN stage' : Post(j)
    \/ \E w \in Workers : Claim(w, holds'[w]) \/ Settle(w)
    \/ \E j \in DOMAIN stage : Withdraw(j)
    \/ Remove \/ Repeat \/ Close \/ Reopen

Spec == Init /\ [][Next]_vars

----------------------------------------------------------------------------
(* What follows from the board alone.                                      *)

BoardOK ==
    /\ open \in BOOLEAN
    /\ DOMAIN stage \subseteq Nat \ {Nobody}
    /\ stage \in [DOMAIN stage -> Stages]
    /\ holds \in [Workers -> Nat \cup {Nobody}]

ClosedIsIdle == ~open => holds = Idle

\* A job has one holder at most.
OneHolder ==
    \A v, w \in Workers : holds[v] = holds[w] /\ holds[v] # Nobody => v = w

\* While the board is open a job it shows as held is held by somebody.
HeldHasHolder ==
    open => \A j \in DOMAIN stage : stage[j] = "held" => Held(j)

\* What somebody holds is neither waiting for another worker nor complete.
HeldIsNotOffered ==
    \A w \in Workers :
        holds[w] \in DOMAIN stage => stage[holds[w]] \in {"held", "abandoned"}

\* A completed job starts again only through Repeat: its next holder finds it
\* waiting, never complete.
CompleteIsNotClaimed ==
    [][\A j \in DOMAIN stage :
          stage[j] = "complete" /\ j \in DOMAIN stage' =>
              stage'[j] # "held"]_vars

=============================================================================
