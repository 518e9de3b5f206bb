--------------------------- MODULE JobBoardProofs ---------------------------
(***************************************************************************)
(* What follows from the board alone, and so holds of every program that   *)
(* implements it: the invariant, and that a completed job is not claimed.  *)
(***************************************************************************)
EXTENDS JobBoard, TLAPS

BoardInv == BoardOK /\ ClosedIsIdle /\ OneHolder /\ HeldHasHolder /\ HeldIsNotOffered

\* An empty or inherited board, closed, satisfies the invariant.
LEMMA InitBoard == ASSUME Init PROVE BoardInv
<1>1. BoardOK /\ ClosedIsIdle
  BY DEF Init, BoardOK, Idle, ClosedIsIdle
<1>2. OneHolder /\ HeldHasHolder
  BY DEF Init, OneHolder, HeldHasHolder, Idle
<1>3. HeldIsNotOffered
  BY DEF Init, HeldIsNotOffered, Idle
<1> QED  BY <1>1, <1>2, <1>3 DEF BoardInv

\* A claimed job had no holder, so its new holder is the only one.
LEMMA ClaimBoard ==
    ASSUME BoardInv, NEW w \in Workers, NEW j, Claim(w, j)
    PROVE  BoardInv'
<1> USE DEF BoardInv, BoardOK, Claim, Mark, Held
<1>1. BoardOK'
  BY DEF Stages
<1>2. OneHolder'
  BY DEF OneHolder
<1>3. HeldHasHolder'
  BY DEF HeldHasHolder
<1>4. HeldIsNotOffered'
  BY DEF HeldIsNotOffered
<1>5. ClosedIsIdle'
  BY DEF ClosedIsIdle
<1> QED  BY <1>1, <1>2, <1>3, <1>4, <1>5

\* A settled job has no holder left; nobody else held it.
LEMMA SettleBoard ==
    ASSUME BoardInv, NEW w \in Workers, Settle(w)
    PROVE  BoardInv'
<1> USE DEF BoardInv, BoardOK, Mark, Held
<1>1. PICK st \in {"complete", "abandoned"} : Mark(holds[w], st)
  BY DEF Settle
<1>2. BoardOK'
  BY <1>1 DEF Stages, Settle
<1>3. OneHolder'
  BY DEF OneHolder, Settle
<1>4. HeldHasHolder'
  BY <1>1 DEF HeldHasHolder, Settle
<1>5. HeldIsNotOffered'
  BY <1>1 DEF HeldIsNotOffered, OneHolder, Settle
<1>6. ClosedIsIdle'
  BY DEF ClosedIsIdle, Settle, Idle
<1> QED  BY <1>2, <1>3, <1>4, <1>5, <1>6

\* Jobs that come, go, are withdrawn or are done again leave the holders alone.
LEMMA BoardChange ==
    ASSUME BoardInv,
           (\E j \in DOMAIN stage' : Post(j)) \/ (\E j \in DOMAIN stage : Withdraw(j))
               \/ Remove \/ Repeat
    PROVE  BoardInv'
<1> USE DEF BoardInv, BoardOK, Held, Stages
<1>1. holds' = holds /\ open' = open /\ open
  BY DEF Post, Withdraw, Remove, Repeat
<1>2. BoardOK'
  <2>1. CASE \E j \in DOMAIN stage' : Post(j)
    BY <1>1, <2>1 DEF Post, Put
  <2>2. CASE \E j \in DOMAIN stage : Withdraw(j)
    BY <1>1, <2>2 DEF Withdraw, Mark
  <2>3. CASE Remove
    BY <1>1, <2>3 DEF Remove
  <2>4. CASE Repeat
    BY <1>1, <2>4 DEF Repeat
  <2> QED  BY <2>1, <2>2, <2>3, <2>4
<1>3. \A j \in DOMAIN stage' :
         \/ j \in DOMAIN stage /\ stage'[j] = stage[j]
         \/ stage'[j] = "abandoned"
         \/ ~Held(j) /\ stage'[j] \in {"waiting", "complete"}
  <2>1. CASE \E j \in DOMAIN stage' : Post(j)
    BY <2>1 DEF Post, Put
  <2>2. CASE \E j \in DOMAIN stage : Withdraw(j)
    BY <2>2 DEF Withdraw, Mark
  <2>3. CASE Remove
    BY <2>3 DEF Remove
  <2>4. CASE Repeat
    BY <2>4 DEF Repeat
  <2> QED  BY <2>1, <2>2, <2>3, <2>4
<1>4. OneHolder' /\ ClosedIsIdle'
  BY <1>1 DEF OneHolder, ClosedIsIdle, Idle
<1>5. HeldHasHolder'
  BY <1>1, <1>3 DEF HeldHasHolder
<1>6. HeldIsNotOffered'
  BY <1>1, <1>3 DEF HeldIsNotOffered
<1> QED  BY <1>2, <1>4, <1>5, <1>6

\* Closing drops every holder; reopening leaves nothing held.
LEMMA RestartBoard == ASSUME BoardInv, Close \/ Reopen PROVE BoardInv'
<1> USE DEF BoardInv, BoardOK, Held, Stages, Idle, ClosedIsIdle
<1>1. CASE Close
  BY <1>1 DEF Close, OneHolder, HeldHasHolder, HeldIsNotOffered
<1>2. CASE Reopen
  <2>1. holds' = Idle /\ holds = Idle
    BY <1>2 DEF Reopen
  <2>2. \A j \in DOMAIN stage' :
           /\ j \in DOMAIN stage
           /\ stage'[j] \in Stages
           /\ stage'[j] # "held"
    <3> SUFFICES ASSUME NEW j \in DOMAIN stage'
                 PROVE  j \in DOMAIN stage /\ stage'[j] \in Stages /\ stage'[j] # "held"
      OBVIOUS
    <3>1. j \in DOMAIN stage /\ stage[j] \in Stages
      BY <1>2 DEF Reopen
    <3>2. CASE stage[j] = "held"
      BY <1>2, <3>1, <3>2 DEF Reopen
    <3>3. CASE stage[j] # "held"
      BY <1>2, <3>1, <3>3 DEF Reopen
    <3> QED  BY <3>1, <3>2, <3>3
  <2>3. BoardOK'
    BY <1>2, <2>1, <2>2 DEF Reopen
  <2>4. OneHolder' /\ HeldIsNotOffered' /\ ClosedIsIdle'
    BY <2>1, <2>3 DEF OneHolder, HeldIsNotOffered
  <2>5. HeldHasHolder'
    BY <2>2 DEF HeldHasHolder
  <2> QED  BY <2>3, <2>4, <2>5
<1> QED  BY <1>1, <1>2

\* Every step of the board preserves the invariant.
LEMMA NextBoard == ASSUME BoardInv, [Next]_vars PROVE BoardInv'
<1>1. CASE UNCHANGED vars
  BY <1>1 DEF vars, BoardInv, BoardOK, ClosedIsIdle, Idle, OneHolder, HeldHasHolder,
              HeldIsNotOffered, Held
<1>2. CASE Next
  <2>1. ASSUME NEW w \in Workers, Claim(w, holds'[w]) PROVE BoardInv'
    BY <2>1, ClaimBoard
  <2>2. ASSUME NEW w \in Workers, Settle(w) PROVE BoardInv'
    BY <2>2, SettleBoard
  <2> QED  BY <1>2, <2>1, <2>2, BoardChange, RestartBoard DEF Next
<1> QED  BY <1>1, <1>2

\* On every board a job has one holder at most, a job shown as held has one
\* while the board is open, and what is held is not offered to another worker.
THEOREM BoardInvariant == Spec => []BoardInv
<1>1. Init => BoardInv
  BY InitBoard
<1>2. BoardInv /\ [Next]_vars => BoardInv'
  BY NextBoard
<1> QED  BY <1>1, <1>2, PTL DEF Spec

\* A completed job starts again only after it was reopened.
THEOREM CompletedStays == Spec => CompleteIsNotClaimed
<1>1. ASSUME BoardInv, [Next]_vars
      PROVE  [\A j \in DOMAIN stage :
                 stage[j] = "complete" /\ j \in DOMAIN stage' => stage'[j] # "held"]_vars
  <2> SUFFICES ASSUME Next, NEW j \in DOMAIN stage, stage[j] = "complete",
                      j \in DOMAIN stage'
               PROVE  stage'[j] # "held"
    BY <1>1
  <2>1. CASE \E i \in DOMAIN stage' : Post(i)
    BY <2>1 DEF Post, Put
  <2>2. ASSUME NEW w \in Workers, Claim(w, holds'[w]) PROVE stage'[j] # "held"
    BY <2>2 DEF Claim, Mark
  <2>3. ASSUME NEW w \in Workers, Settle(w) PROVE stage'[j] # "held"
    BY <2>3 DEF Settle, Mark
  <2>4. CASE \E i \in DOMAIN stage : Withdraw(i)
    BY <2>4 DEF Withdraw, Mark
  <2>5. CASE Remove \/ Repeat \/ Close
    BY <2>5 DEF Remove, Repeat, Close
  <2>6. CASE Reopen
    BY <2>6 DEF Reopen
  <2> QED  BY <2>1, <2>2, <2>3, <2>4, <2>5, <2>6 DEF Next
<1> QED  BY <1>1, BoardInvariant, PTL DEF Spec, CompleteIsNotClaimed

=============================================================================
