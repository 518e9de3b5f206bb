----------------------------- MODULE IndexCache -----------------------------
(***************************************************************************)
(* The index of the templates and the file that keeps it: cached_fetch and *)
(* index in templates/mod.rs.  Every ListTemplates is a caller of its own, *)
(* and callers run beside each other on one file.  tokio::fs::write opens  *)
(* the file empty and fills it afterwards, so a caller may read what       *)
(* another is writing, two may write at once, and a write may be cut short *)
(* by a full disk or by the end of the daemon.  A workflow is kept in the  *)
(* same way, in a file of its own.                                         *)
(***************************************************************************)
EXTENDS Naturals

CONSTANTS
  Callers,     \* requests under way at one time, a bound
  MaxSwitches  \* bound: changes of what the service answers

ASSUME IndexAssumption == MaxSwitches \in Nat

VARIABLES
  index,    \* what the service answers: a body, an "error", or nothing whole
  cached,   \* the file: its body or "none", and whether it is fresh
  calls,    \* caller -> how far it is, the body it was served, what it answered
  damaged,  \* since the file was last written whole and alone, was a write cut
            \* short, beside another one, or of a success that is no index
  switches

cacheVars == <<index, cached, calls, damaged, switches>>

Bodies == {"old", "new"}

\* A status of success need not come with an index.
Successes == Bodies \cup {"prose"}

\* "torn": nothing yet, a part of a body, or parts of two.
Kept == Successes \cup {"none", "torn"}

Idle == [state |-> "idle", body |-> "none", answer |-> "none"]

\* parse_index.
Parsed(body) == IF body \in Bodies THEN body ELSE "failed"

InTheFile(c) == calls[c].state \in {"writing", "overlapping"}

AnswerWith(c, body) == calls' = [calls EXCEPT ![c] = [Idle EXCEPT !.answer = Parsed(body)]]

----------------------------------------------------------------------------
\* read_fresh looks at the file's age first and reads it afterwards; a body cut in the
\* middle of a character is no text, and is taken for none.
BeginFetch(c, refresh) ==
  /\ calls[c].state = "idle"
  /\ calls' = [calls EXCEPT ![c] =
                 [Idle EXCEPT !.state = IF cached.fresh /\ ~refresh THEN "reading" ELSE "asking"]]
  /\ UNCHANGED <<index, cached, damaged, switches>>

ReadFresh(c) ==
  /\ calls[c].state = "reading"
  /\ \/ AnswerWith(c, cached.body)
     \/ cached.body = "torn" /\ calls' = [calls EXCEPT ![c].state = "asking"]
  /\ UNCHANGED <<index, cached, damaged, switches>>

\* No answer at all is an error, whatever is kept.
FetchFails(c) ==
  /\ calls[c].state = "asking" /\ index = "unreachable"
  /\ AnswerWith(c, "none")
  /\ UNCHANGED <<index, cached, damaged, switches>>

\* An error status is answered from the file, however old, if there is one.
FetchStale(c) ==
  /\ calls[c].state = "asking" /\ index = "error"
  /\ AnswerWith(c, cached.body)
  /\ UNCHANGED <<index, cached, damaged, switches>>

\* Faulty variant of FetchNew: the body is kept whatever the status is.
FetchAny(c) ==
  /\ calls[c].state = "asking" /\ index # "unreachable"
  /\ calls' = [calls EXCEPT ![c].state = "fetched", ![c].body = index]
  /\ UNCHANGED <<index, cached, damaged, switches>>

\* The body of a success will be kept, whatever it is.
FetchNew(c) ==
  /\ calls[c].state = "asking" /\ index \in Successes
  /\ calls' = [calls EXCEPT ![c].state = "fetched", ![c].body = index]
  /\ UNCHANGED <<index, cached, damaged, switches>>

----------------------------------------------------------------------------
(* tokio::fs::write: the body it could not keep is answered all the same.  *)

\* The file is opened, which empties it, beside the writes under way.
OpenCache(c) ==
  /\ calls[c].state = "fetched"
  /\ LET others == {d \in Callers : InTheFile(d)}
         state == IF others = {} THEN "writing" ELSE "overlapping"
     IN  calls' = [d \in Callers |-> IF d \in others \cup {c}
                                     THEN [calls[d] EXCEPT !.state = state] ELSE calls[d]]
  /\ cached' = [body |-> "torn", fresh |-> TRUE]
  /\ UNCHANGED <<index, damaged, switches>>

OpenFails(c) ==
  /\ calls[c].state = "fetched"
  /\ AnswerWith(c, calls[c].body)
  /\ UNCHANGED <<index, cached, damaged, switches>>

\* A body written beside another may be mixed with it.
WriteCache(c) ==
  /\ InTheFile(c)
  /\ \E whole \in BOOLEAN :
        /\ calls[c].state = "writing" => whole
        /\ cached' = [body |-> IF whole THEN calls[c].body ELSE "torn", fresh |-> TRUE]
  /\ damaged' = (calls[c].state = "overlapping" \/ calls[c].body = "prose")
  /\ AnswerWith(c, calls[c].body)
  /\ UNCHANGED <<index, switches>>

WriteFails(c) ==
  /\ InTheFile(c)
  /\ cached' = [body |-> "torn", fresh |-> TRUE]
  /\ damaged' = TRUE
  /\ AnswerWith(c, calls[c].body)
  /\ UNCHANGED <<index, switches>>

----------------------------------------------------------------------------
\* Whatever the callers were at ends with the daemon.
DaemonDies ==
  /\ damaged' = (damaged \/ \E c \in Callers : InTheFile(c))
  /\ calls' = [c \in Callers |-> Idle]
  /\ UNCHANGED <<index, cached, switches>>

\* The file grows older than INDEX_TTL.
CacheAges ==
  /\ cached.fresh /\ cached' = [cached EXCEPT !.fresh = FALSE]
  /\ UNCHANGED <<index, calls, damaged, switches>>

IndexChanges ==
  /\ switches < MaxSwitches /\ switches' = switches + 1
  /\ index' \in Successes \cup {"error", "unreachable"}
  /\ UNCHANGED <<cached, calls, damaged>>

CacheInit ==
  /\ index = "old" /\ cached = [body |-> "none", fresh |-> FALSE]
  /\ calls = [c \in Callers |-> Idle] /\ damaged = FALSE /\ switches = 0

CacheNext ==
  \/ \E c \in Callers :
        \/ \E refresh \in BOOLEAN : BeginFetch(c, refresh)
        \/ ReadFresh(c) \/ FetchFails(c) \/ FetchStale(c) \/ FetchNew(c)
        \/ OpenCache(c) \/ OpenFails(c) \/ WriteCache(c) \/ WriteFails(c)
  \/ DaemonDies \/ CacheAges \/ IndexChanges

CacheSpec == CacheInit /\ [][CacheNext]_cacheVars

----------------------------------------------------------------------------
CacheTypeOK ==
  /\ index \in Successes \cup {"error", "unreachable"}
  /\ cached \in [body : Kept, fresh : BOOLEAN]
  /\ cached.fresh => cached.body # "none"
  /\ calls \in [Callers -> [state : {"idle", "reading", "asking", "fetched", "writing", "overlapping"},
                            body : Successes \cup {"none"},
                            answer : Bodies \cup {"none", "failed"}]]
  /\ \A c \in Callers : calls[c].state = "fetched" \/ InTheFile(c) => calls[c].body # "none"
  /\ damaged \in BOOLEAN
  /\ switches \in 0 .. MaxSwitches

\* What is kept is an index, but for a write that is under way or has done damage.
IndexIsKept ==
  cached.body \in Bodies \cup {"none"} \/ damaged \/ \E c \in Callers : InTheFile(c)

CacheInv == CacheTypeOK /\ IndexIsKept

IsAnswered(c) == calls[c].state # "idle" /\ calls'[c].state = "idle"

\* What was once fetched bridges an outage: whoever asks is answered with an
\* index, and not with the page of an error, unless the service gave no answer at
\* all or a success that is no index; nothing was ever kept; or the file is being
\* written, or was left by a write that was cut short, ran beside another, or
\* kept a success that is no index (templates/mod.rs:543-575).  An error status
\* never changes what is kept, nor does a caller that fails.
OutagesAreBridged ==
  [][\A c \in Callers : IsAnswered(c) /\ calls'[c].answer = "failed" =>
        \/ calls[c].state = "asking" /\ index = "unreachable"
        \/ calls[c].body = "prose"
        \/ cached.body = "none" \/ damaged
        \/ \E d \in Callers : InTheFile(d)]_cacheVars
=============================================================================
