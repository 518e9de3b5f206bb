---------------------------- MODULE Connections ----------------------------
(***************************************************************************)
(* Requests over the socket and the lock every one of them needs           *)
(* (ipc/server.rs, ipc/client.rs, watch_catalog in daemon/systray.rs).     *)
(*                                                                         *)
(* A client sends one request at a time over its connection and reads one  *)
(* line. The daemon serves each connection in a task of its own: a line it *)
(* cannot parse is answered with an error, any other request goes through  *)
(* a number of stages and is then answered. A stage is a turn with the     *)
(* lock of the catalog, or a wait for something outside the daemon that    *)
(* has no bound of its own: the services, which a request asks again as    *)
(* long as they limit its rate, or the keyring, which may ask the user.    *)
(* The lock is a tokio Mutex, which serves its waiters in the order they   *)
(* came. The watcher of the tray holds it while it sleeps, and asks for it *)
(* again as soon as it has let it go.                                      *)
(***************************************************************************)
EXTENDS Naturals, Sequences, SequencesExt

CONSTANTS
  Clients,       \* the commands of the command line that are running
  MaxRequests,   \* bound: requests of one client
  MaxStages      \* the most stages a request goes through

ASSUME ConnectionsAssumption ==
  /\ MaxRequests \in Nat /\ MaxStages \in Nat
  /\ "watcher" \notin Clients

VARIABLES
  queue,    \* the tasks that hold (the first) or wait for the lock
  sent,     \* how many requests each client has sent
  waiting,  \* the clients that wait for a line
  outside,  \* the clients whose request waits for a service or the keyring
  line,     \* the request the daemon has of each client: none, or the stages it has left
  replies,  \* the lines on their way to each client: the numbers of the requests answered
  got,      \* the request each client takes its last line to answer: the number in it
  up        \* whether the daemon runs

connectionVars == <<queue, outside, sent, waiting, line, replies, got, up>>

Tasks == Clients \cup {"watcher"}
Bad == MaxStages + 1   \* a line that is no request
Silent == [c \in Clients |-> <<>>]

\* A slip: a holder that asks again at once has the lock before those who wait.
ReleasedUnfairly(again) == IF again THEN queue ELSE Tail(queue)

\* The holder lets the lock go; it may ask for it again.
Released(again) == IF again THEN Append(Tail(queue), Head(queue)) ELSE Tail(queue)

----------------------------------------------------------------------------
\* IpcClient::send, the first half.
Send(c) == /\ c \notin waiting /\ sent[c] < MaxRequests /\ up
           /\ sent' = [sent EXCEPT ![c] = @ + 1]
           /\ waiting' = waiting \cup {c}
           /\ \E request \in 0 .. Bad : line' = [line EXCEPT ![c] = <<request>>]
           /\ UNCHANGED <<queue, outside, replies, got, up>>

Reply(c) == /\ replies' = [replies EXCEPT ![c] = Append(@, sent[c])]
            /\ line' = [line EXCEPT ![c] = <<>>]

\* A slip: the handler runs on after the error has been answered.
ParseAndGoOn(c) ==
  /\ line[c] = <<Bad>>
  /\ replies' = [replies EXCEPT ![c] = Append(@, sent[c])]
  /\ line' = [line EXCEPT ![c] = <<0>>]
  /\ UNCHANGED <<queue, outside, sent, waiting, got, up>>

\* handle_connection, for a line that is no request and for one that is served.
Refuse(c) == /\ line[c] = <<Bad>>
             /\ Reply(c)
             /\ UNCHANGED <<queue, outside, sent, waiting, got, up>>

Waits(c) == c \in outside \/ \E i \in DOMAIN queue : queue[i] = c

Serve(c) == /\ line[c] # <<>> /\ line[c] # <<Bad>> /\ ~Waits(c)
            /\ IF line[c] = <<0>> THEN Reply(c) /\ UNCHANGED <<queue, outside>>
               ELSE /\ \/ queue' = Append(queue, c) /\ UNCHANGED outside
                       \/ outside' = outside \cup {c} /\ UNCHANGED queue
                    /\ UNCHANGED <<line, replies>>
            /\ UNCHANGED <<sent, waiting, got, up>>

StageEnds(c) == line' = [line EXCEPT ![c] = <<@[1] - 1>>]

\* One turn with the lock.
Turn(c) == /\ queue # <<>> /\ Head(queue) = c
           /\ StageEnds(c)
           /\ queue' = Released(FALSE)
           /\ UNCHANGED <<outside, sent, waiting, replies, got, up>>

\* What was waited for outside has come, be it an error.
ComeBack(c) == /\ c \in outside /\ outside' = outside \ {c}
               /\ StageEnds(c)
               /\ UNCHANGED <<queue, sent, waiting, replies, got, up>>

\* watch_catalog: the guard is dropped at the end of the loop, after the sleep, and the
\* next iteration asks for the lock at once.
WatcherTurns == /\ queue # <<>> /\ Head(queue) = "watcher"
                /\ queue' = Released(TRUE)
                /\ UNCHANGED <<outside, sent, waiting, line, replies, got, up>>

\* IpcClient::send, the second half: one line is read, and what else has arrived with it
\* goes with the reader. A daemon that is gone is read as an error.
Receive(c) == /\ c \in waiting
              /\ \/ /\ replies[c] # <<>>
                    /\ got' = [got EXCEPT ![c] = Head(replies[c])]
                    /\ replies' = [replies EXCEPT ![c] = <<>>]
                 \/ ~up /\ replies[c] = <<>> /\ UNCHANGED <<got, replies>>
              /\ waiting' = waiting \ {c}
              /\ UNCHANGED <<queue, outside, sent, line, up>>

\* The daemon stops with every request it serves.
DaemonStops == /\ up /\ up' = FALSE
               /\ queue' = <<>> /\ outside' = {} /\ line' = Silent
               /\ UNCHANGED <<sent, waiting, replies, got>>

ConnectionsInit ==
  /\ queue \in {<<>>, <<"watcher">>}   \* the tray is a feature of the build
  /\ sent = [c \in Clients |-> 0] /\ got = [c \in Clients |-> 0]
  /\ waiting = {} /\ outside = {} /\ line = Silent /\ replies = Silent /\ up = TRUE

ConnectionsNext ==
  \/ \E c \in Clients : Send(c) \/ Refuse(c) \/ Serve(c) \/ Turn(c) \/ ComeBack(c) \/ Receive(c)
  \/ WatcherTurns \/ DaemonStops

\* Every task runs, and the sleep of the watcher ends. Nothing is said of how long a
\* request is outside.
ConnectionsFairness ==
  /\ WF_connectionVars(WatcherTurns)
  /\ \A c \in Clients : WF_connectionVars(Refuse(c) \/ Serve(c) \/ Turn(c))
                        /\ WF_connectionVars(Receive(c))

----------------------------------------------------------------------------
ConnectionsTypeOK ==
  /\ queue \in Seq(Tasks) /\ IsInjective(queue)
  /\ sent \in [Clients -> 0 .. MaxRequests] /\ got \in [Clients -> 0 .. MaxRequests]
  /\ waiting \subseteq Clients /\ outside \subseteq Clients /\ up \in BOOLEAN
  /\ line \in [Clients -> {<<>>} \cup {<<n>> : n \in 0 .. Bad}]
  /\ replies \in [Clients -> {<<>>} \cup {<<n>> : n \in 0 .. MaxRequests}]

\* The answer a client reads is the answer to what it asked last: no request is answered
\* twice, and none on behalf of an earlier one (ipc/server.rs:43-71, client.rs:19-30).
AnswersMatch ==
  [][\A c \in Clients : c \in waiting \ waiting' /\ replies[c] # <<>> =>
       got'[c] = sent[c]]_connectionVars

\* An assumption about the services and the user, which the code does not enforce: a
\* rate limit is retried for as long as it lasts (civitai/mod.rs:74-91,
\* huggingface/mod.rs:207-212), and the keyring may wait for its prompt.
OutsideAnswers == \A c \in Clients : WF_connectionVars(ComeBack(c))

\* If what requests wait for outside the daemon comes at last, a client that waits gets
\* its answer or learns that the daemon is gone, although the watcher of the tray sleeps
\* with the lock in its hand and asks for it again at once: the order of the lock is what
\* keeps it from starving every request (systray.rs:216-238, ipc/server.rs:43-71).
EveryRequestEnds ==
  OutsideAnswers => \A c \in Clients : (c \in waiting) ~> (c \notin waiting)

----------------------------------------------------------------------------
(* Why the safety properties hold: the inductive invariant of              *)
(* ServicesProofs.                                                         *)

\* A request is with the daemon, or its answer is on the way, or nobody waits for it.
OneAtATime ==
  \A c \in Clients :
    /\ c \notin waiting => line[c] = <<>> /\ replies[c] = <<>>
    /\ line[c] # <<>> => replies[c] = <<>>
    /\ replies[c] \in {<<>>, <<sent[c]>>}

\* Who holds or waits for the lock, or waits outside, has stages left, and does one of the
\* two; with the daemon everything goes.
StagesAreLeft ==
  /\ \A c \in Clients : Waits(c) => \E n \in 1 .. MaxStages : line[c] = <<n>>
  /\ \A i \in DOMAIN queue : queue[i] \notin outside
  /\ ~up => queue = <<>> /\ outside = {} /\ line = Silent

ConnectionsInv == ConnectionsTypeOK /\ OneAtATime /\ StagesAreLeft

ConnectionsSpec == ConnectionsInit /\ [][ConnectionsNext]_connectionVars
=============================================================================
