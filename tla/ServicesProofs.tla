--------------------------- MODULE ServicesProofs ---------------------------
(***************************************************************************)
(* Theorems about the machines beside the queue (the connections, the      *)
(* clients of the outside services, the picker) and about the algorithms   *)
(* that arithmetic and sets decide: the pages of the list, the estimate of *)
(* memory, the labels and aliases of families, the placement of a file     *)
(* that is downloaded again.  They hold for any clients, pages, rows,      *)
(* sizes, labels and tables of aliases.  The last section puts these       *)
(* machines and the one of SettingsProofs beside each other.               *)
(***************************************************************************)
EXTENDS MCServices, SettingsProofs, SequenceTheorems, WellFoundedInduction

----------------------------------------------------------------------------
(* Queues.                                                                 *)

\* A task that waits for nothing may queue up.
LEMMA JoiningKeepsOrder ==
    ASSUME NEW S, NEW q \in Seq(S), IsInjective(q), NEW x \in S,
           \A i \in DOMAIN q : q[i] # x
    PROVE  /\ Append(q, x) \in Seq(S) /\ IsInjective(Append(q, x))
           /\ \A i \in DOMAIN Append(q, x) : Append(q, x)[i] = x \/ \E k \in DOMAIN q : Append(q, x)[i] = q[k]
<1>1. /\ Append(q, x) \in Seq(S) /\ Len(Append(q, x)) = Len(q) + 1 /\ Len(q) \in Nat
      /\ \A i \in 1 .. Len(q) : Append(q, x)[i] = q[i]
      /\ Append(q, x)[Len(q) + 1] = x
      /\ DOMAIN q = 1 .. Len(q) /\ DOMAIN Append(q, x) = 1 .. (Len(q) + 1)
  BY AppendProperties, LenProperties
<1>2. \A i \in 1 .. (Len(q) + 1) : i \in 1 .. Len(q) \/ i = Len(q) + 1
  BY <1>1
<1>3. ASSUME NEW a \in 1 .. (Len(q) + 1), NEW b \in 1 .. (Len(q) + 1),
             Append(q, x)[a] = Append(q, x)[b]
      PROVE  a = b
  BY <1>1, <1>2, <1>3 DEF IsInjective
<1> QED  BY <1>1, <1>2, <1>3 DEF IsInjective

\* The first leaves; the others keep their order.
LEMMA LeavingKeepsOrder ==
    ASSUME NEW S, NEW q \in Seq(S), IsInjective(q), q # <<>>
    PROVE  /\ Tail(q) \in Seq(S) /\ IsInjective(Tail(q))
           /\ \A i \in DOMAIN Tail(q) : Tail(q)[i] # Head(q) /\ \E k \in DOMAIN q : Tail(q)[i] = q[k]
           /\ Head(q) \in S /\ \E k \in DOMAIN q : Head(q) = q[k]
<1>1. /\ Tail(q) \in Seq(S) /\ Len(q) \in Nat /\ Len(q) >= 1 /\ Head(q) = q[1] /\ Head(q) \in S
      /\ DOMAIN q = 1 .. Len(q) /\ DOMAIN Tail(q) = 1 .. (Len(q) - 1)
      /\ \A i \in 1 .. (Len(q) - 1) : Tail(q)[i] = q[i + 1] /\ i + 1 \in 1 .. Len(q)
  BY HeadTailProperties, LenProperties, EmptySeq
<1>2. \A i \in 1 .. (Len(q) - 1) : i + 1 # 1
  BY <1>1
<1> QED  BY <1>1, <1>2 DEF IsInjective

----------------------------------------------------------------------------
(* Connections.                                                            *)

Lines == {<<>>} \cup {<<n>> : n \in 0 .. Bad}
Answers == {<<>>} \cup {<<n>> : n \in 0 .. MaxRequests}

\* What the invariant says of one client: a request is with the daemon, or its answer is
\* on the way, or nobody waits for it.
ClientOK(c) ==
    /\ line[c] \in Lines /\ replies[c] \in Answers /\ sent[c] \in 0 .. MaxRequests
    /\ c \notin waiting => line[c] = <<>> /\ replies[c] = <<>>
    /\ line[c] # <<>> => replies[c] = <<>>
    /\ replies[c] \in {<<>>, <<sent[c]>>}

QueueOK ==
    /\ queue \in Seq(Tasks) /\ IsInjective(queue) /\ outside \subseteq Clients
    /\ StagesAreLeft

TablesOK ==
    /\ sent \in [Clients -> 0 .. MaxRequests] /\ got \in [Clients -> 0 .. MaxRequests]
    /\ line \in [Clients -> Lines] /\ replies \in [Clients -> Answers]
    /\ waiting \subseteq Clients /\ up \in BOOLEAN

\* The invariant is about the tables, the lock, and each client.
LEMMA ConnectionsParts ==
    /\ ConnectionsInv <=> TablesOK /\ QueueOK /\ \A c \in Clients : ClientOK(c)
    /\ ConnectionsInv' <=> TablesOK' /\ QueueOK' /\ \A c \in Clients : ClientOK(c)'
  BY DEF ConnectionsInv, ConnectionsTypeOK, OneAtATime, TablesOK, QueueOK, ClientOK, Lines, Answers

\* A client nothing happens to.
LEMMA OtherClient ==
    ASSUME NEW c \in Clients, ClientOK(c), line'[c] = line[c], replies'[c] = replies[c],
           sent'[c] = sent[c], c \in waiting' <=> c \in waiting
    PROVE  ClientOK(c)'
  BY DEF ClientOK

\* A line is not nothing, and says one number.
LEMMA OneLine ==
    /\ \A n : <<n>> # <<>> /\ <<n>>[1] = n
    /\ \A m, n : <<m>> = <<n>> => m = n
  OBVIOUS

\* Whose request waits, for the lock or outside, has stages left.
LEMMA WaitingHaveStages ==
    ASSUME QueueOK, NEW c \in Clients, Waits(c)
    PROVE  /\ line[c] # <<>> /\ line[c] # <<0>> /\ line[c] # <<Bad>>
           /\ \E n \in 1 .. MaxStages : line[c] = <<n>>
<1>1. PICK n \in 1 .. MaxStages : line[c] = <<n>>
  BY DEF QueueOK, StagesAreLeft
<1>2. n # 0 /\ n # Bad
  BY <1>1, ConnectionsAssumption DEF Bad
<1> QED  BY <1>1, <1>2, OneLine

\* Lines that change change for clients whose request does not wait.
LEMMA OtherRequestsWait ==
    ASSUME QueueOK, UNCHANGED <<queue, outside, up>>, up,
           \A d \in Clients : Waits(d) => line'[d] = line[d]
    PROVE  QueueOK'
<1>1. \A d \in Clients : Waits(d)' <=> Waits(d)
  BY DEF Waits
<1> QED  BY <1>1 DEF QueueOK, StagesAreLeft

\* A request is sent when no other is.
LEMMA SendKeepsInv ==
    ASSUME ConnectionsInv, NEW c \in Clients, Send(c) PROVE ConnectionsInv'
<1>1. TablesOK /\ QueueOK /\ \A d \in Clients : ClientOK(d)
  BY ConnectionsParts
<1>2. PICK request \in 0 .. Bad : line' = [line EXCEPT ![c] = <<request>>]
  BY DEF Send
<1>3. /\ c \notin waiting /\ sent[c] < MaxRequests /\ up
      /\ sent' = [sent EXCEPT ![c] = @ + 1] /\ waiting' = waiting \cup {c}
      /\ UNCHANGED <<queue, outside, replies, got, up>>
  BY DEF Send
<1>4. <<request>> \in Lines
  BY DEF Lines
<1>5. TablesOK'
  <2>1. sent[c] + 1 \in 0 .. MaxRequests
    BY <1>1, <1>3, ConnectionsAssumption DEF TablesOK
  <2> QED  BY <1>1, <1>2, <1>3, <1>4, <2>1 DEF TablesOK
<1>6. QueueOK'
  <2>1. line[c] = <<>>
    BY <1>1, <1>3 DEF ClientOK
  <2>2. ~Waits(c)
    BY <1>1, <2>1, WaitingHaveStages
  <2>3. \A d \in Clients : Waits(d) => line'[d] = line[d]
    BY <1>1, <1>2, <2>2 DEF TablesOK
  <2> QED  BY <1>1, <1>3, <2>3, OtherRequestsWait
<1>7. \A d \in Clients : ClientOK(d)'
  <2>1. ClientOK(c)'
    <3>1. line'[c] = <<request>> /\ sent'[c] \in 0 .. MaxRequests /\ replies'[c] = <<>>
      BY <1>1, <1>2, <1>3, <1>5 DEF TablesOK, ClientOK
    <3>2. c \in waiting' /\ replies' = replies
      BY <1>3
    <3> QED  BY <1>4, <3>1, <3>2 DEF ClientOK, Answers
  <2>2. ASSUME NEW d \in Clients, d # c  PROVE ClientOK(d)'
    <3>1. line'[d] = line[d] /\ sent'[d] = sent[d]
      BY <1>1, <1>2, <1>3, <2>2 DEF TablesOK
    <3> QED  BY <1>1, <1>3, <2>2, <3>1, OtherClient
  <2> QED  BY <2>1, <2>2
<1> QED  BY <1>5, <1>6, <1>7, ConnectionsParts

\* The daemon answers a client whose request waits for nothing.
LEMMA ReplyKeepsInv ==
    ASSUME ConnectionsInv, NEW c \in Clients, Reply(c), line[c] # <<>>, ~Waits(c),
           UNCHANGED <<queue, outside, sent, waiting, got, up>>
    PROVE  ConnectionsInv'
<1>1. TablesOK /\ QueueOK /\ \A d \in Clients : ClientOK(d)
  BY ConnectionsParts
<1>2. replies[c] = <<>> /\ c \in waiting /\ sent[c] \in 0 .. MaxRequests
  BY <1>1 DEF ClientOK
<1>3. Append(<<>>, sent[c]) = <<sent[c]>> /\ <<sent[c]>> \in Answers
  BY <1>2 DEF Answers
<1>4. /\ replies' = [replies EXCEPT ![c] = <<sent[c]>>]
      /\ line' = [line EXCEPT ![c] = <<>>]
  BY <1>1, <1>2, <1>3 DEF Reply, TablesOK
<1>5. TablesOK'
  BY <1>1, <1>3, <1>4 DEF TablesOK, Lines
<1>6. QueueOK'
  <2>1. \A d \in Clients : Waits(d) => line'[d] = line[d]
    BY <1>1, <1>4 DEF TablesOK
  <2>2. up
    BY <1>1 DEF QueueOK, StagesAreLeft, Silent
  <2> QED  BY <1>1, <2>1, <2>2, OtherRequestsWait
<1>7. \A d \in Clients : ClientOK(d)'
  <2>1. ClientOK(c)'
    <3>1. line'[c] = <<>> /\ replies'[c] = <<sent[c]>> /\ sent'[c] = sent[c]
      BY <1>1, <1>4 DEF TablesOK
    <3> QED  BY <1>2, <1>3, <3>1 DEF ClientOK, Lines
  <2>2. ASSUME NEW d \in Clients, d # c  PROVE ClientOK(d)'
    <3>1. line'[d] = line[d] /\ replies'[d] = replies[d]
      BY <1>1, <1>4, <2>2 DEF TablesOK
    <3> QED  BY <1>1, <2>2, <3>1, OtherClient
  <2> QED  BY <2>1, <2>2
<1> QED  BY <1>5, <1>6, <1>7, ConnectionsParts

\* A line that is no request is answered at once.
LEMMA RefuseKeepsInv ==
    ASSUME ConnectionsInv, NEW c \in Clients, Refuse(c) PROVE ConnectionsInv'
<1>1. QueueOK
  BY ConnectionsParts
<1>2. line[c] = <<Bad>> /\ Reply(c) /\ UNCHANGED <<queue, outside, sent, waiting, got, up>>
  BY DEF Refuse
<1>3. line[c] # <<>>
  BY <1>2, OneLine
<1>4. ~Waits(c)
  BY <1>1, <1>2, WaitingHaveStages
<1> QED  BY <1>2, <1>3, <1>4, ReplyKeepsInv

\* Only the lock and the clients outside change.
LEMMA OthersKept ==
    ASSUME ConnectionsInv, UNCHANGED <<line, replies, sent, waiting, got, up>>, QueueOK'
    PROVE  ConnectionsInv'
<1>1. TablesOK /\ QueueOK /\ \A d \in Clients : ClientOK(d)
  BY ConnectionsParts
<1>2. TablesOK'
  BY <1>1 DEF TablesOK
<1>3. \A d \in Clients : ClientOK(d)'
  BY <1>1, OtherClient
<1> QED  BY <1>2, <1>3, ConnectionsParts

\* The lock is asked for behind all who wait for it; who waits outside does not ask.
LEMMA ServeKeepsInv ==
    ASSUME ConnectionsInv, NEW c \in Clients, Serve(c) PROVE ConnectionsInv'
<1>1. TablesOK /\ QueueOK /\ \A d \in Clients : ClientOK(d)
  BY ConnectionsParts
<1>2. /\ line[c] # <<>> /\ line[c] # <<Bad>> /\ ~Waits(c)
      /\ UNCHANGED <<sent, waiting, got, up>>
  BY DEF Serve
<1>3. CASE line[c] = <<0>>
  BY <1>2, <1>3, ReplyKeepsInv DEF Serve
<1>4. CASE line[c] # <<0>>
  <2>1. UNCHANGED <<line, replies>>
    BY <1>4 DEF Serve
  <2>2. up /\ \E n \in 1 .. MaxStages : line[c] = <<n>>
    <3>1. PICK n \in 0 .. Bad : line[c] = <<n>>
      BY <1>1, <1>2 DEF ClientOK, Lines
    <3>2. n # 0 /\ n # Bad
      BY <1>2, <1>4, <3>1
    <3>3. n \in 1 .. MaxStages
      BY <3>2, ConnectionsAssumption DEF Bad
    <3>4. up
      BY <1>1, <1>2 DEF QueueOK, StagesAreLeft, Silent
    <3> QED  BY <3>1, <3>3, <3>4
  <2>3. CASE queue' = Append(queue, c) /\ UNCHANGED outside
    <3>1. c \in Tasks /\ queue \in Seq(Tasks) /\ IsInjective(queue)
          /\ (\A i \in DOMAIN queue : queue[i] # c) /\ c \notin outside
      BY <1>1, <1>2 DEF QueueOK, Tasks, Waits
    <3>2. /\ Append(queue, c) \in Seq(Tasks) /\ IsInjective(Append(queue, c))
          /\ \A i \in DOMAIN Append(queue, c) :
               Append(queue, c)[i] = c \/ \E k \in DOMAIN queue : Append(queue, c)[i] = queue[k]
      BY <3>1, JoiningKeepsOrder
    <3>3. /\ queue' \in Seq(Tasks) /\ IsInjective(queue')
          /\ \A i \in DOMAIN queue' : queue'[i] = c \/ \E k \in DOMAIN queue : queue'[i] = queue[k]
      BY <2>3, <3>2
    <3>4. \A d \in Clients : Waits(d)' => d = c \/ Waits(d)
      BY <2>3, <3>3 DEF Waits
    <3>5. \A i \in DOMAIN queue' : queue'[i] \notin outside'
      BY <1>1, <2>3, <3>1, <3>3 DEF QueueOK, StagesAreLeft
    <3> QED  BY <1>1, <1>2, <2>1, <2>2, <2>3, <3>3, <3>4, <3>5, OthersKept DEF QueueOK, StagesAreLeft
  <2>4. CASE outside' = outside \cup {c} /\ UNCHANGED queue
    <3>1. \A d \in Clients : Waits(d)' => d = c \/ Waits(d)
      BY <2>4 DEF Waits
    <3>2. \A i \in DOMAIN queue' : queue'[i] \notin outside'
      BY <1>1, <1>2, <2>4 DEF QueueOK, StagesAreLeft, Waits
    <3> QED  BY <1>1, <1>2, <2>1, <2>2, <2>4, <3>1, <3>2, OthersKept DEF QueueOK, StagesAreLeft
  <2> QED  BY <1>4, <2>3, <2>4 DEF Serve
<1> QED  BY <1>3, <1>4

\* The holder of the lock lets it go and may queue up again.
LEMMA ReleasedKeepsOrder ==
    ASSUME QueueOK, queue # <<>>, NEW again \in BOOLEAN
    PROVE  /\ Released(again) \in Seq(Tasks) /\ IsInjective(Released(again))
           /\ Head(queue) \in Tasks /\ \E k \in DOMAIN queue : Head(queue) = queue[k]
           /\ \A i \in DOMAIN Released(again) :
                \/ again /\ Released(again)[i] = Head(queue)
                \/ /\ Released(again)[i] # Head(queue)
                   /\ \E k \in DOMAIN queue : Released(again)[i] = queue[k]
<1> DEFINE others == Tail(queue)
           first == Head(queue)
           longer == Append(others, first)
<1>1. queue \in Seq(Tasks) /\ IsInjective(queue)
  BY DEF QueueOK
<1>2. /\ others \in Seq(Tasks) /\ IsInjective(others)
      /\ \A i \in DOMAIN others : others[i] # first /\ \E k \in DOMAIN queue : others[i] = queue[k]
      /\ first \in Tasks /\ \E k \in DOMAIN queue : first = queue[k]
  BY <1>1, LeavingKeepsOrder
<1>3. /\ Released(TRUE) = longer /\ Released(FALSE) = others
      /\ Head(queue) = first
  BY DEF Released
<1>4. /\ longer \in Seq(Tasks) /\ IsInjective(longer)
      /\ \A i \in DOMAIN longer : longer[i] = first \/ \E k \in DOMAIN others : longer[i] = others[k]
  <2>1. ASSUME NEW q \in Seq(Tasks), IsInjective(q), NEW x \in Tasks, \A i \in DOMAIN q : q[i] # x
        PROVE  /\ Append(q, x) \in Seq(Tasks) /\ IsInjective(Append(q, x))
               /\ \A i \in DOMAIN Append(q, x) :
                    Append(q, x)[i] = x \/ \E k \in DOMAIN q : Append(q, x)[i] = q[k]
    BY <2>1, JoiningKeepsOrder
  <2> HIDE DEF others, first
  <2> QED  BY <1>2, <2>1
<1> HIDE DEF others, first, longer
<1>5. CASE again
  <2>1. Released(again) = longer
    BY <1>3, <1>5
  <2>2. \A i \in DOMAIN longer : \/ longer[i] = first
                                 \/ longer[i] # first /\ \E k \in DOMAIN queue : longer[i] = queue[k]
    BY <1>2, <1>4
  <2>3. Released(again) \in Seq(Tasks) /\ IsInjective(Released(again))
    BY <1>4, <2>1
  <2>4. /\ Head(queue) \in Tasks /\ \E k \in DOMAIN queue : Head(queue) = queue[k]
    BY <1>2, <1>3
  <2>5. ASSUME NEW i \in DOMAIN Released(again)
        PROVE  \/ again /\ Released(again)[i] = Head(queue)
               \/ /\ Released(again)[i] # Head(queue)
                  /\ \E k \in DOMAIN queue : Released(again)[i] = queue[k]
    BY <1>3, <1>5, <2>1, <2>2
  <2> QED  BY <2>3, <2>4, <2>5
<1>6. CASE ~again
  <2>1. Released(again) = others
    BY <1>3, <1>6
  <2> QED  BY <1>2, <1>3, <2>1
<1> QED  BY <1>5, <1>6

\* A stage of a request that waits ends, and it waits no more.
LEMMA StageKeepsInv ==
    ASSUME ConnectionsInv, NEW c \in Clients, Waits(c), StageEnds(c),
           UNCHANGED <<sent, waiting, replies, got, up>>,
           queue' \in Seq(Tasks), IsInjective(queue'), outside' \subseteq outside,
           \A i \in DOMAIN queue' : \E k \in DOMAIN queue : queue'[i] = queue[k],
           ~Waits(c)'
    PROVE  ConnectionsInv'
<1>1. TablesOK /\ QueueOK /\ \A d \in Clients : ClientOK(d)
  BY ConnectionsParts
<1>2. PICK n \in 1 .. MaxStages : line[c] = <<n>>
  BY <1>1, WaitingHaveStages
<1>3. n - 1 \in 0 .. Bad
  BY ConnectionsAssumption DEF Bad
<1>4. line' = [line EXCEPT ![c] = <<n - 1>>] /\ line[c] # <<>>
  BY <1>2, OneLine DEF StageEnds
<1>5. up
  BY <1>1, <1>4 DEF QueueOK, StagesAreLeft, Silent
<1>6. /\ line'[c] = <<n - 1>> /\ <<n - 1>> \in Lines
      /\ \A d \in Clients : d # c => line'[d] = line[d]
  BY <1>1, <1>3, <1>4 DEF TablesOK, Lines
<1>7. TablesOK'
  BY <1>1, <1>4, <1>6 DEF TablesOK
<1>8. QueueOK'
  <2>1. \A d \in Clients : Waits(d)' => d # c /\ Waits(d)
    BY DEF Waits
  <2>2. \A i \in DOMAIN queue' : queue'[i] \notin outside'
    BY <1>1 DEF QueueOK, StagesAreLeft
  <2>3. \A d \in Clients : Waits(d)' => \E m \in 1 .. MaxStages : line'[d] = <<m>>
    BY <1>1, <1>6, <2>1 DEF QueueOK, StagesAreLeft
  <2> QED  BY <1>1, <1>5, <2>2, <2>3 DEF QueueOK, StagesAreLeft
<1>9. \A d \in Clients : ClientOK(d)'
  <2>1. ClientOK(c)'
    <3>1. c \in waiting /\ replies[c] = <<>> /\ sent[c] \in 0 .. MaxRequests
      BY <1>1, <1>4 DEF ClientOK
    <3> QED  BY <1>6, <3>1 DEF ClientOK, Answers
  <2>2. ASSUME NEW d \in Clients, d # c  PROVE ClientOK(d)'
    BY <1>1, <1>6, <2>2, OtherClient
  <2> QED  BY <2>1, <2>2
<1> QED  BY <1>7, <1>8, <1>9, ConnectionsParts

\* The holder of the lock has its turn and lets it go.
LEMMA TurnKeepsInv ==
    ASSUME ConnectionsInv, NEW c \in Clients, Turn(c) PROVE ConnectionsInv'
<1>1. QueueOK
  BY ConnectionsParts
<1>2. /\ queue # <<>> /\ Head(queue) = c /\ queue' = Released(FALSE) /\ StageEnds(c)
      /\ UNCHANGED <<outside, sent, waiting, replies, got, up>>
  BY DEF Turn
<1>3. /\ queue' \in Seq(Tasks) /\ IsInjective(queue')
      /\ \E k \in DOMAIN queue : c = queue[k]
      /\ \A i \in DOMAIN queue' : queue'[i] # c /\ \E k \in DOMAIN queue : queue'[i] = queue[k]
  BY <1>1, <1>2, ReleasedKeepsOrder
<1>4. Waits(c) /\ c \notin outside
  BY <1>1, <1>3 DEF Waits, QueueOK, StagesAreLeft
<1>5. ~Waits(c)'
  BY <1>2, <1>3, <1>4 DEF Waits
<1> QED  BY <1>2, <1>3, <1>4, <1>5, StageKeepsInv

\* What a request waited for outside has come.
LEMMA ComeBackKeepsInv ==
    ASSUME ConnectionsInv, NEW c \in Clients, ComeBack(c) PROVE ConnectionsInv'
<1>1. QueueOK
  BY ConnectionsParts
<1>2. /\ c \in outside /\ outside' = outside \ {c} /\ StageEnds(c)
      /\ UNCHANGED <<queue, sent, waiting, replies, got, up>>
  BY DEF ComeBack
<1>3. Waits(c) /\ ~Waits(c)'
  BY <1>1, <1>2 DEF Waits, QueueOK, StagesAreLeft
<1>4. queue' \in Seq(Tasks) /\ IsInjective(queue')
  BY <1>1, <1>2 DEF QueueOK
<1>5. \A i \in DOMAIN queue' : \E k \in DOMAIN queue : queue'[i] = queue[k]
  BY <1>2
<1> QED  BY <1>2, <1>3, <1>4, <1>5, StageKeepsInv

\* The watcher goes to the end of the queue.
LEMMA WatcherKeepsInv ==
    ASSUME ConnectionsInv, WatcherTurns PROVE ConnectionsInv'
<1>1. TablesOK /\ QueueOK /\ \A d \in Clients : ClientOK(d)
  BY ConnectionsParts
<1>2. /\ queue # <<>> /\ Head(queue) = "watcher" /\ queue' = Released(TRUE)
      /\ UNCHANGED <<outside, sent, waiting, line, replies, got, up>>
  BY DEF WatcherTurns
<1>3. /\ queue' \in Seq(Tasks) /\ IsInjective(queue')
      /\ \A i \in DOMAIN queue' : \E k \in DOMAIN queue : queue'[i] = queue[k]
  BY <1>1, <1>2, ReleasedKeepsOrder
<1>4. up
  BY <1>1, <1>2 DEF QueueOK, StagesAreLeft
<1>5. \A d \in Clients : Waits(d)' => Waits(d)
  BY <1>2, <1>3 DEF Waits
<1>6. QueueOK'
  BY <1>1, <1>2, <1>3, <1>4, <1>5 DEF QueueOK, StagesAreLeft
<1> QED  BY <1>2, <1>6, OthersKept

\* Who has read its line waits for none, and none is left.
LEMMA ReceiveKeepsInv ==
    ASSUME ConnectionsInv, NEW c \in Clients, Receive(c)
    PROVE  ConnectionsInv' /\ (replies[c] # <<>> => got'[c] = sent[c])
<1>1. TablesOK /\ QueueOK /\ \A d \in Clients : ClientOK(d)
  BY ConnectionsParts
<1>2. waiting' = waiting \ {c} /\ UNCHANGED <<queue, outside, sent, line, up>> /\ c \in waiting
  BY DEF Receive
<1>3. /\ \/ /\ replies[c] = <<sent[c]>> /\ got' = [got EXCEPT ![c] = sent[c]]
            /\ line[c] = <<>>
         \/ ~up /\ replies[c] = <<>> /\ UNCHANGED <<got, replies>>
      /\ replies' = [replies EXCEPT ![c] = <<>>]
  <2>1. CASE replies[c] # <<>>
    <3>1. /\ got' = [got EXCEPT ![c] = Head(replies[c])]
          /\ replies' = [replies EXCEPT ![c] = <<>>]
      BY <2>1 DEF Receive
    <3>2. replies[c] = <<sent[c]>> /\ line[c] = <<>>
      BY <1>1, <2>1 DEF ClientOK
    <3>3. Head(<<sent[c]>>) = sent[c]
      OBVIOUS
    <3> QED  BY <3>1, <3>2, <3>3
  <2>2. CASE replies[c] = <<>>
    <3>1. ~up /\ UNCHANGED <<got, replies>>
      BY <2>2 DEF Receive
    <3> QED  BY <1>1, <2>2, <3>1 DEF TablesOK
  <2> QED  BY <2>1, <2>2
<1>4. line[c] = <<>>
  BY <1>1, <1>3 DEF QueueOK, StagesAreLeft, Silent
<1>5. replies'[c] = <<>> /\ \A d \in Clients : d # c => replies'[d] = replies[d]
  BY <1>1, <1>3 DEF TablesOK
<1>6. sent[c] \in 0 .. MaxRequests
  BY <1>1 DEF TablesOK
<1>7. TablesOK'
  <2>1. got' \in [Clients -> 0 .. MaxRequests]
    BY <1>1, <1>3, <1>6 DEF TablesOK
  <2> QED  BY <1>1, <1>2, <1>3, <2>1 DEF TablesOK, Answers
<1>8. QueueOK'
  BY <1>1, <1>2 DEF QueueOK, StagesAreLeft, Waits
<1>9. \A d \in Clients : ClientOK(d)'
  <2>1. ClientOK(c)'
    BY <1>2, <1>4, <1>5, <1>6 DEF ClientOK, Lines, Answers
  <2>2. ASSUME NEW d \in Clients, d # c  PROVE ClientOK(d)'
    <3>1. d \in waiting' <=> d \in waiting
      BY <1>2, <2>2
    <3> QED  BY <1>1, <1>2, <1>5, <2>2, <3>1, OtherClient
  <2> QED  BY <2>1, <2>2
<1>10. replies[c] # <<>> => got'[c] = sent[c]
  BY <1>1, <1>3 DEF TablesOK
<1> QED  BY <1>7, <1>8, <1>9, <1>10, ConnectionsParts

\* With the daemon go the lock and what it was asked; what it has answered arrives.
LEMMA SilenceKeepsInv ==
    ASSUME ConnectionsInv, DaemonStops PROVE ConnectionsInv'
<1>1. TablesOK /\ QueueOK /\ \A d \in Clients : ClientOK(d)
  BY ConnectionsParts
<1>2. /\ up' = FALSE /\ queue' = <<>> /\ outside' = {} /\ line' = Silent
      /\ UNCHANGED <<sent, waiting, replies, got>>
  BY DEF DaemonStops
<1>3. \A d \in Clients : line'[d] = <<>> /\ <<>> \in Lines
  BY <1>2 DEF Silent, Lines
<1>4. QueueOK'
  <2>1. queue' \in Seq(Tasks) /\ DOMAIN queue' = {}
    BY <1>2
  <2> QED  BY <1>2, <2>1 DEF QueueOK, StagesAreLeft, Waits, IsInjective
<1>5. TablesOK'
  BY <1>1, <1>2, <1>3 DEF TablesOK, Silent
<1>6. \A d \in Clients : ClientOK(d)'
  BY <1>1, <1>2, <1>3 DEF ClientOK
<1> QED  BY <1>4, <1>5, <1>6, ConnectionsParts

\* Nothing is asked at first, and the watcher may have the lock.
LEMMA ConnectionsStart == ConnectionsInit => ConnectionsInv
<1> SUFFICES ASSUME ConnectionsInit PROVE ConnectionsInv
  OBVIOUS
<1>1. /\ queue \in {<<>>, <<"watcher">>} /\ waiting = {} /\ outside = {} /\ up = TRUE
      /\ sent = [c \in Clients |-> 0] /\ got = [c \in Clients |-> 0]
      /\ line = Silent /\ replies = Silent /\ <<>> \in Lines /\ <<>> \in Answers
      /\ MaxRequests \in Nat
  BY ConnectionsAssumption DEF ConnectionsInit, Lines, Answers
<1>2. QueueOK
  <2>1. CASE queue = <<>>
    <3>1. queue \in Seq(Tasks) /\ DOMAIN queue = {}
      BY <2>1
    <3> QED  BY <1>1, <3>1 DEF QueueOK, StagesAreLeft, Waits, IsInjective
  <2>2. CASE queue = <<"watcher">>
    <3>1. "watcher" \in Tasks
      BY DEF Tasks
    <3>2. queue \in Seq(Tasks) /\ DOMAIN queue = {1} /\ queue[1] = "watcher"
      BY <2>2, <3>1
    <3>3. \A c \in Clients : ~Waits(c)
      BY <1>1, <3>2, ConnectionsAssumption DEF Waits
    <3> QED  BY <1>1, <3>2, <3>3 DEF QueueOK, StagesAreLeft, IsInjective
  <2> QED  BY <1>1, <2>1, <2>2
<1>3. TablesOK
  BY <1>1 DEF TablesOK, Silent
<1>4. \A c \in Clients : ClientOK(c)
  BY <1>1 DEF ClientOK, Silent
<1> QED  BY <1>2, <1>3, <1>4, ConnectionsParts

\* Whatever the clients, the watcher and the daemon do.
LEMMA ConnectionsStep ==
    ConnectionsInv /\ [ConnectionsNext]_connectionVars => ConnectionsInv'
<1> SUFFICES ASSUME ConnectionsInv, [ConnectionsNext]_connectionVars PROVE ConnectionsInv'
  OBVIOUS
<1>1. CASE \E c \in Clients : Send(c) \/ Refuse(c) \/ Serve(c) \/ Turn(c) \/ ComeBack(c) \/ Receive(c)
  BY <1>1, SendKeepsInv, RefuseKeepsInv, ServeKeepsInv, TurnKeepsInv, ComeBackKeepsInv, ReceiveKeepsInv
<1>2. CASE WatcherTurns
  BY <1>2, WatcherKeepsInv
<1>3. CASE DaemonStops
  BY <1>3, SilenceKeepsInv
<1>4. CASE UNCHANGED connectionVars
  BY <1>4 DEF connectionVars, ConnectionsInv, ConnectionsTypeOK, OneAtATime, StagesAreLeft, Waits
<1> QED  BY <1>1, <1>2, <1>3, <1>4 DEF ConnectionsNext

\* The clients, the queue of the lock and the lines on their way, in every state and for
\* any number of clients, requests and stages (ipc/server.rs:43-71, ipc/client.rs:19-30).
THEOREM ConnectionsInvariant == ConnectionsSpec => []ConnectionsInv
  BY ConnectionsStart, ConnectionsStep, PTL DEF ConnectionsSpec

\* The answer a client reads is the answer to what it asked last, however many clients
\* wait for the lock beside it (ipc/server.rs:43-71, ipc/client.rs:19-30).
THEOREM AnswersAreToTheLast == ConnectionsSpec => AnswersMatch
<1> DEFINE Step == \A c \in Clients : c \in waiting \ waiting' /\ replies[c] # <<>> => got'[c] = sent[c]
<1>1. ConnectionsInv /\ [ConnectionsNext]_connectionVars => [Step]_connectionVars
  <2> SUFFICES ASSUME ConnectionsInv, ConnectionsNext, NEW c \in Clients,
                      c \in waiting, c \notin waiting', replies[c] # <<>>
               PROVE  got'[c] = sent[c]
    OBVIOUS
  <2>1. ~DaemonStops /\ ~WatcherTurns
    BY DEF DaemonStops, WatcherTurns
  <2>2. ASSUME NEW d \in Clients, Send(d) \/ Refuse(d) \/ Serve(d) \/ Turn(d) \/ ComeBack(d)  PROVE FALSE
    BY <2>2 DEF Send, Refuse, Serve, Turn, ComeBack
  <2>3. PICK d \in Clients : Receive(d)
    BY <2>1, <2>2 DEF ConnectionsNext
  <2>4. d = c
    BY <2>3 DEF Receive
  <2> QED  BY <2>3, <2>4, ReceiveKeepsInv
<1>2. ConnectionsSpec => []ConnectionsInv
  BY ConnectionsInvariant
<1> QED  BY <1>1, <1>2, PTL DEF ConnectionsSpec, AnswersMatch

----------------------------------------------------------------------------
(* The clients of the services.                                            *)

\* A set of numbers that is not empty has a least.
LEMMA LeastNumber ==
    ASSUME NEW S \in SUBSET Nat, S # {} PROVE \E m \in S : \A k \in S : m <= k
<1>1. PICK m \in S : \A k \in S : ~(<<k, m>> \in OpToRel(<, Nat))
  BY NatLessThanWellFounded, WFMin, Zenon
<1>2. \A k \in S : ~(k < m)
  BY <1>1 DEF OpToRel
<1> QED  BY <1>2

\* The files of the first pages, as FlattenSeq puts them together.
PagesUpTo[i \in 1 .. Len(Pages)] == IF i = 1 THEN Pages[i] ELSE PagesUpTo[i - 1] \o Pages[i]

AddsUp(f, n) == f = [i \in 1 .. n |-> IF i = 1 THEN Pages[i] ELSE f[i - 1] \o Pages[i]]

\* There is a function of the kind, for any number of pages.
LEMMA SomethingAddsUp == \E f : AddsUp(f, Len(Pages))
<1> DEFINE without == {n \in 1 .. Len(Pages) : ~\E f : AddsUp(f, n)}
<1>1. Len(Pages) \in Nat /\ Len(Pages) >= 1
  BY FetchingAssumption, LenProperties, EmptySeq
<1>2. SUFFICES without = {}
  BY <1>1
<1>3. SUFFICES ASSUME without # {} PROVE FALSE
  OBVIOUS
<1>4. PICK m \in without : \A k \in without : m <= k
  <2>1. without \in SUBSET Nat
    BY <1>1
  <2> HIDE DEF without
  <2> QED  BY <1>3, <2>1, LeastNumber
<1>5. m \in 1 .. Len(Pages)
  OBVIOUS
<1>6. CASE m = 1
  <2>1. AddsUp([i \in 1 .. 1 |-> Pages[1]], 1)
    BY DEF AddsUp
  <2> QED  BY <1>6, <2>1
<1>7. CASE m # 1
  <2>1. m - 1 \in 1 .. Len(Pages) /\ ~(m <= m - 1)
    BY <1>1, <1>5, <1>7
  <2>2. m - 1 \notin without
    BY <1>4, <2>1
  <2>3. PICK f : AddsUp(f, m - 1)
    BY <2>1, <2>2
  <2> DEFINE g == [i \in 1 .. m |-> IF i = m THEN f[m - 1] \o Pages[m] ELSE f[i]]
  <2>4. ASSUME NEW i \in 1 .. m
        PROVE  g[i] = IF i = 1 THEN Pages[i] ELSE g[i - 1] \o Pages[i]
    <3>1. CASE i = m
      <4>1. m \in 1 .. m /\ m - 1 \in 1 .. m /\ m - 1 # m
        BY <1>1, <1>5, <1>7
      <4>2. g[m] = f[m - 1] \o Pages[m] /\ g[m - 1] = f[m - 1]
        BY <4>1
      <4> QED  BY <1>7, <3>1, <4>2
    <3>2. CASE i # m
      <4>1. i \in 1 .. (m - 1) /\ g[i] = f[i] /\ (i # 1 => i - 1 \in 1 .. m /\ i - 1 # m /\ g[i - 1] = f[i - 1])
        BY <1>5, <2>4, <3>2
      <4>2. f[i] = IF i = 1 THEN Pages[i] ELSE f[i - 1] \o Pages[i]
        BY <2>3, <4>1 DEF AddsUp
      <4> QED  BY <4>1, <4>2
    <3> QED  BY <3>1, <3>2
  <2>5. g = [i \in 1 .. m |-> IF i = 1 THEN Pages[i] ELSE g[i - 1] \o Pages[i]]
    <3>1. g = [i \in 1 .. m |-> g[i]]
      OBVIOUS
    <3> HIDE DEF g
    <3> QED  BY <2>4, <3>1
  <2>6. AddsUp(g, m)
    BY <2>5 DEF AddsUp
  <2> QED  BY <2>6
<1> QED  BY <1>6, <1>7

\* The files of the first pages are those of one page less and the page.
LEMMA PagesAddUp ==
    /\ Len(Pages) \in Nat /\ Len(Pages) >= 1
    /\ \A i \in 1 .. Len(Pages) : PagesUpTo[i] = IF i = 1 THEN Pages[i] ELSE PagesUpTo[i - 1] \o Pages[i]
    /\ FlattenSeq(Pages) = PagesUpTo[Len(Pages)]
<1>1. Len(Pages) \in Nat /\ Len(Pages) >= 1
  BY FetchingAssumption, LenProperties, EmptySeq
<1>2. PagesUpTo = CHOOSE f : AddsUp(f, Len(Pages))
  BY DEF PagesUpTo, AddsUp
<1>3. AddsUp(PagesUpTo, Len(Pages))
  BY <1>2, SomethingAddsUp
<1>4. \A i \in 1 .. Len(Pages) : PagesUpTo[i] = IF i = 1 THEN Pages[i] ELSE PagesUpTo[i - 1] \o Pages[i]
  BY <1>3 DEF AddsUp
<1>5. FlattenSeq(Pages) = PagesUpTo[Len(Pages)]
  BY <1>1 DEF FlattenSeq, PagesUpTo
<1> QED  BY <1>1, <1>4, <1>5

\* The files a listing has are those of the pages before the one it asks for.
PagesAreJoined ==
    /\ listing.state \in {"asking", "waiting"} =>
         listing.files = IF listing.page = 1 THEN <<>> ELSE PagesUpTo[listing.page - 1]
    /\ ListingIsWhole

FetchingInv == FetchingTypeOK /\ PagesAreJoined

\* The listing begins with no file.
LEMMA FetchingStart == FetchingInit => FetchingInv
<1> SUFFICES ASSUME FetchingInit PROVE FetchingInv
  OBVIOUS
<1>1. listing = Asked0 /\ 1 \in DOMAIN Pages /\ MaxPower \in Nat /\ MaxChanges \in Nat
  BY PagesAddUp, FetchingAssumption, LenProperties DEF FetchingInit
<1>2. Asked0 \in [state : {"asking", "waiting", "done", "failed"}, page : DOMAIN Pages,
                  attempts : 0 .. MaxPower, files : Seq(Listed)]
  BY <1>1 DEF Asked0
<1>3. FetchingTypeOK
  BY <1>1, <1>2 DEF FetchingInit, FetchingTypeOK
<1> QED  BY <1>1, <1>3 DEF FetchingInv, PagesAreJoined, ListingIsWhole, Asked0

\* What a page adds to the listing.
LEMMA PageKeepsInv ==
    ASSUME FetchingInv, ListPage PROVE FetchingInv'
<1> DEFINE files == listing.files \o Pages[listing.page]
<1>1. /\ listing \in [state : {"asking", "waiting", "done", "failed"}, page : DOMAIN Pages,
                      attempts : 0 .. MaxPower, files : Seq(Listed)]
      /\ DOMAIN Pages = 1 .. Len(Pages) /\ Pages[listing.page] \in Seq(Listed)
      /\ listing.state = "asking" /\ MaxPower \in Nat
      /\ UNCHANGED <<served, changes>>
  BY FetchingAssumption, LenProperties, ElementOfSeq DEF FetchingInv, FetchingTypeOK, ListPage
<1>2. listing' = IF listing.page = Len(Pages)
                 THEN [listing EXCEPT !.state = "done", !.files = files]
                 ELSE [listing EXCEPT !.page = @ + 1, !.attempts = 0, !.files = files]
  BY DEF ListPage
<1>3. files \in Seq(Listed) /\ files = PagesUpTo[listing.page]
  <2>1. listing.page \in 1 .. Len(Pages) /\ listing.files \in Seq(Listed)
    BY <1>1
  <2>2. files \in Seq(Listed)
    BY <1>1, <2>1, ConcatProperties
  <2>3. CASE listing.page = 1
    <3>1. listing.files = <<>> /\ PagesUpTo[1] = Pages[1]
      BY <1>1, <2>1, <2>3, PagesAddUp DEF FetchingInv, PagesAreJoined
    <3> QED  BY <1>1, <2>2, <2>3, <3>1, ConcatEmptySeq
  <2>4. CASE listing.page # 1
    BY <1>1, <2>1, <2>2, <2>4, PagesAddUp DEF FetchingInv, PagesAreJoined
  <2> QED  BY <2>3, <2>4
<1> HIDE DEF files
<1>4. CASE listing.page = Len(Pages)
  <2>1. listing' = [listing EXCEPT !.state = "done", !.files = files]
    BY <1>2, <1>4
  <2>2. listing'.state = "done" /\ listing'.files = files /\ files = FlattenSeq(Pages)
    BY <1>1, <1>3, <1>4, <2>1, PagesAddUp
  <2>3. FetchingTypeOK'
    BY <1>1, <1>3, <2>1 DEF FetchingInv, FetchingTypeOK
  <2> QED  BY <2>2, <2>3 DEF FetchingInv, PagesAreJoined, ListingIsWhole
<1>5. CASE listing.page # Len(Pages)
  <2>1. listing' = [listing EXCEPT !.page = listing.page + 1, !.attempts = 0, !.files = files]
    BY <1>2, <1>5
  <2>2. listing.page + 1 \in DOMAIN Pages /\ listing.page + 1 # 1 /\ listing.page + 1 - 1 = listing.page
    BY <1>1, <1>5, PagesAddUp
  <2>3. listing'.state = "asking" /\ listing'.files = files /\ listing'.page = listing.page + 1
    BY <1>1, <2>1
  <2>4. FetchingTypeOK'
    <3>1. 0 \in 0 .. MaxPower
      BY <1>1
    <3>2. listing' \in [state : {"asking", "waiting", "done", "failed"}, page : DOMAIN Pages,
                        attempts : 0 .. MaxPower, files : Seq(Listed)]
      BY <1>1, <1>3, <2>1, <2>2, <3>1
    <3> QED  BY <1>1, <3>2 DEF FetchingInv, FetchingTypeOK
  <2>5. listing'.files = IF listing'.page = 1 THEN <<>> ELSE PagesUpTo[listing'.page - 1]
    <3>1. listing'.page - 1 = listing.page /\ listing'.page # 1
      BY <1>1, <2>2, <2>3
    <3> QED  BY <1>3, <2>3, <3>1
  <2>6. PagesAreJoined'
    BY <2>3, <2>5 DEF PagesAreJoined, ListingIsWhole
  <2> QED  BY <2>4, <2>6 DEF FetchingInv
<1> QED  BY <1>4, <1>5

\* Limits and failures of the listing.
LEMMA LimitsKeepInv ==
    ASSUME FetchingInv, ListLimited \/ ListAgain \/ ListFails PROVE FetchingInv'
<1>1. /\ listing \in [state : {"asking", "waiting", "done", "failed"}, page : DOMAIN Pages,
                      attempts : 0 .. MaxPower, files : Seq(Listed)]
      /\ MaxPower \in Nat
      /\ UNCHANGED <<served, changes>>
  BY FetchingAssumption DEF FetchingInv, FetchingTypeOK, ListLimited, ListAgain, ListFails
<1>2. CASE ListLimited
  <2>1. PICK n \in 0 .. MaxPower :
          listing' = [listing EXCEPT !.state = "waiting", !.attempts = n]
    <3>1. (IF listing.attempts = MaxPower THEN listing.attempts ELSE listing.attempts + 1) \in 0 .. MaxPower
      BY <1>1
    <3> QED  BY <1>2, <3>1 DEF ListLimited
  <2>2. /\ listing'.state = "waiting" /\ listing'.page = listing.page
        /\ listing'.files = listing.files /\ listing.state = "asking"
    BY <1>1, <1>2, <2>1 DEF ListLimited
  <2>3. FetchingTypeOK'
    BY <1>1, <2>1 DEF FetchingInv, FetchingTypeOK
  <2> QED  BY <2>2, <2>3 DEF FetchingInv, PagesAreJoined, ListingIsWhole
<1>3. CASE ListAgain
  <2>1. listing' = [listing EXCEPT !.state = "asking"] /\ listing.state = "waiting"
    BY <1>3 DEF ListAgain
  <2>2. /\ listing'.state = "asking" /\ listing'.page = listing.page
        /\ listing'.files = listing.files
    BY <1>1, <2>1
  <2>3. FetchingTypeOK'
    BY <1>1, <2>1 DEF FetchingInv, FetchingTypeOK
  <2> QED  BY <2>1, <2>2, <2>3 DEF FetchingInv, PagesAreJoined, ListingIsWhole
<1>4. CASE ListFails
  <2>1. listing' = [listing EXCEPT !.state = "failed", !.files = <<>>]
    BY <1>4 DEF ListFails
  <2>2. listing'.state = "failed" /\ <<>> \in Seq(Listed)
    BY <1>1, <2>1
  <2>3. FetchingTypeOK'
    BY <1>1, <2>1, <2>2 DEF FetchingInv, FetchingTypeOK
  <2> QED  BY <2>2, <2>3 DEF FetchingInv, PagesAreJoined, ListingIsWhole
<1> QED  BY <1>2, <1>3, <1>4

\* The service changes, the listing does not.
LEMMA ChangeKeepsInv ==
    ASSUME FetchingInv, ServiceChanges PROVE FetchingInv'
<1>1. FetchingTypeOK'
  BY FetchingAssumption DEF FetchingInv, FetchingTypeOK, ServiceChanges
<1>2. listing' = listing
  BY DEF ServiceChanges
<1> QED  BY <1>1, <1>2 DEF FetchingInv, PagesAreJoined, ListingIsWhole

\* Whatever the service does.
LEMMA FetchingStep == FetchingInv /\ [FetchingNext]_fetchingVars => FetchingInv'
<1> SUFFICES ASSUME FetchingInv, [FetchingNext]_fetchingVars PROVE FetchingInv'
  OBVIOUS
<1>1. CASE UNCHANGED fetchingVars
  BY <1>1 DEF fetchingVars, FetchingInv, FetchingTypeOK, PagesAreJoined, ListingIsWhole
<1> QED  BY <1>1, PageKeepsInv, LimitsKeepInv, ChangeKeepsInv DEF FetchingNext

\* What a listing is made of, for any pages (huggingface/mod.rs:194-241).
THEOREM FetchingInvariant == FetchingSpec => []FetchingTypeOK
<1>1. FetchingInv => FetchingTypeOK
  BY DEF FetchingInv
<1> QED  BY <1>1, FetchingStart, FetchingStep, PTL DEF FetchingSpec

\* A listing that ends well is the whole directory, for any number of pages and files and
\* wherever the limits were hit (huggingface/mod.rs:194-241).
THEOREM ListingsAreWhole == FetchingSpec => []ListingIsWhole
<1>1. FetchingInv => ListingIsWhole
  BY DEF FetchingInv, PagesAreJoined
<1> QED  BY <1>1, FetchingStart, FetchingStep, PTL DEF FetchingSpec

----------------------------------------------------------------------------
(* The index of the templates and its file.                                *)

Call == [state : {"idle", "reading", "asking", "fetched", "writing", "overlapping"},
         body : Successes \cup {"none"}, answer : Bodies \cup {"none", "failed"}]

HasBody(c) == calls[c].state = "fetched" \/ InTheFile(c) => calls[c].body # "none"

\* A caller is answered, with an index or with a failure, and is idle.
LEMMA AnsweringKeepsTypes ==
    ASSUME CacheTypeOK, NEW c \in Callers, NEW body, AnswerWith(c, body)
    PROVE  /\ calls' \in [Callers -> Call] /\ \A d \in Callers : HasBody(d)'
           /\ calls'[c].state = "idle" /\ calls'[c].answer = Parsed(body)
           /\ \A d \in Callers : d # c => calls'[d] = calls[d]
           /\ \A d \in Callers : d # c => (InTheFile(d)' <=> InTheFile(d))
<1> DEFINE answered == [state |-> "idle", body |-> "none", answer |-> Parsed(body)]
<1>1. calls \in [Callers -> Call] /\ \A d \in Callers : HasBody(d)
  BY DEF CacheTypeOK, Call, HasBody
<1>2. answered \in Call /\ answered.state = "idle" /\ answered.answer = Parsed(body)
  BY DEF Call, Parsed
<1>3. calls' = [calls EXCEPT ![c] = answered]
  <2>1. [Idle EXCEPT !.answer = Parsed(body)] = answered
    BY DEF Idle
  <2> HIDE DEF answered
  <2> QED  BY <2>1 DEF AnswerWith
<1> HIDE DEF answered
<1>4. calls'[c] = answered /\ \A d \in Callers : d # c => calls'[d] = calls[d]
  BY <1>1, <1>3
<1>5. calls' \in [Callers -> Call]
  BY <1>1, <1>2, <1>3
<1>6. \A d \in Callers : HasBody(d)'
  BY <1>1, <1>2, <1>4 DEF HasBody, InTheFile
<1> QED  BY <1>2, <1>4, <1>5, <1>6 DEF InTheFile

\* A caller goes on to ask, to read, or to write what it was served.
LEMMA GoingOnKeepsTypes ==
    ASSUME CacheTypeOK, NEW c \in Callers, ~InTheFile(c),
           NEW call \in Call, calls' = [calls EXCEPT ![c] = call],
           call.state \in {"reading", "asking"} \/ (call.state = "fetched" /\ call.body # "none")
    PROVE  /\ calls' \in [Callers -> Call] /\ \A d \in Callers : HasBody(d)'
           /\ \A d \in Callers : InTheFile(d)' <=> InTheFile(d)
           /\ \A d \in Callers : ~IsAnswered(d)
<1>1. calls \in [Callers -> Call] /\ \A d \in Callers : HasBody(d)
  BY DEF CacheTypeOK, Call, HasBody
<1>2. calls'[c] = call /\ \A d \in Callers : d # c => calls'[d] = calls[d]
  BY <1>1
<1> QED  BY <1>1, <1>2 DEF HasBody, InTheFile, IsAnswered

\* What callers do who do not touch the file.
LEMMA AskingKeepsInv ==
    ASSUME CacheInv, NEW c \in Callers,
           \/ \E refresh \in BOOLEAN : BeginFetch(c, refresh)
           \/ ReadFresh(c) \/ FetchFails(c) \/ FetchStale(c) \/ FetchNew(c) \/ OpenFails(c)
    PROVE  CacheInv'
<1>1. /\ CacheTypeOK /\ IndexIsKept /\ calls \in [Callers -> Call]
      /\ UNCHANGED <<index, cached, damaged, switches>> /\ ~InTheFile(c)
  BY DEF CacheInv, CacheTypeOK, Call, InTheFile, BeginFetch, ReadFresh, FetchFails, FetchStale, FetchNew,
         OpenFails
<1>2. /\ calls' \in [Callers -> Call] /\ \A d \in Callers : HasBody(d)'
      /\ \A d \in Callers : InTheFile(d) => InTheFile(d)'
  <2>1. CASE \E body : AnswerWith(c, body)
    BY <1>1, <2>1, AnsweringKeepsTypes
  <2>2. CASE \E refresh \in BOOLEAN : BeginFetch(c, refresh)
    <3>1. PICK state \in {"reading", "asking"} : calls' = [calls EXCEPT ![c] = [Idle EXCEPT !.state = state]]
      BY <2>2 DEF BeginFetch
    <3> DEFINE call == [Idle EXCEPT !.state = state]
    <3>2. call \in Call /\ call.state \in {"reading", "asking"}
      BY DEF Idle, Call
    <3> HIDE DEF call
    <3>3. calls' = [calls EXCEPT ![c] = call]
      BY <3>1 DEF call
    <3> QED  BY <1>1, <3>2, <3>3, GoingOnKeepsTypes
  <2>3. CASE FetchNew(c)
    <3> DEFINE call == [calls[c] EXCEPT !.state = "fetched", !.body = index]
    <3>1. calls' = [calls EXCEPT ![c] = call] /\ index \in Successes
      BY <2>3 DEF FetchNew
    <3>2. call \in Call /\ call.state = "fetched" /\ call.body # "none"
      BY <1>1, <3>1 DEF Call, Successes, Bodies
    <3> HIDE DEF call
    <3> QED  BY <1>1, <3>1, <3>2, GoingOnKeepsTypes
  <2>4. CASE ReadFresh(c) /\ calls' = [calls EXCEPT ![c].state = "asking"]
    <3> DEFINE call == [calls[c] EXCEPT !.state = "asking"]
    <3>1. calls' = [calls EXCEPT ![c] = call]
      BY <2>4
    <3>2. call \in Call /\ call.state = "asking"
      BY <1>1 DEF Call
    <3> HIDE DEF call
    <3> QED  BY <1>1, <3>1, <3>2, GoingOnKeepsTypes
  <2> QED  BY <2>1, <2>2, <2>3, <2>4 DEF ReadFresh, FetchFails, FetchStale, OpenFails
<1> QED  BY <1>1, <1>2 DEF CacheInv, CacheTypeOK, IndexIsKept, Call, HasBody

\* The file is open, and empty.
LEMMA OpeningKeepsInv ==
    ASSUME CacheInv, NEW c \in Callers, OpenCache(c)
    PROVE  CacheInv' /\ \A d \in Callers : ~IsAnswered(d)
<1>1. /\ CacheTypeOK /\ calls \in [Callers -> Call] /\ \A d \in Callers : HasBody(d)
      /\ calls[c].state = "fetched" /\ UNCHANGED <<index, damaged, switches>>
      /\ cached' = [body |-> "torn", fresh |-> TRUE]
  BY DEF CacheInv, CacheTypeOK, Call, HasBody, OpenCache
<1>2. PICK state \in {"writing", "overlapping"} :
        calls' = [d \in Callers |-> IF d \in {e \in Callers : InTheFile(e)} \cup {c}
                                    THEN [calls[d] EXCEPT !.state = state] ELSE calls[d]]
  BY DEF OpenCache
<1>3. ASSUME NEW d \in Callers
      PROVE  /\ calls'[d] \in Call /\ HasBody(d)' /\ ~IsAnswered(d)
             /\ d = c => InTheFile(d)'
  <2>1. CASE d = c \/ InTheFile(d)
    <3>1. calls'[d] = [calls[d] EXCEPT !.state = state]
      BY <1>2, <2>1
    <3>2. calls[d].body # "none" /\ calls[d] \in Call
      BY <1>1, <2>1 DEF HasBody
    <3>3. calls'[d] \in Call /\ calls'[d].state = state /\ calls'[d].body = calls[d].body
      BY <3>1, <3>2 DEF Call
    <3> QED  BY <3>2, <3>3 DEF HasBody, IsAnswered, InTheFile
  <2>2. CASE d # c /\ ~InTheFile(d)
    <3>1. calls'[d] = calls[d]
      BY <1>2, <2>2
    <3> QED  BY <1>1, <2>2, <3>1 DEF HasBody, IsAnswered, InTheFile
  <2> QED  BY <2>1, <2>2
<1>4. calls' \in [Callers -> Call]
  BY <1>2, <1>3
<1>5. cached' \in [body : Kept, fresh : BOOLEAN] /\ cached'.body # "none"
  BY <1>1 DEF Kept
<1> QED  BY <1>1, <1>3, <1>4, <1>5 DEF CacheInv, CacheTypeOK, IndexIsKept, Call, HasBody

\* A write that ends alone leaves the body it wrote; any other has done damage.
LEMMA WritingKeepsInv ==
    ASSUME CacheInv, NEW c \in Callers, WriteCache(c) \/ WriteFails(c) PROVE CacheInv'
<1>1. /\ CacheTypeOK /\ calls \in [Callers -> Call] /\ HasBody(c)
      /\ InTheFile(c) /\ UNCHANGED <<index, switches>> /\ AnswerWith(c, calls[c].body)
  BY DEF CacheInv, CacheTypeOK, Call, HasBody, WriteCache, WriteFails
<1>2. calls[c].body \in Successes
  BY <1>1 DEF HasBody, Call
<1>3. /\ damaged' \in BOOLEAN
      /\ \E body \in Successes \cup {"torn"} :
           /\ cached' = [body |-> body, fresh |-> TRUE]
           /\ damaged' \/ body \in Bodies
  <2>1. CASE WriteFails(c)
    BY <2>1 DEF WriteFails
  <2>2. CASE WriteCache(c)
    <3>1. PICK whole \in BOOLEAN :
            /\ calls[c].state = "writing" => whole
            /\ cached' = [body |-> IF whole THEN calls[c].body ELSE "torn", fresh |-> TRUE]
      BY <2>2 DEF WriteCache
    <3>2. damaged' = (calls[c].state = "overlapping" \/ calls[c].body = "prose")
      BY <2>2 DEF WriteCache
    <3>3. damaged' \/ (whole /\ calls[c].body \in Bodies)
      BY <1>1, <1>2, <3>1, <3>2 DEF InTheFile, Successes
    <3> QED  BY <1>2, <3>1, <3>2, <3>3
  <2> QED  BY <2>1, <2>2
<1>4. cached' \in [body : Kept, fresh : BOOLEAN] /\ cached'.body # "none"
  BY <1>3 DEF Kept, Successes, Bodies
<1>5. calls' \in [Callers -> Call] /\ \A d \in Callers : HasBody(d)'
  BY <1>1, AnsweringKeepsTypes
<1>6. damaged' \/ cached'.body \in Bodies
  BY <1>3
<1> QED  BY <1>1, <1>3, <1>4, <1>5, <1>6 DEF CacheInv, CacheTypeOK, IndexIsKept, Call, HasBody

\* The end of the daemon, the age of the file, and the service.
LEMMA OutsideKeepsInv ==
    ASSUME CacheInv, DaemonDies \/ CacheAges \/ IndexChanges PROVE CacheInv'
<1>1. CASE DaemonDies
  <2>1. \A c \in Callers : calls'[c] = Idle /\ ~InTheFile(c)'
    BY <1>1 DEF DaemonDies, InTheFile, Idle
  <2>2. Idle \in Call /\ Idle.state = "idle"
    BY DEF Idle, Call
  <2>3. calls' \in [Callers -> Call] /\ \A c \in Callers : HasBody(c)'
    BY <1>1, <2>1, <2>2 DEF DaemonDies, HasBody
  <2> QED  BY <1>1, <2>1, <2>3 DEF DaemonDies, CacheInv, CacheTypeOK, IndexIsKept, Call, HasBody
<1>2. CASE CacheAges
  <2>1. /\ cached' \in [body : Kept, fresh : BOOLEAN] /\ ~cached'.fresh
        /\ cached'.body = cached.body
    BY <1>2 DEF CacheAges, CacheInv, CacheTypeOK
  <2> QED  BY <1>2, <2>1 DEF CacheAges, CacheInv, CacheTypeOK, IndexIsKept, InTheFile
<1>3. CASE IndexChanges
  BY <1>3, IndexAssumption DEF IndexChanges, CacheInv, CacheTypeOK, IndexIsKept, InTheFile
<1> QED  BY <1>1, <1>2, <1>3

\* Nobody has asked yet, and nothing is kept.
LEMMA CacheStart == CacheInit => CacheInv
<1> SUFFICES ASSUME CacheInit PROVE CacheInv
  OBVIOUS
<1>1. /\ Idle \in Call /\ Idle.state = "idle" /\ cached \in [body : Kept, fresh : BOOLEAN]
      /\ cached.body = "none" /\ ~cached.fresh
  BY DEF Idle, Call, CacheInit, Kept
<1>2. \A c \in Callers : calls[c] = Idle /\ ~InTheFile(c) /\ calls[c].state # "fetched"
  BY <1>1 DEF CacheInit, InTheFile
<1>3. calls \in [Callers -> Call]
  BY <1>1 DEF CacheInit
<1>4. /\ index \in Successes /\ damaged = FALSE /\ switches \in 0 .. MaxSwitches
  BY IndexAssumption DEF CacheInit, Successes, Bodies
<1> QED  BY <1>1, <1>2, <1>3, <1>4 DEF CacheInv, CacheTypeOK, IndexIsKept, Call

\* Whatever the callers, the daemon and the service do.
LEMMA CacheStep == CacheInv /\ [CacheNext]_cacheVars => CacheInv'
<1> SUFFICES ASSUME CacheInv, [CacheNext]_cacheVars PROVE CacheInv'
  OBVIOUS
<1>1. CASE UNCHANGED cacheVars
  BY <1>1 DEF cacheVars, CacheInv, CacheTypeOK, IndexIsKept, InTheFile
<1> QED  BY <1>1, AskingKeepsInv, OpeningKeepsInv, WritingKeepsInv, OutsideKeepsInv DEF CacheNext

\* What is kept of the index is one, but for a write under way or the damage of one, for
\* any number of callers at a time (templates/mod.rs:543-575).
THEOREM CacheInvariant == CacheSpec => []CacheInv
  BY CacheStart, CacheStep, PTL DEF CacheSpec

\* What a caller is answered that has no index: the four excuses of OutagesAreBridged.
Bridged(c) ==
    IsAnswered(c) /\ calls'[c].answer = "failed" =>
      \/ calls[c].state = "asking" /\ index = "unreachable"
      \/ calls[c].body = "prose"
      \/ cached.body = "none" \/ damaged
      \/ \E d \in Callers : InTheFile(d)

\* An outage of the index costs a caller nothing of what was once fetched and kept whole,
\* for any number of callers at a time (templates/mod.rs:543-575).
THEOREM OutagesCostNothing == CacheSpec => OutagesAreBridged
<1>1. CacheInv /\ [CacheNext]_cacheVars => [\A c \in Callers : Bridged(c)]_cacheVars
  <2> SUFFICES ASSUME CacheInv, CacheNext, NEW c \in Callers PROVE Bridged(c)
    OBVIOUS
  <2>1. CacheTypeOK /\ IndexIsKept /\ calls \in [Callers -> Call] /\ HasBody(c)
    BY DEF CacheInv, CacheTypeOK, Call, HasBody
  <2>2. CASE \E d \in Callers : \E refresh \in BOOLEAN : BeginFetch(d, refresh)
    <3>1. PICK d \in Callers, state \in {"reading", "asking"} :
            calls' = [calls EXCEPT ![d] = [Idle EXCEPT !.state = state]]
      BY <2>2 DEF BeginFetch
    <3>2. calls'[c] = calls[c] \/ calls'[c].state = state
      BY <2>1, <3>1 DEF Idle
    <3> QED  BY <3>2 DEF Bridged, IsAnswered
  <2>3. CASE \E d \in Callers : \/ FetchNew(d)
                                \/ ReadFresh(d) /\ calls' = [calls EXCEPT ![d].state = "asking"]
    <3>1. PICK d \in Callers :
            \/ calls' = [calls EXCEPT ![d].state = "fetched", ![d].body = index]
            \/ calls' = [calls EXCEPT ![d].state = "asking"]
      BY <2>3 DEF FetchNew
    <3>2. calls'[c] = calls[c] \/ calls'[c].state \in {"fetched", "asking"}
      BY <2>1, <3>1 DEF Call
    <3> QED  BY <3>2 DEF Bridged, IsAnswered
  <2>4. CASE \E d \in Callers : OpenCache(d)
    BY <2>4, OpeningKeepsInv DEF Bridged
  <2>5. CASE \E d \in Callers : \/ ReadFresh(d) /\ AnswerWith(d, cached.body)
                                \/ FetchFails(d) \/ FetchStale(d)
                                \/ OpenFails(d) \/ WriteCache(d) \/ WriteFails(d)
    <3>1. PICK d \in Callers : \/ ReadFresh(d) /\ AnswerWith(d, cached.body)
                               \/ FetchFails(d) \/ FetchStale(d)
                               \/ OpenFails(d) \/ WriteCache(d) \/ WriteFails(d)
      BY <2>5
    <3>2. CASE d # c
      <4>1. \E body : AnswerWith(d, body)
        BY <3>1 DEF FetchFails, FetchStale, OpenFails, WriteCache, WriteFails
      <4>2. calls'[c] = calls[c]
        BY <2>1, <3>2, <4>1, AnsweringKeepsTypes
      <4> QED  BY <4>2 DEF Bridged, IsAnswered
    <3>3. CASE d = c
      <4>1. CASE AnswerWith(d, cached.body) \/ FetchStale(d)
        <5>1. AnswerWith(c, cached.body)
          BY <3>3, <4>1 DEF FetchStale
        <5>2. calls'[c].answer = Parsed(cached.body)
          BY <2>1, <5>1, AnsweringKeepsTypes
        <5> QED  BY <2>1, <5>2 DEF Bridged, IndexIsKept, Parsed, Bodies
      <4>2. CASE FetchFails(d)
        BY <3>3, <4>2 DEF FetchFails, Bridged
      <4>3. CASE OpenFails(d) \/ WriteCache(d) \/ WriteFails(d)
        <5>1. AnswerWith(c, calls[c].body) /\ (calls[c].state = "fetched" \/ InTheFile(c))
          BY <3>3, <4>3 DEF OpenFails, WriteCache, WriteFails
        <5>2. calls'[c].answer = Parsed(calls[c].body)
          BY <2>1, <5>1, AnsweringKeepsTypes
        <5>3. calls[c].body \in Successes
          BY <2>1, <5>1 DEF HasBody, Call
        <5> QED  BY <5>2, <5>3 DEF Bridged, Parsed, Successes, Bodies
      <4> QED  BY <3>1, <4>1, <4>2, <4>3
    <3> QED  BY <3>2, <3>3
  <2>6. CASE DaemonDies
    <3>1. calls'[c].answer = "none"
      BY <2>6 DEF DaemonDies, Idle
    <3> QED  BY <3>1 DEF Bridged
  <2>7. CASE CacheAges \/ IndexChanges
    <3>1. calls' = calls
      BY <2>7 DEF CacheAges, IndexChanges
    <3> QED  BY <3>1 DEF Bridged, IsAnswered
  <2>8. ASSUME NEW d \in Callers, ReadFresh(d) PROVE Bridged(c)
    <3>1. CASE AnswerWith(d, cached.body)
      BY <2>5, <2>8, <3>1
    <3>2. CASE calls' = [calls EXCEPT ![d].state = "asking"]
      BY <2>3, <2>8, <3>2
    <3> QED  BY <2>8, <3>1, <3>2 DEF ReadFresh
  <2>9. ASSUME NEW d \in Callers,
               FetchFails(d) \/ FetchStale(d) \/ OpenFails(d) \/ WriteCache(d) \/ WriteFails(d)
        PROVE  Bridged(c)
    BY <2>5, <2>9
  <2>10. ASSUME NEW d \in Callers, FetchNew(d) PROVE Bridged(c)
    BY <2>3, <2>10
  <2> QED  BY <2>2, <2>4, <2>6, <2>7, <2>8, <2>9, <2>10 DEF CacheNext
<1>2. CacheSpec => []CacheInv
  BY CacheInvariant
<1>3. OutagesAreBridged <=> [][\A c \in Callers : Bridged(c)]_cacheVars
  BY DEF OutagesAreBridged, Bridged
<1> QED  BY <1>1, <1>2, <1>3, PTL DEF CacheSpec

----------------------------------------------------------------------------
(* What a filter leaves.                                                   *)

\* What Keeping says of the first elements.
KeepsFirst(f, s, S, n) ==
    f = [i \in 0 .. n |-> IF i = 0 THEN <<>>
                          ELSE IF s[i] \in S THEN Append(f[i - 1], s[i]) ELSE f[i - 1]]

KeptFirst(s, S) == CHOOSE f : KeepsFirst(f, s, S, Len(s))

\* There is a function of the kind, for any sequence.
LEMMA SomethingKeeps ==
    ASSUME NEW s, Len(s) \in Nat, NEW S PROVE \E f : KeepsFirst(f, s, S, Len(s))
<1> DEFINE without == {n \in 0 .. Len(s) : ~\E f : KeepsFirst(f, s, S, n)}
<1>1. SUFFICES without = {}
  OBVIOUS
<1>2. SUFFICES ASSUME without # {} PROVE FALSE
  OBVIOUS
<1>3. PICK m \in without : \A k \in without : m <= k
  <2>1. without \in SUBSET Nat
    OBVIOUS
  <2> HIDE DEF without
  <2> QED  BY <1>2, <2>1, LeastNumber
<1>4. m \in 0 .. Len(s)
  OBVIOUS
<1>5. CASE m = 0
  <2>1. KeepsFirst([i \in 0 .. 0 |-> <<>>], s, S, 0)
    BY DEF KeepsFirst
  <2> QED  BY <1>5, <2>1
<1>6. CASE m # 0
  <2>1. m - 1 \in 0 .. Len(s) /\ ~(m <= m - 1) /\ m \in 0 .. m /\ m - 1 \in 0 .. m /\ m - 1 # m
    BY <1>4, <1>6
  <2>2. m - 1 \notin without
    BY <1>3, <2>1
  <2>3. PICK f : KeepsFirst(f, s, S, m - 1)
    BY <2>1, <2>2
  <2> DEFINE last == IF s[m] \in S THEN Append(f[m - 1], s[m]) ELSE f[m - 1]
             g == [i \in 0 .. m |-> IF i = m THEN last ELSE f[i]]
  <2>4. ASSUME NEW i \in 0 .. m
        PROVE  g[i] = IF i = 0 THEN <<>>
                      ELSE IF s[i] \in S THEN Append(g[i - 1], s[i]) ELSE g[i - 1]
    <3>1. CASE i = m
      <4>1. g[m] = last /\ g[m - 1] = f[m - 1]
        BY <2>1
      <4> QED  BY <1>6, <3>1, <4>1
    <3>2. CASE i # m
      <4>1. i \in 0 .. (m - 1) /\ (i # 0 => i - 1 \in 0 .. m /\ i - 1 # m)
        BY <1>4, <2>4, <3>2
      <4>2. g[i] = f[i] /\ (i # 0 => g[i - 1] = f[i - 1])
        BY <2>4, <3>2, <4>1
      <4>3. f[i] = IF i = 0 THEN <<>>
                   ELSE IF s[i] \in S THEN Append(f[i - 1], s[i]) ELSE f[i - 1]
        BY <2>3, <4>1 DEF KeepsFirst
      <4> QED  BY <4>2, <4>3
    <3> QED  BY <3>1, <3>2
  <2>5. KeepsFirst(g, s, S, m)
    <3>1. g = [i \in 0 .. m |-> g[i]]
      OBVIOUS
    <3> HIDE DEF g
    <3> QED  BY <2>4, <3>1 DEF KeepsFirst
  <2> QED  BY <2>5
<1> QED  BY <1>5, <1>6

\* What is left is made of elements of the sequence that are to be kept.
LEMMA KeepingKeeps ==
    ASSUME NEW T, NEW s \in Seq(T), NEW S PROVE Keeping(s, S) \in Seq(T \cap S)
<1> DEFINE f == KeptFirst(s, S)
           odd == {n \in 0 .. Len(s) : f[n] \notin Seq(T \cap S)}
<1>1. Len(s) \in Nat
  BY LenProperties
<1>2. KeepsFirst(f, s, S, Len(s))
  BY <1>1, SomethingKeeps DEF KeptFirst
<1>3. Keeping(s, S) = f[Len(s)]
  BY DEF Keeping, KeptFirst, KeepsFirst
<1>4. \A n \in 0 .. Len(s) :
        f[n] = IF n = 0 THEN <<>>
               ELSE IF s[n] \in S THEN Append(f[n - 1], s[n]) ELSE f[n - 1]
  BY <1>2 DEF KeepsFirst
<1> HIDE DEF f
<1>5. ASSUME odd # {} PROVE FALSE
  <2>1. PICK m \in odd : \A k \in odd : m <= k
    <3>1. odd \in SUBSET Nat
      BY <1>1
    <3> HIDE DEF odd
    <3> QED  BY <1>5, <3>1, LeastNumber
  <2>2. m \in 0 .. Len(s) /\ f[m] \notin Seq(T \cap S)
    OBVIOUS
  <2>3. m # 0
    <3>1. <<>> \in Seq(T \cap S)
      OBVIOUS
    <3> QED  BY <1>4, <2>2, <3>1
  <2>4. m - 1 \in 0 .. Len(s) /\ ~(m <= m - 1) /\ m \in 1 .. Len(s)
    BY <1>1, <2>2, <2>3
  <2>5. f[m - 1] \in Seq(T \cap S)
    BY <2>1, <2>4
  <2>6. s[m] \in S => Append(f[m - 1], s[m]) \in Seq(T \cap S)
    <3>1. s[m] \in T
      BY <2>4, ElementOfSeq
    <3> QED  BY <2>5, <3>1, AppendProperties
  <2> QED  BY <1>4, <2>2, <2>3, <2>5, <2>6
<1>6. Len(s) \notin odd /\ Len(s) \in 0 .. Len(s)
  BY <1>1, <1>5
<1> QED  BY <1>3, <1>6

----------------------------------------------------------------------------
(* The picker.                                                             *)

\* A search leaves rows of the picker.
LEMMA SearchLeavesRows ==
    ASSUME NEW query PROVE Filtered(query) \in Seq(Places)
<1> DEFINE all == [i \in Places |-> i]
           S == {i \in Places : FuzzyMatches(query, Rows[i])}
<1>1. Len(Rows) \in Nat /\ Places = 1 .. Len(Rows)
  BY CommandLineAssumption, LenProperties DEF Places
<1>2. all \in Seq(Places)
  BY <1>1, IsASeq
<1>3. Filtered(query) = Keeping(all, S)
  BY DEF Filtered
<1>4. Places \cap S = S /\ S \subseteq Places
  OBVIOUS
<1> HIDE DEF all, S
<1>5. Keeping(all, S) \in Seq(S)
  BY <1>2, <1>4, KeepingKeeps
<1> QED  BY <1>3, <1>4, <1>5, SeqMonotonic

\* The window follows the cursor to a row it draws, from wherever it was.
LEMMA WindowFollows ==
    ASSUME NEW v \in [rows : Seq(Places), cursor : Nat, offset : Nat]
    PROVE  /\ Followed(v) \in [rows : Seq(Places), cursor : Nat, offset : Nat]
           /\ Followed(v).rows = v.rows
           /\ v.rows # <<>> =>
                /\ Followed(v).cursor < Len(v.rows) /\ Followed(v).offset <= Followed(v).cursor
                /\ Followed(v).cursor < Followed(v).offset + PageLength
<1>1. PageLength \in Nat /\ PageLength >= 1
  BY CommandLineAssumption, LenProperties, EmptySeq DEF PageLength
<1>2. Len(v.rows) \in Nat /\ (v.rows # <<>> <=> Len(v.rows) # 0)
  BY LenProperties, EmptySeq
<1>3. CASE Len(v.rows) = 0
  BY <1>2, <1>3 DEF Followed
<1>4. CASE Len(v.rows) # 0
  <2> DEFINE cursor == IF v.cursor >= Len(v.rows) THEN Len(v.rows) - 1 ELSE v.cursor
             offset == IF cursor < v.offset THEN cursor
                       ELSE IF cursor >= v.offset + PageLength THEN cursor + 1 - PageLength
                       ELSE v.offset
  <2>1. cursor \in Nat /\ cursor < Len(v.rows)
    BY <1>2, <1>4
  <2>2. Followed(v) = [v EXCEPT !.cursor = cursor, !.offset = offset]
    BY <1>4 DEF Followed
  <2> HIDE DEF cursor
  <2>3. offset \in Nat /\ offset <= cursor /\ cursor < offset + PageLength
    BY <1>1, <2>1
  <2> HIDE DEF offset
  <2> QED  BY <2>1, <2>2, <2>3
<1> QED  BY <1>3, <1>4

\* A search begins at the first row it leaves.
LEMMA SearchKeepsInv ==
    ASSUME NEW typing \in BOOLEAN, NEW query \in Seq(Typed), Searched(typing, query)
    PROVE  /\ view' \in [rows : Seq(Places), cursor : Nat, offset : Nat]
           /\ search' \in [typing : BOOLEAN, query : Seq(Typed)]
           /\ CursorIsDrawn'
<1> DEFINE v == [cursor |-> 0, offset |-> 0, rows |-> Filtered(query)]
<1>1. v \in [rows : Seq(Places), cursor : Nat, offset : Nat]
  BY SearchLeavesRows
<1>2. view' = Followed(v) /\ search' = [typing |-> typing, query |-> query]
  BY DEF Searched
<1>3. PageLength' = PageLength
  BY DEF PageLength
<1> HIDE DEF v
<1> QED  BY <1>1, <1>2, <1>3, WindowFollows DEF CursorIsDrawn

\* A row is on the screen whenever there is one.
LEMMA PickerStart == PickerInit => PickerInv
<1> SUFFICES ASSUME PickerInit PROVE PickerInv
  OBVIOUS
<1>1. /\ Len(Rows) \in Nat /\ Places = 1 .. Len(Rows)
      /\ PageLength \in Nat /\ PageLength >= 1
  BY CommandLineAssumption, LenProperties, EmptySeq DEF Places, PageLength
<1>2. view = [cursor |-> 0, offset |-> 0, rows |-> [i \in Places |-> i]]
  BY DEF PickerInit
<1>3. [i \in Places |-> i] \in Seq(Places) /\ Len([i \in Places |-> i]) = Len(Rows)
  BY <1>1, IsASeq
<1>4. PickerTypeOK
  BY <1>2, <1>3 DEF PickerInit, PickerTypeOK
<1>5. CursorIsDrawn
  BY <1>1, <1>2, <1>3, EmptySeq DEF CursorIsDrawn
<1> QED  BY <1>4, <1>5 DEF PickerInv

\* The keys that search.
LEMMA SearchingKeysKeepInv ==
    ASSUME PickerInv, Slash \/ Escape \/ Enter \/ Backspace \/ \E c \in Typed : Type(c)
    PROVE  PickerInv'
<1>1. PickerTypeOK /\ CursorIsDrawn /\ <<>> \in Seq(Typed) /\ search.query \in Seq(Typed)
  BY DEF PickerInv, PickerTypeOK
<1>2. ASSUME UNCHANGED view, search' \in [typing : BOOLEAN, query : Seq(Typed)],
             checked' \subseteq Places, outcome' \in {"open", "cancelled", "chosen"}
      PROVE  PickerInv'
  BY <1>1, <1>2 DEF PickerInv, PickerTypeOK, CursorIsDrawn, PageLength
<1>3. ASSUME NEW typing \in BOOLEAN, NEW query \in Seq(Typed), Searched(typing, query),
             UNCHANGED <<checked, outcome>>
      PROVE  PickerInv'
  BY <1>1, <1>3, SearchKeepsInv DEF PickerInv, PickerTypeOK
<1>4. CASE Slash
  BY <1>1, <1>3, <1>4 DEF Slash
<1>5. CASE Escape
  <2>1. CASE search.typing
    BY <1>1, <1>3, <1>5, <2>1 DEF Escape
  <2>2. CASE ~search.typing
    BY <1>1, <1>2, <1>5, <2>2 DEF Escape, PickerTypeOK
  <2> QED  BY <2>1, <2>2
<1>6. CASE Enter
  <2>1. search' \in [typing : BOOLEAN, query : Seq(Typed)] /\ outcome' \in {"open", "cancelled", "chosen"}
    BY <1>1, <1>6 DEF Enter, PickerTypeOK
  <2> QED  BY <1>1, <1>2, <1>6, <2>1 DEF Enter, PickerTypeOK
<1>7. CASE Backspace
  <2>1. CASE search.typing
    <3> DEFINE query == IF search.query = <<>> THEN <<>> ELSE Front(search.query)
    <3>1. query \in Seq(Typed)
      <4>1. CASE search.query # <<>>
        <5>1. Len(search.query) \in Nat /\ Len(search.query) >= 1
          BY <1>1, <4>1, LenProperties, EmptySeq
        <5>2. SubSeq(search.query, 1, Len(search.query) - 1) \in Seq(Typed)
          BY <1>1, <5>1, SubSeqProperties
        <5> QED  BY <4>1, <5>2 DEF Front
      <4> QED  BY <1>1, <4>1
    <3>2. Searched(TRUE, query) /\ UNCHANGED <<checked, outcome>>
      BY <1>7, <2>1 DEF Backspace
    <3> HIDE DEF query
    <3> QED  BY <1>3, <3>1, <3>2
  <2>2. CASE ~search.typing
    BY <1>1, <1>2, <1>7, <2>2 DEF Backspace, PickerTypeOK
  <2> QED  BY <2>1, <2>2
<1>8. CASE \E c \in Typed : Type(c)
  <2>1. PICK c \in Typed : Type(c)
    BY <1>8
  <2>2. Append(search.query, c) \in Seq(Typed)
    BY <1>1, AppendProperties
  <2> QED  BY <1>3, <2>1, <2>2 DEF Type
<1> QED  BY <1>4, <1>5, <1>6, <1>7, <1>8

\* The keys that move and check.
LEMMA OtherKeysKeepInv ==
    ASSUME PickerInv, Toggle \/ ToggleAll \/ Quit \/ \E back \in BOOLEAN : Move(back)
    PROVE  PickerInv'
<1>1. /\ PickerTypeOK /\ CursorIsDrawn /\ view \in [rows : Seq(Places), cursor : Nat, offset : Nat]
      /\ DOMAIN view.rows = 1 .. Len(view.rows) /\ Len(view.rows) \in Nat
      /\ (view.rows # <<>> <=> Len(view.rows) # 0)
  BY LenProperties, EmptySeq DEF PickerInv, PickerTypeOK
<1>2. ASSUME UNCHANGED <<view, search>>,
             checked' \subseteq Places, outcome' \in {"open", "cancelled", "chosen"}
      PROVE  PickerInv'
  BY <1>1, <1>2 DEF PickerInv, PickerTypeOK, CursorIsDrawn, PageLength
<1>3. CASE Toggle
  <2>1. Pointed \in Places
    <3>1. view.cursor + 1 \in 1 .. Len(view.rows)
      BY <1>1, <1>3 DEF Toggle, CursorIsDrawn
    <3> QED  BY <1>1, <3>1, ElementOfSeq DEF Pointed
  <2>2. checked' \subseteq Places
    BY <1>1, <1>3, <2>1 DEF Toggle, PickerTypeOK
  <2> QED  BY <1>1, <1>2, <1>3, <2>2 DEF Toggle, PickerTypeOK
<1>4. CASE ToggleAll
  BY <1>1, <1>2, <1>4 DEF ToggleAll, PickerTypeOK
<1>5. CASE Quit
  BY <1>1, <1>2, <1>5 DEF Quit, PickerTypeOK
<1>6. ASSUME NEW back \in BOOLEAN, Move(back) PROVE PickerInv'
  <2> DEFINE n == Len(view.rows)
             cursor == IF ~back THEN (view.cursor + 1) % n
                       ELSE IF view.cursor = 0 THEN n - 1 ELSE view.cursor - 1
             v == [view EXCEPT !.cursor = cursor]
  <2>1. n > 0 /\ view' = Followed(v) /\ UNCHANGED <<checked, search, outcome>>
    BY <1>6 DEF Move
  <2>2. cursor \in Nat
    <3>1. (view.cursor + 1) % n \in Nat
      BY <1>1, <2>1
    <3>2. n - 1 \in Nat /\ (view.cursor # 0 => view.cursor - 1 \in Nat)
      BY <1>1, <2>1
    <3> QED  BY <3>1, <3>2
  <2>3. v \in [rows : Seq(Places), cursor : Nat, offset : Nat]
    <3> HIDE DEF cursor
    <3> QED  BY <1>1, <2>2
  <2>4. PageLength' = PageLength
    BY DEF PageLength
  <2> HIDE DEF v
  <2>5. view' \in [rows : Seq(Places), cursor : Nat, offset : Nat] /\ CursorIsDrawn'
    BY <2>1, <2>3, <2>4, WindowFollows DEF CursorIsDrawn
  <2> QED  BY <1>1, <2>1, <2>5 DEF PickerInv, PickerTypeOK
<1> QED  BY <1>3, <1>4, <1>5, <1>6

\* Whatever key is struck.
LEMMA PickerStep == PickerInv /\ [PickerNext]_pickerVars => PickerInv'
<1> SUFFICES ASSUME PickerInv, [PickerNext]_pickerVars PROVE PickerInv'
  OBVIOUS
<1>1. CASE UNCHANGED pickerVars
  BY <1>1 DEF pickerVars, PickerInv, PickerTypeOK, CursorIsDrawn, PageLength
<1> QED  BY <1>1, SearchingKeysKeepInv, OtherKeysKeepInv DEF PickerNext

\* The cursor is on a row that is drawn, for any rows and any height of the terminal
\* (cli/mod.rs:934-948).
THEOREM PickerInvariant == PickerSpec => []PickerInv
  BY PickerStart, PickerStep, PTL DEF PickerSpec

\* No key checks a row that is not on the screen, however many rows there are and however
\* they were searched and scrolled before (cli/mod.rs:934-948, :1071-1078).
THEOREM ChecksAreSeen == PickerSpec => TogglesAreSeen
<1> DEFINE Seen == checked' # checked =>
                     \/ checked' \in {{}, Places}
                     \/ view.rows # <<>> /\ Pointed \in Drawn
                        /\ checked' \cup {Pointed} = checked \cup {Pointed}
<1>1. PickerInv /\ [PickerNext]_pickerVars => [Seen]_pickerVars
  <2> SUFFICES ASSUME PickerInv, PickerNext, checked' # checked PROVE Seen
    OBVIOUS
  <2>1. CASE Toggle
    <3>1. /\ view.rows # <<>> /\ checked' \cup {Pointed} = checked \cup {Pointed}
      BY <2>1 DEF Toggle
    <3>2. /\ view \in [rows : Seq(Places), cursor : Nat, offset : Nat]
          /\ DOMAIN view.rows = 1 .. Len(view.rows) /\ Len(view.rows) \in Nat
      BY LenProperties DEF PickerInv, PickerTypeOK
    <3>3. PageLength \in Nat
      BY CommandLineAssumption, LenProperties DEF PageLength
    <3>4. /\ view.cursor + 1 \in DOMAIN view.rows
          /\ view.offset < view.cursor + 1 /\ view.cursor + 1 <= view.offset + PageLength
      BY <3>1, <3>2, <3>3 DEF PickerInv, CursorIsDrawn
    <3>5. Pointed \in Drawn
      BY <3>4 DEF Pointed, Drawn
    <3> QED  BY <3>1, <3>5
  <2>2. CASE ToggleAll
    BY <2>2 DEF ToggleAll
  <2>3. CASE Backspace
    BY <2>3 DEF Backspace
  <2>4. CASE Slash \/ Escape \/ Enter \/ Quit \/ (\E c \in Typed : Type(c)) \/ \E back \in BOOLEAN : Move(back)
    BY <2>4 DEF Slash, Escape, Enter, Quit, Type, Move
  <2> QED  BY <2>1, <2>2, <2>3, <2>4 DEF PickerNext
<1>2. PickerSpec => []PickerInv
  BY PickerInvariant
<1> QED  BY <1>1, <1>2, PTL DEF PickerSpec, TogglesAreSeen

----------------------------------------------------------------------------
(* Labels and aliases.                                                     *)

\* The first and the last of some places of a sequence.
LEMMA Ends ==
    ASSUME NEW n \in Nat, NEW S \in SUBSET (1 .. n), S # {}
    PROVE  /\ Min(S) \in S /\ \A i \in S : Min(S) <= i
           /\ Max(S) \in S /\ \A i \in S : i <= Max(S)
<1>1. S \in SUBSET Nat
  OBVIOUS
<1>2. \E m \in S : \A i \in S : m <= i
  BY <1>1, LeastNumber
<1> DEFINE mirrored == {n - i : i \in S}
<1>3. \E m \in S : \A i \in S : i <= m
  <2>1. mirrored \in SUBSET Nat /\ mirrored # {}
    <3>1. \A i \in S : n - i \in Nat
      OBVIOUS
    <3> QED  BY <3>1
  <2>2. PICK k \in mirrored : \A i \in mirrored : k <= i
    <3> HIDE DEF mirrored
    <3> QED  BY <2>1, LeastNumber
  <2>3. PICK m \in S : k = n - m
    OBVIOUS
  <2>4. ASSUME NEW i \in S PROVE i <= m
    <3>1. k <= n - i
      BY <2>2
    <3> QED  BY <2>3, <3>1
  <2> QED  BY <2>4
<1>4. Min(S) \in S /\ \A i \in S : Min(S) <= i
  BY <1>2 DEF Min
<1>5. Max(S) \in S /\ \A i \in S : i <= Max(S)
  <2>1. \E m \in S : \A i \in S : m >= i
    BY <1>1, <1>3
  <2>2. Max(S) \in S /\ \A i \in S : Max(S) >= i
    BY <2>1 DEF Max
  <2> QED  BY <1>1, <2>2
<1> QED  BY <1>4, <1>5

\* A label without blanks around it.
LEMMA TrimmedIsSolid ==
    ASSUME NEW T, NEW s \in Seq(T)
    PROVE  Trimmed(s) \in Seq(T) /\ Trimmed(Trimmed(s)) = Trimmed(s)
<1> DEFINE solid == {i \in DOMAIN s : s[i] # Blank_}
           a == Min(solid)
           b == Max(solid)
           t == SubSeq(s, a, b)
<1>1. Len(s) \in Nat /\ DOMAIN s = 1 .. Len(s)
  BY LenProperties
<1>2. CASE solid = {}
  <2>1. Trimmed(s) = <<>> /\ Trimmed(<<>>) = <<>>
    BY <1>2 DEF Trimmed
  <2> QED  BY <2>1
<1>3. CASE solid # {}
  <2>1. solid \in SUBSET (1 .. Len(s))
    BY <1>1
  <2>2. /\ a \in solid /\ \A i \in solid : a <= i
        /\ b \in solid /\ \A i \in solid : i <= b
    <3> HIDE DEF solid
    <3> QED  BY <1>1, <1>3, <2>1, Ends
  <2>3. a \in 1 .. Len(s) /\ b \in 1 .. Len(s) /\ a <= b /\ s[a] # Blank_ /\ s[b] # Blank_
    BY <1>1, <2>2
  <2>4. Trimmed(s) = t
    BY <1>3 DEF Trimmed
  <2> HIDE DEF a, b
  <2>5. /\ t \in Seq(T) /\ Len(t) = b - a + 1 /\ DOMAIN t = 1 .. (b - a + 1)
        /\ \A i \in 1 .. (b - a + 1) : t[i] = s[a + i - 1]
    <3>1. \A i \in a .. b : s[i] \in T
      BY <1>1, <2>3, ElementOfSeq
    <3>2. a \in Int /\ b \in Int
      BY <1>1, <2>3
    <3>3. /\ SubSeq(s, a, b) \in Seq(T)
          /\ Len(SubSeq(s, a, b)) = b - a + 1
          /\ \A i \in 1 .. (b - a + 1) : SubSeq(s, a, b)[i] = s[a + i - 1]
      BY <2>3, <3>1, <3>2, SubSeqProperties
    <3> QED  BY <3>3, LenProperties
  <2> DEFINE within == {i \in DOMAIN t : t[i] # Blank_}
  <2>6. 1 \in within /\ Len(t) \in within /\ within \in SUBSET (1 .. Len(t)) /\ Len(t) \in Nat
    <3>1. 1 \in 1 .. (b - a + 1) /\ b - a + 1 \in 1 .. (b - a + 1) /\ a + 1 - 1 = a /\ a + (b - a + 1) - 1 = b
      BY <1>1, <2>3
    <3>2. t[1] = s[a] /\ t[b - a + 1] = s[b] /\ b - a + 1 \in Nat
      BY <2>5, <3>1
    <3> QED  BY <2>3, <2>5, <3>1, <3>2
  <2> HIDE DEF t
  <2>7. Min(within) = 1 /\ Max(within) = Len(t) /\ within # {}
    <3>1. within # {}
      BY <2>6
    <3> HIDE DEF within
    <3>2. /\ Min(within) \in within /\ Min(within) <= 1
          /\ Max(within) \in within /\ Len(t) <= Max(within)
      BY <2>6, <3>1, Ends
    <3>3. Min(within) \in 1 .. Len(t) /\ Max(within) \in 1 .. Len(t) /\ Len(t) \in Nat
      BY <2>6, <3>2
    <3>4. \A i \in 1 .. Len(t) : (i <= 1 => i = 1) /\ (Len(t) <= i => i = Len(t))
      BY <3>3
    <3> QED  BY <3>1, <3>2, <3>3, <3>4
  <2>8. Trimmed(t) = SubSeq(t, 1, Len(t))
    BY <2>7 DEF Trimmed
  <2>9. SubSeq(t, 1, Len(t)) = t
    BY <2>5, SubSeqFull
  <2> QED  BY <2>4, <2>5, <2>8, <2>9
<1> QED  BY <1>2, <1>3

\* What is left of a label names one component of a path.
LEMMA FamilyIsComponent ==
    ASSUME NEW label \in Seq(Characters)
    PROVE  /\ SafeFamily(label) = {} \/ \E component : SafeFamily(label) = {component}
           /\ \A component \in SafeFamily(label) : IsComponent(component)
<1> DEFINE unsplit == Unsplit(label)
           component == Trimmed(unsplit)
<1>1. unsplit \in Seq(Characters \ {Separator})
  <2>1. Keeping(label, Characters \ {Separator}) \in Seq(Characters \cap (Characters \ {Separator}))
    BY KeepingKeeps
  <2>2. Characters \cap (Characters \ {Separator}) = Characters \ {Separator}
    OBVIOUS
  <2> QED  BY <2>1, <2>2 DEF Unsplit
<1>2. component \in Seq(Characters \ {Separator}) /\ Trimmed(component) = component
  <2> HIDE DEF unsplit
  <2> QED  BY <1>1, TrimmedIsSolid
<1>3. SafeFamily(label) = IF component \in Unusable THEN {} ELSE {component}
  BY DEF SafeFamily
<1> HIDE DEF component
<1>4. \A i \in DOMAIN component : component[i] # Separator
  BY <1>2, ElementOfSeq, LenProperties
<1> QED  BY <1>2, <1>3, <1>4 DEF IsComponent

\* A table of aliases.
AliasTables == UNION {[S -> Seq(Characters)] : S \in SUBSET Seq(Characters)}

\* Whatever a source or a user calls a family, and whatever the aliases make of it, the
\* folder is one component below the directory of the role, and accepted aliases never
\* split a family, for labels of any length and any table (placement.rs:198-232, :291-368).
THEOREM FamiliesAreOneFolder ==
    \A label \in Seq(Characters), aliases \in AliasTables :
      LabelIsComponent(label, aliases) /\ AliasesConverge(aliases)
<1> SUFFICES ASSUME NEW label \in Seq(Characters), NEW aliases \in AliasTables
             PROVE  LabelIsComponent(label, aliases) /\ AliasesConverge(aliases)
  OBVIOUS
<1>1. \A l \in DOMAIN aliases : aliases[l] \in Seq(Characters)
  BY DEF AliasTables
<1>2. BrowsingLabel(aliases, label) \in Seq(Characters)
  BY <1>1 DEF BrowsingLabel
<1>3. ASSUME NEW source
      PROVE  /\ \A component \in Filed(aliases, label, source).family : IsComponent(component)
             /\ IsSentinel(label) => Filed(aliases, label, source).family = {}
  BY <1>2, FamilyIsComponent DEF Filed, Unfiled
<1>4. LabelIsComponent(label, aliases)
  <2>1. ASSUME NEW evidence \in EvidenceOf(label)
        PROVE  LET filed == ResolveFamily(evidence, aliases)
               IN  /\ \A component \in filed.family : IsComponent(component)
                   /\ IsSentinel(label) /\ evidence.override = {} => filed.family = {}
    <3>1. CASE evidence = [override |-> {label}, specific |-> {}, umbrella |-> {}, labels |-> <<>>]
      <4>1. The(evidence.override) = label /\ evidence.override # {}
        BY <3>1 DEF The
      <4> QED  BY <4>1, FamilyIsComponent DEF ResolveFamily
    <3>2. CASE evidence = [override |-> {}, specific |-> {label}, umbrella |-> {}, labels |-> <<>>]
      <4>1. The(evidence.specific) = label /\ evidence.override = {} /\ evidence.specific # {}
        BY <3>2 DEF The
      <4> QED  BY <1>3, <4>1 DEF ResolveFamily
    <3>3. CASE evidence = [override |-> {}, specific |-> {}, umbrella |-> {label}, labels |-> <<>>]
      <4>1. /\ The(evidence.umbrella) = label /\ evidence.override = {} /\ evidence.specific = {}
            /\ evidence.umbrella # {} /\ Len(evidence.labels) = 0
        BY <3>3 DEF The
      <4> QED  BY <1>3, <4>1 DEF ResolveFamily
    <3>4. CASE evidence = [override |-> {}, specific |-> {}, umbrella |-> {}, labels |-> <<label>>]
      <4>1. /\ evidence.override = {} /\ evidence.specific = {}
            /\ Len(evidence.labels) = 1 /\ evidence.labels[1] = label
        BY <3>4
      <4>2. ResolveFamily(evidence, aliases) = Filed(aliases, label, "single_family_template")
        BY <4>1 DEF ResolveFamily
      <4>3. /\ \A component \in Filed(aliases, label, "single_family_template").family : IsComponent(component)
            /\ IsSentinel(label) => Filed(aliases, label, "single_family_template").family = {}
        BY <1>3
      <4> QED  BY <4>2, <4>3, Zenon
    <3> QED  BY <3>1, <3>2, <3>3, <3>4 DEF EvidenceOf
  <2>2. \A option : option # {} => The(option) \in option
    BY DEF The
  <2> QED  BY <2>1, <2>2 DEF LabelIsComponent
<1>5. AliasesConverge(aliases)
  BY DEF AliasesConverge, AcceptedAliases, Filed, BrowsingLabel, Unfiled
<1> QED  BY <1>4, <1>5

----------------------------------------------------------------------------
(* The estimate.                                                           *)

\* More weights need more memory, up to the largest number.
LEMMA NeededGrows ==
    ASSUME NEW a \in Nat, NEW b \in Nat, a <= b, NEW kind
    PROVE  Needed(a, kind) \in Nat /\ Needed(b, kind) \in Nat /\ Needed(a, kind) <= Needed(b, kind)
<1>1. Headroom(kind) \in Nat /\ Reserve \in Nat /\ Cap \in Nat
  BY CapAssumption DEF Headroom, Reserve
<1>2. /\ (27 * a + 24) \div 25 \in Nat /\ (27 * b + 24) \div 25 \in Nat
      /\ (27 * a + 24) \div 25 <= (27 * b + 24) \div 25
  OBVIOUS
<1>3. ASSUME NEW m \in Nat, NEW n \in Nat, m <= n, NEW h \in Nat
      PROVE  /\ Saturated(m) \in Nat /\ Saturated(n) \in Nat /\ Saturated(m) <= Saturated(n)
             /\ Plus(m, h) \in Nat /\ Plus(n, h) \in Nat /\ Plus(m, h) <= Plus(n, h)
  BY <1>1, <1>3 DEF Saturated, Plus
<1> DEFINE x == Saturated((27 * a + 24) \div 25)
           y == Saturated((27 * b + 24) \div 25)
<1>4. x \in Nat /\ y \in Nat /\ x <= y
  BY <1>2, <1>3
<1>5. Needed(a, kind) = Plus(Plus(x, Headroom(kind)), Reserve) /\ Needed(b, kind) = Plus(Plus(y, Headroom(kind)), Reserve)
  BY DEF Needed
<1> HIDE DEF x, y
<1>6. Plus(x, Headroom(kind)) \in Nat /\ Plus(y, Headroom(kind)) \in Nat /\ Plus(x, Headroom(kind)) <= Plus(y, Headroom(kind))
  BY <1>1, <1>3, <1>4
<1> QED  BY <1>1, <1>3, <1>5, <1>6

\* What is more of everything on a card that is no larger never runs more easily.
LEMMA RanksGrow ==
    ASSUME NEW c1 \in Nat, NEW c2 \in Nat, c1 <= c2, NEW o1 \in Nat, NEW o2 \in Nat, o1 <= o2,
           NEW v1 \in Nat, NEW v2 \in Nat, v2 <= v1, NEW kind
    PROVE  Rank(Classify([compute |-> c1, offloadable |-> o1], v1, kind))
             <= Rank(Classify([compute |-> c2, offloadable |-> o2], v2, kind))
<1>1. Plus(c1, o1) \in Nat /\ Plus(c2, o2) \in Nat /\ Plus(c1, o1) <= Plus(c2, o2)
  BY CapAssumption DEF Plus, Saturated
<1>2. /\ Needed(Plus(c1, o1), kind) \in Nat /\ Needed(Plus(c2, o2), kind) \in Nat
      /\ Needed(Plus(c1, o1), kind) <= Needed(Plus(c2, o2), kind)
  BY <1>1, NeededGrows
<1>3. Needed(c1, kind) \in Nat /\ Needed(c2, kind) \in Nat /\ Needed(c1, kind) <= Needed(c2, kind)
  BY NeededGrows
<1>4. /\ Needed(Plus(c2, o2), kind) <= v2 => Needed(Plus(c1, o1), kind) <= v1
      /\ Needed(c2, kind) <= v2 => Needed(c1, kind) <= v1
  BY <1>2, <1>3
<1> QED  BY <1>4 DEF Classify, Rank

\* A heavier bundle never runs more easily, and a larger card never makes one run worse,
\* for any sizes and any largest number (vram.rs:98-127, templates/mod.rs:146-159).
THEOREM HeavierIsNeverEasier ==
    \A kind : \A compute, offloadable \in 0 .. Cap : HeavierIsHarder(compute, offloadable, kind)
<1> SUFFICES ASSUME NEW compute \in 0 .. Cap, NEW offloadable \in 0 .. Cap, NEW kind,
                    NEW vram \in 0 .. Cap, NEW more \in 0 .. Cap
             PROVE  LET rank(c, o, v) == Rank(Classify([compute |-> c, offloadable |-> o], v, kind))
                        here == rank(compute, offloadable, vram)
                    IN  /\ rank(Saturated(compute + more), offloadable, vram) >= here
                        /\ rank(compute, Saturated(offloadable + more), vram) >= here
                        /\ rank(compute, offloadable, Saturated(vram + more)) <= here
  BY DEF HeavierIsHarder
<1>1. ASSUME NEW n \in 0 .. Cap
      PROVE  n \in Nat /\ Saturated(n + more) \in Nat /\ n <= Saturated(n + more) /\ n <= n
  BY CapAssumption DEF Saturated
<1>2. \A f : Rank(f) \in Nat
  BY DEF Rank
<1> DEFINE rank(c, o, v) == Rank(Classify([compute |-> c, offloadable |-> o], v, kind))
<1>3. rank(compute, offloadable, vram) <= rank(Saturated(compute + more), offloadable, vram)
  BY <1>1, RanksGrow
<1>4. rank(compute, offloadable, vram) <= rank(compute, Saturated(offloadable + more), vram)
  BY <1>1, RanksGrow
<1>5. rank(compute, offloadable, Saturated(vram + more)) <= rank(compute, offloadable, vram)
  BY <1>1, RanksGrow
<1> QED  BY <1>2, <1>3, <1>4, <1>5

----------------------------------------------------------------------------
(* The pages of the list.                                                  *)

\* As many pages as are needed, and not one more.
LEMMA PagesAreEnough ==
    ASSUME NEW total \in Nat \ {0}, NEW perPage \in Nat \ {0}
    PROVE  /\ PageCount(total, perPage) \in Nat \ {0}
           /\ total <= PageCount(total, perPage) * perPage
           /\ (PageCount(total, perPage) - 1) * perPage < total
           /\ PageCount(total, perPage) <= total
<1> DEFINE a == total + perPage - 1
           q == a \div perPage
<1>1. a \in Nat /\ a >= perPage
  OBVIOUS
<1>2. q \in Int /\ a = perPage * q + (a % perPage) /\ 0 <= a % perPage /\ a % perPage < perPage
  BY <1>1
<1> HIDE DEF q
<1>3. total <= perPage * q /\ perPage * q - perPage < total
  <2>1. perPage * q \in Int /\ a % perPage \in Int
    BY <1>2
  <2>2. a - (a % perPage) = perPage * q
    BY <1>1, <1>2, <2>1
  <2> QED  BY <1>2, <2>1, <2>2
<1>4. perPage * q = q * perPage /\ perPage * q - perPage = (q - 1) * perPage
  BY <1>2
<1>5. q >= 1
  <2>1. ASSUME q <= 0 PROVE perPage * q <= 0
    BY <1>2, <2>1
  <2> QED  BY <1>2, <1>3, <2>1
<1>6. q - 1 <= (q - 1) * perPage
  <2>1. \A n \in Nat : n <= n * perPage
    OBVIOUS
  <2>2. q - 1 \in Nat
    BY <1>2, <1>5
  <2> QED  BY <2>1, <2>2
<1>7. q <= total
  BY <1>2, <1>3, <1>4, <1>6
<1>8. PageCount(total, perPage) = q
  BY DEF PageCount, q
<1> QED  BY <1>2, <1>3, <1>4, <1>5, <1>7, <1>8

\* The pages that are reached from the first one show every model once and leave none
\* out, for any number of models and any length of a page (cli/mod.rs:250-275).
THEOREM PagesShowAll == \A total, perPage \in Nat : PagesCover(total, perPage)
<1> SUFFICES ASSUME NEW total \in Nat, NEW perPage \in Nat, perPage # 0, total # 0
             PROVE  PagesCover(total, perPage)
  BY DEF PagesCover
<1> DEFINE page(p) == PageOf(total, p, perPage, FALSE)
           exist == {p \in 1 .. total : ~page(p).error}
           pages == PageCount(total, perPage)
           start(p) == (p - 1) * perPage
           end(p) == IF start(p) + perPage > total THEN total ELSE start(p) + perPage
<1>1. /\ pages \in Nat \ {0} /\ total <= pages * perPage /\ (pages - 1) * perPage < total
      /\ pages <= total
  BY PagesAreEnough
<1> HIDE DEF pages
<1>2. ASSUME NEW p \in 1 .. total
      PROVE  page(p) = IF p > pages THEN [error |-> TRUE, start |-> 0, end |-> 0, next |-> {}]
                       ELSE [error |-> FALSE, start |-> start(p), end |-> end(p),
                             next |-> IF p < pages THEN {p + 1} ELSE {}]
  BY DEF PageOf, pages
<1> HIDE DEF page
<1>3. exist = 1 .. pages
  BY <1>1, <1>2
<1>4. \A m, n \in Int : m <= n => m * perPage <= n * perPage
  OBVIOUS
<1>5. ASSUME NEW p \in 1 .. pages
      PROVE  /\ start(p) \in Int /\ start(p) < total /\ start(p) + perPage = p * perPage
             /\ start(p) < end(p) /\ (p < pages => end(p) = p * perPage /\ end(p) # total)
             /\ (p = pages => end(p) = total)
  <2>1. p - 1 <= pages - 1 /\ p \in Int /\ pages \in Int /\ p - 1 \in Int /\ pages - 1 \in Int
    BY <1>1
  <2>2. start(p) \in Int /\ start(p) <= (pages - 1) * perPage /\ (pages - 1) * perPage \in Int
    BY <1>4, <2>1
  <2>3. start(p) + perPage = p * perPage /\ p * perPage \in Int
    BY <2>1
  <2>4. p < pages => p * perPage < total
    <3>1. p < pages => p <= pages - 1
      BY <2>1
    <3> QED  BY <1>1, <1>4, <2>1, <2>2, <2>3, <3>1
  <2> HIDE DEF start
  <2> QED  BY <1>1, <2>1, <2>2, <2>3, <2>4
<1>6. /\ 1 \in exist /\ page(1).start = 0
  <2>1. 1 \in 1 .. pages /\ 1 \in 1 .. total /\ ~(1 > pages) /\ start(1) = 0
    BY <1>1
  <2> QED  BY <1>2, <1>3, <2>1
<1>7. ASSUME NEW p \in exist
      PROVE  /\ page(p).start < page(p).end
             /\ page(p).next = {} <=> page(p).end = total
             /\ \A q \in page(p).next : q \in exist /\ page(q).start = page(p).end
  <2>1. p \in 1 .. pages /\ p \in 1 .. total /\ ~(p > pages) /\ p \in Int /\ (p < pages \/ p = pages)
    BY <1>1, <1>3
  <2>2. page(p).start = start(p) /\ page(p).end = end(p) /\ page(p).next = IF p < pages THEN {p + 1} ELSE {}
    <3>1. page(p) = [error |-> FALSE, start |-> start(p), end |-> end(p),
                     next |-> IF p < pages THEN {p + 1} ELSE {}]
      BY <1>2, <2>1
    <3> HIDE DEF start, end
    <3> QED  BY <3>1
  <2>3. CASE p = pages
    BY <1>5, <2>1, <2>2, <2>3
  <2>4. CASE p < pages
    <3>1. p + 1 \in 1 .. pages /\ p + 1 \in 1 .. total /\ ~(p + 1 > pages) /\ start(p + 1) = p * perPage
      BY <1>1, <2>1, <2>4
    <3>2. page(p + 1).start = p * perPage
      BY <1>2, <3>1
    <3> QED  BY <1>3, <1>5, <2>1, <2>2, <2>4, <3>1, <3>2
  <2> QED  BY <2>1, <2>3, <2>4
<1> QED  BY <1>6, <1>7 DEF PagesCover, page

----------------------------------------------------------------------------
(* Placements.                                                             *)

FirstGiven(a, b, c) ==
  /\ FirstOf(<<a, b>>) = IF a # {} THEN a ELSE b
  /\ FirstOf(<<a, b, c>>) = IF a # {} THEN a ELSE IF b # {} THEN b ELSE c

\* The first option of two or of three that is present.
LEMMA FirstPresent == ASSUME NEW a, NEW b, NEW c PROVE FirstGiven(a, b, c)
<1>1. ASSUME NEW n \in Nat, NEW options, DOMAIN options = 1 .. n,
             NEW m \in 1 .. n, \A i \in 1 .. n : i < m => options[i] = {}, options[m] # {}
      PROVE  FirstOf(options) = options[m]
  <2> DEFINE present == {i \in DOMAIN options : options[i] # {}}
  <2>1. present \in SUBSET (1 .. n) /\ m \in present
    BY <1>1
  <2>2. Min(present) \in present /\ Min(present) <= m
    <3> HIDE DEF present
    <3> QED  BY <2>1, Ends
  <2>3. Min(present) = m
    <3>1. Min(present) \in 1 .. n /\ options[Min(present)] # {}
      BY <2>1, <2>2
    <3> HIDE DEF present
    <3> QED  BY <1>1, <2>2, <3>1
  <2> QED  BY <2>1, <2>3 DEF FirstOf
<1>2. ASSUME NEW options, \A i \in DOMAIN options : options[i] = {} PROVE FirstOf(options) = {}
  BY <1>2 DEF FirstOf
<1>3. FirstOf(<<a, b>>) = IF a # {} THEN a ELSE b
  <2> DEFINE options == <<a, b>>
  <2>1. DOMAIN options = 1 .. 2 /\ options[1] = a /\ options[2] = b
    OBVIOUS
  <2> HIDE DEF options
  <2>2. \A i \in 1 .. 2 : i = 1 \/ i = 2
    OBVIOUS
  <2>3. CASE a # {}
    <3>1. FirstOf(options) = options[1]
      <4>1. 1 \in 1 .. 2 /\ \A i \in 1 .. 2 : ~(i < 1)
        OBVIOUS
      <4> QED  BY <1>1, <2>1, <2>3, <4>1
    <3> QED  BY <2>1, <2>3, <3>1 DEF options
  <2>4. CASE a = {} /\ b # {}
    <3>1. FirstOf(options) = options[2]
      <4>1. 2 \in Nat /\ 2 \in 1 .. 2 /\ \A i \in 1 .. 2 : i < 2 => i = 1
        OBVIOUS
      <4>2. options[2] # {} /\ \A i \in 1 .. 2 : i < 2 => options[i] = {}
        BY <2>1, <2>4, <4>1
      <4>3. \A m \in 1 .. 2 : options[m] # {} /\ (\A i \in 1 .. 2 : i < m => options[i] = {})
                           => FirstOf(options) = options[m]
        BY <1>1, <2>1, <4>1
      <4> QED  BY <4>1, <4>2, <4>3
    <3> QED  BY <2>1, <2>4, <3>1 DEF options
  <2>5. CASE a = {} /\ b = {}
    <3>1. FirstOf(options) = {}
      BY <1>2, <2>1, <2>2, <2>5
    <3> QED  BY <2>5, <3>1 DEF options
  <2> QED  BY <2>3, <2>4, <2>5
<1>4. FirstOf(<<a, b, c>>) = IF a # {} THEN a ELSE IF b # {} THEN b ELSE c
  <2> DEFINE options == <<a, b, c>>
  <2>1. DOMAIN options = 1 .. 3 /\ options[1] = a /\ options[2] = b /\ options[3] = c
    OBVIOUS
  <2> HIDE DEF options
  <2>2. \A i \in 1 .. 3 : i = 1 \/ i = 2 \/ i = 3
    OBVIOUS
  <2>3. CASE a # {}
    <3>1. FirstOf(options) = options[1]
      <4>1. 1 \in 1 .. 3 /\ \A i \in 1 .. 3 : ~(i < 1)
        OBVIOUS
      <4> QED  BY <1>1, <2>1, <2>3, <4>1
    <3> QED  BY <2>1, <2>3, <3>1 DEF options
  <2>4. CASE a = {} /\ b # {}
    <3>1. FirstOf(options) = options[2]
      <4>1. 3 \in Nat /\ 2 \in 1 .. 3 /\ \A i \in 1 .. 3 : i < 2 => i = 1
        OBVIOUS
      <4>2. options[2] # {} /\ \A i \in 1 .. 3 : i < 2 => options[i] = {}
        BY <2>1, <2>4, <4>1
      <4>3. \A m \in 1 .. 3 : options[m] # {} /\ (\A i \in 1 .. 3 : i < m => options[i] = {})
                           => FirstOf(options) = options[m]
        BY <1>1, <2>1, <4>1
      <4> QED  BY <4>1, <4>2, <4>3
    <3> QED  BY <2>1, <2>4, <3>1 DEF options
  <2>5. CASE a = {} /\ b = {} /\ c # {}
    <3>1. FirstOf(options) = options[3]
      <4>1. 3 \in Nat /\ 3 \in 1 .. 3 /\ \A i \in 1 .. 3 : i < 3 => i = 1 \/ i = 2
        OBVIOUS
      <4>2. options[3] # {} /\ \A i \in 1 .. 3 : i < 3 => options[i] = {}
        BY <2>1, <2>5, <4>1
      <4>3. \A m \in 1 .. 3 : options[m] # {} /\ (\A i \in 1 .. 3 : i < m => options[i] = {})
                           => FirstOf(options) = options[m]
        BY <1>1, <2>1, <4>1
      <4> QED  BY <4>1, <4>2, <4>3
    <3> QED  BY <2>1, <2>5, <3>1 DEF options
  <2>6. CASE a = {} /\ b = {} /\ c = {}
    <3>1. FirstOf(options) = {}
      BY <1>2, <2>1, <2>2, <2>6
    <3> QED  BY <2>6, <3>1 DEF options
  <2> QED  BY <2>3, <2>4, <2>5, <2>6
<1> QED  BY <1>3, <1>4 DEF FirstGiven

\* The first of two.
LEMMA FirstOfTwo ==
    ASSUME NEW a, NEW b PROVE FirstOf(<<a, b>>) = IF a # {} THEN a ELSE b
<1>1. FirstGiven(a, b, a)
  BY FirstPresent
<1> QED  BY <1>1 DEF FirstGiven

\* The first of three.
LEMMA FirstOfThree ==
    ASSUME NEW a, NEW b, NEW c
    PROVE  FirstOf(<<a, b, c>>) = IF a # {} THEN a ELSE IF b # {} THEN b ELSE c
<1>1. FirstGiven(a, b, c)
  BY FirstPresent
<1> QED  BY <1>1 DEF FirstGiven

\* A role that was corrected needs no correction.
LEMMA CorrectedOnce ==
    ASSUME NEW role, NEW content, NEW raw
    PROVE  Corrected(Corrected(role, content, raw), content, raw) = Corrected(role, content, raw)
<1>1. <<"vae">> # <<"checkpoints">> /\ <<"diffusion_models">> # <<"checkpoints">>
  OBVIOUS
<1> QED  BY <1>1 DEF Corrected

IsOption(o) == \A a, b \in o : a = b

\* What a row and the same row with another role recorded have in common.
SameRequest(row, job) ==
    /\ row.version = job.version /\ row.model = job.model /\ row.preferred = job.preferred
    /\ row.url = job.url
    /\ row.roleOverride = job.roleOverride /\ row.declaredRole = job.declaredRole
    /\ row.familyOverride = job.familyOverride /\ row.templateFamilies = job.templateFamilies

\* A row that differs from another by the role it has recorded is resolved alike, but for
\* the role where the source tells none.
LEMMA ResolvedAlike ==
    ASSUME NEW job, NEW row, NEW source, NEW role,
           SameRequest(row, job), row.modelType = {role}
    PROVE  LET before == Resolution(job, source)
               after == Resolution(row, source)
           IN  /\ after.base = before.base
               /\ \/ after.role = before.role
                  \/ before.role = FirstOf(<<job.modelType, RoleOfDir(source.file.dir, source.roles)>>)
                     /\ after.role = {role}
<1>1. CASE source.kind = "huggingface"
  <2>1. FirstOf(<<row.modelType, RoleOfDir(source.file.dir, source.roles)>>) = {role}
    BY FirstOfTwo, FirstOfThree
  <2> QED  BY <1>1, <2>1 DEF Resolution, ResolveHuggingface
<1>2. CASE source.kind # "huggingface"
  <2>1. CASE job.version = {} /\ job.model = {}
    BY <1>2, <2>1 DEF Resolution, ResolveLink, SameRequest
  <2>2. CASE ~(job.version = {} /\ job.model = {})
    <3>1. ResolveCivitai(row, source.model, source.skipEarlyAccess) = ResolveCivitai(job, source.model, source.skipEarlyAccess)
      BY DEF ResolveCivitai, SameRequest
    <3> QED  BY <1>2, <2>2, <3>1 DEF Resolution, SameRequest
  <2> QED  BY <2>1, <2>2
<1> QED  BY <1>1, <1>2

\* The role a placement comes to, and what it came from.
PlacedBy(p, told, inferred, content, base, family) ==
  /\ p.roleSource \in Declarations <=> told # {}
  /\ told # {} => p.role = The(told)
  /\ told = {} =>
       p.role = Corrected(IF inferred = {} THEN <<"other">> ELSE The(inferred), content, base)
  /\ p.dir = IF p.family = {} THEN p.role ELSE Append(p.role, The(p.family))
  /\ p.family = family

\* A placement follows what the user or the template told, else what can be inferred.
LEMMA PlacedRole ==
    ASSUME NEW job, NEW resolution, NEW content, NEW aliases
    PROVE  PlacedBy(Place(job, resolution, content, aliases),
                    FirstOf(<<job.roleOverride, job.declaredRole>>),
                    FirstOf(<<resolution.role, job.modelType>>), content, resolution.base,
                    ResolveFamily(FamilyEvidence(job, resolution), aliases).family)
<1> DEFINE inferred == FirstOf(<<resolution.role, job.modelType>>)
           evidence == [override |-> job.roleOverride, declared |-> job.declaredRole,
                        inferred |-> inferred, rawFamily |-> resolution.base]
           told == FirstOf(<<job.roleOverride, job.declaredRole>>)
           p == Place(job, resolution, content, aliases)
<1>1. RoleEvidence(job, resolution) = evidence
  BY DEF RoleEvidence
<1>2. /\ evidence.override = job.roleOverride /\ evidence.declared = job.declaredRole
      /\ evidence.inferred = inferred /\ evidence.rawFamily = resolution.base
  OBVIOUS
<1>3. told = IF job.roleOverride # {} THEN job.roleOverride ELSE job.declaredRole
  BY FirstOfTwo, FirstOfThree
<1>4. FirstOf(<<job.roleOverride, job.declaredRole, inferred>>) = IF told # {} THEN told ELSE inferred
  BY <1>3, FirstOfTwo, FirstOfThree
<1>5. p = Resolve(evidence, content, FamilyEvidence(job, resolution), aliases)
  BY <1>1 DEF Place
<1> HIDE DEF evidence, told, inferred, p
<1>6. /\ DeclaredRole(evidence).source \in Declarations <=> told # {}
      /\ told # {} => DeclaredRole(evidence).role = The(told)
      /\ told = {} => DeclaredRole(evidence).role = IF inferred = {} THEN <<"other">> ELSE The(inferred)
  BY <1>2, <1>3, <1>4 DEF DeclaredRole, Declarations
<1>7. /\ p.roleSource = DeclaredRole(evidence).source
      /\ p.role = IF DeclaredRole(evidence).source \in Declarations THEN DeclaredRole(evidence).role
                  ELSE Corrected(DeclaredRole(evidence).role, content, evidence.rawFamily)
      /\ p.family = ResolveFamily(FamilyEvidence(job, resolution), aliases).family
      /\ p.dir = IF p.family = {} THEN p.role ELSE Append(p.role, The(p.family))
  BY <1>5 DEF Resolve
<1> QED  BY <1>2, <1>6, <1>7 DEF told, inferred, p, PlacedBy

\* A download again comes to the same directory, by the same right.
LEMMA PlacedAlike ==
    ASSUME NEW job, NEW row, NEW source, NEW content, NEW aliases,
           IsOption(job.roleOverride), IsOption(job.declaredRole),
           SameRequest(row, job),
           row.modelType = {Place(job, Resolution(job, source), content, aliases).role}
    PROVE  LET first == Place(job, Resolution(job, source), content, aliases)
               again == Place(row, Resolution(row, source), content, aliases)
           IN  /\ again.dir = first.dir
               /\ first.roleSource \in Declarations <=> again.roleSource \in Declarations
               /\ first.roleSource \in Declarations =>
                    {first.role} = FirstOf(<<job.roleOverride, job.declaredRole>>)
<1> DEFINE before == Resolution(job, source)
           after == Resolution(row, source)
           first == Place(job, before, content, aliases)
           again == Place(row, after, content, aliases)
           told == FirstOf(<<job.roleOverride, job.declaredRole>>)
           named == RoleOfDir(source.file.dir, source.roles)
           was == FirstOf(<<before.role, job.modelType>>)
           is == FirstOf(<<after.role, row.modelType>>)
<1>1. /\ after.base = before.base
      /\ after.role = before.role \/ (before.role = FirstOf(<<job.modelType, named>>) /\ after.role = {first.role})
  <2>1. ASSUME NEW role, row.modelType = {role}
        PROVE  /\ after.base = before.base
               /\ after.role = before.role \/ (before.role = FirstOf(<<job.modelType, named>>) /\ after.role = {role})
    <3>1. SameRequest(row, job)
      OBVIOUS
    <3>2. LET a == Resolution(job, source)
              b == Resolution(row, source)
          IN  /\ b.base = a.base
              /\ \/ b.role = a.role
                 \/ a.role = FirstOf(<<job.modelType, RoleOfDir(source.file.dir, source.roles)>>)
                    /\ b.role = {role}
      BY ONLY <2>1, <3>1, ResolvedAlike, Z3
    <3> QED  BY <3>2
  <2>2. row.modelType = {first.role}
    OBVIOUS
  <2> HIDE DEF first, before, after, named
  <2> QED  BY <2>1, <2>2
<1>2. told = FirstOf(<<row.roleOverride, row.declaredRole>>)
  BY DEF SameRequest
<1>3. PlacedBy(first, told, was, content, before.base,
               ResolveFamily(FamilyEvidence(job, before), aliases).family)
  BY PlacedRole
<1>4. PlacedBy(again, told, is, content, after.base,
               ResolveFamily(FamilyEvidence(row, after), aliases).family)
  <2>1. PlacedBy(again, FirstOf(<<row.roleOverride, row.declaredRole>>), is, content, after.base,
                 ResolveFamily(FamilyEvidence(row, after), aliases).family)
    BY PlacedRole
  <2> HIDE DEF told, again, is, after
  <2> QED  BY <1>2, <2>1
<1>5. again.family = first.family
  <2>1. FamilyEvidence(row, after) = FamilyEvidence(job, before)
    BY <1>1 DEF FamilyEvidence, SameRequest
  <2> HIDE DEF first, again, told, was, is, before, after
  <2> QED  BY <1>3, <1>4, <2>1 DEF PlacedBy
<1>6. row.modelType = {first.role}
  OBVIOUS
<1>7. told # {} => {first.role} = told
  <2>1. told = job.roleOverride \/ told = job.declaredRole
    BY FirstOfTwo, FirstOfThree
  <2>2. told # {} => The(told) \in told
    BY DEF The
  <2> HIDE DEF first, told, was, before
  <2> QED  BY <1>3, <2>1, <2>2 DEF IsOption, PlacedBy
<1>8. /\ is = IF after.role # {} THEN after.role ELSE {first.role}
      /\ was = IF before.role # {} THEN before.role ELSE job.modelType
  BY <1>6, FirstOfTwo, FirstOfThree
<1>9. told = {} => again.role = first.role
  <2> HIDE DEF before, after, first, again, told, named, was, is
  <2>1. ASSUME told = {}, is = {first.role} PROVE again.role = first.role
    <3>1. The(is) = first.role /\ is # {}
      BY <2>1 DEF The
    <3>2. again.role = Corrected(first.role, content, before.base)
      BY <1>1, <1>4, <2>1, <3>1 DEF PlacedBy
    <3> QED  BY <1>3, <2>1, <3>2, CorrectedOnce DEF PlacedBy
  <2>2. ASSUME told = {}, is = was PROVE again.role = first.role
    BY <1>1, <1>3, <1>4, <2>2 DEF PlacedBy
  <2>3. is = {first.role} \/ is = was
    BY <1>1, <1>8
  <2> QED  BY <2>1, <2>2, <2>3
<1> HIDE DEF before, after, first, again, told, was, is
<1>10. again.role = first.role
  BY <1>3, <1>4, <1>9 DEF PlacedBy
<1>11. again.dir = first.dir
  BY <1>3, <1>4, <1>5, <1>10 DEF PlacedBy
<1>12. /\ first.roleSource \in Declarations <=> again.roleSource \in Declarations
       /\ first.roleSource \in Declarations => {first.role} = told
  BY <1>3, <1>4, <1>7 DEF PlacedBy
<1> QED  BY <1>11, <1>12 DEF before, after, first, again, told

\* An optional value, and the rows of the downloads over some values.
Options(S) == {{}} \cup {{x} : x \in S}
RowsOver(S) ==
    [url : S, version : Options(S), model : Options(S), preferred : Options(S),
     roleOverride : Options(S), declaredRole : Options(S), modelType : Options(S),
     familyOverride : Options(S), templateFamilies : Seq(S)]

\* The placement of a row depends on no more than the lemma says.
LEMMA RecordingLasts ==
    ASSUME NEW job, IsOption(job.roleOverride), IsOption(job.declaredRole),
           \A role : LET row == [job EXCEPT !.modelType = {role}]
                     IN  SameRequest(row, job) /\ row.modelType = {role},
           NEW source, NEW content, NEW aliases
    PROVE  PlacementLasts(job, source, content, aliases)
<1> DEFINE first == Place(job, Resolution(job, source), content, aliases)
           row == [job EXCEPT !.modelType = {first.role}]
           again == Place(row, Resolution(row, source), content, aliases)
<1>1. Recorded(job, first) = row
  BY DEF Recorded
<1>2. SameRequest(row, job) /\ row.modelType = {first.role}
  OBVIOUS
<1> HIDE DEF row
<1>3. /\ again.dir = first.dir
      /\ first.roleSource \in Declarations <=> again.roleSource \in Declarations
      /\ first.roleSource \in Declarations =>
           {first.role} = FirstOf(<<job.roleOverride, job.declaredRole>>)
  BY <1>2, PlacedAlike
<1> QED  BY <1>1, <1>3 DEF PlacementLasts

\* A file that is downloaded again lies where it lay, and an inferred role is not taken
\* for a declared one the second time, for any row, source, content and aliases
\* (downloader.rs:1106-1129, placement.rs:252-289).
THEOREM PlacementsAreLasting ==
    ASSUME NEW S, NEW job \in RowsOver(S), NEW source, NEW content, NEW aliases
    PROVE  PlacementLasts(job, source, content, aliases)
<1>1. IsOption(job.roleOverride) /\ IsOption(job.declaredRole)
  BY DEF RowsOver, Options, IsOption
<1>2. ASSUME NEW role
      PROVE  LET row == [job EXCEPT !.modelType = {role}]
             IN  SameRequest(row, job) /\ row.modelType = {role}
  BY DEF RowsOver, SameRequest
<1> QED  BY <1>1, <1>2, RecordingLasts

----------------------------------------------------------------------------
(* All of them together, as the instance of MCServices runs them.          *)

\* Each machine runs as its own specification says, whatever the others do.
LEMMA MachinesRunAlone ==
    Spec => SettingsSpec /\ FetchingSpec /\ CacheSpec /\ ConnectionsSpec /\ PickerSpec
<1>1. Init => SettingsInit /\ FetchingInit /\ CacheInit /\ ConnectionsInit /\ PickerInit
  BY DEF Init
<1>2. ASSUME [Next]_vars
      PROVE  /\ [SettingsNext]_settingsVars /\ [FetchingNext]_fetchingVars
             /\ [CacheNext]_cacheVars /\ [ConnectionsNext]_connectionVars
             /\ [PickerNext]_pickerVars
  <2>1. CASE UNCHANGED vars
    BY <2>1 DEF vars
  <2>2. CASE Next
    BY <2>2 DEF Next
  <2> QED  BY <1>2, <2>1, <2>2
<1> QED  BY <1>1, <1>2, PTL DEF Spec, SettingsSpec, FetchingSpec, CacheSpec, ConnectionsSpec, PickerSpec

\* The settings, the clients of the services, the cache of the index, the connections and
\* the picker, beside each other (config.rs:304-339, ipc/client.rs:19-30, cli/mod.rs:934-948).
THEOREM ServicesInvariant == Spec => []ServicesInv
<1>1. SettingsInv /\ FetchingTypeOK /\ CacheInv /\ ConnectionsInv /\ PickerInv => ServicesInv
  BY DEF ServicesInv
<1> QED  BY <1>1, MachinesRunAlone, SettingsInvariant, FetchingInvariant, CacheInvariant,
            ConnectionsInvariant, PickerInvariant, PTL

\* A question stays the question it is.
LEMMA QuestionsStay == Spec => [](input \in InputsOf(service))
<1>1. Init => input \in InputsOf(service)
  BY DEF Init
<1>2. input \in InputsOf(service) /\ [Next]_vars => (input \in InputsOf(service))'
  <2> SUFFICES ASSUME input \in InputsOf(service), [Next]_vars
               PROVE  (input \in InputsOf(service))'
    OBVIOUS
  <2>1. service' = service /\ input' = input
    BY DEF Next, vars
  <2> QED  BY <2>1
<1> QED  BY <1>1, <1>2, PTL DEF Spec

\* The pages that are asked for are those of PagesShowAll: each model is on one of them
\* (cli/mod.rs:250-275).
THEOREM PagesAskedFor == Spec => []PagesPartition
<1>1. ASSUME input \in InputsOf(service) PROVE PagesPartition
  <2> SUFFICES ASSUME service = "pages" PROVE PagesCover(input.total, input.perPage)
    BY DEF PagesPartition
  <2>1. input \in [total : 0 .. 9, perPage : 0 .. 10]
    BY <1>1 DEF InputsOf
  <2> QED  BY <2>1, PagesShowAll
<1> QED  BY <1>1, QuestionsStay, PTL

\* The estimates that are asked for follow HeavierIsNeverEasier, for any largest size
\* (vram.rs:98-127).
THEOREM EstimatesAskedFor == Spec => []EstimatesAreMonotone
<1>1. ASSUME input \in InputsOf(service) PROVE EstimatesAreMonotone
  <2> SUFFICES ASSUME service = "estimate"
               PROVE  HeavierIsHarder(input.compute, input.offloadable, input.kind)
    BY DEF EstimatesAreMonotone
  <2>1. input \in [compute : 0 .. Cap, offloadable : 0 .. Cap, kind : {"image", "video", "llm"}]
    BY <1>1 DEF InputsOf
  <2> QED  BY <2>1, HeavierIsNeverEasier
<1> QED  BY <1>1, QuestionsStay, PTL

\* The labels that are asked for follow FamiliesAreOneFolder: a folder of one component,
\* and aliases that never split a family (placement.rs:198-232).
THEOREM FamiliesAskedFor == Spec => []FamiliesAreFolders
<1>1. ASSUME input \in InputsOf(service) PROVE FamiliesAreFolders
  <2> SUFFICES ASSUME service = "label"
               PROVE  LabelIsComponent(input.label, input.aliases) /\ AliasesConverge(input.aliases)
    BY DEF FamiliesAreFolders
  <2>1. input \in [label : Texts, aliases : Tables]
    BY <1>1 DEF InputsOf
  <2>2. Texts \subseteq Seq(Characters)
    <3>1. \A n \in Nat : [1 .. n -> Characters] \subseteq Seq(Characters)
      BY IsASeq
    <3>2. ASSUME NEW text \in Texts PROVE text \in Seq(Characters)
      <4>1. PICK n \in 0 .. 3 : text \in [1 .. n -> Characters]
        BY <3>2 DEF Texts
      <4> QED  BY <3>1, <4>1
    <3> QED  BY <3>2
  <2>3. Spellings \subseteq Seq(Characters) /\ Targets \subseteq Seq(Characters)
    BY DEF Spellings, Targets, Characters, Letters, Separator, Dot
  <2>4. Tables \subseteq AliasTables
    BY <2>3 DEF Tables, AliasTables
  <2>5. input.label \in Seq(Characters) /\ input.aliases \in AliasTables
    BY <2>1, <2>2, <2>4
  <2> QED  BY <2>5, FamiliesAreOneFolder
<1> QED  BY <1>1, QuestionsStay, PTL

\* The rows that are asked for follow PlacementsAreLasting: a second download files the
\* same content where the first did (downloader.rs:1106-1129).
THEOREM PlacementsAskedFor == Spec => []PlacementsLast
<1>1. ASSUME input \in InputsOf(service) PROVE PlacementsLast
  <2> SUFFICES ASSUME service = "job", NEW content, NEW aliases
               PROVE  PlacementLasts(input.job, input.source, content, aliases)
    BY DEF PlacementsLast
  <2>1. input.job \in Jobs
    BY <1>1 DEF InputsOf
  <2> DEFINE job == input.job
  <2>2. IsOption(job.roleOverride) /\ IsOption(job.declaredRole)
    BY <2>1 DEF Jobs, Opt, IsOption
  <2>3. ASSUME NEW role
        PROVE  LET row == [job EXCEPT !.modelType = {role}]
               IN  SameRequest(row, job) /\ row.modelType = {role}
    BY <2>1 DEF Jobs, SameRequest
  <2> HIDE DEF job
  <2>4. PlacementLasts(job, input.source, content, aliases)
    BY <2>2, <2>3, RecordingLasts
  <2> QED  BY <2>4 DEF job
<1> QED  BY <1>1, QuestionsStay, PTL

=============================================================================
