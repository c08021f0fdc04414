------------------------ MODULE ControlChannelProofs -------------------------
(***************************************************************************)
(* Proofs about ControlChannel for any number of clients, connections,     *)
(* commands and targets, and for every limit of ControlServerConfig.       *)
(*                                                                         *)
(* All of them follow what is on the way to one connection (Way): a step   *)
(* of the switch adds to its end or cuts its end off, a client takes its   *)
(* head, and nothing else happens to it.  For what is asked and answered   *)
(* they follow, in the same way, what is owed to the client (Owed): the    *)
(* replies on the way and then the requests that have not been answered.   *)
(***************************************************************************)
EXTENDS ControlChannel, SequenceProofs

Message == Reply \cup Event

-----------------------------------------------------------------------------
(* The invariant.                                                          *)

\* Everything has its type.
History ==
  [asked: [Clients -> Nat], answered: [Clients -> Nat], heard: [Clients -> Nat],
   begun: [Clients -> Nat]]

ControllerType ==
  /\ topology \in Topologies
  /\ revision \in Nat
  /\ faults \in SUBSET Targets /\ IsFiniteSet(faults)

ServiceType ==
  /\ next_event_sequence \in Nat \ {0}
  /\ run \in Run \cup {NoRun}
  /\ next_benchmark_id \in Nat \ {0}

ServerType ==
  /\ clients \in Seq(Connections)
  /\ peer \in [Connections -> Peer]
  /\ index \in Nat
  /\ inbox \in Seq(Request)
  /\ outgoing \in Seq(Event)

SocketType ==
  /\ backlog \in Seq(Connections)
  /\ requests \in [Connections -> Seq(Request)]
  /\ closed \in [Connections -> BOOLEAN]

ClientType ==
  /\ client \in [Clients -> Client]
  /\ dialled \in Nat
  /\ history \in History

TypeOK == ControllerType /\ ServiceType /\ ServerType /\ SocketType /\ ClientType

\* Where the loop over the clients is.
PositionInv ==
  /\ stage \in {"serve", "handle"} => index \in 1..Len(clients)
  /\ inbox # <<>> => stage = "handle"

Apart == {p \in Connections \X Connections : p[1] # p[2]}

\* Every socket has been dialled, for one client, and is accepted at most once.
SocketInv ==
  /\ Chain(clients \o backlog, Apart)
  /\ \A k \in Range(clients) \cup Range(backlog) : k <= dialled
  /\ \A c \in Clients : client[c].socket # Unconnected => client[c].socket <= dialled
  /\ \A c, d \in Clients : client[c].socket = client[d].socket /\ c # d => client[c].socket = Unconnected

\* Nothing is on the way to a client that was not accepted yet.
FreshInv ==
  /\ \A k \in Connections :
       k \in Range(backlog) \/ k > dialled => peer[k].stream = <<>> /\ peer[k].outbox = <<>>
  /\ \A c \in Clients :
       client[c].socket \in Range(backlog) => history.heard[c] = 0 /\ history.answered[c] = 0

ShapeInv == TypeOK /\ PositionInv /\ SocketInv /\ FreshInv

-----------------------------------------------------------------------------
Live(k) == k \in Range(clients) /\ ~peer[k].congested

Coming(k) == IF Live(k) THEN outgoing ELSE <<>>

Way(k) == (peer[k].stream \o peer[k].outbox) \o Coming(k)

\* The revisions on the way rise, from what the client goes by to that of the switch.
NotOlder == {p \in Message \X Message : p[1].revision <= p[2].revision}

Rising(way, from, to) ==
  /\ Chain(way, NotOlder)
  /\ \A m \in Range(way) : from <= m.revision /\ m.revision <= to

RevisionInv ==
  /\ \A c \in Clients : client[c].revision <= revision
  /\ \A c \in Connected : Rising(Way(client[c].socket), client[c].revision, revision)

\* Of a run, progress comes before the result; what is on the way about the run there
\* is, is progress it has passed.
OfRun == {m \in Event : m.run # NoRun}

InRunOrder ==
  {p \in Message \X Message :
     p[1] \in OfRun /\ p[2] \in OfRun =>
       \/ p[1].run.operation < p[2].run.operation
       \/ p[1].about = "progress" /\ p[1].run.completed <= p[2].run.completed}

Passed(m, now, next_id) ==
  /\ m.run.operation < next_id
  /\ now # NoRun =>
       \/ m.run.operation < now.operation
       \/ m.run.operation = now.operation /\ m.about = "progress" /\ m.run.completed <= now.completed
  /\ m.about = "completed" /\ finished(m.run) => m.run.received = PacketCount

Ordered(way, now, next_id) ==
  /\ Chain(way, InRunOrder)
  /\ \A m \in Range(way) : m \in OfRun => Passed(m, now, next_id)

RunInv ==
  /\ run # NoRun => run.operation < next_benchmark_id
  /\ \A c \in Connected : Ordered(Way(client[c].socket), run, next_benchmark_id)

-----------------------------------------------------------------------------
(* Messages, outboxes and sockets.                                         *)

\* A message is a reply or an event, never both.
LEMMA MessageFacts ==
  /\ Reply \cap Event = {}
  /\ \A m \in Message : /\ m.revision \in Nat
                        /\ m.kind = "event" <=> m \in Event
                        /\ m.kind = "reply" <=> m \in Reply
  /\ \A m \in Event : m.sequence \in Nat /\ m.run \in Run \cup {NoRun}
BY DEF Message, Reply, Event

\* The bounds of the configuration are positive.
LEMMA Bounds ==
  /\ MaxClients \in Nat \ {0} /\ MaxInbox \in Nat \ {0} /\ MaxPending \in Nat \ {0}
  /\ SocketBuffer \in Nat \ {0} /\ PacketsPerPoll \in Nat \ {0}
  /\ Connections \subseteq Nat
BY ServerConfig, FS_CardinalityType

\* The smaller of two numbers.
LEMMA MinOfTwo ==
  ASSUME NEW a \in Nat, NEW b \in Nat
  PROVE  Min({a, b}) \in Nat /\ Min({a, b}) <= a /\ Min({a, b}) <= b
<1>1. \E x \in {a, b} : \A y \in {a, b} : x <= y
  OBVIOUS
<1>2. Min({a, b}) \in {a, b} /\ \A y \in {a, b} : Min({a, b}) <= y
  BY <1>1 DEF Min
<1>3. QED BY <1>2

\* Messages in three parts.
LEMMA Assoc == \A a, b, c \in Seq(Message) : (a \o b) \o c = a \o (b \o c)
BY ConcatAssociative

\* Messages in two parts, and in one.
LEMMA Glue ==
  /\ \A a, b \in Seq(Message) : a \o b \in Seq(Message)
  /\ \A a \in Seq(Message) : a \o <<>> = a /\ <<>> \o a = a
  /\ <<>> \in Seq(Message)
  /\ \A m \in Message : <<m>> \in Seq(Message)
<1>2. \A a, b \in Seq(Message) : a \o b \in Seq(Message)
  BY ConcatProperties
<1>3. \A a \in Seq(Message) : a \o <<>> = a /\ <<>> \o a = a
  BY ConcatEmptySeq
<1>4. <<>> \in Seq(Message)
  BY EmptySeq
<1>5. \A m \in Message : <<m>> \in Seq(Message)
  BY Singleton
<1>6. QED BY <1>2, <1>3, <1>4, <1>5

\* flush moves a part of the outbox into the socket: together they stay the same.
LEMMA FlushFacts ==
  ASSUME NEW p \in Peer, NEW hung_up \in BOOLEAN
  PROVE  /\ flush(p, hung_up) \in Peer
         /\ flush(p, hung_up).congested = p.congested
         /\ flush(p, hung_up).stream \o flush(p, hung_up).outbox = p.stream \o p.outbox
<1> DEFINE room == IF hung_up \/ Len(p.stream) >= SocketBuffer THEN 0 ELSE SocketBuffer - Len(p.stream)
           n == Min({room, Len(p.outbox)})
           a == SubSeq(p.outbox, 1, n)
           b == SubSeq(p.outbox, n + 1, Len(p.outbox))
<1>1. p.stream \in Seq(Message) /\ p.outbox \in Seq(Message) /\ p.congested \in BOOLEAN
  BY DEF Peer, Message
<1>2. Len(p.stream) \in Nat /\ Len(p.outbox) \in Nat
  BY <1>1, LenProperties
<1>3. room \in Nat
  BY <1>2, Bounds
<1> HIDE DEF room
<1>4. n \in 0..Len(p.outbox)
  BY <1>2, <1>3, MinOfTwo
<1>5. flush(p, hung_up) = [p EXCEPT !.stream = p.stream \o a, !.outbox = b]
  BY DEF flush, room
<1> HIDE DEF n
<1>6. a \in Seq(Message) /\ b \in Seq(Message) /\ p.outbox = a \o b
  BY <1>1, <1>4, SplitAt
<1> HIDE DEF a, b
<1>7. p.stream \o a \in Seq(Message)
  BY <1>1, <1>6, ConcatProperties
<1>8. PICK s \in Seq(Message) : s = p.stream \o a
  BY <1>7
<1>9. /\ flush(p, hung_up) \in Peer /\ flush(p, hung_up).congested = p.congested
      /\ flush(p, hung_up).stream = s /\ flush(p, hung_up).outbox = b
  BY <1>5, <1>6, <1>8 DEF Peer, Message
<1>10. (p.stream \o a) \o b = p.stream \o (a \o b)
  <2>1. PICK x \in Seq(Message) : x = p.stream
    BY <1>1
  <2>2. (x \o a) \o b = x \o (a \o b)
    BY <1>6, Assoc, Zenon
  <2>3. QED BY <2>1, <2>2
<1>11. QED BY <1>6, <1>8, <1>9, <1>10

\* enqueue appends, gives a client up, or does nothing for one that was given up.
LEMMA EnqueueFacts ==
  ASSUME NEW p \in Peer, NEW m \in Message
  PROVE  /\ enqueue(p, m) \in Peer
         /\ enqueue(p, m).stream = p.stream
         /\ p.congested => enqueue(p, m) = p
         /\ ~enqueue(p, m).congested => ~p.congested /\ enqueue(p, m).outbox = p.outbox \o <<m>>
         /\ ~p.congested /\ enqueue(p, m).congested => enqueue(p, m).outbox = <<>>
<1>1. p.stream \in Seq(Message) /\ p.outbox \in Seq(Message) /\ p.congested \in BOOLEAN
  BY DEF Peer, Message
<1> DEFINE o == Append(p.outbox, m)
<1>2. o \in Seq(Message) /\ o = p.outbox \o <<m>>
  BY <1>1, AppendProperties, AppendIsConcat
<1> HIDE DEF o
<1>3. <<>> \in Seq(Message)
  BY EmptySeq
<1>4. CASE p.congested
  <2>1. enqueue(p, m) = p
    BY <1>4 DEF enqueue
  <2>2. QED BY <1>4, <2>1
<1>5. CASE ~p.congested /\ Len(p.outbox) + 1 > MaxPending
  <2>1. enqueue(p, m) = [p EXCEPT !.congested = TRUE, !.outbox = <<>>]
    BY <1>5 DEF enqueue
  <2>2. QED BY <1>1, <1>3, <1>5, <2>1 DEF Peer, Message
<1>6. CASE ~p.congested /\ ~(Len(p.outbox) + 1 > MaxPending)
  <2>1. enqueue(p, m) = [p EXCEPT !.outbox = o]
    BY <1>6 DEF enqueue, o
  <2>2. QED BY <1>1, <1>2, <1>6, <2>1 DEF Peer, Message
<1>7. QED BY <1>1, <1>4, <1>5, <1>6

-----------------------------------------------------------------------------
(* What a step does to what is on the way.                                 *)

\* From old to new: some replies are added, and then the events fresh; a connection
\* that is lost misses both, and its end may be cut off.
Follows(old, new, live, fresh, replies) ==
  \E w, q, r \in Seq(Message) :
    /\ old = w \o q
    /\ r \in replies
    /\ live => q = <<>> /\ new = (w \o r) \o fresh
    /\ ~live => new = w \o r

\* The first request of inbox is handled, and connection k asked it.
Answering(k) == inbox # <<>> /\ inbox' # inbox /\ clients[index] = k

\* The replies a step adds on connection k, at the revision it ends with: the answer
\* to the request that is handled, or none.
Due(k) ==
  {r \in Seq(Message) :
     /\ Range(r) \subseteq {m \in Reply : m.revision = revision'}
     /\ IF Live(k)' /\ Answering(k)
        THEN \E m \in Reply : r = <<m>> /\ m.request_id = Head(inbox).request_id
        ELSE r = <<>>}

\* What a step that numbers the events fresh does to connection k.
Effect(k, fresh) ==
  /\ Follows(Way(k), Way(k)', Live(k)', fresh, Due(k))
  /\ Live(k)' => Live(k) \/ k \in Range(backlog)

\* Without a loss, events are added.
LEMMA FollowsAdd ==
  ASSUME NEW s \in Seq(Message), NEW f \in Seq(Message), NEW live, NEW rs, <<>> \in rs, live \/ f = <<>>
  PROVE  Follows(s, s \o f, live, f, rs)
<1>1. <<>> \in Seq(Message) /\ s \o <<>> = s
  BY Glue
<1>2. QED BY <1>1 DEF Follows

\* A connection that is given up loses its end.
LEMMA FollowsCut ==
  ASSUME NEW s \in Seq(Message), NEW q \in Seq(Message), NEW f, NEW rs, <<>> \in rs
  PROVE  Follows(s \o q, s, FALSE, f, rs)
<1>1. <<>> \in Seq(Message) /\ s \o <<>> = s
  BY Glue
<1>2. QED BY <1>1 DEF Follows

\* A reply goes before the events.
LEMMA FollowsReply ==
  ASSUME NEW s \in Seq(Message), NEW m \in Message, NEW f \in Seq(Message), NEW rs, <<m>> \in rs
  PROVE  Follows(s, (s \o <<m>>) \o f, TRUE, f, rs)
<1>1. <<>> \in Seq(Message) /\ s \o <<>> = s /\ <<m>> \in Seq(Message)
  BY Glue
<1>2. QED BY <1>1 DEF Follows

\* Nothing is added where nothing is answered.
LEMMA NothingDue ==
  ASSUME NEW k, ~(Live(k)' /\ Answering(k))
  PROVE  <<>> \in Due(k)
<1>1. <<>> \in Seq(Message) /\ Range(<<>>) = {}
  BY EmptySeq DEF Range
<1>2. QED BY <1>1 DEF Due

\* What is added are replies at the revision the step ends with.
RepliesAt(v) == {r \in Seq(Message) : Range(r) \subseteq {m \in Reply : m.revision = v}}

LEMMA RepliesAreCurrent ==
  ASSUME NEW k, NEW fresh, Effect(k, fresh)
  PROVE  Follows(Way(k), Way(k)', Live(k)', fresh, RepliesAt(revision'))
<1>1. PICK w \in Seq(Message), q \in Seq(Message), r \in Seq(Message) :
        /\ Way(k) = w \o q
        /\ r \in Due(k)
        /\ Live(k)' => q = <<>> /\ Way(k)' = (w \o r) \o fresh
        /\ ~Live(k)' => Way(k)' = w \o r
  BY DEF Effect, Follows
<1>2. r \in RepliesAt(revision')
  BY <1>1 DEF Due, RepliesAt
<1>3. QED BY <1>1, <1>2 DEF Follows

-----------------------------------------------------------------------------
\* What is on the way are messages.
LEMMA WayFacts ==
  ASSUME TypeOK, NEW k \in Connections
  PROVE  /\ peer[k] \in Peer /\ peer[k].stream \in Seq(Message) /\ peer[k].outbox \in Seq(Message)
         /\ peer[k].congested \in BOOLEAN
         /\ outgoing \in Seq(Message) /\ Coming(k) \in Seq(Message) /\ Way(k) \in Seq(Message)
<1>1. peer[k] \in Peer /\ outgoing \in Seq(Event)
  BY DEF TypeOK, ServerType
<1>2. peer[k].stream \in Seq(Message) /\ peer[k].outbox \in Seq(Message) /\ peer[k].congested \in BOOLEAN
  BY <1>1 DEF Peer, Message
<1>3. outgoing \in Seq(Message)
  BY <1>1, SeqMonotonic DEF Message
<1>4. Coming(k) \in Seq(Message)
  BY <1>3, Glue DEF Coming
<1>5. peer[k].stream \o peer[k].outbox \in Seq(Message)
  BY <1>2, Glue
<1>6. Way(k) \in Seq(Message)
  BY <1>4, <1>5, Glue DEF Way
<1>7. QED BY <1>1, <1>2, <1>3, <1>4, <1>6

\* So it is after a step.
LEMMA WayFactsNext ==
  ASSUME TypeOK', NEW k \in Connections
  PROVE  Way(k)' \in Seq(Message)
<1>1. peer'[k] \in Peer /\ outgoing' \in Seq(Event)
  BY DEF TypeOK, ServerType
<1>2. peer'[k].stream \in Seq(Message) /\ peer'[k].outbox \in Seq(Message)
  BY <1>1 DEF Peer, Message
<1>3. outgoing' \in Seq(Message)
  BY <1>1, SeqMonotonic DEF Message
<1>4. Coming(k)' \in Seq(Message)
  BY <1>3, Glue DEF Coming
<1>5. peer'[k].stream \o peer'[k].outbox \in Seq(Message)
  BY <1>2, Glue
<1>6. QED BY <1>4, <1>5, Glue DEF Way

\* A connection nothing happens to, or which is accepted.
LEMMA Untouched ==
  ASSUME TypeOK, NEW k \in Connections, Way(k)' = Way(k),
         Live(k)' => Live(k) \/ k \in Range(backlog), inbox = <<>> \/ inbox' = inbox
  PROVE  Effect(k, <<>>)
<1>1. Way(k) \in Seq(Message) /\ <<>> \in Seq(Message) /\ Way(k) \o <<>> = Way(k)
  BY WayFacts, Glue
<1>2. <<>> \in Due(k)
  BY NothingDue DEF Answering
<1>3. Follows(Way(k), Way(k) \o <<>>, Live(k)', <<>>, Due(k))
  BY <1>2, <1>1, FollowsAdd
<1>4. QED BY <1>1, <1>3 DEF Effect

\* A connection that is told of the events of this step, if it is served at all.
LEMMA Informed ==
  ASSUME TypeOK, NEW k \in Connections, outgoing = <<>>, outgoing' \in Seq(Message),
         peer'[k] = peer[k], k \in Range(clients)' <=> k \in Range(clients), ~Answering(k)
  PROVE  Effect(k, outgoing')
<1>0. <<>> \in Due(k)
  BY NothingDue
<1> DEFINE s == peer[k].stream \o peer[k].outbox
<1>1. s \in Seq(Message) /\ s \o <<>> = s
  BY WayFacts, Glue
<1>2. Live(k)' <=> Live(k)
  BY DEF Live
<1>3. Way(k) = s /\ Way(k)' = IF Live(k) THEN s \o outgoing' ELSE s
  BY <1>1, <1>2 DEF Way, Coming
<1> HIDE DEF s
<1>4. CASE Live(k)
  <2>1. Follows(s, s \o outgoing', TRUE, outgoing', Due(k)) /\ Live(k)' = TRUE
    BY <1>0, <1>1, <1>2, <1>4, FollowsAdd DEF Live
  <2>2. QED BY <1>3, <1>4, <2>1 DEF Effect
<1>5. CASE ~Live(k)
  <2>1. Follows(s \o <<>>, s, FALSE, outgoing', Due(k)) /\ Live(k)' = FALSE
    BY <1>0, <1>1, <1>2, <1>5, Glue, FollowsCut DEF Live
  <2>2. QED BY <1>1, <1>3, <1>5, <2>1 DEF Effect
<1>6. QED BY <1>4, <1>5

\* Clients and backlog are distinct connections.
LEMMA ApartFacts ==
  ASSUME TypeOK, SocketInv
  PROVE  /\ Chain(clients, Apart) /\ Chain(backlog, Apart)
         /\ \A k \in Range(clients), j \in Range(backlog) : <<k, j>> \in Apart
         /\ Range(clients) \subseteq Connections /\ Range(backlog) \subseteq Connections
         /\ Range(clients) \cap Range(backlog) = {}
         /\ Range(clients) = {clients[i] : i \in 1..Len(clients)}
<1>1. clients \in Seq(Connections) /\ backlog \in Seq(Connections)
  BY DEF TypeOK, ServerType, SocketType
<1>2. /\ Chain(clients, Apart) /\ Chain(backlog, Apart)
      /\ \A k \in Range(clients), j \in Range(backlog) : <<k, j>> \in Apart
  BY <1>1, ChainParts DEF SocketInv
<1>3. Range(clients) \subseteq Connections /\ Range(backlog) \subseteq Connections
  BY <1>1, RangeOfSeq
<1>4. Range(clients) \cap Range(backlog) = {}
  BY <1>2 DEF Apart
<1>5. Range(clients) = {clients[i] : i \in 1..Len(clients)}
  BY <1>1, RangeEquality
<1>6. QED BY <1>2, <1>3, <1>4, <1>5

-----------------------------------------------------------------------------
(* The steps of the switch.                                                *)

\* What a step of the switch leaves to the clients.
ClientsRest == UNCHANGED <<client, dialled, history>>

\* broadcast moves an event along, or gives a client up.
LEMMA BroadcastTells ==
  ASSUME ShapeInv, Broadcast
  PROVE  \A k \in Connections : Effect(k, <<>>)
<1>1. SUFFICES ASSUME NEW k \in Connections PROVE Effect(k, <<>>)
  OBVIOUS
<1> DEFINE m == Head(outgoing)
           u == Tail(outgoing)
<1>2. TypeOK /\ Range(clients) = {clients[i] : i \in 1..Len(clients)}
  BY ApartFacts DEF ShapeInv
<1>3. /\ outgoing \in Seq(Event) /\ outgoing # <<>> /\ outgoing' = u /\ clients' = clients
      /\ peer'[k] = IF k \in Range(clients) THEN flush(enqueue(peer[k], m), closed[k]) ELSE peer[k]
      /\ closed[k] \in BOOLEAN /\ inbox' = inbox
  BY <1>2 DEF Broadcast, TypeOK, ServerType, SocketType, polling
<1>4. m \in Message /\ u \in Seq(Message) /\ <<m>> \in Seq(Message) /\ outgoing = <<m>> \o u
  <2>1. m \in Event /\ u \in Seq(Event) /\ outgoing = <<m>> \o u
    BY <1>3, HeadFirst
  <2>2. QED BY <2>1, SeqMonotonic, Glue DEF Message
<1> HIDE DEF m, u
<1>5. PICK st \in Seq(Message), ob \in Seq(Message) : st = peer[k].stream /\ ob = peer[k].outbox
  BY <1>2, WayFacts
<1>6. PICK mm \in Seq(Message) : mm = <<m>>
  BY <1>4
<1>7. CASE k \notin Range(clients)
  <2>1. ~Live(k) /\ ~Live(k)' /\ Way(k)' = Way(k)
    BY <1>3, <1>7 DEF Live, Way, Coming
  <2>2. QED BY <1>2, <1>3, <2>1, Untouched
<1>8. CASE k \in Range(clients)
  <2> DEFINE e == enqueue(peer[k], m)
  <2>1. /\ peer[k] \in Peer /\ e \in Peer /\ e.stream = st
        /\ peer[k].congested => e = peer[k]
        /\ ~e.congested => ~peer[k].congested /\ e.outbox = ob \o mm
        /\ ~peer[k].congested /\ e.congested => e.outbox = <<>>
    BY <1>2, <1>4, <1>5, <1>6, WayFacts, EnqueueFacts, SMTT(40)
  <2>2. /\ peer'[k].congested = e.congested /\ e.congested \in BOOLEAN
        /\ peer'[k].stream \o peer'[k].outbox = st \o e.outbox
    BY <1>3, <1>8, <2>1, FlushFacts, ZenonT(60) DEF Peer
  <2> HIDE DEF e
  <2>3. /\ Live(k) <=> ~peer[k].congested
        /\ Live(k)' <=> ~e.congested
    BY <1>3, <1>8, <2>2, SMTT(40) DEF Live
  <2>4. /\ Way(k) = (st \o ob) \o (IF Live(k) THEN mm \o u ELSE <<>>)
        /\ Way(k)' = (st \o e.outbox) \o (IF Live(k)' THEN u ELSE <<>>)
    BY <1>3, <1>4, <1>5, <1>6, <2>2 DEF Way, Coming
  <2>5. CASE peer[k].congested
    <3>1. Way(k)' = Way(k) /\ ~Live(k)'
      BY <1>5, <2>1, <2>3, <2>4, <2>5
    <3>2. QED BY <1>2, <1>3, <3>1, Untouched
  <2>6. CASE ~peer[k].congested /\ e.congested
    <3>1. Way(k)' = (st \o <<>>) \o <<>> /\ Way(k) = (st \o ob) \o (mm \o u) /\ ~Live(k)'
      BY <2>1, <2>3, <2>4, <2>6
    <3>2. PICK q \in Seq(Message) : q = ob \o (mm \o u)
      BY <1>4, Glue
    <3>3. (st \o <<>>) \o <<>> = st /\ mm \o u \in Seq(Message)
      BY <1>4, Glue
    <3>4. (st \o ob) \o (mm \o u) = st \o q
      <4>1. PICK y \in Seq(Message) : y = mm \o u
        BY <3>3
      <4>2. (st \o ob) \o y = st \o (ob \o y)
        BY Assoc, ZenonT(60)
      <4>3. QED BY <3>2, <4>1, <4>2
    <3>5. Follows(st \o q, st, FALSE, <<>>, Due(k))
      BY <1>3, NothingDue, FollowsCut DEF Answering
    <3>6. Live(k)' = FALSE
      BY <3>1 DEF Live
    <3>7. QED BY <3>1, <3>3, <3>4, <3>5, <3>6 DEF Effect
  <2>7. CASE ~e.congested
    <3>1. Way(k)' = (st \o (ob \o mm)) \o u /\ Way(k) = (st \o ob) \o (mm \o u) /\ Live(k)
      BY <2>1, <2>3, <2>4, <2>7
    <3>2. PICK x \in Seq(Message) : x = st \o ob
      BY Glue
    <3>3. st \o (ob \o mm) = x \o mm
      BY <3>2, Assoc, ZenonT(60)
    <3>4. (x \o mm) \o u = x \o (mm \o u)
      BY <1>4, Assoc, ZenonT(60)
    <3>5. Way(k)' = Way(k)
      BY <3>1, <3>2, <3>3, <3>4
    <3>6. QED BY <1>2, <1>3, <3>1, <3>5, Untouched
  <2>8. QED BY <2>2, <2>5, <2>6, <2>7
<1>9. QED BY <1>7, <1>8

\* Sockets that nobody is served on stay empty, and their clients have heard nothing.
LEMMA FreshKept ==
  ASSUME FreshInv, ClientsRest, Range(backlog)' \subseteq Range(backlog),
         \A k \in Connections :
           k \in Range(backlog)' \/ k > dialled =>
             peer'[k].stream = peer[k].stream /\ (peer'[k].outbox = peer[k].outbox \/ peer'[k].outbox = <<>>)
  PROVE  FreshInv'
BY DEF FreshInv, ClientsRest

\* broadcast moves an event into every outbox and keeps the shape.
LEMMA BroadcastShape ==
  ASSUME ShapeInv, Broadcast, ClientsRest
  PROVE  ShapeInv'
<1>1. TypeOK /\ PositionInv /\ SocketInv /\ FreshInv
  BY DEF ShapeInv
<1>2. /\ outgoing \in Seq(Event) /\ outgoing # <<>> /\ closed \in [Connections -> BOOLEAN]
      /\ peer \in [Connections -> Peer]
  BY <1>1 DEF Broadcast, TypeOK, ServerType, SocketType
<1>3. Head(outgoing) \in Message /\ outgoing' \in Seq(Event)
  BY <1>2, HeadFirst DEF Broadcast, Message
<1>4. \A k \in Connections : flush(enqueue(peer[k], Head(outgoing)), closed[k]) \in Peer
  <2>1. \A k \in Connections : enqueue(peer[k], Head(outgoing)) \in Peer
    BY <1>2, <1>3, EnqueueFacts
  <2>2. QED BY <1>2, <2>1, FlushFacts
<1>5. peer' \in [Connections -> Peer]
  BY <1>2, <1>4 DEF Broadcast
<1>6. TypeOK'
  BY <1>1, <1>3, <1>5
  DEF Broadcast, ClientsRest, TypeOK, ControllerType, ServiceType, ServerType, SocketType, ClientType,
      controller, service, polling, sockets
<1>7. PositionInv' /\ SocketInv'
  BY <1>1 DEF Broadcast, ClientsRest, PositionInv, SocketInv, polling, sockets
<1>8. FreshInv'
  <2>1. clients' = clients /\ backlog' = backlog /\ dialled' = dialled
    BY DEF Broadcast, ClientsRest, sockets
  <2>2. ASSUME NEW k \in Connections, k \in Range(backlog)' \/ k > dialled
        PROVE  peer'[k] = peer[k]
    <3>1. k \notin Range(clients)
      <4>1. Range(clients) \cap Range(backlog) = {} /\ dialled \in Nat /\ k \in Nat
        BY <1>1, ApartFacts, Bounds DEF TypeOK, ClientType
      <4>2. \A j \in Range(clients) : j <= dialled
        BY <1>1 DEF SocketInv
      <4>3. QED BY <2>1, <2>2, <4>1, <4>2
    <3>2. ~\E i \in 1..Len(clients) : clients[i] = k
      BY <1>1, <3>1, ApartFacts
    <3>3. QED BY <3>2 DEF Broadcast
  <2>3. QED BY <1>1, <2>1, <2>2, FreshKept
<1>9. QED BY <1>6, <1>7, <1>8 DEF ShapeInv

-----------------------------------------------------------------------------
(* What is published.                                                      *)

Note == [about: EventKind, run: Run \cup {NoRun}]

\* Events are numbered from the next number on and carry the revision.
Numbered(fresh) ==
  /\ next_event_sequence' = next_event_sequence + Len(fresh)
  /\ \A i \in 1..Len(fresh) : fresh[i].sequence = next_event_sequence + i - 1

Current(fresh) ==
  /\ revision <= revision'
  /\ \A i \in 1..Len(fresh) : fresh[i].revision = revision'

\* A run advances, or a new one has a new number; events tell of the run there was, or
\* of the new one, and if there is a run afterwards they are progress of that run.
RunStep(fresh) ==
  /\ next_benchmark_id <= next_benchmark_id'
  /\ run' # NoRun =>
       IF run = NoRun THEN run'.operation = next_benchmark_id /\ next_benchmark_id < next_benchmark_id'
       ELSE run'.operation = run.operation /\ run.completed <= run'.completed
  /\ Chain(fresh, InRunOrder)
  /\ \A m \in Range(fresh) : m \in OfRun =>
       /\ IF run = NoRun
          THEN m.run.operation = next_benchmark_id /\ next_benchmark_id < next_benchmark_id'
          ELSE m.run.operation = run.operation /\ run.completed <= m.run.completed
       /\ run' # NoRun =>
            m.run.operation = run'.operation /\ m.about = "progress" /\ m.run.completed <= run'.completed
       /\ m.about = "completed" /\ finished(m.run) => m.run.received = PacketCount

\* What a step says of the switch with the events fresh.
Speaks(fresh) == fresh \in Seq(Event) /\ Numbered(fresh) /\ Current(fresh) /\ RunStep(fresh)

\* Publish stamps one event for every note.
LEMMA PublishFacts ==
  ASSUME next_event_sequence \in Nat \ {0}, NEW v \in Nat, NEW notes \in Seq(Note), Publish(notes, v)
  PROVE  /\ outgoing' \in Seq(Event) /\ Len(outgoing') = Len(notes)
         /\ \A i \in 1..Len(notes) :
              /\ outgoing'[i].sequence = next_event_sequence + i - 1 /\ outgoing'[i].revision = v
              /\ outgoing'[i].about = notes[i].about /\ outgoing'[i].run = notes[i].run
         /\ next_event_sequence' \in Nat \ {0} /\ Numbered(outgoing')
<1>1. PICK n \in Nat : n = Len(notes)
  BY LenProperties
<1>2. \A i \in 1..n : notes[i] \in Note
  BY <1>1, ElementOfSeq
<1> DEFINE e(i) == [kind |-> "event", sequence |-> next_event_sequence + i - 1, revision |-> v,
                    about |-> notes[i].about, run |-> notes[i].run]
<1>3. outgoing' = [i \in 1..n |-> e(i)] /\ next_event_sequence' = next_event_sequence + n
  BY <1>1 DEF Publish
<1>4. \A i \in 1..n : e(i) \in Event
  BY <1>2 DEF Note, Event
<1>5. \A i \in 1..n : /\ e(i).sequence = next_event_sequence + i - 1 /\ e(i).revision = v
                      /\ e(i).about = notes[i].about /\ e(i).run = notes[i].run
  OBVIOUS
<1> HIDE DEF e
<1>6. outgoing' \in Seq(Event) /\ Len(outgoing') = n
  <2>1. outgoing' \in [1..n -> Event]
    BY <1>3, <1>4
  <2>2. outgoing' \in Seq(Event)
    BY <2>1, SeqDef
  <2>3. DOMAIN outgoing' = 1..n /\ DOMAIN outgoing' = 1..Len(outgoing') /\ Len(outgoing') \in Nat
    BY <2>1, <2>2, LenProperties
  <2>4. QED BY <2>2, <2>3
<1>7. QED BY <1>1, <1>3, <1>5, <1>6 DEF Numbered

\* Notes about the switch, not about a run.
LEMMA StateNotes ==
  ASSUME NEW n \in Nat
  PROVE  /\ StateEvents(n) \in Seq(Note) /\ Len(StateEvents(n)) = n
         /\ \A i \in 1..n : StateEvents(n)[i].run = NoRun
<1>1. StateEvents(n) \in [1..n -> Note] /\ \A i \in 1..n : StateEvents(n)[i].run = NoRun
  BY DEF StateEvents, Note, EventKind
<1>2. StateEvents(n) \in Seq(Note)
  BY <1>1, SeqDef
<1>3. DOMAIN StateEvents(n) = 1..n /\ DOMAIN StateEvents(n) = 1..Len(StateEvents(n))
  BY <1>1, <1>2, LenProperties
<1>4. Len(StateEvents(n)) \in Nat
  BY <1>2, LenProperties
<1>5. QED BY <1>1, <1>2, <1>3, <1>4

\* Events that are not about a run leave it alone.
LEMMA QuietRun ==
  ASSUME ServiceType, NEW fresh \in Seq(Event), \A i \in 1..Len(fresh) : fresh[i].run = NoRun,
         run' = run, next_benchmark_id' = next_benchmark_id
  PROVE  RunStep(fresh)
<1>1. \A m \in Range(fresh) : m \notin OfRun
  BY RangeEquality DEF OfRun
<1>2. Chain(fresh, InRunOrder)
  <2>1. SUFFICES ASSUME NEW i \in 1..Len(fresh), NEW j \in 1..Len(fresh)
                 PROVE  <<fresh[i], fresh[j]>> \in InRunOrder
    BY DEF Chain
  <2>2. fresh[i] \in Message /\ fresh[j] \in Message /\ fresh[i] \notin OfRun
    BY ElementOfSeq DEF OfRun, Message
  <2>3. QED BY <2>2 DEF InRunOrder
<1>3. run # NoRun => run.operation = run.operation /\ run.completed <= run.completed
  BY DEF ServiceType, Run
<1>4. next_benchmark_id <= next_benchmark_id
  BY DEF ServiceType
<1>5. QED BY <1>1, <1>2, <1>3, <1>4 DEF RunStep

\* A step that publishes nothing.
LEMMA SaysNothing ==
  ASSUME TypeOK, UNCHANGED <<revision, next_event_sequence, run, next_benchmark_id>>
  PROVE  Speaks(<<>>)
<1>1. <<>> \in Seq(Event) /\ Len(<<>>) = 0
  BY EmptySeq
<1>2. revision \in Nat /\ next_event_sequence \in Nat /\ ServiceType
  BY DEF TypeOK, ControllerType, ServiceType
<1>3. RunStep(<<>>)
  <2>1. PICK f \in Seq(Event) : f = <<>> /\ Len(f) = 0
    BY <1>1
  <2>2. \A i \in 1..Len(f) : f[i].run = NoRun
    BY <2>1
  <2>3. RunStep(f)
    BY <1>2, <2>2, QuietRun
  <2>4. QED BY <2>1, <2>3
<1>4. Numbered(<<>>) /\ Current(<<>>)
  BY <1>1, <1>2 DEF Numbered, Current
<1>5. QED BY <1>1, <1>3, <1>4 DEF Speaks

\* Events about the switch, at its revision.
LEMMA StateAnnounced ==
  ASSUME TypeOK, NEW n \in Nat, Publish(StateEvents(n), revision'), revision' \in Nat, revision <= revision',
         run' = run, next_benchmark_id' = next_benchmark_id
  PROVE  Speaks(outgoing') /\ next_event_sequence' \in Nat \ {0}
<1>1. ServiceType /\ next_event_sequence \in Nat \ {0}
  BY DEF TypeOK, ServiceType
<1>2. PICK v \in Nat : v = revision'
  OBVIOUS
<1>3. PICK notes \in Seq(Note) : /\ notes = StateEvents(n) /\ Len(notes) = n
                                 /\ \A i \in 1..n : notes[i].run = NoRun
  BY StateNotes
<1>4. /\ outgoing' \in Seq(Event) /\ Len(outgoing') = n
      /\ \A i \in 1..n : outgoing'[i].revision = v /\ outgoing'[i].run = NoRun
      /\ next_event_sequence' \in Nat \ {0} /\ Numbered(outgoing')
  <2>1. Publish(notes, v)
    BY <1>2, <1>3
  <2>2. QED BY <1>1, <1>3, <2>1, PublishFacts
<1>5. PICK f \in Seq(Event) : f = outgoing'
  BY <1>4
<1>6. RunStep(f)
  <2>1. \A i \in 1..Len(f) : f[i].run = NoRun
    BY <1>4, <1>5
  <2>2. QED BY <1>1, <2>1, QuietRun
<1>7. Current(f)
  BY <1>2, <1>4, <1>5 DEF Current
<1>8. QED BY <1>4, <1>5, <1>6, <1>7 DEF Speaks

\* Everybody is told what the step says.
Tells == \E fresh : Speaks(fresh) /\ \A k \in Connections : Effect(k, fresh)

\* The switch publishes while no event waits to be broadcast.
LEMMA Announced ==
  ASSUME TypeOK, outgoing = <<>>, Speaks(outgoing'), UNCHANGED <<clients, peer, inbox>>
  PROVE  Tells
<1>1. outgoing' \in Seq(Message)
  BY SeqMonotonic DEF Speaks, Message
<1>2. \A k \in Connections : Effect(k, outgoing')
  BY <1>1, Informed DEF Answering
<1>3. QED BY <1>2 DEF Tells

\* A step that does nothing to the connections keeps the shape if it keeps the types.
LEMMA ShapeKept ==
  ASSUME ShapeInv, ClientsRest, UNCHANGED <<clients, peer, backlog, closed>>,
         ControllerType', ServiceType', PositionInv', index' \in Nat, inbox' \in Seq(Request),
         outgoing' \in Seq(Event), requests' \in [Connections -> Seq(Request)]
  PROVE  ShapeInv'
<1>1. TypeOK'
  BY DEF ShapeInv, TypeOK, ServerType, SocketType, ClientType, ClientsRest
<1>2. SocketInv' /\ FreshInv'
  BY DEF ShapeInv, SocketInv, FreshInv, ClientsRest
<1>3. QED BY <1>1, <1>2 DEF ShapeInv

\* SwitchSupervisor publishes an analysis.
LEMMA PublishAnalysis ==
  ASSUME ShapeInv, publish_analysis, ClientsRest
  PROVE  ShapeInv' /\ Tells
<1>1. TypeOK /\ outgoing = <<>> /\ ControllerType /\ ServiceType /\ ServerType
  BY DEF ShapeInv, TypeOK, publish_analysis, Between
<1>2. UNCHANGED <<topology, revision, run, next_benchmark_id, clients, peer, stage, index, inbox, backlog,
                  requests, closed>>
  BY DEF publish_analysis, polling, sockets
<1>3. ControllerType'
  <2>1. PICK t : faults' \in {faults \cup {t}, faults \ {t}} \cap SUBSET topology
    BY DEF publish_analysis
  <2>2. IsFiniteSet(faults \cup {t}) /\ IsFiniteSet(faults \ {t})
    BY <1>1, FS_AddElement, FS_RemoveElement DEF ControllerType
  <2>3. topology \subseteq Targets
    BY <1>1, ServerConfig DEF ControllerType
  <2>4. QED BY <1>1, <1>2, <2>1, <2>2, <2>3 DEF ControllerType
<1>4. Speaks(outgoing') /\ next_event_sequence' \in Nat \ {0}
  <2>1. CASE clients = <<>>
    <3>1. UNCHANGED <<outgoing, next_event_sequence>>
      BY <2>1 DEF publish_analysis
    <3>2. QED BY <1>1, <1>2, <3>1, SaysNothing DEF ServiceType
  <2>2. CASE clients # <<>>
    <3>1. PICK n \in Nat : Publish(StateEvents(n), revision)
      BY <2>2 DEF publish_analysis
    <3>2. revision' \in Nat /\ revision <= revision' /\ revision' = revision
      BY <1>1, <1>2 DEF ControllerType
    <3>3. QED BY <1>1, <1>2, <3>1, <3>2, StateAnnounced
  <2>3. QED BY <2>1, <2>2
<1>5. ServiceType' /\ PositionInv'
  BY <1>1, <1>2, <1>4 DEF ServiceType, ShapeInv, PositionInv
<1>6. outgoing' \in Seq(Event)
  BY <1>4 DEF Speaks
<1>7. index' \in Nat /\ inbox' \in Seq(Request) /\ requests' \in [Connections -> Seq(Request)]
  BY <1>1, <1>2 DEF TypeOK, ServerType, SocketType
<1>8. ShapeInv'
  BY <1>2, <1>3, <1>5, <1>6, <1>7, ShapeKept
<1>9. Tells
  BY <1>1, <1>2, <1>4, Announced
<1>10. QED BY <1>8, <1>9

\* SwitchSupervisor publishes its state.
LEMMA PublishSupervision ==
  ASSUME ShapeInv, publish_supervision, ClientsRest
  PROVE  ShapeInv' /\ Tells
<1>1. TypeOK /\ outgoing = <<>> /\ ControllerType /\ ServiceType /\ ServerType
  BY DEF ShapeInv, TypeOK, publish_supervision, Between
<1>2. UNCHANGED <<topology, revision, faults, run, next_benchmark_id, clients, peer, stage, index, inbox,
                  backlog, requests, closed>>
  BY DEF publish_supervision, polling, sockets, controller
<1>3. Speaks(outgoing') /\ next_event_sequence' \in Nat \ {0}
  <2>1. revision' \in Nat /\ revision <= revision' /\ Publish(StateEvents(1), revision')
    BY <1>1, <1>2 DEF ControllerType, publish_supervision
  <2>2. QED BY <1>1, <1>2, <2>1, StateAnnounced
<1>4. ServiceType' /\ PositionInv' /\ ControllerType'
  BY <1>1, <1>2, <1>3 DEF ServiceType, ControllerType, ShapeInv, PositionInv
<1>5. outgoing' \in Seq(Event)
  BY <1>3 DEF Speaks
<1>6. index' \in Nat /\ inbox' \in Seq(Request) /\ requests' \in [Connections -> Seq(Request)]
  BY <1>1, <1>2 DEF TypeOK, ServerType, SocketType
<1>7. ShapeInv'
  BY <1>2, <1>4, <1>5, <1>6, ShapeKept
<1>8. Tells
  BY <1>1, <1>2, <1>3, Announced
<1>9. QED BY <1>7, <1>8

-----------------------------------------------------------------------------
(* A benchmark run.                                                        *)

\* A slice of a run never goes back, and a finished run has accounted for every packet.
LEMMA AdvanceFacts ==
  ASSUME NEW r0 \in Run, NEW max \in Nat \ {0}, NEW r \in advance(r0, max)
  PROVE  /\ r \in Run /\ r.operation = r0.operation /\ r0.completed <= r.completed
         /\ finished(r) => r.received = PacketCount
<1>1. /\ r0.completed \in 0..PacketCount /\ r0.received \in 0..PacketCount
      /\ PacketCount \in Nat \ {0} /\ BatchSize \in Nat \ {0}
  BY BenchmarkConfig DEF Run
<1> DEFINE after == AfterSlice(r0, max)
<1>2. after \in 0..PacketCount /\ r0.completed <= after
  <2>1. CASE finished(r0)
    BY <1>1, <2>1 DEF AfterSlice, finished
  <2>2. CASE ~finished(r0)
    <3> DEFINE N == {n \in 1..max : n * BatchSize >= max \/ AfterBatches(r0, n) = PacketCount}
    <3>1. max * BatchSize >= max
      BY <1>1
    <3>2. N \subseteq Nat /\ max \in N
      BY <3>1
    <3>3. \E x \in N : \A y \in N : x <= y
      BY <3>2, LeastNatural
    <3>4. Min(N) \in N
      BY <3>3 DEF Min
    <3>5. PICK n \in Nat : n = Min(N)
      BY <3>2, <3>4
    <3> HIDE DEF N
    <3>6. after = AfterBatches(r0, n)
      BY <2>2, <3>5 DEF AfterSlice, N
    <3>7. n * BatchSize \in Nat
      BY <1>1
    <3>8. PICK b \in Nat : b = n * BatchSize
      BY <3>7
    <3>9. after = IF r0.completed + b < PacketCount THEN r0.completed + b ELSE PacketCount
      BY <3>6, <3>8 DEF AfterBatches
    <3>10. QED BY <1>1, <3>9
  <2>3. QED BY <2>1, <2>2
<1>3. PICK p \in Accounted(r0, after) : r = [r0 EXCEPT !.completed = after, !.received = p]
  BY DEF advance
<1>4. /\ p \in r0.received..after
      /\ p = after \/ after < PacketCount
  BY DEF Accounted
<1> HIDE DEF after
<1>5. p \in 0..PacketCount
  BY <1>1, <1>2, <1>4
<1>6. r \in Run /\ r.operation = r0.operation /\ r.completed = after /\ r.received = p
  BY <1>2, <1>3, <1>5 DEF Run
<1>7. finished(r) => p = PacketCount
  BY <1>1, <1>2, <1>4, <1>6 DEF finished
<1>8. QED BY <1>2, <1>6, <1>7

\* Events about run r at the present revision, when the run is continued or over.
LEMMA RunAnnounced ==
  ASSUME TypeOK, NEW r \in Run, NEW notes \in Seq(Note), Publish(notes, revision),
         revision' = revision, next_benchmark_id' = next_benchmark_id, run # NoRun,
         r.operation = run.operation, run.completed <= r.completed, run' \in {r, NoRun},
         \A i \in 1..Len(notes) :
           /\ notes[i].run = r
           /\ i < Len(notes) \/ run' # NoRun => notes[i].about = "progress"
           /\ notes[i].about = "completed" /\ finished(r) => r.received = PacketCount
  PROVE  Speaks(outgoing') /\ next_event_sequence' \in Nat \ {0}
<1>1. /\ ServiceType /\ next_event_sequence \in Nat \ {0} /\ revision \in Nat
      /\ r.completed \in Nat /\ r.operation \in Nat
  BY DEF TypeOK, ServiceType, ControllerType, Run
<1>2. /\ outgoing' \in Seq(Event) /\ Len(outgoing') = Len(notes)
      /\ \A i \in 1..Len(notes) :
           /\ outgoing'[i].revision = revision
           /\ outgoing'[i].about = notes[i].about /\ outgoing'[i].run = notes[i].run
      /\ next_event_sequence' \in Nat \ {0} /\ Numbered(outgoing')
  BY <1>1, PublishFacts
<1>3. PICK f \in Seq(Event) : f = outgoing'
  BY <1>2
<1>4. PICK n \in Nat : n = Len(notes) /\ n = Len(f)
  BY <1>2, <1>3, LenProperties
<1>5. /\ \A i \in 1..n : /\ f[i] \in Event /\ f[i] \in Message /\ f[i].run = r /\ f[i].revision = revision
                         /\ i < n \/ run' # NoRun => f[i].about = "progress"
                         /\ f[i].about = "completed" /\ finished(r) => r.received = PacketCount
      /\ Range(f) = {f[i] : i \in 1..n}
  <2>1. \A i \in 1..n : f[i] \in Event
    BY <1>4, ElementOfSeq
  <2>2. Range(f) = {f[i] : i \in 1..n}
    BY <1>4, RangeEquality
  <2>3. QED BY <1>2, <1>3, <1>4, <2>1, <2>2 DEF Message
<1>6. Chain(f, InRunOrder)
  <2>1. SUFFICES ASSUME NEW i \in 1..n, NEW j \in 1..n, i < j PROVE <<f[i], f[j]>> \in InRunOrder
    BY <1>4 DEF Chain
  <2>2. f[i] \in Message /\ f[j] \in Message /\ f[i].about = "progress" /\ f[i].run = r /\ f[j].run = r
    BY <1>5, <2>1
  <2>3. QED BY <1>1, <2>2 DEF InRunOrder
<1>7. RunStep(f)
  <2>1. next_benchmark_id <= next_benchmark_id' /\ r.completed <= r.completed
    BY <1>1 DEF ServiceType
  <2>2. \A m \in Range(f) : /\ m.run = r
                            /\ run' # NoRun => m.about = "progress"
                            /\ m.about = "completed" /\ finished(r) => r.received = PacketCount
    BY <1>5
  <2>3. QED BY <1>6, <2>1, <2>2 DEF RunStep
<1>8. Current(f)
  BY <1>1, <1>4, <1>5 DEF Current
<1>9. QED BY <1>2, <1>3, <1>7, <1>8 DEF Speaks

\* Notes of one or two events.
LEMMA ShortNotes ==
  ASSUME NEW r \in Run, NEW a \in EventKind, NEW b \in EventKind
  PROVE  /\ <<RunEvent(a, r)>> \in Seq(Note) /\ <<RunEvent(a, r), RunEvent(b, r)>> \in Seq(Note)
         /\ RunEvent(a, r).run = r /\ RunEvent(a, r).about = a
BY DEF RunEvent, Note

\* poll begins with a slice of the benchmark.
LEMMA StartPollTells ==
  ASSUME ShapeInv, StartPoll, ClientsRest
  PROVE  ShapeInv' /\ Tells
<1>1. TypeOK /\ outgoing = <<>> /\ ControllerType /\ ServiceType /\ ServerType /\ run \in Run /\ run # NoRun
  BY DEF ShapeInv, TypeOK, StartPoll, Between, ServiceType
<1>2. /\ UNCHANGED <<topology, revision, faults, next_benchmark_id, clients, peer, index, inbox,
                     backlog, requests, closed>>
      /\ stage = "between" /\ stage' = "watch"
  BY DEF StartPoll, Between, sockets, controller
<1>3. PICK r \in advance(run, PacketsPerPoll) :
        IF r.completed = run.completed /\ ~finished(r)
        THEN run' = r /\ UNCHANGED <<next_event_sequence, outgoing>>
        ELSE \E over \in {finished(r), TRUE} :
               /\ run' = IF over THEN NoRun ELSE r
               /\ Publish(IF over THEN <<RunEvent("progress", r), RunEvent("completed", r)>>
                          ELSE <<RunEvent("progress", r)>>, revision)
  BY DEF StartPoll, AdvanceBenchmark
<1>4. /\ r \in Run /\ r.operation = run.operation /\ run.completed <= r.completed
      /\ finished(r) => r.received = PacketCount
  BY <1>1, Bounds, AdvanceFacts
<1>5. /\ run' \in Run \cup {NoRun}
      /\ Speaks(outgoing') /\ next_event_sequence' \in Nat \ {0}
  <2>1. CASE r.completed = run.completed /\ ~finished(r)
    <3>1. run' = r /\ outgoing' = <<>> /\ next_event_sequence' = next_event_sequence
      BY <1>1, <1>3, <2>1
    <3>2. PICK f \in Seq(Event) : f = <<>> /\ Len(f) = 0 /\ Range(f) = {}
      <4>1. Range(<<>>) = {}
        BY DEF Range
      <4>2. QED BY <4>1, EmptySeq
    <3>3. RunStep(f)
      <4>1. next_benchmark_id <= next_benchmark_id'
        BY <1>1, <1>2 DEF ServiceType
      <4>2. Chain(f, InRunOrder)
        BY <3>2 DEF Chain
      <4>3. QED BY <1>1, <1>4, <3>1, <3>2, <4>1, <4>2 DEF RunStep
    <3>4. Numbered(f) /\ Current(f)
      BY <1>1, <1>2, <3>1, <3>2 DEF Numbered, Current, ServiceType, ControllerType
    <3>5. QED BY <1>1, <1>4, <3>1, <3>2, <3>3, <3>4 DEF Speaks, ServiceType
  <2>2. CASE ~(r.completed = run.completed /\ ~finished(r))
    <3> DEFINE one == <<RunEvent("progress", r)>>
               two == <<RunEvent("progress", r), RunEvent("completed", r)>>
    <3>1. PICK over \in BOOLEAN :
            /\ run' = IF over THEN NoRun ELSE r
            /\ Publish(IF over THEN two ELSE one, revision)
      BY <1>3, <2>2 DEF finished
    <3>2. /\ one \in Seq(Note) /\ Len(one) = 1 /\ one[1] = RunEvent("progress", r)
          /\ two \in Seq(Note) /\ Len(two) = 2
          /\ two[1] = RunEvent("progress", r) /\ two[2] = RunEvent("completed", r)
      BY <1>4, ShortNotes DEF EventKind
    <3> HIDE DEF one, two
    <3>3. /\ RunEvent("progress", r).run = r /\ RunEvent("progress", r).about = "progress"
          /\ RunEvent("completed", r).run = r /\ RunEvent("completed", r).about = "completed"
      BY DEF RunEvent
    <3>5. CASE over
      <4>1. run' = NoRun /\ Publish(two, revision)
        BY <3>1, <3>5
      <4>2. \A i \in 1..Len(two) :
              /\ two[i].run = r
              /\ i < Len(two) \/ run' # NoRun => two[i].about = "progress"
              /\ two[i].about = "completed" /\ finished(r) => r.received = PacketCount
        BY <1>4, <3>2, <3>3, <4>1
      <4>3. QED BY <1>1, <1>2, <1>4, <3>2, <4>1, <4>2, RunAnnounced DEF StartPoll
    <3>6. CASE ~over
      <4>1. run' = r /\ Publish(one, revision)
        BY <3>1, <3>6
      <4>2. \A i \in 1..Len(one) :
              /\ one[i].run = r
              /\ i < Len(one) \/ run' # NoRun => one[i].about = "progress"
              /\ one[i].about = "completed" /\ finished(r) => r.received = PacketCount
        BY <1>4, <3>2, <3>3
      <4>3. QED BY <1>1, <1>2, <1>4, <3>2, <4>1, <4>2, RunAnnounced DEF StartPoll
    <3>7. QED BY <3>5, <3>6
  <2>3. QED BY <2>1, <2>2
<1>6. ServiceType' /\ PositionInv' /\ ControllerType'
  BY <1>1, <1>2, <1>5 DEF ServiceType, ControllerType, ShapeInv, PositionInv
<1>7. outgoing' \in Seq(Event)
  BY <1>5 DEF Speaks
<1>8. index' \in Nat /\ inbox' \in Seq(Request) /\ requests' \in [Connections -> Seq(Request)]
  BY <1>1, <1>2 DEF TypeOK, ServerType, SocketType
<1>9. ShapeInv'
  BY <1>2, <1>6, <1>7, <1>8, ShapeKept
<1>10. Tells
  BY <1>1, <1>2, <1>5, Announced
<1>11. QED BY <1>9, <1>10

-----------------------------------------------------------------------------
(* poll.                                                                   *)

\* The switch hangs up on connections: their outbox is lost, the socket's content not.
LEMMA HangupType ==
  ASSUME ShapeInv, NEW ks, Hangup(ks)
  PROVE  /\ peer' \in [Connections -> Peer] /\ requests' \in [Connections -> Seq(Request)]
         /\ \A k \in Connections :
              IF k \in ks THEN peer'[k].stream = peer[k].stream /\ peer'[k].outbox = <<>>
              ELSE peer'[k] = peer[k]
<1>1. /\ peer \in [Connections -> Peer] /\ requests \in [Connections -> Seq(Request)]
      /\ peer' = [j \in Connections |->
                    IF j \in ks THEN [peer[j] EXCEPT !.outbox = <<>>, !.congested = FALSE] ELSE peer[j]]
      /\ requests' = [j \in Connections |-> IF j \in ks THEN <<>> ELSE requests[j]]
  BY DEF ShapeInv, TypeOK, ServerType, SocketType, Hangup
<1>2. <<>> \in Seq(Message) /\ <<>> \in Seq(Request)
  BY EmptySeq
<1>3. \A j \in Connections : /\ [peer[j] EXCEPT !.outbox = <<>>, !.congested = FALSE] \in Peer
                             /\ [peer[j] EXCEPT !.outbox = <<>>, !.congested = FALSE].stream = peer[j].stream
                             /\ [peer[j] EXCEPT !.outbox = <<>>, !.congested = FALSE].outbox = <<>>
  BY <1>1, <1>2 DEF Peer, Message
<1>4. QED BY <1>1, <1>2, <1>3

\* What is on the way on those connections, and on the others.
LEMMA HangupFacts ==
  ASSUME ShapeInv, NEW ks, Hangup(ks), outgoing = <<>>, outgoing' = <<>>, NEW k \in Connections
  PROVE  /\ peer'[k].stream = peer[k].stream
         /\ k \notin ks => peer'[k] = peer[k] /\ Way(k)' = Way(k)
         /\ k \in ks => peer'[k].outbox = <<>> /\ Way(k)' = peer[k].stream /\ Way(k) = peer[k].stream \o peer[k].outbox
<1>1. TypeOK
  BY DEF ShapeInv
<1>5. PICK st \in Seq(Message), ob \in Seq(Message) : st = peer[k].stream /\ ob = peer[k].outbox
  BY <1>1, WayFacts
<1>6. Coming(k) = <<>> /\ Coming(k)' = <<>>
  BY DEF Coming
<1>7. CASE k \notin ks
  <2>1. peer'[k] = peer[k]
    BY <1>7, HangupType
  <2>2. Way(k)' = Way(k)
    BY <1>6, <2>1 DEF Way
  <2>3. QED BY <1>7, <2>1, <2>2
<1>8. CASE k \in ks
  <2>1. peer'[k].stream = peer[k].stream /\ peer'[k].outbox = <<>>
    BY <1>8, HangupType
  <2>2. Way(k)' = (st \o <<>>) \o <<>> /\ Way(k) = (st \o ob) \o <<>>
    BY <1>5, <1>6, <2>1 DEF Way
  <2>3. (st \o <<>>) \o <<>> = st /\ (st \o ob) \o <<>> = st \o ob
    BY Glue
  <2>4. QED BY <1>5, <1>8, <2>1, <2>2, <2>3
<1>9. QED BY <1>7, <1>8

\* A connection that the switch gives up.
LEMMA GivenUp ==
  ASSUME TypeOK, NEW k \in Connections, Way(k) = peer[k].stream \o peer[k].outbox, Way(k)' = peer[k].stream,
         k \notin Range(clients)'
  PROVE  Effect(k, <<>>)
<1>1. PICK st \in Seq(Message), ob \in Seq(Message) : st = peer[k].stream /\ ob = peer[k].outbox
  BY WayFacts
<1>2. Live(k)' = FALSE
  BY DEF Live
<1>3. Follows(st \o ob, st, FALSE, <<>>, Due(k))
  BY <1>2, NothingDue, FollowsCut
<1>4. QED BY <1>1, <1>3, <1>2 DEF Effect

\* Clients that can keep up stay, and the backlog is accepted while there is room.
LEMMA WatchTells ==
  ASSUME ShapeInv, Watch, ClientsRest
  PROVE  ShapeInv' /\ Tells
<1> DEFINE T == {k \in Connections : ~peer[k].congested}
           kept == Select(clients, T)
           room == IF Len(kept) < MaxClients THEN MaxClients - Len(kept) ELSE 0
           accepted == SubSeq(backlog, 1, Min({room, Len(backlog)}))
           hung == Range(clients \o backlog) \ Range(kept \o accepted)
           ready == Readable(Range(kept)) \cup Writable(Range(kept))
<1>1. /\ TypeOK /\ PositionInv /\ SocketInv /\ FreshInv /\ outgoing = <<>> /\ outgoing' = <<>>
      /\ clients \in Seq(Connections) /\ backlog \in Seq(Connections)
      /\ stage \in {"watch", "between"}
  BY DEF ShapeInv, TypeOK, ServerType, SocketType, Watch
<1>2. /\ clients' = kept \o accepted /\ Hangup(hung) /\ backlog' = <<>>
      /\ index' = IF ready # {} THEN Max({i \in 1..Len(kept) : kept[i] \in ready}) ELSE 0
      /\ stage' = IF ready # {} THEN "serve" ELSE "between"
      /\ UNCHANGED <<topology, revision, faults, next_event_sequence, run, next_benchmark_id, inbox, outgoing, closed>>
  BY DEF Watch, controller, service
<1>3. kept \in Seq(Connections) /\ Range(kept) \subseteq Range(clients) \cap T
  <2>1. kept \in Seq(Connections \cap T) /\ Range(kept) \subseteq Range(clients)
    BY <1>1, SelectType, SelectFacts
  <2>2. kept \in Seq(Connections) /\ Range(kept) \subseteq Connections \cap T
    BY <2>1, SeqMonotonic, RangeOfSeq
  <2>3. QED BY <2>1, <2>2
<1>4. Chain(kept, Apart)
  BY <1>1, ApartFacts, SelectChain
<1> HIDE DEF kept
<1>5. PICK n \in 0..Len(backlog) : accepted = SubSeq(backlog, 1, n)
  <2>1. Len(backlog) \in Nat /\ Len(kept) \in Nat
    BY <1>1, <1>3, LenProperties
  <2>2. room \in Nat
    BY <2>1, Bounds
  <2> HIDE DEF room
  <2>3. Min({room, Len(backlog)}) \in 0..Len(backlog)
    BY <2>1, <2>2, MinOfTwo
  <2>4. QED BY <2>3
<1> HIDE DEF accepted
<1>6. accepted \in Seq(Connections) /\ Range(accepted) \subseteq Range(backlog) /\ Chain(accepted, Apart)
  <2> DEFINE rest == SubSeq(backlog, n + 1, Len(backlog))
  <2>1. rest \in Seq(Connections) /\ accepted \in Seq(Connections) /\ backlog = accepted \o rest
    BY <1>1, <1>5, SplitAt
  <2> HIDE DEF rest
  <2>2. Range(backlog) = Range(accepted) \cup Range(rest)
    BY <2>1, RangeConcatenation
  <2>3. Chain(accepted \o rest, Apart)
    BY <1>1, <2>1, ApartFacts
  <2>4. Chain(accepted, Apart)
    BY <2>1, <2>3, ChainParts
  <2>5. QED BY <2>1, <2>2, <2>4
<1>7. /\ clients' \in Seq(Connections) /\ Range(clients') = Range(kept) \cup Range(accepted)
      /\ Chain(clients', Apart)
      /\ Range(clients \o backlog) = Range(clients) \cup Range(backlog)
  <2>1. clients' \in Seq(Connections) /\ Range(clients') = Range(kept) \cup Range(accepted)
    BY <1>2, <1>3, <1>6, ConcatProperties, RangeConcatenation
  <2>2. \A k \in Range(kept), j \in Range(accepted) : <<k, j>> \in Apart
    BY <1>1, <1>3, <1>6, ApartFacts
  <2>3. Chain(kept \o accepted, Apart)
    BY <1>3, <1>4, <1>6, <2>2, ChainParts
  <2>4. Range(clients \o backlog) = Range(clients) \cup Range(backlog)
    BY <1>1, RangeConcatenation
  <2>5. QED BY <1>2, <2>1, <2>3, <2>4
<1>8. /\ hung \cap Range(clients') = {}
      /\ hung \subseteq Range(clients) \cup Range(backlog)
  BY <1>2, <1>7
<1> HIDE DEF hung
<1>9. index' \in Nat /\ (ready # {} => index' \in 1..Len(clients'))
  <2>1. PICK l \in Nat : l = Len(kept)
    BY <1>3, LenProperties
  <2>2. ready \subseteq Range(kept) /\ Range(kept) = {kept[i] : i \in 1..l}
    BY <1>3, <2>1, RangeEquality DEF Readable, Writable
  <2>3. Len(clients') = l + Len(accepted) /\ Len(accepted) \in Nat
    BY <1>2, <1>3, <1>6, <2>1, ConcatProperties, LenProperties
  <2> DEFINE I == {i \in 1..l : kept[i] \in ready}
  <2>4. CASE ready = {}
    BY <1>2, <2>4
  <2>5. CASE ready # {}
    <3>0. PICK k \in ready : \E i \in 1..l : kept[i] = k
      BY <2>2, <2>5
    <3>1. I # {} /\ I \subseteq 0..l
      BY <3>0
    <3>2. Max(I) \in I
      BY <3>1, MaxFacts
    <3>3. index' = Max(I)
      BY <1>2, <2>1, <2>5
    <3>4. QED BY <2>3, <3>2, <3>3
  <2>6. QED BY <2>4, <2>5
<1> HIDE DEF ready
<1>10. peer' \in [Connections -> Peer] /\ requests' \in [Connections -> Seq(Request)]
  BY <1>2, HangupType
<1>11. TypeOK'
  <2>1. <<>> \in Seq(Connections)
    BY EmptySeq
  <2>2. QED BY <1>1, <1>2, <1>7, <1>9, <1>10, <2>1
    DEF ClientsRest, TypeOK, ControllerType, ServiceType, ServerType, SocketType, ClientType
<1>12. PositionInv'
  <2>1. inbox = <<>>
    BY <1>1 DEF PositionInv
  <2>2. QED BY <1>2, <1>9, <2>1 DEF PositionInv
<1>13. Range(backlog') = {} /\ clients' \o backlog' = clients'
  <2>1. Range(<<>>) = {}
    BY DEF Range
  <2>2. QED BY <1>2, <1>7, <2>1, ConcatEmptySeq
<1>14. SocketInv'
  BY <1>1, <1>3, <1>6, <1>7, <1>13 DEF SocketInv, ClientsRest
<1>15. FreshInv'
  <2>1. \A k \in Connections : peer'[k].stream = peer[k].stream
                               /\ (peer'[k].outbox = peer[k].outbox \/ peer'[k].outbox = <<>>)
    BY <1>1, <1>2, HangupFacts
  <2>2. QED BY <1>1, <1>13, <2>1, FreshKept
<1>16. ASSUME NEW k \in Connections PROVE Effect(k, <<>>)
  <2>1. CASE k \in hung
    <3>1. Way(k) = peer[k].stream \o peer[k].outbox /\ Way(k)' = peer[k].stream /\ k \notin Range(clients)'
      BY <1>1, <1>2, <1>8, <2>1, HangupFacts
    <3>2. QED BY <1>1, <3>1, GivenUp
  <2>2. CASE k \notin hung
    <3>1. peer'[k] = peer[k] /\ Way(k)' = Way(k)
      BY <1>1, <1>2, <2>2, HangupFacts
    <3>2. Live(k)' => Live(k) \/ k \in Range(backlog)
      BY <1>3, <1>6, <1>7, <3>1 DEF Live
    <3>3. QED BY <1>1, <1>2, <3>1, <3>2, Untouched
  <2>3. QED BY <2>1, <2>2
<1>17. Tells
  BY <1>1, <1>2, <1>16, SaysNothing DEF Tells
<1>18. QED BY <1>11, <1>12, <1>14, <1>15, <1>17 DEF ShapeInv

\* The requests of a client are read.
LEMMA ServeTells ==
  ASSUME ShapeInv, Serve, ClientsRest
  PROVE  ShapeInv' /\ Tells
<1> DEFINE k == clients[index]
           taken == IF k \in revents.read THEN Min({Len(requests[k]), MaxInbox + 1}) ELSE 0
<1>1. /\ TypeOK /\ ControllerType /\ ServiceType /\ clients \in Seq(Connections)
      /\ requests \in [Connections -> Seq(Request)] /\ index \in 1..Len(clients) /\ index \in Nat
      /\ outgoing \in Seq(Event) /\ inbox = <<>>
  BY DEF ShapeInv, TypeOK, ServerType, SocketType, PositionInv, Serve
<1>2. /\ inbox' = SubSeq(requests[k], 1, taken) /\ stage' = "handle"
      /\ requests' = [requests EXCEPT ![k] = SubSeq(requests[k], taken + 1, Len(requests[k]))]
      /\ UNCHANGED <<topology, revision, faults, next_event_sequence, run, next_benchmark_id, clients, peer, index,
                     outgoing, backlog, closed>>
  BY DEF Serve, controller, service
<1>3. k \in Connections
  BY <1>1, ElementOfSeq
<1> HIDE DEF k
<1>4. requests[k] \in Seq(Request) /\ Len(requests[k]) \in Nat
  BY <1>1, <1>3, LenProperties
<1>5. taken \in 0..Len(requests[k])
  <2>1. Min({Len(requests[k]), MaxInbox + 1}) \in 0..Len(requests[k])
    <3>1. MaxInbox + 1 \in Nat
      BY Bounds
    <3>2. QED BY <1>4, <3>1, MinOfTwo
  <2>2. QED BY <1>4, <2>1
<1> HIDE DEF taken
<1>6. inbox' \in Seq(Request) /\ requests' \in [Connections -> Seq(Request)]
  <2>1. /\ SubSeq(requests[k], 1, taken) \in Seq(Request)
        /\ SubSeq(requests[k], taken + 1, Len(requests[k])) \in Seq(Request)
    BY <1>4, <1>5, SplitAt
  <2>2. QED BY <1>1, <1>2, <2>1
<1>7. ControllerType' /\ ServiceType' /\ PositionInv' /\ index' \in Nat /\ outgoing' \in Seq(Event)
  BY <1>1, <1>2 DEF ControllerType, ServiceType, PositionInv
<1>8. ShapeInv'
  BY <1>2, <1>6, <1>7, ShapeKept
<1>9. ASSUME NEW j \in Connections PROVE Effect(j, <<>>)
  <2>1. Way(j)' = Way(j) /\ (Live(j)' => Live(j))
    BY <1>2 DEF Way, Coming, Live
  <2>2. QED BY <1>1, <2>1, Untouched
<1>10. Tells
  BY <1>1, <1>2, <1>9, SaysNothing DEF Tells
<1>11. QED BY <1>8, <1>10

\* The client of this turn is forgotten, or flushed, and the loop goes on to one before it.
LEMMA FinishClientTells ==
  ASSUME ShapeInv, FinishClient, ClientsRest
  PROVE  ShapeInv' /\ Tells
<1> DEFINE k == clients[index]
           gone == ~alive \/ (closed[k] /\ peer[k].outbox # <<>>) \/ peer[k].congested
<1>1. /\ TypeOK /\ SocketInv /\ FreshInv /\ clients \in Seq(Connections)
      /\ index \in 1..Len(clients) /\ outgoing = <<>> /\ inbox = <<>>
      /\ peer \in [Connections -> Peer] /\ closed \in [Connections -> BOOLEAN] /\ dialled \in Nat
  BY DEF ShapeInv, TypeOK, ServerType, SocketType, ClientType, PositionInv, FinishClient
<1>2. /\ IF gone THEN clients' = RemoveAt(clients, index) /\ Hangup({k})
         ELSE peer' = [peer EXCEPT ![k] = flush(peer[k], closed[k])] /\ UNCHANGED <<clients, requests>>
      /\ UNCHANGED <<topology, revision, faults, next_event_sequence, run, next_benchmark_id, inbox,
                     outgoing, backlog, closed>>
  BY DEF FinishClient, controller, service
<1>3. k \in Connections /\ k \in Range(clients)
  BY <1>1, ElementOfSeq, RangeEquality
<1>4. PICK n \in Nat : n = Len(clients)
  BY <1>1, LenProperties
<1>5. /\ stage' \in {"between", "serve"} /\ index' \in Nat
      /\ stage' = "serve" => index' \in 1..n - 1
  <2>1. ReadyBefore(index) \subseteq 0..n /\ ReadyBefore(index) \subseteq 1..n - 1
    BY <1>1, <1>4 DEF ReadyBefore
  <2>2. CASE ReadyBefore(index) = {}
    BY <2>2 DEF FinishClient, Advance
  <2>3. CASE ReadyBefore(index) # {}
    <3>1. Max(ReadyBefore(index)) \in ReadyBefore(index)
      BY <1>4, <2>1, <2>3, MaxFacts
    <3>2. index' = Max(ReadyBefore(index)) /\ stage' = "serve"
      BY <2>3 DEF FinishClient, Advance
    <3>3. QED BY <2>1, <3>1, <3>2
  <2>4. QED BY <2>2, <2>3
<1> HIDE DEF gone
<1>6. CASE gone
  <2> DEFINE rest == RemoveAt(clients, index)
  <2>1. /\ rest \in Seq(Connections) /\ Len(rest) = n - 1 /\ clients' = rest
        /\ \A i \in 1..n - 1 : rest[i] = IF i < index THEN clients[i] ELSE clients[i + 1]
    BY <1>1, <1>2, <1>4, <1>6, RemoveAtFacts
  <2> HIDE DEF rest
  <2>2. /\ peer' \in [Connections -> Peer] /\ requests' \in [Connections -> Seq(Request)]
    BY <1>2, <1>6, HangupType
  <2>3. \A i, j \in 1..n : i < j => <<clients[i], clients[j]>> \in Apart
    BY <1>1, <1>4, ApartFacts DEF Chain
  <2>4. Chain(rest, Apart)
    <3>1. SUFFICES ASSUME NEW i \in 1..n - 1, NEW j \in 1..n - 1, i < j PROVE <<rest[i], rest[j]>> \in Apart
      BY <2>1 DEF Chain
    <3>2. PICK x \in 1..n : x = (IF i < index THEN i ELSE i + 1) /\ rest[i] = clients[x]
      BY <2>1
    <3>3. PICK y \in 1..n : y = (IF j < index THEN j ELSE j + 1) /\ rest[j] = clients[y]
      BY <2>1
    <3>4. x < y
      BY <1>1, <1>4, <3>1, <3>2, <3>3
    <3>5. QED BY <2>3, <3>2, <3>3, <3>4
  <2>5. Range(rest) \subseteq Range(clients) /\ k \notin Range(rest)
    <3>1. Range(rest) = {rest[i] : i \in 1..n - 1} /\ Range(clients) = {clients[i] : i \in 1..n}
      BY <1>1, <1>4, <2>1, RangeEquality
    <3>2. ASSUME NEW i \in 1..n - 1 PROVE rest[i] \in Range(clients) /\ rest[i] # k
      <4>1. PICK x \in 1..n : x = (IF i < index THEN i ELSE i + 1) /\ rest[i] = clients[x]
        BY <2>1
      <4>2. x < index \/ index < x
        BY <1>1, <1>4, <4>1
      <4>3. clients[x] # clients[index]
        BY <1>1, <1>4, <2>3, <4>2 DEF Apart
      <4>4. QED BY <3>1, <4>1, <4>3
    <3>3. QED BY <3>1, <3>2
  <2>6. Chain(rest \o backlog, Apart)
    <3>1. backlog \in Seq(Connections) /\ Chain(backlog, Apart)
          /\ \A x \in Range(rest), y \in Range(backlog) : <<x, y>> \in Apart
      BY <1>1, <2>5, ApartFacts DEF TypeOK, SocketType
    <3>2. QED BY <2>1, <2>4, <3>1, ChainParts
  <2>7. TypeOK'
    BY <1>1, <1>2, <1>5, <2>1, <2>2
    DEF ClientsRest, TypeOK, ControllerType, ServiceType, ServerType, SocketType, ClientType
  <2>8. PositionInv'
    BY <1>1, <1>2, <1>5, <2>1 DEF PositionInv
  <2>9. SocketInv'
    BY <1>1, <1>2, <2>1, <2>5, <2>6 DEF SocketInv, ClientsRest
  <2>10. FreshInv'
    <3>1. \A j \in Connections : peer'[j].stream = peer[j].stream
                                 /\ (peer'[j].outbox = peer[j].outbox \/ peer'[j].outbox = <<>>)
      BY <1>1, <1>2, <1>6, HangupFacts
    <3>2. QED BY <1>1, <1>2, <3>1, FreshKept
  <2>11. ASSUME NEW j \in Connections PROVE Effect(j, <<>>)
    <3>1. CASE j = k
      <4>1. Way(j) = peer[j].stream \o peer[j].outbox /\ Way(j)' = peer[j].stream /\ j \notin Range(clients)'
        BY <1>1, <1>2, <1>6, <2>1, <2>5, <3>1, HangupFacts
      <4>2. QED BY <1>1, <4>1, GivenUp
    <3>2. CASE j # k
      <4>0. Hangup({k}) /\ outgoing' = <<>> /\ j \notin {k}
        BY <1>1, <1>2, <1>6, <3>2
      <4>1. peer'[j] = peer[j] /\ Way(j)' = Way(j)
        BY <1>1, <4>0, HangupFacts
      <4>2. Live(j)' => Live(j)
        BY <2>1, <2>5, <4>1 DEF Live
      <4>3. QED BY <1>1, <1>2, <4>1, <4>2, Untouched
    <3>3. QED BY <3>1, <3>2
  <2>12. Tells
    BY <1>1, <1>2, <2>11, SaysNothing DEF Tells
  <2>13. QED BY <2>7, <2>8, <2>9, <2>10, <2>12 DEF ShapeInv
<1>7. CASE ~gone
  <2>1. /\ peer' = [peer EXCEPT ![k] = flush(peer[k], closed[k])]
        /\ UNCHANGED <<clients, requests>>
    BY <1>2, <1>7, SMTT(40)
  <2>2. /\ flush(peer[k], closed[k]) \in Peer
        /\ flush(peer[k], closed[k]).congested = peer[k].congested
        /\ flush(peer[k], closed[k]).stream \o flush(peer[k], closed[k]).outbox
             = peer[k].stream \o peer[k].outbox
    BY <1>1, <1>3, FlushFacts
  <2> HIDE DEF k
  <2>3. /\ peer' \in [Connections -> Peer]
        /\ \A j \in Connections : /\ peer'[j].congested = peer[j].congested
                                  /\ peer'[j].stream \o peer'[j].outbox = peer[j].stream \o peer[j].outbox
                                  /\ j # k => peer'[j] = peer[j]
    BY <1>1, <1>3, <2>1, <2>2
  <2>4. TypeOK'
    BY <1>1, <1>2, <1>5, <2>1, <2>3
    DEF ClientsRest, TypeOK, ControllerType, ServiceType, ServerType, SocketType, ClientType
  <2>5. PositionInv' /\ SocketInv'
    BY <1>1, <1>2, <1>4, <1>5, <2>1 DEF PositionInv, SocketInv, ClientsRest
  <2>6. FreshInv'
    <3>1. k \notin Range(backlog) /\ ~(k > dialled)
      BY <1>1, <1>3, ApartFacts, Bounds DEF SocketInv
    <3>2. QED BY <1>1, <1>2, <2>3, <3>1, FreshKept
  <2>7. ASSUME NEW j \in Connections PROVE Effect(j, <<>>)
    <3>1. Way(j)' = Way(j) /\ (Live(j)' => Live(j))
      BY <1>1, <1>2, <2>1, <2>3 DEF Way, Coming, Live
    <3>2. QED BY <1>1, <1>2, <3>1, Untouched
  <2>8. Tells
    BY <1>1, <1>2, <2>7, SaysNothing DEF Tells
  <2>9. QED BY <2>4, <2>5, <2>6, <2>8 DEF ShapeInv
<1>8. QED BY <1>6, <1>7

-----------------------------------------------------------------------------
(* Requests are answered.                                                  *)

\* The reply goes to the client that asked, ahead of the events.
LEMMA AnswerTells ==
  ASSUME ShapeInv, Handling, NEW accepted \in BOOLEAN, NEW notes, Answer(accepted, revision', notes),
         Speaks(outgoing'), ControllerType', ServiceType', ClientsRest
  PROVE  ShapeInv' /\ Tells
<1>0. PICK c \in Connections : c = clients[index]
  <2>1. clients \in Seq(Connections) /\ index \in 1..Len(clients)
    BY DEF ShapeInv, TypeOK, ServerType, PositionInv, Handling
  <2>2. QED BY <2>1, ElementOfSeq
<1> DEFINE m == [kind |-> "reply", request_id |-> Head(inbox).request_id,
                 accepted |-> accepted, revision |-> revision']
           e == enqueue(peer[c], m)
<1>1. /\ TypeOK /\ PositionInv /\ SocketInv /\ FreshInv /\ clients \in Seq(Connections)
      /\ index \in 1..Len(clients) /\ outgoing = <<>> /\ inbox \in Seq(Request) /\ inbox # <<>>
      /\ peer \in [Connections -> Peer] /\ dialled \in Nat /\ revision' \in Nat
      /\ outgoing' \in Seq(Event)
  BY DEF ShapeInv, TypeOK, ServerType, ClientType, ControllerType, PositionInv, Handling, Speaks
<1>2. /\ peer' = [peer EXCEPT ![c] = e] /\ inbox' = Tail(inbox)
      /\ UNCHANGED <<clients, stage, index, backlog, requests, closed>>
  BY <1>0 DEF Answer, sockets
<1>3. c \in Connections /\ c \in Range(clients)
  BY <1>0, <1>1, ElementOfSeq, RangeEquality
<1>4. inbox' \in Seq(Request) /\ Head(inbox) \in Request /\ inbox' # inbox
  BY <1>1, <1>2, HeadFirst, HeadTailProperties
<1>5. m \in Reply /\ m \in Message /\ m.revision = revision' /\ m.request_id = Head(inbox).request_id
  BY <1>1, <1>4 DEF Request, Reply, Message
<1>6. PICK mm \in Seq(Message) : mm = <<m>>
  BY <1>5, Glue
<1>7. PICK st \in Seq(Message), ob \in Seq(Message) : st = peer[c].stream /\ ob = peer[c].outbox
  BY <1>1, <1>3, WayFacts
<1> HIDE DEF m
<1>8. /\ peer[c] \in Peer /\ e \in Peer /\ e.stream = st
      /\ peer[c].congested => e = peer[c]
      /\ ~e.congested => ~peer[c].congested /\ e.outbox = ob \o mm
      /\ ~peer[c].congested /\ e.congested => e.outbox = <<>>
      /\ e.congested \in BOOLEAN
  <2>1. peer[c] \in Peer
    BY <1>1, <1>3
  <2>2. e \in Peer
    BY <1>5, <2>1, EnqueueFacts
  <2>3. QED BY <1>5, <1>6, <1>7, <2>1, <2>2, EnqueueFacts DEF Peer
<1> HIDE DEF e
<1>9. peer' \in [Connections -> Peer] /\ peer'[c] = e /\ \A k \in Connections : k # c => peer'[k] = peer[k]
  BY <1>1, <1>2, <1>3, <1>8
<1>10. TypeOK'
  BY <1>1, <1>2, <1>4, <1>9
  DEF ClientsRest, TypeOK, ServerType, SocketType, ClientType
<1>11. PositionInv' /\ SocketInv'
  BY <1>1, <1>2 DEF Handling, PositionInv, SocketInv, ClientsRest
<1>12. FreshInv'
  <2>1. c \notin Range(backlog) /\ ~(c > dialled)
    BY <1>1, <1>3, ApartFacts, Bounds DEF SocketInv
  <2>2. QED BY <1>1, <1>2, <1>9, <2>1, FreshKept
<1>13. PICK f \in Seq(Message) : f = outgoing'
  BY <1>1, SeqMonotonic DEF Message
<1>14. Effect(c, f)
  <2>1. (Live(c) <=> ~peer[c].congested) /\ (Live(c)' <=> ~e.congested)
    BY <1>2, <1>3, <1>9 DEF Live
  <2>2. Way(c) = st \o ob
    <3>1. Way(c) = (st \o ob) \o <<>>
      BY <1>1, <1>7 DEF Way, Coming
    <3>2. (st \o ob) \o <<>> = st \o ob
      BY Glue
    <3>3. QED BY <3>1, <3>2
  <2>3. Way(c)' = (st \o e.outbox) \o (IF Live(c)' THEN f ELSE <<>>)
    BY <1>8, <1>9, <1>13 DEF Way, Coming
  <2>4. CASE e.congested
    <3>1. Live(c)' = FALSE
      BY <2>1, <2>4 DEF Live
    <3>2. e.outbox \in {ob, <<>>}
      BY <1>7, <1>8, <2>4
    <3>3. CASE e.outbox = ob
      <4>1. PICK s \in Seq(Message) : s = st \o ob
        BY Glue
      <4>2. s \o <<>> = s /\ <<>> \in Seq(Message)
        BY Glue
      <4>3. Follows(s \o <<>>, s, FALSE, f, Due(c))
        BY <3>1, <4>2, NothingDue, FollowsCut
      <4>4. Way(c) = s \o <<>> /\ Way(c)' = s
        BY <2>2, <2>3, <3>1, <3>3, <4>1, <4>2
      <4>5. QED BY <3>1, <4>3, <4>4 DEF Effect
    <3>4. CASE e.outbox = <<>>
      <4>1. (st \o <<>>) \o <<>> = st
        BY Glue
      <4>2. Follows(st \o ob, st, FALSE, f, Due(c))
        BY <3>1, NothingDue, FollowsCut
      <4>3. Way(c)' = st
        BY <2>3, <3>1, <3>4, <4>1
      <4>4. QED BY <2>2, <3>1, <4>2, <4>3 DEF Effect
    <3>5. QED BY <3>2, <3>3, <3>4
  <2>5. CASE ~e.congested
    <3>1. PICK s \in Seq(Message) : s = st \o ob
      BY Glue
    <3>2. st \o (ob \o mm) = s \o mm
      <4>1. (st \o ob) \o mm = st \o (ob \o mm)
        BY Assoc, ZenonT(60)
      <4>2. QED BY <3>1, <4>1
    <3>3. Way(c)' = (s \o <<m>>) \o f /\ Way(c) = s /\ Live(c)
      BY <1>6, <1>8, <2>1, <2>2, <2>3, <2>5, <3>1, <3>2
    <3>4. Live(c)' = TRUE
      BY <2>1, <2>5 DEF Live
    <3>5. Follows(s, (s \o <<m>>) \o f, TRUE, f, Due(c))
      <4>1. Answering(c)
        BY <1>0, <1>1, <1>2, <1>4 DEF Answering
      <4>2. Range(<<m>>) = {m} /\ <<m>> \in Seq(Message)
        BY <1>5, Glue DEF Range
      <4>3. <<m>> \in Due(c)
        BY <1>5, <3>4, <4>1, <4>2 DEF Due
      <4>4. QED BY <1>5, <4>3, FollowsReply
    <3>6. QED BY <3>3, <3>4, <3>5 DEF Effect
  <2>6. QED BY <1>8, <2>4, <2>5
<1>15. ASSUME NEW k \in Connections PROVE Effect(k, outgoing')
  <2>1. CASE k = c
    BY <1>13, <1>14, <2>1
  <2>2. CASE k # c
    BY <1>0, <1>1, <1>2, <1>9, <1>13, <2>2, Informed DEF Answering
  <2>3. QED BY <2>1, <2>2
<1>16. QED BY <1>10, <1>11, <1>12, <1>15 DEF ShapeInv, Tells

\* Answers with events about the switch, or with none.
LEMMA StateAnswer ==
  ASSUME ShapeInv, Handling, NEW accepted \in BOOLEAN, NEW n \in Nat, ClientsRest,
         Answer(accepted, revision', StateEvents(n)), ControllerType', revision <= revision',
         run' = run, next_benchmark_id' = next_benchmark_id
  PROVE  ShapeInv' /\ Tells
<1>1. TypeOK /\ ServiceType /\ revision' \in Nat
  BY DEF ShapeInv, TypeOK, ControllerType
<1>2. Publish(StateEvents(n), revision')
  BY DEF Answer
<1>3. Speaks(outgoing') /\ next_event_sequence' \in Nat \ {0}
  BY <1>1, <1>2, StateAnnounced
<1>4. ServiceType'
  BY <1>1, <1>3 DEF ServiceType
<1>5. QED BY <1>3, <1>4, AnswerTells

\* A request is refused.
LEMMA Rejected ==
  ASSUME ShapeInv, Handling, reject, ClientsRest
  PROVE  ShapeInv' /\ Tells
<1>1. StateEvents(0) = <<>>
  BY StateNotes, EmptySeq
<1>2. ControllerType /\ revision \in Nat
  BY DEF ShapeInv, TypeOK, ControllerType
<1>3. UNCHANGED <<topology, revision, faults, run, next_benchmark_id>> /\ Answer(FALSE, revision, <<>>)
  BY DEF reject, controller
<1>4. ControllerType' /\ revision <= revision' /\ Answer(FALSE, revision', StateEvents(0))
  <2>1. ControllerType' /\ revision <= revision'
    BY <1>2, <1>3 DEF ControllerType
  <2>2. QED BY <1>1, <1>3, <2>1 DEF Answer
<1>5. QED BY <1>3, <1>4, StateAnswer

\* A benchmark begins.
LEMMA StartBenchmark ==
  ASSUME ShapeInv, start_benchmark, ClientsRest
  PROVE  ShapeInv' /\ Tells
<1>1. CASE reject
  BY <1>1, Rejected DEF start_benchmark, Accepts
<1>2. CASE ~reject
  <2>1. /\ TypeOK /\ ControllerType /\ ServiceType /\ revision \in Nat
        /\ next_benchmark_id \in Nat \ {0} /\ next_event_sequence \in Nat \ {0}
    BY DEF ShapeInv, TypeOK, ControllerType, ServiceType
  <2>2. /\ Handling /\ run = NoRun /\ next_benchmark_id' = next_benchmark_id + 1
        /\ Answer(TRUE, revision, <<RunEvent("progress", run')>>)
        /\ UNCHANGED <<topology, revision, faults>>
        /\ \E streaming \in Backends : run' = create(next_benchmark_id, streaming)
    BY <1>2 DEF start_benchmark, Accepts, controller
  <2>3. PICK r \in Run : r = run' /\ r.operation = next_benchmark_id /\ r.completed = 0
    <3>1. PICK streaming \in Backends : run' = create(next_benchmark_id, streaming)
      BY <2>2
    <3>2. streaming \in BOOLEAN /\ PacketCount \in Nat
      BY ServerConfig, BenchmarkConfig
    <3>3. /\ create(next_benchmark_id, streaming) \in Run
          /\ create(next_benchmark_id, streaming).operation = next_benchmark_id
          /\ create(next_benchmark_id, streaming).completed = 0
      BY <2>1, <3>2 DEF create, Run
    <3>4. QED BY <3>1, <3>3
  <2>4. PICK notes \in Seq(Note) : /\ notes = <<RunEvent("progress", run')>> /\ Len(notes) = 1
                                   /\ notes[1].run = r /\ notes[1].about = "progress"
    <3>1. <<RunEvent("progress", r)>> \in Seq(Note) /\ RunEvent("progress", r).run = r
          /\ RunEvent("progress", r).about = "progress"
      BY ShortNotes DEF EventKind
    <3>2. QED BY <2>3, <3>1
  <2>5. /\ outgoing' \in Seq(Event) /\ Len(outgoing') = 1
        /\ outgoing'[1].revision = revision /\ outgoing'[1].about = "progress" /\ outgoing'[1].run = r
        /\ next_event_sequence' \in Nat \ {0} /\ Numbered(outgoing')
    <3>1. Publish(notes, revision)
      BY <2>2, <2>4 DEF Answer
    <3>2. 1 \in 1..Len(notes)
      BY <2>4
    <3>3. /\ outgoing' \in Seq(Event) /\ Len(outgoing') = Len(notes)
          /\ \A i \in 1..Len(notes) :
               /\ outgoing'[i].revision = revision
               /\ outgoing'[i].about = notes[i].about /\ outgoing'[i].run = notes[i].run
          /\ next_event_sequence' \in Nat \ {0} /\ Numbered(outgoing')
      BY <2>1, <3>1, PublishFacts
    <3>4. QED BY <2>4, <3>2, <3>3
  <2>6. PICK f \in Seq(Event) : f = outgoing'
    BY <2>5
  <2>7. RunStep(f)
    <3>1. Chain(f, InRunOrder)
      <4>1. Len(f) = 1
        BY <2>5, <2>6
      <4>2. QED BY <4>1 DEF Chain
    <3>2. Range(f) = {f[1]}
      <4>1. Range(f) = {f[i] : i \in 1..1}
        BY <2>5, <2>6, RangeEquality
      <4>2. QED BY <4>1
    <3>3. next_benchmark_id < next_benchmark_id' /\ next_benchmark_id <= next_benchmark_id' /\ r.completed <= r.completed
      BY <2>1, <2>2, <2>3
    <3>4. f[1].run = r /\ f[1].about = "progress"
      BY <2>5, <2>6
    <3>5. QED BY <2>2, <2>3, <3>1, <3>2, <3>3, <3>4 DEF RunStep
  <2>8. Current(f)
    <3>1. Len(f) = 1 /\ f[1].revision = revision' /\ revision <= revision'
      BY <2>1, <2>2, <2>5, <2>6
    <3>2. QED BY <3>1 DEF Current
  <2>9. Speaks(outgoing')
    BY <2>5, <2>6, <2>7, <2>8 DEF Speaks
  <2>10. ControllerType' /\ ServiceType' /\ Answer(TRUE, revision', notes)
    <3>1. ControllerType'
      BY <2>1, <2>2 DEF ControllerType
    <3>2. ServiceType'
      BY <2>1, <2>2, <2>3, <2>5 DEF ServiceType
    <3>3. QED BY <2>2, <2>4, <3>1, <3>2 DEF Answer
  <2>11. QED BY <2>2, <2>9, <2>10, AnswerTells
<1>3. QED BY <1>1, <1>2

\* A run is stopped, with its result.
LEMMA StopRun ==
  ASSUME ShapeInv, stop_run, ClientsRest
  PROVE  ShapeInv' /\ Tells
<1>1. CASE reject
  BY <1>1, Rejected DEF stop_run, Accepts
<1>2. CASE ~reject
  <2>1. /\ TypeOK /\ ControllerType /\ ServiceType /\ revision \in Nat
    BY DEF ShapeInv, TypeOK, ControllerType
  <2>2. /\ Handling /\ run # NoRun /\ run' = NoRun
        /\ Answer(TRUE, revision, <<RunEvent("stopped", run)>>)
        /\ UNCHANGED <<topology, revision, faults, next_benchmark_id>>
    BY <1>2 DEF stop_run, Accepts, controller
  <2>3. PICK r \in Run : r = run /\ r.completed <= r.completed
    BY <2>1, <2>2 DEF ServiceType, Run
  <2>4. PICK notes \in Seq(Note) : /\ notes = <<RunEvent("stopped", run)>> /\ Len(notes) = 1
                                   /\ notes[1].run = r /\ notes[1].about = "stopped"
    <3>1. <<RunEvent("stopped", r)>> \in Seq(Note) /\ RunEvent("stopped", r).run = r
          /\ RunEvent("stopped", r).about = "stopped"
      BY ShortNotes DEF EventKind
    <3>2. QED BY <2>3, <3>1
  <2>5. Publish(notes, revision)
    BY <2>2, <2>4 DEF Answer
  <2>6. \A i \in 1..Len(notes) :
          /\ notes[i].run = r
          /\ i < Len(notes) \/ run' # NoRun => notes[i].about = "progress"
          /\ notes[i].about = "completed" /\ finished(r) => r.received = PacketCount
    BY <2>2, <2>4
  <2>7. Speaks(outgoing') /\ next_event_sequence' \in Nat \ {0}
    BY <2>1, <2>2, <2>3, <2>5, <2>6, RunAnnounced
  <2>8. ControllerType' /\ ServiceType' /\ Answer(TRUE, revision', notes)
    BY <2>1, <2>2, <2>4, <2>7 DEF ControllerType, ServiceType
  <2>9. QED BY <2>2, <2>7, <2>8, AnswerTells
<1>3. QED BY <1>1, <1>2

\* Every command is answered.
LEMMA DispatchTells ==
  ASSUME ShapeInv, dispatch, ClientsRest
  PROVE  ShapeInv' /\ Tells
<1>1. /\ TypeOK /\ ControllerType /\ revision \in Nat /\ IsFiniteSet(faults) /\ topology \subseteq Targets
      /\ faults \subseteq Targets
  BY ServerConfig DEF ShapeInv, TypeOK, ControllerType
<1>2. ASSUME NEW command, GetState(command) PROVE ShapeInv' /\ Tells
  <2>1. /\ Handling /\ Answer(TRUE, revision, StateEvents(1))
        /\ UNCHANGED <<topology, revision, faults, run, next_benchmark_id>>
    BY <1>2 DEF GetState, Accepts, controller
  <2>2. ControllerType' /\ revision <= revision' /\ Answer(TRUE, revision', StateEvents(1))
    <3>1. ControllerType' /\ revision <= revision'
      BY <1>1, <2>1 DEF ControllerType
    <3>2. QED BY <2>1, <3>1 DEF Answer
  <2>3. QED BY <2>1, <2>2, StateAnswer
<1>3. CASE GetActiveFaults
  <2>1. /\ Handling /\ Answer(TRUE, revision, StateEvents(Cardinality(faults)))
        /\ UNCHANGED <<topology, revision, faults, run, next_benchmark_id>>
    BY <1>3 DEF GetActiveFaults, Accepts, controller
  <2>2. PICK n \in Nat : n = Cardinality(faults)
    BY <1>1, FS_CardinalityType
  <2>3. ControllerType' /\ revision <= revision' /\ Answer(TRUE, revision', StateEvents(n))
    <3>1. ControllerType' /\ revision <= revision'
      BY <1>1, <2>1 DEF ControllerType
    <3>2. QED BY <2>1, <2>2, <3>1 DEF Answer
  <2>4. QED BY <2>1, <2>3, StateAnswer
<1>4. CASE LoadTopology
  <2>1. CASE reject
    BY <1>4, <2>1, Rejected DEF LoadTopology, Accepts
  <2>2. CASE ~reject
    <3>1. /\ Handling /\ topology' \in Topologies /\ revision' = revision + 1 /\ faults' = {}
          /\ Answer(TRUE, revision', StateEvents(1)) /\ run' = run /\ next_benchmark_id' = next_benchmark_id
      BY <1>4, <2>2 DEF LoadTopology, Accepts
    <3>2. ControllerType' /\ revision <= revision'
      BY <1>1, <3>1, FS_EmptySet DEF ControllerType
    <3>3. QED BY <3>1, <3>2, StateAnswer
  <2>3. QED BY <2>1, <2>2
<1>5. CASE SetFault
  <2>1. CASE reject
    BY <1>5, <2>1, Rejected DEF SetFault, Accepts
  <2>2. CASE ~reject
    <3>1. PICK t \in topology : faults' = faults \cup {t}
      BY <1>5, <2>2 DEF SetFault
    <3>2. /\ Handling /\ Answer(TRUE, revision, StateEvents(1))
          /\ UNCHANGED <<topology, revision, run, next_benchmark_id>>
      BY <1>5, <2>2 DEF SetFault, Accepts
    <3>3. IsFiniteSet(faults')
      BY <1>1, <3>1, FS_AddElement
    <3>4. ControllerType' /\ revision <= revision' /\ Answer(TRUE, revision', StateEvents(1))
      <4>1. ControllerType' /\ revision <= revision'
        BY <1>1, <3>1, <3>2, <3>3 DEF ControllerType
      <4>2. QED BY <3>2, <4>1 DEF Answer
    <3>5. QED BY <3>2, <3>4, StateAnswer
  <2>3. QED BY <2>1, <2>2
<1>6. CASE ClearFault
  <2>1. CASE reject
    BY <1>6, <2>1, Rejected DEF ClearFault, Accepts
  <2>2. CASE ~reject
    <3>1. PICK t : faults' = faults \ {t}
      BY <1>6, <2>2 DEF ClearFault
    <3>2. /\ Handling /\ Answer(TRUE, revision, StateEvents(1))
          /\ UNCHANGED <<topology, revision, run, next_benchmark_id>>
      BY <1>6, <2>2 DEF ClearFault, Accepts
    <3>3. IsFiniteSet(faults')
      BY <1>1, <3>1, FS_RemoveElement
    <3>4. ControllerType' /\ revision <= revision' /\ Answer(TRUE, revision', StateEvents(1))
      <4>1. ControllerType' /\ revision <= revision'
        BY <1>1, <3>1, <3>2, <3>3 DEF ControllerType
      <4>2. QED BY <3>2, <4>1 DEF Answer
    <3>5. QED BY <3>2, <3>4, StateAnswer
  <2>3. QED BY <2>1, <2>2
<1>7. CASE Refuse
  BY <1>7, Rejected DEF Refuse
<1>8. QED BY <1>2, <1>3, <1>4, <1>5, <1>6, <1>7, StartBenchmark, StopRun DEF dispatch

\* Every step of the switch keeps the shape, and tells all connections what it says.
LEMMA ServerTells ==
  ASSUME ShapeInv, ServerStep
  PROVE  ShapeInv' /\ Tells
<1>1. Server /\ ClientsRest
  BY DEF ServerStep, ClientsRest
<1>2. CASE Broadcast
  <2>1. ShapeInv' /\ \A k \in Connections : Effect(k, <<>>)
    BY <1>1, <1>2, BroadcastShape, BroadcastTells
  <2>2. TypeOK /\ UNCHANGED <<revision, next_event_sequence, run, next_benchmark_id>>
    BY <1>2 DEF Broadcast, ShapeInv, controller, service
  <2>3. QED BY <2>1, <2>2, SaysNothing DEF Tells
<1>3. QED
  BY <1>1, <1>2, PublishAnalysis, PublishSupervision, StartPollTells, WatchTells, ServeTells, DispatchTells,
     FinishClientTells
  DEF Server, poll

-----------------------------------------------------------------------------
(* The steps of the clients.                                               *)

\* The step reaches client c as events that are sent, as a message it takes, or as a
\* new connection.
Told(c, fresh) ==
  /\ client'[c].socket = client[c].socket /\ client'[c].revision = client[c].revision
  /\ history'.heard[c] = history.heard[c]
  /\ Effect(client[c].socket, fresh)

Took(c) ==
  /\ client'[c].socket = client[c].socket
  /\ \E m \in Message :
       /\ Way(client[c].socket) = <<m>> \o Way(client[c].socket)'
       /\ client'[c].revision \in {client[c].revision, m.revision}
       /\ history'.heard[c] = IF m \in Event THEN m.sequence ELSE history.heard[c]
  /\ Live(client[c].socket)' => Live(client[c].socket)

Joined(c) ==
  /\ client'[c].socket \notin Range(clients')
  /\ Way(client[c].socket)' = <<>>
  /\ history'.heard[c] = 0 /\ client'[c].revision = client[c].revision

\* What a step of the channel is to the connected clients: events are only numbered by
\* steps in which nobody takes a message or connects.
ChannelTells ==
  /\ \/ \E fresh : Speaks(fresh) /\ \A c \in Connected' : c \in Connected /\ Told(c, fresh)
     \/ /\ Speaks(<<>>) /\ revision' = revision
        /\ \A c \in Connected' : (c \in Connected /\ (Told(c, <<>>) \/ Took(c))) \/ Joined(c)
  /\ \A c \in Clients : c \notin Connected' => client'[c].revision = client[c].revision

\* The socket of a connected client.
LEMMA SocketFacts ==
  ASSUME TypeOK, NEW c \in Connected
  PROVE  /\ c \in Clients /\ client[c] \in Client /\ client[c].socket \in Connections
         /\ client[c].revision \in Nat /\ history.heard[c] \in Nat
<1>1. c \in Clients /\ client[c] \in Client /\ client[c].socket # Unconnected
  BY DEF Connected, TypeOK, ClientType
<1>2. history.heard[c] \in Nat
  BY <1>1 DEF TypeOK, ClientType, History
<1>3. QED BY <1>1, <1>2 DEF Client

\* A step of the switch reaches all clients.
LEMMA ServerReaches ==
  ASSUME ShapeInv, ServerStep
  PROVE  ShapeInv' /\ ChannelTells
<1>1. ShapeInv' /\ Tells /\ UNCHANGED <<client, history>> /\ TypeOK
  BY ServerTells DEF ServerStep, ShapeInv
<1>2. PICK fresh : Speaks(fresh) /\ \A k \in Connections : Effect(k, fresh)
  BY <1>1 DEF Tells
<1>3. ASSUME NEW c \in Connected' PROVE c \in Connected /\ Told(c, fresh)
  <2>1. c \in Connected
    BY <1>1 DEF Connected
  <2>2. Effect(client[c].socket, fresh)
    BY <1>1, <1>2, <2>1, SocketFacts
  <2>3. QED BY <1>1, <2>1, <2>2 DEF Told
<1>4. QED BY <1>1, <1>2, <1>3 DEF ChannelTells

\* What a step of a client leaves to the switch.
SwitchRests ==
  UNCHANGED <<topology, revision, faults, next_event_sequence, run, next_benchmark_id, clients, stage, index,
              inbox, outgoing>>

\* A step of a client that touches neither sockets nor what was heard.
LEMMA ClientQuiet ==
  ASSUME ShapeInv, SwitchRests, UNCHANGED <<peer, backlog, closed, dialled>>,
         requests' \in [Connections -> Seq(Request)], client' \in [Clients -> Client], history' \in History,
         \A c \in Clients : /\ client'[c].socket = client[c].socket /\ client'[c].revision = client[c].revision
                            /\ history'.heard[c] = history.heard[c] /\ history'.answered[c] = history.answered[c]
  PROVE  ShapeInv' /\ ChannelTells
<1>1. TypeOK /\ PositionInv /\ SocketInv /\ FreshInv
  BY DEF ShapeInv
<1>2. TypeOK'
  BY <1>1 DEF SwitchRests, TypeOK, ControllerType, ServiceType, ServerType, SocketType, ClientType
<1>3. PositionInv' /\ SocketInv' /\ FreshInv'
  BY <1>1, SMTT(40) DEF SwitchRests, PositionInv, SocketInv, FreshInv
<1>4. Speaks(<<>>) /\ revision' = revision
  BY <1>1, SaysNothing DEF SwitchRests
<1>5. ASSUME NEW c \in Connected' PROVE c \in Connected /\ Told(c, <<>>)
  <2>1. c \in Connected
    BY DEF Connected
  <2>2. PICK k \in Connections : k = client[c].socket
    BY <1>1, <2>1, SocketFacts
  <2>3. Way(k)' = Way(k) /\ (Live(k)' => Live(k))
    BY DEF SwitchRests, Way, Coming, Live
  <2>4. Effect(k, <<>>)
    BY <1>1, <2>3, Untouched DEF SwitchRests
  <2>5. c \in Clients
    BY <2>1 DEF Connected
  <2>6. QED BY <2>1, <2>2, <2>4, <2>5 DEF Told
<1>6. QED BY <1>2, <1>3, <1>4, <1>5 DEF ShapeInv, ChannelTells

\* Sockets stay apart while nobody connects.
LEMMA SocketsKept ==
  ASSUME SocketInv, clients' = clients, backlog' = backlog, dialled' = dialled,
         \A c \in Clients : client'[c].socket = client[c].socket
  PROVE  SocketInv'
BY DEF SocketInv

\* What a client's step takes from its socket is the first of what is on the way.
LEMMA HeadIsTaken ==
  ASSUME TypeOK, NEW k \in Connections, NEW m, UNCHANGED <<clients, outgoing>>,
         peer[k].stream # <<>>, m = Head(peer[k].stream), peer' = [peer EXCEPT ![k].stream = Tail(@)]
  PROVE  /\ m \in Message /\ m \in Range(Way(k)) /\ Way(k) = <<m>> \o Way(k)'
         /\ peer'[k].outbox = peer[k].outbox /\ peer'[k].congested = peer[k].congested
         /\ peer' \in [Connections -> Peer]
         /\ \A j \in Connections : j # k => peer'[j] = peer[j]
         /\ Live(k)' <=> Live(k)
<1>1. peer \in [Connections -> Peer]
  BY DEF TypeOK, ServerType
<1>2. PICK st \in Seq(Message), ob \in Seq(Message) : st = peer[k].stream /\ ob = peer[k].outbox
  BY WayFacts
<1>3. m \in Message /\ Tail(st) \in Seq(Message) /\ st = <<m>> \o Tail(st)
  BY <1>2, HeadFirst
<1>4. PICK u \in Seq(Message) : u = Tail(st)
  BY <1>3
<1>5. PICK mm \in Seq(Message) : mm = <<m>>
  BY <1>3, Glue
<1>6. peer' = [peer EXCEPT ![k] = [peer[k] EXCEPT !.stream = u]] /\ peer[k] \in Peer
  BY <1>1, <1>2, <1>4
<1>7. PICK p \in Peer : p = [peer[k] EXCEPT !.stream = u]
  <2>1. [peer[k] EXCEPT !.stream = u] \in Peer
    BY <1>6 DEF Peer, Message
  <2>2. QED BY <2>1
<1>8. p.stream = u /\ p.outbox = ob /\ p.congested = peer[k].congested
  BY <1>2, <1>6, <1>7 DEF Peer
<1>9. /\ peer' \in [Connections -> Peer] /\ peer'[k] = p
      /\ \A j \in Connections : j # k => peer'[j] = peer[j]
  BY <1>1, <1>6, <1>7
<1>10. Live(k)' <=> Live(k)
  BY <1>8, <1>9 DEF Live
<1>11. PICK f \in Seq(Message) : f = Coming(k) /\ f = Coming(k)'
  BY <1>10, WayFacts DEF Coming
<1>12. Way(k) = ((mm \o u) \o ob) \o f /\ Way(k)' = (u \o ob) \o f
  BY <1>2, <1>3, <1>4, <1>5, <1>8, <1>9, <1>11 DEF Way
<1>13. PICK x \in Seq(Message) : x = u \o ob
  BY Glue
<1>14. (mm \o u) \o ob = mm \o x
  BY <1>13, Assoc, ZenonT(60)
<1>15. (mm \o x) \o f = mm \o (x \o f)
  BY Assoc, ZenonT(60)
<1>16. PICK y \in Seq(Message) : y = x \o f
  BY Glue
<1>17. Way(k) = mm \o y /\ Way(k)' = y
  BY <1>12, <1>13, <1>14, <1>15, <1>16
<1>18. m \in Range(mm \o y)
  <2>1. Range(mm \o y) = Range(mm) \cup Range(y)
    BY RangeConcatenation
  <2>2. Range(mm) = {m}
    BY <1>5, SMTT(40) DEF Range
  <2>3. QED BY <2>1, <2>2
<1>19. QED BY <1>2, <1>3, <1>5, <1>8, <1>9, <1>10, <1>17, <1>18

\* Client c takes the first message from its socket.
LEMMA ClientTakes ==
  ASSUME ShapeInv, SwitchRests, UNCHANGED <<backlog, closed, dialled>>, NEW c \in Connected, NEW m,
         peer[client[c].socket].stream # <<>>, m = Head(peer[client[c].socket].stream),
         peer' = [peer EXCEPT ![client[c].socket].stream = Tail(@)],
         requests' \in [Connections -> Seq(Request)], client' \in [Clients -> Client], history' \in History,
         \A d \in Clients : /\ client'[d].socket = client[d].socket
                            /\ d # c => /\ client'[d].revision = client[d].revision
                                        /\ history'.heard[d] = history.heard[d]
                                        /\ history'.answered[d] = history.answered[d],
         client'[c].revision \in {client[c].revision, m.revision},
         history'.heard[c] = IF m.kind = "event" THEN m.sequence ELSE history.heard[c]
  PROVE  ShapeInv' /\ ChannelTells
<1>1. TypeOK /\ PositionInv /\ SocketInv /\ FreshInv /\ peer \in [Connections -> Peer]
  BY DEF ShapeInv, TypeOK, ServerType
<1>2. PICK k \in Connections : k = client[c].socket
  BY <1>1, SocketFacts, SMTT(40)
<1>3. /\ m \in Message /\ Way(k) = <<m>> \o Way(k)' /\ peer' \in [Connections -> Peer]
      /\ \A j \in Connections : j # k => peer'[j] = peer[j]
      /\ Live(k)' <=> Live(k)
  <2>1. UNCHANGED <<clients, outgoing>>
    BY DEF SwitchRests
  <2>2. QED BY <1>1, <1>2, <2>1, HeadIsTaken, ZenonT(60)
<1>4. TypeOK'
  BY <1>1, <1>3 DEF SwitchRests, TypeOK, ControllerType, ServiceType, ServerType, SocketType, ClientType
<1>5. PositionInv' /\ SocketInv'
  <2>1. \A d \in Clients : client'[d].socket = client[d].socket
    OBVIOUS
  <2>2. PositionInv'
    BY <1>1 DEF SwitchRests, PositionInv
  <2>3. /\ clients' = clients /\ backlog' = backlog /\ dialled' = dialled
    BY DEF SwitchRests
  <2>4. SocketInv'
    BY <1>1, <2>1, <2>3, SocketsKept, SMTT(40)
  <2>5. QED BY <2>2, <2>4
<1>6. FreshInv'
  <2>1. k \notin Range(backlog) /\ ~(k > dialled)
    BY <1>1, <1>2 DEF FreshInv
  <2>2. \A j \in Connections :
          j \in Range(backlog) \/ j > dialled => peer'[j].stream = <<>> /\ peer'[j].outbox = <<>>
    BY <1>1, <1>3, <2>1, SMTT(40) DEF FreshInv
  <2>3. \A d \in Clients : client[d].socket \in Range(backlog) => d # c /\ history.heard[d] = 0 /\ history.answered[d] = 0
    BY <1>1, <1>2, <2>1 DEF FreshInv
  <2>4. QED BY <2>2, <2>3 DEF FreshInv
<1>7. Speaks(<<>>) /\ revision' = revision
  BY <1>1, SaysNothing, SMTT(40) DEF SwitchRests
<1>8. Took(c)
  <2>1. m.kind = "event" <=> m \in Event
    BY <1>3, MessageFacts
  <2>2. c \in Clients
    BY DEF Connected
  <2>3. QED BY <1>2, <1>3, <2>1, <2>2, ZenonT(60) DEF Took
<1>9. ASSUME NEW d \in Connected', d # c PROVE d \in Connected /\ Told(d, <<>>)
  <2>1. d \in Connected /\ d \in Clients /\ c \in Clients
    BY SMTT(40) DEF Connected
  <2>2. PICK j \in Connections : j = client[d].socket /\ j # k
    BY <1>1, <1>2, <1>9, <2>1, SocketFacts, SMTT(40) DEF SocketInv, Connected
  <2>3. Way(j)' = Way(j) /\ (Live(j)' => Live(j))
    BY <1>3, <2>2 DEF SwitchRests, Way, Coming, Live
  <2>4. Effect(j, <<>>)
    BY <1>1, <2>3, Untouched DEF SwitchRests
  <2>5. QED BY <1>9, <2>1, <2>2, <2>4 DEF Told
<1>10. \A d \in Clients : d \notin Connected' => client'[d].revision = client[d].revision
  BY DEF Connected
<1>11. QED BY <1>4, <1>5, <1>6, <1>7, <1>8, <1>9, <1>10, SMTT(40) DEF ShapeInv, ChannelTells

\* Client c closes its connection and, unless it leaves, dials a new one.
LEMMA ClientCloses ==
  ASSUME ShapeInv, SwitchRests, NEW c \in Clients, NEW now, close(c, now), requests' = requests,
         \/ now = Unconnected /\ UNCHANGED <<backlog, dialled>>
         \/ now = dialled + 1 /\ now \in Connections /\ dialled' = now /\ backlog' = Append(backlog, now)
  PROVE  ShapeInv' /\ ChannelTells
<1>1. TypeOK /\ PositionInv /\ SocketInv /\ FreshInv
  BY DEF ShapeInv
<1>2. /\ peer \in [Connections -> Peer] /\ closed \in [Connections -> BOOLEAN] /\ client \in [Clients -> Client]
      /\ history \in History /\ dialled \in Nat /\ backlog \in Seq(Connections) /\ clients \in Seq(Connections)
  BY <1>1 DEF TypeOK, ServerType, SocketType, ClientType
<1>3. now \in Connections \cup {Unconnected} /\ Connections \subseteq Nat /\ Unconnected \notin Connections
  BY Bounds, ChannelConfig
<1>4. PICK k : k = client[c].socket
  OBVIOUS
<1>5. /\ closed' = [j \in Connections |-> closed[j] \/ j = k]
      /\ peer' = [j \in Connections |-> IF j = k THEN [peer[j] EXCEPT !.stream = <<>>] ELSE peer[j]]
  BY <1>4 DEF close
<1>6. closed' \in [Connections -> BOOLEAN]
  BY <1>2, <1>5
<1>7. \A p \in Peer : [p EXCEPT !.stream = <<>>] \in Peer /\ [p EXCEPT !.stream = <<>>].outbox = p.outbox
                      /\ [p EXCEPT !.stream = <<>>].congested = p.congested /\ [p EXCEPT !.stream = <<>>].stream = <<>>
  BY EmptySeq DEF Peer
<1>8. /\ peer' \in [Connections -> Peer]
      /\ \A j \in Connections : /\ peer'[j].outbox = peer[j].outbox /\ peer'[j].congested = peer[j].congested
                                /\ peer'[j].stream = IF j = k THEN <<>> ELSE peer[j].stream
                                /\ j # k => peer'[j] = peer[j]
  BY <1>2, <1>5, <1>7
<1>9. /\ client' \in [Clients -> Client]
      /\ client'[c].socket = now /\ client'[c].revision = client[c].revision
      /\ \A d \in Clients : d # c => client'[d] = client[d]
  <2>1. PICK n \in Client : n = [client[c] EXCEPT !.socket = now, !.outcome = "none"]
    BY <1>2, <1>3 DEF Client
  <2>2. n.socket = now /\ n.revision = client[c].revision
    BY <1>2, <2>1 DEF Client
  <2>3. client' = [client EXCEPT ![c] = n]
    BY <1>2, <2>1 DEF close
  <2>4. QED BY <1>2, <2>2, <2>3
<1>10. /\ history' \in History
       /\ history'.heard[c] = 0 /\ history'.answered[c] = 0
       /\ \A d \in Clients : d # c => history'.heard[d] = history.heard[d] /\ history'.answered[d] = history.answered[d]
  BY <1>2 DEF close, History
<1>11. backlog' \in Seq(Connections) /\ dialled' \in Nat /\ dialled <= dialled'
  <2>1. CASE now = Unconnected
    BY <1>2, <1>3, <2>1
  <2>2. CASE now \in Connections /\ now = dialled + 1 /\ dialled' = now /\ backlog' = Append(backlog, now)
    <3>1. backlog' \in Seq(Connections)
      BY <1>2, <2>2, AppendProperties
    <3>2. QED BY <1>2, <2>2, <3>1
  <2>3. QED BY <2>1, <2>2
<1>12. TypeOK'
  BY <1>1, <1>6, <1>8, <1>9, <1>10, <1>11
  DEF SwitchRests, TypeOK, ControllerType, ServiceType, ServerType, SocketType, ClientType
<1>13. PositionInv'
  BY <1>1 DEF SwitchRests, PositionInv
<1>14. clients' = clients
  BY DEF SwitchRests
<1>15. /\ now # Unconnected => now > dialled /\ Range(backlog') = Range(backlog) \cup {now}
       /\ now = Unconnected => Range(backlog') = Range(backlog)
       /\ Chain(clients \o backlog', Apart)
  <2>1. CASE now = Unconnected
    BY <1>1, <1>3, <2>1 DEF SocketInv
  <2>2. CASE now = dialled + 1 /\ now \in Connections /\ backlog' = Append(backlog, now)
    <3>1. now > dialled /\ now # Unconnected
      BY <1>2, <1>3, <2>2
    <3>2. Append(backlog, now) = backlog \o <<now>> /\ <<now>> \in Seq(Connections) /\ Len(<<now>>) = 1
      BY <1>2, <2>2, AppendIsConcat, Singleton
    <3>3. Range(<<now>>) = {now}
      BY DEF Range
    <3>4. Range(backlog') = Range(backlog) \cup {now}
      <4>1. PICK n \in Seq(Connections) : n = <<now>>
        BY <3>2
      <4>2. Range(backlog \o n) = Range(backlog) \cup Range(n)
        BY <1>2, RangeConcatenation
      <4>3. QED BY <2>2, <3>2, <3>3, <4>1, <4>2
    <3>5. clients \o backlog \in Seq(Connections)
      BY <1>2, ConcatProperties
    <3>6. clients \o backlog' = (clients \o backlog) \o <<now>>
      BY <1>2, <2>2, <3>2, ConcatAssociative, SMTT(40)
    <3>7. Range(clients \o backlog) = Range(clients) \cup Range(backlog)
      BY <1>2, RangeConcatenation
    <3>8. \A x \in Range(clients \o backlog), y \in Range(<<now>>) : <<x, y>> \in Apart
      <4>1. SUFFICES ASSUME NEW x \in Range(clients \o backlog) PROVE <<x, now>> \in Apart
        BY <3>3
      <4>2. x \in Connections
        BY <3>5, RangeOfSeq
      <4>3. x <= dialled
        BY <1>1, <3>7 DEF SocketInv
      <4>4. QED BY <1>2, <1>3, <2>2, <3>1, <4>2, <4>3 DEF Apart
    <3>9. Chain(clients \o backlog, Apart) /\ Chain(<<now>>, Apart)
      BY <1>1, <3>2 DEF SocketInv, Chain
    <3>10. Chain((clients \o backlog) \o <<now>>, Apart)
      BY <3>2, <3>5, <3>8, <3>9, ChainParts
    <3>11. QED BY <3>1, <3>4, <3>6, <3>10
  <2>3. QED BY <2>1, <2>2
<1>16. SocketInv'
  <2>1. Chain(clients' \o backlog', Apart)
    BY <1>14, <1>15
  <2>2. \A j \in Range(clients') \cup Range(backlog') : j <= dialled'
    <3>1. SUFFICES ASSUME NEW j \in Range(clients) \cup Range(backlog) \cup {now}, j # Unconnected PROVE j <= dialled'
      BY <1>2, <1>3, <1>11, <1>12, <1>14, <1>15, RangeOfSeq
    <3>2. Range(clients) \subseteq Connections /\ Range(backlog) \subseteq Connections
      BY <1>2, RangeOfSeq
    <3>3. CASE j \in Range(clients) \cup Range(backlog)
      <4>1. j <= dialled /\ j \in Nat
        BY <1>1, <1>3, <3>2, <3>3 DEF SocketInv
      <4>2. QED BY <1>2, <1>11, <4>1
    <3>4. CASE j = now
      BY <1>3, <3>1, <3>4
    <3>5. QED BY <3>3, <3>4
  <2>3. \A d \in Clients : client'[d].socket # Unconnected => client'[d].socket <= dialled'
    <3>1. SUFFICES ASSUME NEW d \in Clients, client'[d].socket # Unconnected PROVE client'[d].socket <= dialled'
      OBVIOUS
    <3>2. CASE d = c
      BY <1>3, <1>9, <3>1, <3>2
    <3>3. CASE d # c
      <4>1. client'[d] = client[d] /\ client[d].socket <= dialled /\ client[d].socket \in Connections
        BY <1>1, <1>2, <1>9, <3>1, <3>3 DEF SocketInv, Client
      <4>2. PICK x \in Nat : x = client[d].socket
        BY <1>3, <4>1
      <4>3. x <= dialled'
        BY <1>2, <1>11, <4>1, <4>2
      <4>4. QED BY <4>1, <4>2, <4>3
    <3>4. QED BY <3>2, <3>3
  <2>4. ASSUME NEW d \in Clients, NEW e \in Clients, client'[d].socket = client'[e].socket, d # e
        PROVE  client'[d].socket = Unconnected
    <3>1. \A a \in Clients : a # c => client'[a].socket # now \/ now = Unconnected
      <4>1. SUFFICES ASSUME NEW a \in Clients, a # c, client[a].socket = now, now # Unconnected PROVE FALSE
        BY <1>9
      <4>2. now <= dialled /\ now > dialled /\ now \in Nat
        BY <1>1, <1>3, <1>15, <4>1 DEF SocketInv
      <4>3. QED BY <1>2, <4>2
    <3>2. CASE d # c /\ e # c
      BY <1>1, <1>9, <2>4, <3>2 DEF SocketInv
    <3>3. CASE d = c \/ e = c
      BY <1>9, <2>4, <3>1, <3>3
    <3>4. QED BY <3>2, <3>3
  <2>5. QED BY <2>1, <2>2, <2>3, <2>4 DEF SocketInv
<1>17. ASSUME NEW j \in Connections, j \in Range(backlog') \/ j > dialled'
       PROVE  /\ peer[j].stream = <<>> /\ peer[j].outbox = <<>>
              /\ peer'[j].stream = <<>> /\ peer'[j].outbox = <<>>
  <2>1. j \in Range(backlog) \/ j > dialled
    <3>1. CASE j > dialled'
      BY <1>2, <1>3, <1>11, <3>1
    <3>2. CASE j \in Range(backlog')
      BY <1>3, <1>15, <3>2
    <3>3. QED BY <1>17, <3>1, <3>2
  <2>2. QED BY <1>1, <1>8, <2>1 DEF FreshInv
<1>18. FreshInv'
  <2>1. ASSUME NEW d \in Clients, client'[d].socket \in Range(backlog')
        PROVE  history'.heard[d] = 0 /\ history'.answered[d] = 0
    <3>1. CASE d = c
      BY <1>10, <3>1
    <3>2. CASE d # c
      <4>1. client[d].socket \in Range(backlog') /\ client[d].socket \in Connections
        BY <1>9, <1>11, <2>1, <3>2, RangeOfSeq
      <4>2. client[d].socket # now
        <5>1. client[d].socket <= dialled
          BY <1>1, <1>3, <4>1 DEF SocketInv
        <5>2. QED BY <1>2, <1>3, <1>15, <4>1, <5>1
      <4>3. client[d].socket \in Range(backlog)
        BY <1>3, <1>15, <4>1, <4>2
      <4>4. QED BY <1>1, <1>10, <3>2, <4>3 DEF FreshInv
    <3>3. QED BY <3>1, <3>2
  <2>2. QED BY <1>17, <2>1 DEF FreshInv
<1>19. Speaks(<<>>) /\ revision' = revision
  BY <1>1, SaysNothing DEF SwitchRests
<1>20. ASSUME NEW d \in Connected', d # c PROVE d \in Connected /\ Told(d, <<>>)
  <2>1. d \in Clients /\ client'[d] = client[d] /\ d \in Connected
    BY <1>9, <1>20 DEF Connected
  <2>2. PICK j \in Connections : j = client[d].socket /\ j # k
    BY <1>1, <1>4, <1>20, <2>1, SocketFacts DEF SocketInv, Connected
  <2>3. Way(j)' = Way(j) /\ (Live(j)' => Live(j))
    <3>1. peer'[j] = peer[j] /\ clients' = clients /\ outgoing' = outgoing
      BY <1>8, <2>2 DEF SwitchRests
    <3>2. QED BY <3>1 DEF Way, Coming, Live
  <2>4. Effect(j, <<>>)
    BY <1>1, <2>3, Untouched DEF SwitchRests
  <2>5. QED BY <1>10, <1>20, <2>1, <2>2, <2>4 DEF Told
<1>21. ASSUME c \in Connected' PROVE Joined(c)
  <2>1. now # Unconnected /\ now \in Connections /\ now > dialled /\ now \in Range(backlog')
    BY <1>3, <1>9, <1>15, <1>21 DEF Connected
  <2>2. now \notin Range(clients')
    BY <1>1, <1>2, <1>3, <1>14, <2>1 DEF SocketInv
  <2>3. peer'[now].stream = <<>> /\ peer'[now].outbox = <<>>
    BY <1>17, <2>1
  <2>4. Coming(now)' = <<>>
    BY <2>2 DEF Coming, Live
  <2>5. Way(now)' = <<>>
    BY <2>3, <2>4, Glue DEF Way
  <2>6. client'[c].socket = now
    BY <1>9
  <2>7. QED BY <1>9, <1>10, <2>2, <2>5, <2>6 DEF Joined
<1>22. \A d \in Clients : d \notin Connected' => client'[d].revision = client[d].revision
  BY <1>9
<1>23. QED BY <1>12, <1>13, <1>16, <1>18, <1>19, <1>20, <1>21, <1>22 DEF ShapeInv, ChannelTells

-----------------------------------------------------------------------------
(* One step of the channel.                                                *)

\* A request is a request, whether it is lost or not.
LEMMA TransmitType ==
  ASSUME TypeOK, NEW c \in Clients, client[c].socket # Unconnected, NEW id \in Nat,
         NEW command \in ControlCommand \cup {"malformed"}, NEW v \in Nat, NEW target \in Targets \cup {NoTarget},
         Transmit(c, id, command, v, target)
  PROVE  requests' \in [Connections -> Seq(Request)]
<1>1. requests \in [Connections -> Seq(Request)] /\ client[c].socket \in Connections
  BY DEF TypeOK, SocketType, ClientType, Client
<1>2. PICK k \in Connections : k = client[c].socket
  BY <1>1
<1>3. PICK q \in Request : q = [request_id |-> id, command |-> command, revision |-> v, target |-> target]
  BY DEF Request
<1>4. requests' \in {requests, [requests EXCEPT ![k] = Append(requests[k], q)]}
  BY <1>2, <1>3 DEF Transmit
<1>5. Append(requests[k], q) \in Seq(Request)
  BY <1>1, AppendProperties
<1>6. QED BY <1>1, <1>4, <1>5

\* The queries of resync are commands.
LEMMA QueriesAreCommands == Len(QUERIES) = 3 /\ \A i \in 1..3 : QUERIES[i] \in ControlCommand
BY DEF QUERIES, ControlCommand, Queries

\* A client with one entry replaced.
LEMMA ClientWith ==
  ASSUME NEW n \in Client
  PROVE  /\ \A x \in {"idle", "query", "settle"} : [n EXCEPT !.phase = x] \in Client
         /\ \A x \in 1..3 : [n EXCEPT !.query = x] \in Client
         /\ \A x \in 0..1 : [n EXCEPT !.attempt = x] \in Client
         /\ \A x \in Nat : [n EXCEPT !.sequence = x] \in Client /\ [n EXCEPT !.revision = x] \in Client
BY QueriesAreCommands DEF Client

\* A history with one entry replaced.
LEMMA HistoryWith ==
  ASSUME NEW h \in History, NEW f \in [Clients -> Nat]
  PROVE  /\ [h EXCEPT !.asked = f] \in History /\ [h EXCEPT !.answered = f] \in History
         /\ [h EXCEPT !.heard = f] \in History /\ [h EXCEPT !.begun = f] \in History
BY DEF History

\* A command is sent.
LEMMA SendStep ==
  ASSUME ShapeInv, NEW c \in Clients, NEW command \in Commands, NEW target \in Targets \cup {NoTarget},
         send(c, command, target)
  PROVE  ShapeInv' /\ ChannelTells
<1>1. TypeOK /\ client \in [Clients -> Client] /\ history \in History /\ revision \in Nat
  BY DEF ShapeInv, TypeOK, ClientType, ControllerType
<1>2. SwitchRests /\ UNCHANGED <<peer, backlog, closed, dialled, client>>
  BY DEF send, SwitchRests, controller, service, polling
<1>3. requests' \in [Connections -> Seq(Request)]
  BY <1>1, TransmitType, ChannelConfig DEF send
<1>4. history' \in History /\ history'.heard = history.heard /\ history'.answered = history.answered
  BY <1>1 DEF send, History
<1>5. QED BY <1>1, <1>2, <1>3, <1>4, ClientQuiet

\* resync sends its first query.
LEMMA ResyncStep ==
  ASSUME ShapeInv, NEW c \in Clients, resync(c)
  PROVE  ShapeInv' /\ ChannelTells
<1>1. TypeOK /\ client \in [Clients -> Client] /\ history \in History /\ revision \in Nat
  BY DEF ShapeInv, TypeOK, ClientType, ControllerType
<1>2. SwitchRests /\ UNCHANGED <<peer, backlog, closed, dialled>>
  BY DEF resync, SwitchRests, controller, service, polling
<1>3. requests' \in [Connections -> Seq(Request)]
  <2>1. QUERIES[1] \in ControlCommand /\ client[c].revision \in Nat
    BY <1>1, QueriesAreCommands DEF Client
  <2>2. Transmit(c, 1, QUERIES[1], client[c].revision, NoTarget) /\ client[c].socket # Unconnected
    BY DEF resync
  <2>3. QED BY <1>1, <2>1, <2>2, TransmitType
<1>4. history' \in History /\ history'.heard = history.heard /\ history'.answered = history.answered
  <2>0. /\ [history.asked EXCEPT ![c] = @ + 1] \in [Clients -> Nat]
        /\ [history.begun EXCEPT ![c] = revision] \in [Clients -> Nat]
    BY <1>1 DEF History
  <2>1. PICK f \in [Clients -> Nat], g \in [Clients -> Nat] :
          f = [history.asked EXCEPT ![c] = @ + 1] /\ g = [history.begun EXCEPT ![c] = revision]
    BY <2>0
  <2>2. history' = [[history EXCEPT !.asked = f] EXCEPT !.begun = g]
    BY <1>1, <2>1 DEF resync, History
  <2>3. history' \in History
    BY <1>1, <2>1, <2>2, HistoryWith
  <2>4. QED BY <1>1, <2>2, <2>3 DEF History
<1>5. PICK n : n = [[client[c] EXCEPT !.phase = "query", !.query = 1] EXCEPT !.attempt = 0, !.sequence = 1]
  OBVIOUS
<1>6. n \in Client /\ n.socket = client[c].socket /\ n.revision = client[c].revision
  <2>1. PICK a \in Client : a = [client[c] EXCEPT !.phase = "query"]
    BY <1>1, ClientWith
  <2>2. PICK b \in Client : b = [a EXCEPT !.query = 1]
    <3>1. 1 \in 1..3
      OBVIOUS
    <3>2. [a EXCEPT !.query = 1] \in Client
      BY <3>1, ClientWith
    <3>3. QED BY <3>2
  <2>3. PICK d \in Client : d = [b EXCEPT !.attempt = 0]
    <3>1. 0 \in 0..1
      OBVIOUS
    <3>2. [b EXCEPT !.attempt = 0] \in Client
      BY <3>1, ClientWith
    <3>3. QED BY <3>2
  <2>4. n = [d EXCEPT !.sequence = 1]
    BY <1>1, <1>5, <2>1, <2>2, <2>3 DEF Client
  <2>5. n \in Client
    BY <2>4, ClientWith
  <2>6. d.socket = client[c].socket /\ d.revision = client[c].revision
    BY <1>1, <2>1, <2>2, <2>3 DEF Client
  <2>7. QED BY <2>4, <2>5, <2>6 DEF Client
<1>7. client' = [client EXCEPT ![c] = n]
  BY <1>1, <1>5 DEF resync
<1>8. /\ client' \in [Clients -> Client]
      /\ \A d \in Clients : client'[d].socket = client[d].socket /\ client'[d].revision = client[d].revision
  BY <1>1, <1>6, <1>7
<1>9. QED BY <1>1, <1>2, <1>3, <1>4, <1>8, ClientQuiet

\* resync ends, with or without success.
LEMMA ResyncEnds ==
  ASSUME ShapeInv, NEW c \in Clients, ResyncFails(c) \/ ResyncReturns(c)
  PROVE  ShapeInv' /\ ChannelTells
<1>1. /\ TypeOK /\ client \in [Clients -> Client] /\ history \in History
      /\ requests \in [Connections -> Seq(Request)]
  BY DEF ShapeInv, TypeOK, ClientType, SocketType
<1>2. SwitchRests /\ UNCHANGED <<peer, backlog, closed, dialled, requests, history>>
  BY DEF ResyncFails, ResyncReturns, SwitchRests, servervars, controller, service, polling, sockets
<1>3. PICK o \in {"failed", "synced"} : client' = [client EXCEPT ![c].phase = "idle", ![c].outcome = o]
  BY DEF ResyncFails, ResyncReturns
<1>4. PICK n : n = [client[c] EXCEPT !.phase = "idle", !.outcome = o]
  OBVIOUS
<1>5. n \in Client /\ n.socket = client[c].socket /\ n.revision = client[c].revision
  BY <1>1, <1>4 DEF Client
<1>6. client' = [client EXCEPT ![c] = n]
  BY <1>1, <1>3, <1>4
<1>7. /\ client' \in [Clients -> Client]
      /\ \A d \in Clients : client'[d].socket = client[d].socket /\ client'[d].revision = client[d].revision
  BY <1>1, <1>5, <1>6, SMTT(40)
<1>8. QED BY <1>1, <1>2, <1>7, ClientQuiet

\* A caller, or resync, takes a message that is not an answer to resync.
LEMMA HearStep ==
  ASSUME ShapeInv, NEW c \in Clients, receive(c) \/ ResyncHears(c)
  PROVE  ShapeInv' /\ ChannelTells
<1>1. /\ TypeOK /\ client \in [Clients -> Client] /\ history \in History
      /\ requests \in [Connections -> Seq(Request)]
  BY DEF ShapeInv, TypeOK, ClientType, SocketType
<1>2. SwitchRests /\ UNCHANGED <<backlog, closed, dialled, requests, client>>
  BY DEF receive, ResyncHears, SwitchRests, controller, service, polling, sockets
<1>3. PICK m \in NextMessage(c) : Take(c, m)
  BY DEF receive, ResyncHears
<1>4. c \in Connected /\ peer[client[c].socket].stream # <<>> /\ m = Head(peer[client[c].socket].stream)
  BY <1>3 DEF NextMessage, Connected
<1>5. m \in Message
  <2>1. peer[client[c].socket].stream \in Seq(Message)
    BY <1>1, <1>4, SocketFacts, WayFacts
  <2>2. QED BY <1>4, <2>1, HeadFirst
<1>6. peer' = [peer EXCEPT ![client[c].socket].stream = Tail(@)]
  BY <1>3 DEF Take
<1>7. /\ history' \in History
      /\ history'.heard[c] = IF m.kind = "event" THEN m.sequence ELSE history.heard[c]
      /\ \A d \in Clients : d # c => history'.heard[d] = history.heard[d] /\ history'.answered[d] = history.answered[d]
  <2>1. CASE m.kind = "event"
    <3>1. history' = [history EXCEPT !.heard[c] = m.sequence] /\ m.sequence \in Nat
      BY <1>3, <1>5, <2>1, MessageFacts DEF Take
    <3>2. QED BY <1>1, <2>1, <3>1 DEF History
  <2>2. CASE m.kind # "event"
    <3>1. history' = [history EXCEPT !.answered[c] = @ + 1]
      BY <1>3, <2>2 DEF Take
    <3>2. PICK f \in [Clients -> Nat] : f = [history.answered EXCEPT ![c] = @ + 1]
      <4>1. [history.answered EXCEPT ![c] = @ + 1] \in [Clients -> Nat]
        BY <1>1 DEF History
      <4>2. QED BY <4>1
    <3>3. history' = [history EXCEPT !.answered = f]
      BY <1>1, <3>1, <3>2 DEF History
    <3>4. history' \in History /\ history'.heard = history.heard /\ history'.answered = f
      BY <1>1, <3>3, HistoryWith DEF History
    <3>5. QED BY <1>1, <2>2, <3>2, <3>4 DEF History
  <2>3. QED BY <2>1, <2>2
<1>8. client' \in [Clients -> Client]
  BY <1>1, <1>2
<1>9. /\ \A d \in Clients : /\ client'[d].socket = client[d].socket
                            /\ d # c => /\ client'[d].revision = client[d].revision
                                        /\ history'.heard[d] = history.heard[d]
                                        /\ history'.answered[d] = history.answered[d]
      /\ client'[c].revision \in {client[c].revision, m.revision}
  BY <1>2, <1>7
<1>10. QED BY <1>1, <1>2, <1>4, <1>6, <1>7, <1>8, <1>9, ClientTakes, ZenonT(60)

\* resync takes the answer to its query, and may ask the next one.
LEMMA AnsweredStep ==
  ASSUME ShapeInv, NEW c \in Clients, ResyncAnswered(c)
  PROVE  ShapeInv' /\ ChannelTells
<1>1. /\ TypeOK /\ client \in [Clients -> Client] /\ history \in History
      /\ requests \in [Connections -> Seq(Request)]
  BY DEF ShapeInv, TypeOK, ClientType, SocketType
<1>2. SwitchRests /\ UNCHANGED <<backlog, closed, dialled>>
  BY DEF ResyncAnswered, SwitchRests, controller, service, polling
<1> DEFINE moved(m) == m.revision # client[c].revision
           again(m) == ~m.accepted /\ moved(m) /\ client[c].attempt = 0
           next(m) == IF again(m) THEN client[c].query ELSE client[c].query + 1
           told == [history EXCEPT !.answered[c] = @ + 1]
           Last_(m) == /\ client' = [client EXCEPT ![c].revision = m.revision, ![c].phase = "settle"]
                       /\ history' = told
                       /\ UNCHANGED requests
           Next_(m) == /\ client' = [client EXCEPT ![c].revision = m.revision, ![c].query = next(m),
                                                   ![c].attempt = IF again(m) THEN 1 ELSE 0,
                                                   ![c].sequence = @ + 1]
                       /\ Transmit(c, client[c].sequence + 1, QUERIES[next(m)], m.revision, NoTarget)
                       /\ history' = [told EXCEPT !.asked[c] = @ + 1]
<1>3. PICK m \in NextMessage(c) :
        /\ m.kind = "reply"
        /\ peer' = [peer EXCEPT ![client[c].socket].stream = Tail(@)]
        /\ IF next(m) > Len(QUERIES) THEN Last_(m) ELSE Next_(m)
  <2>1. PICK reply \in NextMessage(c) :
          /\ IsAnswer(c, reply)
          /\ peer' = [peer EXCEPT ![client[c].socket].stream = Tail(@)]
          /\ IF next(reply) > Len(QUERIES)
             THEN /\ client' = [client EXCEPT ![c].revision = Learned(c, reply), ![c].phase = "settle"]
                  /\ history' = told
                  /\ UNCHANGED requests
             ELSE /\ client' = [client EXCEPT ![c].revision = Learned(c, reply), ![c].query = next(reply),
                                              ![c].attempt = IF again(reply) THEN 1 ELSE 0,
                                              ![c].sequence = @ + 1]
                  /\ Transmit(c, client[c].sequence + 1, QUERIES[next(reply)], Learned(c, reply), NoTarget)
                  /\ history' = [told EXCEPT !.asked[c] = @ + 1]
    BY ZenonT(60) DEF ResyncAnswered
  <2>2. reply.kind = "reply"
    BY <2>1 DEF IsAnswer
  <2>3. next(reply) > Len(QUERIES) => Last_(reply)
    BY <2>1 DEF Learned
  <2>4. ~(next(reply) > Len(QUERIES)) => Next_(reply)
    BY <2>1 DEF Learned
  <2> HIDE DEF Last_, Next_, next
  <2>5. QED BY <2>1, <2>2, <2>3, <2>4
<1>4. c \in Connected /\ peer[client[c].socket].stream # <<>> /\ m = Head(peer[client[c].socket].stream)
  BY <1>3 DEF NextMessage, Connected
<1>5. m \in Message /\ m.revision \in Nat
  <2>1. peer[client[c].socket].stream \in Seq(Message)
    BY <1>1, <1>4, SocketFacts, WayFacts
  <2>2. QED BY <1>4, <2>1, HeadFirst, MessageFacts
<1>6. PICK f \in [Clients -> Nat], g \in [Clients -> Nat] :
        /\ f = [history.answered EXCEPT ![c] = @ + 1] /\ g = [history.asked EXCEPT ![c] = @ + 1]
  <2>1. /\ [history.answered EXCEPT ![c] = @ + 1] \in [Clients -> Nat]
        /\ [history.asked EXCEPT ![c] = @ + 1] \in [Clients -> Nat]
    BY <1>1 DEF History
  <2>2. QED BY <2>1
<1>7. PICK h \in History : h = [history EXCEPT !.answered = f]
  <2>1. [history EXCEPT !.answered = f] \in History
    BY <1>1, HistoryWith
  <2>2. QED BY <2>1
<1>8. told = h /\ h.heard = history.heard /\ h.answered = f /\ h.asked = history.asked
  BY <1>1, <1>6, <1>7 DEF History
<1>9. /\ history' \in History /\ history'.heard = history.heard
      /\ \A d \in Clients : d # c => history'.answered[d] = history.answered[d]
  <2>1. CASE Last_(m)
    BY <1>1, <1>6, <1>8, <2>1 DEF History
  <2>2. CASE Next_(m)
    <3>1. history' = [h EXCEPT !.asked[c] = @ + 1]
      BY <1>8, <2>2
    <3>2. history' = [h EXCEPT !.asked = g]
      BY <1>6, <1>8, <3>1 DEF History
    <3>3. history' \in History
      BY <3>2, HistoryWith
    <3>4. history'.heard = history.heard /\ history'.answered = f
      BY <1>8, <3>2 DEF History
    <3>5. QED BY <1>1, <1>6, <3>3, <3>4 DEF History
  <2>3. QED BY <1>3, <2>1, <2>2
<1>10. PICK n \in Client : n = [client[c] EXCEPT !.revision = m.revision]
  <2>1. [client[c] EXCEPT !.revision = m.revision] \in Client
    BY <1>1, <1>5, ClientWith
  <2>2. QED BY <2>1
<1>11. n.revision = m.revision /\ n.socket = client[c].socket
  BY <1>1, <1>10 DEF Client
<1>12. \E p \in Client : /\ client' = [client EXCEPT ![c] = p]
                         /\ p.socket = client[c].socket /\ p.revision = m.revision
  <2>1. CASE Last_(m)
    <3>1. [n EXCEPT !.phase = "settle"] \in Client
      BY ClientWith
    <3>2. PICK p \in Client : p = [n EXCEPT !.phase = "settle"]
      BY <3>1
    <3>3. p.socket = client[c].socket /\ p.revision = m.revision
      BY <1>11, <3>2 DEF Client
    <3>4. client' = [client EXCEPT ![c] = p]
      BY <1>1, <1>10, <2>1, <3>2
    <3>5. QED BY <3>3, <3>4
  <2>2. CASE Next_(m) /\ ~(next(m) > Len(QUERIES))
    <3>1. PICK q \in 1..3, a \in 0..1, s \in Nat :
            q = next(m) /\ a = (IF again(m) THEN 1 ELSE 0) /\ s = client[c].sequence + 1
      <4>1. client[c].query \in 1..3 /\ client[c].sequence \in Nat
        BY <1>1, QueriesAreCommands DEF Client
      <4>2. next(m) \in 1..3
        BY <2>2, <4>1, QueriesAreCommands
      <4>3. (IF again(m) THEN 1 ELSE 0) \in 0..1 /\ client[c].sequence + 1 \in Nat
        BY <4>1
      <4>4. QED BY <4>2, <4>3
    <3>2. client' = [client EXCEPT ![c].revision = m.revision, ![c].query = q, ![c].attempt = a, ![c].sequence = s]
      BY <2>2, <3>1
    <3>3. PICK x \in Client : x = [n EXCEPT !.query = q]
      <4>1. [n EXCEPT !.query = q] \in Client
        BY ClientWith
      <4>2. QED BY <4>1
    <3>4. PICK y \in Client : y = [x EXCEPT !.attempt = a]
      <4>1. [x EXCEPT !.attempt = a] \in Client
        BY ClientWith
      <4>2. QED BY <4>1
    <3>5. PICK z \in Client : z = [y EXCEPT !.sequence = s]
      <4>1. [y EXCEPT !.sequence = s] \in Client
        BY ClientWith
      <4>2. QED BY <4>1
    <3>6. x.socket = client[c].socket /\ x.revision = m.revision
      BY <1>11, <3>3 DEF Client
    <3>7. y.socket = client[c].socket /\ y.revision = m.revision
      BY <3>4, <3>6 DEF Client
    <3>8. z.socket = client[c].socket /\ z.revision = m.revision
      BY <3>5, <3>7 DEF Client
    <3>9. client' = [client EXCEPT ![c] = z]
      BY <1>1, <1>10, <3>2, <3>3, <3>4, <3>5
    <3>10. QED BY <3>8, <3>9
  <2>3. QED BY <1>3, <2>1, <2>2
<1>13. /\ client' \in [Clients -> Client]
       /\ client'[c].revision = m.revision
       /\ \A d \in Clients : client'[d].socket = client[d].socket /\ (d # c => client'[d].revision = client[d].revision)
  BY <1>1, <1>12
<1>14. requests' \in [Connections -> Seq(Request)]
  <2>1. CASE Last_(m)
    BY <1>1, <2>1
  <2>2. CASE Next_(m) /\ ~(next(m) > Len(QUERIES))
    <3>1. client[c].query \in 1..3 /\ client[c].sequence \in Nat /\ client[c].socket # Unconnected
      BY <1>1, <1>4, QueriesAreCommands DEF Client, Connected
    <3>2. next(m) \in 1..3
      BY <2>2, <3>1, QueriesAreCommands
    <3>3. PICK q \in ControlCommand, s \in Nat : q = QUERIES[next(m)] /\ s = client[c].sequence + 1
      BY <3>1, <3>2, QueriesAreCommands
    <3>4. Transmit(c, s, q, m.revision, NoTarget)
      BY <2>2, <3>3
    <3>5. QED BY <1>1, <1>5, <3>1, <3>4, TransmitType
  <2>3. QED BY <1>3, <2>1, <2>2
<1>15. m.kind # "event"
  BY <1>3
<1> HIDE DEF Last_, Next_, again, moved, next, told
<1>16. /\ \A d \in Clients : /\ client'[d].socket = client[d].socket
                             /\ d # c => /\ client'[d].revision = client[d].revision
                                         /\ history'.heard[d] = history.heard[d]
                                         /\ history'.answered[d] = history.answered[d]
       /\ client'[c].revision \in {client[c].revision, m.revision}
       /\ history'.heard[c] = IF m.kind = "event" THEN m.sequence ELSE history.heard[c]
  BY <1>9, <1>13, <1>15
<1>17. peer' = [peer EXCEPT ![client[c].socket].stream = Tail(@)]
  BY <1>3
<1>18. QED BY <1>2, <1>4, <1>9, <1>13, <1>14, <1>16, <1>17, ClientTakes, ZenonT(60)

\* Every step keeps the shape, and is to each client what ChannelTells says.
LEMMA StepFacts ==
  ASSUME ShapeInv, [ChannelNext]_channelvars
  PROVE  ShapeInv' /\ ChannelTells
<1>1. CASE ServerStep
  BY <1>1, ServerReaches
<1>2. ASSUME NEW c \in Clients, Reading(c) \/ Calling(c) PROVE ShapeInv' /\ ChannelTells
  <2>1. CASE Reading(c)
    BY <2>1, HearStep, AnsweredStep, ResyncEnds DEF Reading
  <2>2. CASE ResyncFails(c)
    BY <2>2, ResyncEnds
  <2>3. CASE reconnect(c)
    <3>1. PICK now : now = dialled + 1
      OBVIOUS
    <3>2. now \in Connections /\ dialled' = now /\ backlog' = Append(backlog, now) /\ close(c, now)
      BY <2>3, <3>1 DEF reconnect
    <3>3. SwitchRests /\ requests' = requests
      BY <2>3 DEF reconnect, SwitchRests, controller, service, polling
    <3>4. QED BY <3>1, <3>2, <3>3, ClientCloses
  <2>4. CASE Disconnect(c)
    <3>1. close(c, Unconnected) /\ UNCHANGED <<backlog, dialled>>
      BY <2>4 DEF Disconnect
    <3>2. SwitchRests /\ requests' = requests
      BY <2>4 DEF Disconnect, SwitchRests, controller, service, polling
    <3>3. QED BY <3>1, <3>2, ClientCloses
  <2>5. CASE \E command \in Commands :
               \E target \in IF command \in FaultCommands THEN Targets ELSE {NoTarget} : send(c, command, target)
    <3>1. PICK command \in Commands, target \in Targets \cup {NoTarget} : send(c, command, target)
      BY <2>5
    <3>2. QED BY <3>1, SendStep
  <2>6. QED BY <1>2, <2>1, <2>2, <2>3, <2>4, <2>5 DEF Calling, reconnect_fails
<1>3. ASSUME NEW c \in Consoles, resync(c) PROVE ShapeInv' /\ ChannelTells
  <2>1. c \in Clients
    BY ChannelConfig
  <2>2. QED BY <1>3, <2>1, ResyncStep
<1>4. CASE UNCHANGED channelvars
  <2>1. SwitchRests /\ UNCHANGED <<peer, backlog, closed, dialled, requests, client, history>>
    BY <1>4 DEF channelvars, servervars, SwitchRests, controller, service, polling, sockets
  <2>2. /\ client \in [Clients -> Client] /\ history \in History /\ requests \in [Connections -> Seq(Request)]
    BY DEF ShapeInv, TypeOK, ClientType, SocketType
  <2>3. QED BY <2>1, <2>2, ClientQuiet
<1>5. QED BY <1>1, <1>2, <1>3, <1>4 DEF ChannelNext

\* A client that reconnects after a failed resync does what any client may do.
LEMMA CarefulStep == [CarefulNext]_channelvars => [ChannelNext]_channelvars
BY DEF CarefulNext, ChannelNext

\* The switch starts with no connection.
LEMMA ShapeInit == ChannelInit => ShapeInv
<1> SUFFICES ASSUME ChannelInit PROVE ShapeInv
  OBVIOUS
<1> USE DEF ChannelInit, ServerInit
<1>1. Range(<<>>) = {} /\ <<>> \o <<>> = <<>> /\ Len(<<>>) = 0
  BY DEF Range
<1>2. ControllerType
  BY FS_EmptySet DEF ControllerType
<1>3. ServiceType
  BY DEF ServiceType
<1>4. ServerType /\ SocketType
  BY EmptySeq DEF ServerType, SocketType, Peer
<1>5. ClientType
  BY QueriesAreCommands DEF ClientType, Client, History
<1>6. PositionInv
  BY DEF PositionInv
<1>7. SocketInv
  BY <1>1 DEF SocketInv, Chain
<1>8. FreshInv
  BY <1>1, Bounds DEF FreshInv
<1>9. QED BY <1>2, <1>3, <1>4, <1>5, <1>6, <1>7, <1>8 DEF ShapeInv, TypeOK

-----------------------------------------------------------------------------
(* Revisions.                                                              *)

\* All of a sequence is at revision v.
At(x, v) == \A m \in Range(x) : m.revision = v

\* What is said at a later revision goes to the end.
LEMMA RisingAdd ==
  ASSUME NEW w \in Seq(Message), NEW x \in Seq(Message), NEW from \in Nat, NEW to \in Nat, NEW v \in Nat,
         from <= to, to <= v, Rising(w, from, to), At(x, v)
  PROVE  Rising(w \o x, from, v)
<1>1. Range(w) \subseteq Message /\ Range(x) \subseteq Message /\ Range(w \o x) = Range(w) \cup Range(x)
  BY RangeOfSeq, RangeConcatenation
<1>2. \A m \in Range(w) : m.revision \in Nat /\ from <= m.revision /\ m.revision <= to
  BY <1>1, MessageFacts DEF Rising
<1>3. \A m \in Range(x) : m.revision = v
  BY DEF At
<1>4. Chain(w, NotOlder)
  BY DEF Rising
<1>5. Chain(x, NotOlder)
  <2>1. \A i \in 1..Len(x) : x[i] \in Range(x)
    BY RangeEquality
  <2>2. SUFFICES ASSUME NEW i \in 1..Len(x), NEW j \in 1..Len(x) PROVE <<x[i], x[j]>> \in NotOlder
    BY DEF Chain
  <2>3. x[i] \in Message /\ x[j] \in Message /\ x[i].revision = v /\ x[j].revision = v
    BY <1>1, <1>3, <2>1
  <2>4. x[i].revision <= x[j].revision
    BY <2>3
  <2>5. QED BY <2>3, <2>4 DEF NotOlder
<1>6. ASSUME NEW a \in Range(w), NEW b \in Range(x) PROVE <<a, b>> \in NotOlder
  <2>1. a \in Message /\ b \in Message /\ b.revision = v /\ a.revision \in Nat /\ a.revision <= to
    BY <1>1, <1>2, <1>3
  <2>2. a.revision <= b.revision
    BY <2>1
  <2>3. QED BY <2>1, <2>2 DEF NotOlder
<1>7. Chain(w \o x, NotOlder)
  BY <1>4, <1>5, <1>6, ChainParts
<1>8. ASSUME NEW m \in Range(w \o x) PROVE from <= m.revision /\ m.revision <= v
  BY <1>1, <1>2, <1>3
<1>9. QED BY <1>7, <1>8 DEF Rising

\* The beginning of what rises, and its rest after the first message.
LEMMA RisingParts ==
  ASSUME NEW w \in Seq(Message), NEW x \in Seq(Message), NEW from, NEW to, Rising(w \o x, from, to)
  PROVE  /\ Rising(w, from, to) /\ Rising(x, from, to)
         /\ \A a \in Range(w), b \in Range(x) : a.revision <= b.revision
<1>1. Range(w \o x) = Range(w) \cup Range(x)
  BY RangeConcatenation
<1>2. Chain(w \o x, NotOlder)
  BY DEF Rising
<1>3. Chain(w, NotOlder) /\ Chain(x, NotOlder) /\ \A a \in Range(w), b \in Range(x) : <<a, b>> \in NotOlder
  BY <1>2, ChainParts
<1>4. Rising(w, from, to) /\ Rising(x, from, to)
  BY <1>1, <1>3 DEF Rising
<1>5. QED BY <1>3, <1>4 DEF NotOlder

\* What a step adds is at the revision of the switch.
LEMMA RisingFollows ==
  ASSUME NEW old, NEW new, NEW live, NEW fresh \in Seq(Message), NEW from \in Nat, NEW to \in Nat, NEW v \in Nat,
         from <= to, to <= v, Rising(old, from, to), Follows(old, new, live, fresh, RepliesAt(v)), At(fresh, v)
  PROVE  Rising(new, from, v)
<1>1. PICK w \in Seq(Message), q \in Seq(Message), r \in Seq(Message) :
        /\ old = w \o q
        /\ Range(r) \subseteq {m \in Reply : m.revision = v}
        /\ new \in {w \o r, (w \o r) \o fresh}
  BY DEF Follows, RepliesAt
<1>2. Rising(w, from, to)
  BY <1>1, RisingParts
<1>3. At(r, v)
  BY <1>1 DEF At
<1>4. PICK u \in Seq(Message) : u = w \o r
  BY Glue
<1>5. Rising(u, from, v)
  BY <1>2, <1>3, <1>4, RisingAdd
<1>6. from <= v
  OBVIOUS
<1>7. Rising(u \o fresh, from, v)
  BY <1>5, <1>6, RisingAdd
<1>8. QED BY <1>1, <1>4, <1>5, <1>7

\* A client that is told something.
LEMMA RevisionTold ==
  ASSUME TypeOK, RevisionInv, NEW c \in Connected, NEW fresh, Speaks(fresh), Told(c, fresh), revision' \in Nat
  PROVE  Rising(Way(client[c].socket), client[c].revision, revision)'
<1>1. revision \in Nat /\ client[c].revision \in Nat /\ client[c].revision <= revision /\ revision <= revision'
  BY SocketFacts DEF TypeOK, ControllerType, RevisionInv, Connected, Speaks, Current
<1>2. fresh \in Seq(Message) /\ At(fresh, revision')
  <2>1. fresh \in Seq(Event) /\ fresh \in Seq(Message)
    BY SeqMonotonic DEF Speaks, Message
  <2>2. Range(fresh) = {fresh[i] : i \in 1..Len(fresh)}
    BY <2>1, RangeEquality
  <2>3. QED BY <2>1, <2>2 DEF Speaks, Current, At
<1>3. PICK k \in Connections, low \in Nat, high \in Nat, v \in Nat :
        k = client[c].socket /\ low = client[c].revision /\ high = revision /\ v = revision'
  BY <1>1, SocketFacts
<1>4. Rising(Way(k), low, high)
  BY <1>3 DEF RevisionInv
<1>5. Follows(Way(k), Way(k)', Live(k)', fresh, RepliesAt(v))
  BY <1>3, RepliesAreCurrent DEF Told
<1>6. PICK old, new, live : old = Way(k) /\ new = Way(k)' /\ live = Live(k)'
  OBVIOUS
<1>7. low <= high /\ high <= v /\ Rising(old, low, high) /\ Follows(old, new, live, fresh, RepliesAt(v)) /\ At(fresh, v)
  BY <1>1, <1>2, <1>3, <1>4, <1>5, <1>6
<1>8. Rising(new, low, v)
  BY <1>2, <1>7, RisingFollows
<1>9. client'[c].socket = k /\ client'[c].revision = low
  BY <1>3 DEF Told
<1>10. QED BY <1>3, <1>6, <1>8, <1>9 DEF Rising

\* A client that takes a message.
LEMMA RevisionTook ==
  ASSUME TypeOK, TypeOK', RevisionInv, NEW c \in Connected, Took(c), revision' = revision
  PROVE  Rising(Way(client[c].socket), client[c].revision, revision)' /\ client'[c].revision <= revision'
<1>1. /\ revision \in Nat /\ client[c].revision \in Nat /\ client[c].revision <= revision
      /\ client[c].socket \in Connections /\ client'[c].socket = client[c].socket
  BY SocketFacts DEF TypeOK, ControllerType, RevisionInv, Connected, Took
<1>2. PICK k \in Connections, low \in Nat, high \in Nat :
        k = client[c].socket /\ low = client[c].revision /\ high = revision
  BY <1>1
<1>3. Way(k)' \in Seq(Message)
  BY WayFactsNext
<1>4. PICK x \in Seq(Message) : x = Way(k)'
  BY <1>3
<1>5. PICK m \in Message : /\ Way(k) = <<m>> \o x
                           /\ client'[c].revision \in {low, m.revision}
  BY <1>1, <1>2, <1>4 DEF Took
<1>6. <<m>> \in Seq(Message) /\ Range(<<m>>) = {m}
  BY Glue DEF Range
<1>7. Rising(<<m>> \o x, low, high)
  BY <1>2, <1>5 DEF RevisionInv
<1>8. Rising(<<m>>, low, high) /\ Rising(x, low, high) /\ \A b \in Range(x) : m.revision <= b.revision
  BY <1>6, <1>7, RisingParts
<1>9. m.revision <= high
  BY <1>6, <1>8 DEF Rising
<1>10. Rising(x, m.revision, high)
  BY <1>8 DEF Rising
<1>11. client'[c].revision <= high /\ Rising(x, client'[c].revision, high)
  BY <1>1, <1>2, <1>5, <1>8, <1>9, <1>10
<1>12. client'[c].socket = k
  BY <1>1, <1>2
<1>13. QED BY <1>2, <1>4, <1>11, <1>12 DEF Rising

\* No step turns a client back.
LEMMA RevisionStep ==
  ASSUME ShapeInv, ShapeInv', RevisionInv, ChannelTells
  PROVE  RevisionInv'
<1>1. TypeOK /\ TypeOK' /\ revision \in Nat /\ revision' \in Nat
  BY DEF ShapeInv, TypeOK, ControllerType
<1>2. revision <= revision'
  BY DEF ChannelTells, Speaks, Current
<1>3. ASSUME NEW c \in Clients, c \notin Connected' PROVE client'[c].revision <= revision'
  <2>1. client'[c].revision = client[c].revision /\ client[c].revision \in Nat /\ client[c].revision <= revision
    BY <1>1, <1>3 DEF ChannelTells, RevisionInv, TypeOK, ClientType, Client
  <2>2. PICK x \in Nat : x = client[c].revision
    BY <2>1
  <2>3. x <= revision'
    BY <1>1, <1>2, <2>1, <2>2
  <2>4. QED BY <2>1, <2>2, <2>3
<1>4. ASSUME NEW c \in Connected'
      PROVE  Rising(Way(client[c].socket), client[c].revision, revision)' /\ client'[c].revision <= revision'
  <2>0. c \in Clients /\ client[c].revision \in Nat /\ client[c].revision <= revision
    BY <1>1 DEF Connected, RevisionInv, TypeOK, ClientType, Client
  <2>1. PICK x \in Nat : x = client[c].revision /\ x <= revision'
    <3>1. PICK x \in Nat : x = client[c].revision
      BY <2>0
    <3>2. x <= revision'
      BY <1>1, <1>2, <2>0, <3>1
    <3>3. QED BY <3>1, <3>2
  <2>2. ASSUME NEW fresh, Speaks(fresh), c \in Connected, Told(c, fresh)
        PROVE  Rising(Way(client[c].socket), client[c].revision, revision)' /\ client'[c].revision <= revision'
    <3>1. client'[c].revision = x
      BY <2>1, <2>2 DEF Told
    <3>2. QED BY <1>1, <2>1, <2>2, <3>1, RevisionTold
  <2>3. CASE c \in Connected /\ Took(c) /\ revision' = revision
    BY <1>1, <2>3, RevisionTook
  <2>4. CASE Joined(c)
    <3>1. client'[c].revision = x /\ Way(client[c].socket)' = <<>>
      BY <2>1, <2>4 DEF Joined
    <3>2. Range(<<>>) = {} /\ Chain(<<>>, NotOlder)
      BY DEF Range, Chain
    <3>3. QED BY <2>1, <3>1, <3>2 DEF Rising
  <2>5. QED BY <2>2, <2>3, <2>4 DEF ChannelTells
<1>5. QED BY <1>3, <1>4 DEF RevisionInv

\* What the invariant says of a client is what RevisionsNeverGoBack says.
LEMMA RevisionMeaning ==
  ASSUME ShapeInv, RevisionInv
  PROVE  RevisionsNeverGoBack
<1>1. SUFFICES ASSUME NEW c \in Connected
               PROVE  LET heard == OnTheWay(c)
                      IN  /\ \A i \in 1..Len(heard) - 1 : heard[i].revision <= heard[i + 1].revision
                          /\ \A i \in 1..Len(heard) : heard[i].revision \in client[c].revision..revision
  BY DEF RevisionsNeverGoBack
<1>2. TypeOK /\ client[c].socket \in Connections /\ client[c].revision \in Nat /\ revision \in Nat
  BY SocketFacts DEF ShapeInv, TypeOK, ControllerType
<1>3. PICK w \in Seq(Message) : w = Way(client[c].socket)
  BY <1>2, WayFacts, SMTT(40)
<1>4. OnTheWay(c) = w
  BY <1>3 DEF OnTheWay, Way, Coming, Live
<1>5. Rising(w, client[c].revision, revision)
  BY <1>3 DEF RevisionInv
<1>6. PICK n \in Nat, low \in Nat, high \in Nat : n = Len(w) /\ low = client[c].revision /\ high = revision
  BY <1>2, LenProperties
<1>7. \A i \in 1..n : w[i] \in Range(w) /\ w[i] \in Message /\ w[i].revision \in Nat
  BY <1>6, RangeEquality, ElementOfSeq, MessageFacts
<1>8. \A i \in 1..n : w[i].revision \in low..high
  BY <1>5, <1>6, <1>7 DEF Rising
<1>9. ASSUME NEW i \in 1..n - 1 PROVE w[i].revision <= w[i + 1].revision
  <2>1. i \in 1..n /\ i + 1 \in 1..n /\ i < i + 1
    BY <1>6
  <2>2. <<w[i], w[i + 1]>> \in NotOlder
    BY <1>5, <1>6, <2>1 DEF Rising, Chain
  <2>3. QED BY <2>2 DEF NotOlder
<1>10. QED BY <1>4, <1>6, <1>8, <1>9

\* At first nobody is connected.
LEMMA RevisionInit == ChannelInit => RevisionInv
BY DEF ChannelInit, ServerInit, RevisionInv, Connected

\* Every value of the switch, its connections and its clients has its type, the sockets
\* are apart, and nothing was said to a client that was not accepted.
THEOREM ChannelShape == ChannelSpec => []ShapeInv
<1>1. ShapeInv /\ [ChannelNext]_channelvars => ShapeInv'
  BY StepFacts
<1>2. QED BY <1>1, ShapeInit, PTL DEF ChannelSpec

\* A client never hears of an older topology after a newer one, in replies and events
\* together, and never goes by a newer one than it was told of; whatever clients send,
\* however often they reconnect, and whether or not they keep up.
THEOREM RevisionsRise == ChannelSpec => []RevisionsNeverGoBack
<1>1. ShapeInv /\ RevisionInv /\ [ChannelNext]_channelvars => (ShapeInv /\ RevisionInv)'
  BY StepFacts, RevisionStep
<1>2. ChannelInit => ShapeInv /\ RevisionInv
  BY ShapeInit, RevisionInit
<1>3. ShapeInv /\ RevisionInv => RevisionsNeverGoBack
  BY RevisionMeaning
<1>4. QED BY <1>1, <1>2, <1>3, PTL DEF ChannelSpec

-----------------------------------------------------------------------------
(* Runs.                                                                   *)

\* A reply says nothing of a run.
Silent(x) == \A m \in Range(x) : m \notin OfRun

\* What is on the way about a run stays passed as the run moves on.
LEMMA PassedKept ==
  ASSUME ServiceType, ServiceType', run # NoRun => run.operation < next_benchmark_id,
         NEW fresh, RunStep(fresh), NEW m \in OfRun, Passed(m, run, next_benchmark_id)
  PROVE  Passed(m, run', next_benchmark_id')
<1>1. next_benchmark_id \in Nat /\ next_benchmark_id' \in Nat /\ next_benchmark_id <= next_benchmark_id'
  BY DEF ServiceType, RunStep
<1>2. m.run \in Run /\ m.run.operation \in Nat /\ m.run.completed \in Nat
  BY DEF OfRun, Event, Run
<1>3. PICK x \in Nat, y \in Nat, i \in Nat, j \in Nat :
        x = m.run.operation /\ y = m.run.completed /\ i = next_benchmark_id /\ j = next_benchmark_id'
  BY <1>1, <1>2
<1>4. x < i /\ i <= j /\ (m.about = "completed" /\ finished(m.run) => m.run.received = PacketCount)
  BY <1>1, <1>3 DEF Passed
<1>5. x < j
  BY <1>4
<1>6. CASE run' = NoRun
  BY <1>3, <1>4, <1>5, <1>6 DEF Passed
<1>7. CASE run' # NoRun /\ run = NoRun
  <2>1. x < run'.operation
    BY <1>3, <1>4, <1>7 DEF RunStep
  <2>2. QED BY <1>3, <1>4, <1>5, <2>1 DEF Passed
<1>8. CASE run' # NoRun /\ run # NoRun
  <2>1. /\ run \in Run /\ run' \in Run /\ run'.operation = run.operation /\ run.completed <= run'.completed
    BY <1>8 DEF ServiceType, RunStep
  <2>2. PICK p \in Nat, q \in Nat, o \in Nat : p = run.completed /\ q = run'.completed /\ o = run.operation
    BY <2>1 DEF Run
  <2>3. x < o \/ (x = o /\ m.about = "progress" /\ y <= p)
    BY <1>3, <1>8, <2>2 DEF Passed
  <2>4. x < o \/ (x = o /\ m.about = "progress" /\ y <= q)
    BY <2>1, <2>2, <2>3
  <2>5. QED BY <1>3, <1>4, <1>5, <2>1, <2>2, <2>4 DEF Passed
<1>9. QED BY <1>6, <1>7, <1>8

\* What a step says of a run is passed, and comes after all that was passed before.
LEMMA PassedFresh ==
  ASSUME ServiceType, ServiceType', run # NoRun => run.operation < next_benchmark_id,
         NEW fresh \in Seq(Event), RunStep(fresh), NEW b \in Range(fresh), b \in OfRun
  PROVE  /\ Passed(b, run', next_benchmark_id')
         /\ \A a \in OfRun : Passed(a, run, next_benchmark_id) => <<a, b>> \in InRunOrder
<1>1. next_benchmark_id \in Nat /\ next_benchmark_id' \in Nat /\ next_benchmark_id <= next_benchmark_id'
  BY DEF ServiceType, RunStep
<1>2. b.run.operation \in Nat /\ b.run.completed \in Nat
  BY DEF OfRun, Event, Run
<1>3. PICK x \in Nat, y \in Nat, i \in Nat, j \in Nat :
        x = b.run.operation /\ y = b.run.completed /\ i = next_benchmark_id /\ j = next_benchmark_id'
  BY <1>1, <1>2
<1>4. /\ run' # NoRun => x = run'.operation /\ b.about = "progress" /\ y <= run'.completed
      /\ b.about = "completed" /\ finished(b.run) => b.run.received = PacketCount
  BY <1>3 DEF RunStep
<1>5. CASE run = NoRun
  <2>1. x = i /\ i < j
    BY <1>3, <1>5 DEF RunStep
  <2>2. Passed(b, run', next_benchmark_id')
    BY <1>3, <1>4, <2>1 DEF Passed
  <2>3. ASSUME NEW a \in OfRun, Passed(a, run, next_benchmark_id) PROVE <<a, b>> \in InRunOrder
    <3>1. a.run.operation < b.run.operation
      BY <1>3, <2>1, <2>3 DEF Passed
    <3>2. a \in Message /\ b \in Message
      BY DEF OfRun, Message
    <3>3. QED BY <3>1, <3>2 DEF InRunOrder
  <2>4. QED BY <2>2, <2>3
<1>6. CASE run # NoRun
  <2>1. x = run.operation /\ run.completed <= y /\ x < i
    BY <1>3, <1>6 DEF RunStep
  <2>2. x < j
    BY <1>1, <1>3, <2>1
  <2>3. Passed(b, run', next_benchmark_id')
    BY <1>3, <1>4, <2>2 DEF Passed
  <2>4. ASSUME NEW a \in OfRun, Passed(a, run, next_benchmark_id) PROVE <<a, b>> \in InRunOrder
    <3>1. PICK p \in Nat, q \in Nat, z \in Nat :
            p = a.run.operation /\ q = a.run.completed /\ z = run.completed
      <4>1. a.run \in Run /\ run \in Run
        BY <1>6 DEF OfRun, Event, ServiceType
      <4>2. QED BY <4>1 DEF Run
    <3>2. p < x \/ (a.about = "progress" /\ q <= z)
      BY <1>6, <2>1, <2>4, <3>1 DEF Passed
    <3>3. p < x \/ (a.about = "progress" /\ q <= y)
      BY <2>1, <3>1, <3>2
    <3>4. a \in Message /\ b \in Message
      BY DEF OfRun, Message
    <3>5. QED BY <1>3, <3>1, <3>3, <3>4 DEF InRunOrder
  <2>5. QED BY <2>3, <2>4
<1>7. QED BY <1>5, <1>6

\* The parts of what is in order.
LEMMA OrderedParts ==
  ASSUME NEW w \in Seq(Message), NEW x \in Seq(Message), NEW now, NEW next_id, Ordered(w \o x, now, next_id)
  PROVE  Ordered(w, now, next_id) /\ Ordered(x, now, next_id)
<1>1. Range(w \o x) = Range(w) \cup Range(x)
  BY RangeConcatenation
<1>2. Chain(w \o x, InRunOrder)
  BY DEF Ordered
<1>3. Chain(w, InRunOrder) /\ Chain(x, InRunOrder)
  BY <1>2, ChainParts
<1>4. QED BY <1>1, <1>3 DEF Ordered

\* Replies do not disturb the order.
LEMMA OrderedReplies ==
  ASSUME NEW w \in Seq(Message), NEW x \in Seq(Message), NEW now, NEW next_id, Ordered(w, now, next_id), Silent(x)
  PROVE  Ordered(w \o x, now, next_id)
<1>1. Range(w \o x) = Range(w) \cup Range(x) /\ Range(w) \subseteq Message /\ Range(x) \subseteq Message
  BY RangeConcatenation, RangeOfSeq
<1>2. \A m \in Range(x) : m \notin OfRun
  BY DEF Silent
<1>3. \A a, b \in Message : b \notin OfRun => <<a, b>> \in InRunOrder
  BY DEF InRunOrder
<1>4. Chain(x, InRunOrder)
  <2>1. \A i \in 1..Len(x) : x[i] \in Range(x)
    BY RangeEquality
  <2>2. QED BY <1>1, <1>2, <1>3, <2>1 DEF Chain
<1>5. Chain(w \o x, InRunOrder)
  BY <1>1, <1>2, <1>3, <1>4, ChainParts DEF Ordered
<1>6. QED BY <1>1, <1>2, <1>5 DEF Ordered

\* What a step says of runs goes to the end.
LEMMA OrderedFollows ==
  ASSUME ServiceType, ServiceType', run # NoRun => run.operation < next_benchmark_id,
         NEW old, NEW new, NEW live, NEW v, NEW fresh \in Seq(Event), RunStep(fresh),
         Ordered(old, run, next_benchmark_id), Follows(old, new, live, fresh, RepliesAt(v))
  PROVE  Ordered(new, run', next_benchmark_id')
<1>1. PICK w \in Seq(Message), q \in Seq(Message), r \in Seq(Message) :
        /\ old = w \o q
        /\ Range(r) \subseteq {m \in Reply : m.revision = v}
        /\ new \in {w \o r, (w \o r) \o fresh}
  BY DEF Follows, RepliesAt
<1>2. Ordered(w, run, next_benchmark_id)
  BY <1>1, OrderedParts
<1>3. Silent(r)
  BY <1>1, MessageFacts DEF Silent, OfRun
<1>4. PICK u \in Seq(Message) : u = w \o r
  BY Glue
<1>5. Ordered(u, run, next_benchmark_id)
  BY <1>2, <1>3, <1>4, OrderedReplies
<1>6. Ordered(u, run', next_benchmark_id')
  <2>1. Chain(u, InRunOrder) /\ \A m \in Range(u) : m \in OfRun => Passed(m, run, next_benchmark_id)
    BY <1>5 DEF Ordered
  <2>2. \A m \in OfRun : Passed(m, run, next_benchmark_id) => Passed(m, run', next_benchmark_id')
    BY PassedKept
  <2>3. QED BY <2>1, <2>2 DEF Ordered
<1>7. Ordered(u \o fresh, run', next_benchmark_id')
  <2>1. fresh \in Seq(Message) /\ Range(fresh) \subseteq Message /\ Range(u) \subseteq Message
    BY SeqMonotonic, RangeOfSeq DEF Message
  <2>2. Range(u \o fresh) = Range(u) \cup Range(fresh)
    BY <2>1, RangeConcatenation
  <2>3. \A b \in Range(fresh) : b \in OfRun =>
          /\ Passed(b, run', next_benchmark_id')
          /\ \A a \in OfRun : Passed(a, run, next_benchmark_id) => <<a, b>> \in InRunOrder
    BY PassedFresh
  <2>4. \A m \in Range(u) : m \in OfRun => Passed(m, run, next_benchmark_id) /\ Passed(m, run', next_benchmark_id')
    BY <1>5, <1>6 DEF Ordered
  <2>5. \A a, b \in Message : a \notin OfRun \/ b \notin OfRun => <<a, b>> \in InRunOrder
    BY DEF InRunOrder
  <2>6. ASSUME NEW a \in Range(u), NEW b \in Range(fresh) PROVE <<a, b>> \in InRunOrder
    <3>1. CASE a \in OfRun /\ b \in OfRun
      BY <2>3, <2>4, <3>1
    <3>2. CASE a \notin OfRun \/ b \notin OfRun
      BY <2>1, <2>5, <3>2
    <3>3. QED BY <3>1, <3>2
  <2>7. Chain(u, InRunOrder) /\ Chain(fresh, InRunOrder)
    BY <1>5 DEF Ordered, RunStep
  <2>8. Chain(u \o fresh, InRunOrder)
    BY <2>1, <2>6, <2>7, ChainParts
  <2>9. \A m \in Range(u \o fresh) : m \in OfRun => Passed(m, run', next_benchmark_id')
    BY <2>2, <2>3, <2>4
  <2>10. QED BY <2>8, <2>9 DEF Ordered
<1>8. QED BY <1>1, <1>4, <1>6, <1>7

\* A client that is told something.
LEMMA RunTold ==
  ASSUME TypeOK, TypeOK', RunInv, NEW c \in Connected, NEW fresh, Speaks(fresh), Told(c, fresh)
  PROVE  Ordered(Way(client[c].socket), run, next_benchmark_id)'
<1>1. /\ ServiceType /\ ServiceType' /\ (run # NoRun => run.operation < next_benchmark_id)
      /\ fresh \in Seq(Event) /\ RunStep(fresh)
  BY DEF TypeOK, RunInv, Speaks
<1>2. PICK k : k = client[c].socket
  OBVIOUS
<1>3. PICK old, new, live, v : old = Way(k) /\ new = Way(k)' /\ live = Live(k)' /\ v = revision'
  OBVIOUS
<1>4. Ordered(old, run, next_benchmark_id)
  BY <1>2, <1>3 DEF RunInv
<1>5. client'[c].socket = k /\ Follows(old, new, live, fresh, RepliesAt(v))
  BY <1>2, <1>3, RepliesAreCurrent DEF Told
<1>6. Ordered(new, run', next_benchmark_id')
  BY <1>1, <1>4, <1>5, OrderedFollows
<1>7. Ordered(Way(k)', run', next_benchmark_id')
  BY <1>3, <1>6
<1>8. QED BY <1>5, <1>7 DEF Ordered, Passed, finished

\* A client that takes a message.
LEMMA RunTook ==
  ASSUME TypeOK, TypeOK', RunInv, NEW c \in Connected, Took(c), RunStep(<<>>)
  PROVE  Ordered(Way(client[c].socket), run, next_benchmark_id)'
<1>1. /\ client[c].socket \in Connections /\ client'[c].socket = client[c].socket
      /\ ServiceType /\ ServiceType' /\ (run # NoRun => run.operation < next_benchmark_id)
  BY SocketFacts DEF TypeOK, RunInv, Took
<1>2. PICK k \in Connections : k = client[c].socket
  BY <1>1
<1>3. PICK x \in Seq(Message) : x = Way(k)'
  BY WayFactsNext
<1>4. PICK m \in Message : Way(k) = <<m>> \o x
  BY <1>1, <1>2, <1>3 DEF Took
<1>5. <<m>> \in Seq(Message)
  BY Glue
<1>6. Ordered(<<m>> \o x, run, next_benchmark_id)
  BY <1>2, <1>4 DEF RunInv
<1>7. Ordered(x, run, next_benchmark_id)
  BY <1>5, <1>6, OrderedParts
<1>8. \A a \in OfRun : Passed(a, run, next_benchmark_id) => Passed(a, run', next_benchmark_id')
  BY <1>1, PassedKept
<1>9. Ordered(x, run', next_benchmark_id')
  BY <1>7, <1>8 DEF Ordered
<1>10. Ordered(Way(k)', run', next_benchmark_id') /\ client'[c].socket = k
  BY <1>1, <1>2, <1>3, <1>9
<1>11. QED BY <1>10 DEF Ordered, Passed, finished

\* No step disturbs the order of what is said of runs.
LEMMA RunsStep ==
  ASSUME ShapeInv, ShapeInv', RunInv, ChannelTells
  PROVE  RunInv'
<1>1. TypeOK /\ TypeOK'
  BY DEF ShapeInv
<1>2. PICK f : RunStep(f)
  BY DEF ChannelTells, Speaks
<1>3. ASSUME run' # NoRun PROVE run'.operation < next_benchmark_id'
  <2>1. next_benchmark_id \in Nat /\ next_benchmark_id' \in Nat /\ next_benchmark_id <= next_benchmark_id'
    BY <1>1, <1>2 DEF TypeOK, ServiceType, RunStep
  <2>2. run' \in Run /\ (run # NoRun => run \in Run)
    BY <1>1, <1>3 DEF TypeOK, ServiceType
  <2>3. PICK o \in Nat : o = run'.operation
    BY <2>2 DEF Run
  <2>4. CASE run = NoRun
    BY <1>2, <1>3, <2>4 DEF RunStep
  <2>5. CASE run # NoRun
    <3>1. o < next_benchmark_id
      BY <1>2, <1>3, <2>3, <2>5 DEF RunStep, RunInv
    <3>2. o < next_benchmark_id'
      BY <2>1, <3>1
    <3>3. QED BY <2>3, <3>2
  <2>6. QED BY <2>4, <2>5
<1>4. ASSUME NEW c \in Connected' PROVE Ordered(Way(client[c].socket), run, next_benchmark_id)'
  <2>1. CASE \E fresh : Speaks(fresh) /\ c \in Connected /\ Told(c, fresh)
    BY <1>1, <2>1, RunTold
  <2>2. CASE c \in Connected /\ Took(c) /\ RunStep(<<>>)
    BY <1>1, <2>2, RunTook
  <2>3. CASE Joined(c)
    <3>1. Way(client[c].socket)' = <<>>
      BY <2>3 DEF Joined
    <3>2. Range(<<>>) = {} /\ Chain(<<>>, InRunOrder)
      BY DEF Range, Chain
    <3>3. QED BY <3>1, <3>2 DEF Ordered
  <2>4. QED BY <2>1, <2>2, <2>3 DEF ChannelTells, Speaks
<1>5. QED BY <1>3, <1>4 DEF RunInv

\* What the invariant says of a client is what ResultEndsRun says.
LEMMA RunMeaning ==
  ASSUME ShapeInv, RunInv
  PROVE  ResultEndsRun
<1>1. SUFFICES ASSUME NEW c \in Connected
               PROVE  LET heard == Select(OnTheWay(c), {m \in Event : m.run # NoRun})
                      IN  /\ \A i, j \in 1..Len(heard) : i < j =>
                               \/ heard[i].run.operation < heard[j].run.operation
                               \/ /\ heard[i].about = "progress"
                                  /\ heard[i].run.completed <= heard[j].run.completed
                          /\ \A i \in 1..Len(heard) : heard[i].about = "completed" /\ finished(heard[i].run) =>
                               heard[i].run.received = PacketCount
  BY DEF ResultEndsRun
<1>2. TypeOK /\ client[c].socket \in Connections
  BY SocketFacts DEF ShapeInv
<1>3. PICK w \in Seq(Message) : w = Way(client[c].socket)
  BY <1>2, WayFacts, SMTT(40)
<1>4. OnTheWay(c) = w
  BY <1>3 DEF OnTheWay, Way, Coming, Live
<1>5. Ordered(w, run, next_benchmark_id)
  BY <1>3 DEF RunInv
<1>6. PICK o : o = Select(w, OfRun)
  OBVIOUS
<1>7. o \in Seq(Message \cap OfRun) /\ Range(o) \subseteq Range(w)
  BY <1>6, SelectType, SelectFacts
<1>8. Chain(o, InRunOrder)
  BY <1>5, <1>6, SelectChain DEF Ordered
<1>9. \A i \in 1..Len(o) : o[i] \in OfRun /\ o[i] \in Range(w)
  BY <1>7, ElementOfSeq, RangeEquality
<1>10. \A i, j \in 1..Len(o) : i < j =>
         \/ o[i].run.operation < o[j].run.operation
         \/ o[i].about = "progress" /\ o[i].run.completed <= o[j].run.completed
  BY <1>8, <1>9 DEF Chain, InRunOrder
<1>11. \A i \in 1..Len(o) : o[i].about = "completed" /\ finished(o[i].run) => o[i].run.received = PacketCount
  BY <1>5, <1>9 DEF Ordered, Passed
<1>12. {m \in Event : m.run # NoRun} = OfRun
  BY DEF OfRun
<1>13. Select(OnTheWay(c), {m \in Event : m.run # NoRun}) = o
  BY <1>4, <1>6, <1>12
<1>14. QED BY <1>10, <1>11, <1>13

\* At first there is no run and nobody is connected.
LEMMA RunInit == ChannelInit => RunInv
BY DEF ChannelInit, ServerInit, RunInv, Connected

\* A result is the last a client hears of a run, its progress never goes back, and a run
\* reported complete to the last packet accounts for every packet; whatever other
\* commands interrupt the run, and whether or not clients keep up.
THEOREM ResultsEndRuns == ChannelSpec => []ResultEndsRun
<1>1. ShapeInv /\ RunInv /\ [ChannelNext]_channelvars => (ShapeInv /\ RunInv)'
  BY StepFacts, RunsStep
<1>2. ChannelInit => ShapeInv /\ RunInv
  BY ShapeInit, RunInit
<1>3. ShapeInv /\ RunInv => ResultEndsRun
  BY RunMeaning
<1>4. QED BY <1>1, <1>2, <1>3, PTL DEF ChannelSpec

-----------------------------------------------------------------------------
(* Event numbers.                                                          *)

Numbers == Nat \ {0}

\* The numbers of messages.
LEMMA SequencesType ==
  ASSUME NEW w \in Seq(Message)
  PROVE  /\ Sequences(w) \in Seq(Nat) /\ Select(w, Event) \in Seq(Event)
         /\ Len(Sequences(w)) = Len(Select(w, Event))
         /\ \A i \in 1..Len(Select(w, Event)) : Sequences(w)[i] = Select(w, Event)[i].sequence
<1>1. Message \cap Event = Event
  BY DEF Message
<1>2. Select(w, Event) \in Seq(Event)
  BY <1>1, SelectType
<1>3. PICK s \in Seq(Event) : s = Select(w, Event)
  BY <1>2
<1>4. PICK n \in Nat : n = Len(s)
  BY <1>3, LenProperties
<1>5. \A i \in 1..n : s[i] \in Event /\ s[i].sequence \in Nat
  BY <1>4, ElementOfSeq, MessageFacts
<1>6. Sequences(w) = [i \in 1..n |-> s[i].sequence]
  BY <1>3, <1>4 DEF Sequences
<1>7. Sequences(w) \in [1..n -> Nat]
  BY <1>5, <1>6
<1>8. Sequences(w) \in Seq(Nat) /\ Len(Sequences(w)) = n
  BY <1>7, SeqDef
<1>9. QED BY <1>2, <1>3, <1>4, <1>6, <1>8

\* The numbers of messages in two parts.
LEMMA SequencesConcat ==
  ASSUME NEW a \in Seq(Message), NEW b \in Seq(Message)
  PROVE  Sequences(a \o b) = Sequences(a) \o Sequences(b)
<1>1. a \o b \in Seq(Message)
  BY Glue
<1>2. PICK s \in Seq(Event), t \in Seq(Event) : s = Select(a, Event) /\ t = Select(b, Event)
  BY SequencesType
<1>3. Select(a \o b, Event) = s \o t
  <2>1. Select(a \o b, Event) = Select(a, Event) \o Select(b, Event)
    BY SelectConcat
  <2>2. QED BY <1>2, <2>1
<1>4. PICK m \in Nat, n \in Nat : m = Len(s) /\ n = Len(t)
  BY <1>2, LenProperties
<1>5. Len(s \o t) = m + n /\ \A i \in 1..m + n : (s \o t)[i] = IF i <= m THEN s[i] ELSE t[i - m]
  BY <1>4, ConcatProperties
<1>6. PICK x \in Seq(Nat), y \in Seq(Nat), z \in Seq(Nat) :
        x = Sequences(a) /\ y = Sequences(b) /\ z = Sequences(a \o b)
  BY <1>1, SequencesType
<1>7. /\ Len(x) = m /\ \A i \in 1..m : x[i] = s[i].sequence
  BY <1>2, <1>4, <1>6, SequencesType
<1>8. /\ Len(y) = n /\ \A i \in 1..n : y[i] = t[i].sequence
  BY <1>2, <1>4, <1>6, SequencesType
<1>9. /\ Len(z) = m + n /\ \A i \in 1..m + n : z[i] = (s \o t)[i].sequence
  <2>1. /\ Len(z) = Len(Select(a \o b, Event))
        /\ \A i \in 1..Len(Select(a \o b, Event)) : z[i] = Select(a \o b, Event)[i].sequence
    BY <1>1, <1>6, SequencesType
  <2>2. QED BY <1>3, <1>5, <2>1
<1>10. x \o y \in Seq(Nat) /\ Len(x \o y) = m + n
       /\ \A i \in 1..m + n : (x \o y)[i] = IF i <= m THEN x[i] ELSE y[i - m]
  BY <1>7, <1>8, ConcatProperties, ZenonT(60)
<1>11. ASSUME NEW i \in 1..m + n PROVE z[i] = (x \o y)[i]
  <2>1. CASE i <= m
    <3>1. i \in 1..m
      BY <2>1
    <3>2. QED BY <1>5, <1>7, <1>9, <1>10, <2>1, <3>1, ZenonT(60)
  <2>2. CASE ~(i <= m)
    <3>0. i - m \in 1..n
      BY <1>4, <2>2
    <3>1. PICK j \in 1..n : j = i - m
      BY <3>0
    <3>2. z[i] = t[j].sequence
      BY <1>5, <1>9, <2>2, <3>1
    <3>3. (x \o y)[i] = y[j]
      BY <1>10, <2>2, <3>1
    <3>4. QED BY <1>8, <3>1, <3>2, <3>3
  <2>3. QED BY <2>1, <2>2
<1>12. z = x \o y
  BY <1>9, <1>10, <1>11, SeqEqual
<1>13. QED BY <1>6, <1>12

\* Replies have no numbers.
LEMMA SequencesNone ==
  ASSUME NEW r \in Seq(Message), Range(r) \cap Event = {}
  PROVE  Sequences(r) = <<>>
<1>1. r \in Seq(Range(r))
  BY SeqOfRange
<1>2. Select(r, Event) = <<>>
  BY <1>1, SelectAllOrNone
<1>3. Sequences(r) \in Seq(Nat) /\ Len(Sequences(r)) = 0
  BY <1>2, SequencesType
<1>4. QED BY <1>3, EmptySeq

\* The numbers of events.
LEMMA SequencesAll ==
  ASSUME NEW f \in Seq(Event)
  PROVE  /\ Sequences(f) \in Seq(Nat) /\ Len(Sequences(f)) = Len(f)
         /\ \A i \in 1..Len(f) : Sequences(f)[i] = f[i].sequence
<1>1. f \in Seq(Message)
  BY SeqMonotonic DEF Message
<1>2. Select(f, Event) = f
  BY SelectAllOrNone
<1>3. QED BY <1>1, <1>2, SequencesType

\* The last number of two parts is that of the second, unless that is empty.
LEMMA LastOfTwo ==
  ASSUME NEW a \in Seq(Nat), NEW b \in Seq(Nat), b # <<>>
  PROVE  /\ a \o b \in Seq(Nat) /\ a \o b # <<>> /\ (a \o b)[Len(a \o b)] = b[Len(b)]
         /\ Len(b) \in Nat \ {0}
<1>1. PICK m \in Nat, n \in Nat : m = Len(a) /\ n = Len(b) /\ n # 0
  BY LenProperties, EmptySeq
<1>2. /\ a \o b \in Seq(Nat) /\ Len(a \o b) = m + n
      /\ \A i \in 1..m + n : (a \o b)[i] = IF i <= m THEN a[i] ELSE b[i - m]
  BY <1>1, ConcatProperties
<1>3. m + n \in 1..m + n /\ ~(m + n <= m) /\ (m + n) - m = n
  BY <1>1
<1>4. (a \o b)[m + n] = b[n]
  BY <1>2, <1>3
<1>5. a \o b # <<>>
  BY <1>1, <1>2, EmptySeq
<1>6. QED BY <1>1, <1>2, <1>4, <1>5

\* Numbers without a gap, up to the last one given if the connection is live.
Gapless(n, live, next) ==
  /\ n \in Seq(Numbers)
  /\ Consecutive(n)
  /\ live /\ n # <<>> => n[Len(n)] = next - 1

\* All that was said to a client: the last event it took, and those on the way.
Said(h, way) == (IF h = 0 THEN <<>> ELSE <<h>>) \o Sequences(way)

GapInv == \A c \in Connected : Gapless(Said(history.heard[c], Way(client[c].socket)), Live(client[c].socket),
                                       next_event_sequence)

\* Parts of numbers are numbers.
LEMMA NumbersParts ==
  ASSUME NEW a \in Seq(Nat), NEW b \in Seq(Nat)
  PROVE  a \o b \in Seq(Numbers) <=> a \in Seq(Numbers) /\ b \in Seq(Numbers)
<1>1. ASSUME a \in Seq(Numbers), b \in Seq(Numbers) PROVE a \o b \in Seq(Numbers)
  BY <1>1, ConcatProperties
<1>2. ASSUME a \o b \in Seq(Numbers) PROVE a \in Seq(Numbers) /\ b \in Seq(Numbers)
  <2>1. Range(a \o b) = Range(a) \cup Range(b) /\ Range(a \o b) \subseteq Numbers
    BY <1>2, RangeConcatenation, RangeOfSeq
  <2>2. a \in Seq(Range(a)) /\ b \in Seq(Range(b))
    BY SeqOfRange
  <2>3. QED BY <2>1, <2>2, SeqMonotonic
<1>3. QED BY <1>1, <1>2

\* A beginning, for a connection that is lost.
LEMMA GaplessCut ==
  ASSUME NEW a \in Seq(Nat), NEW b \in Seq(Nat), NEW live, NEW next, NEW later, Gapless(a \o b, live, next)
  PROVE  Gapless(a, FALSE, later)
<1>1. a \in Seq(Numbers)
  BY NumbersParts DEF Gapless
<1>2. Consecutive(a)
  BY ConsecutiveParts DEF Gapless
<1>3. QED BY <1>1, <1>2 DEF Gapless

\* The rest, after the client took the first.
LEMMA GaplessRest ==
  ASSUME NEW a \in Seq(Nat), NEW b \in Seq(Nat), NEW live, NEW next, Gapless(a \o b, live, next)
  PROVE  Gapless(b, live, next)
<1>1. b \in Seq(Numbers)
  BY NumbersParts DEF Gapless
<1>2. Consecutive(b)
  BY ConsecutiveParts DEF Gapless
<1>3. ASSUME live, b # <<>> PROVE b[Len(b)] = next - 1
  BY <1>3, LastOfTwo DEF Gapless
<1>4. QED BY <1>1, <1>2, <1>3 DEF Gapless

\* Numbers that count on.
CountOn(f, next) == \A i \in 1..Len(f) : f[i] = next + i - 1

\* What is numbered next goes to the end.
LEMMA GaplessAdd ==
  ASSUME NEW a \in Seq(Nat), NEW f \in Seq(Nat), NEW next \in Numbers, Gapless(a, TRUE, next), CountOn(f, next)
  PROVE  Gapless(a \o f, TRUE, next + Len(f))
<1>1. PICK m \in Nat, n \in Nat : m = Len(a) /\ n = Len(f)
  BY LenProperties
<1>2. f \in Seq(Numbers) /\ Consecutive(f)
  <2>1. \A i \in 1..n : f[i] \in Numbers
    BY <1>1 DEF CountOn, Numbers
  <2>2. f \in [1..n -> Nat]
    BY <1>1, LenProperties
  <2>3. f \in [1..n -> Numbers]
    BY <2>1, <2>2
  <2>4. f \in Seq(Numbers)
    BY <2>3, SeqDef
  <2>5. ASSUME NEW i \in 1..n - 1 PROVE f[i + 1] = f[i] + 1
    <3>1. i \in 1..n /\ i + 1 \in 1..n /\ i \in Nat /\ next \in Nat
      BY <1>1 DEF Numbers
    <3>2. f[i] = next + i - 1 /\ f[i + 1] = next + (i + 1) - 1
      BY <1>1, <3>1 DEF CountOn
    <3>3. QED BY <3>1, <3>2
  <2>6. QED BY <1>1, <2>4, <2>5 DEF Consecutive
<1>3. a \in Seq(Numbers) /\ Consecutive(a) /\ (a # <<>> => a[Len(a)] = next - 1)
  BY DEF Gapless
<1>4. a \o f \in Seq(Numbers)
  BY <1>2, <1>3, ConcatProperties
<1>5. Consecutive(a \o f)
  <2>1. ASSUME a # <<>>, f # <<>> PROVE f[1] = a[Len(a)] + 1
    <3>1. 1 \in 1..n
      BY <1>1, <2>1, LenProperties, EmptySeq
    <3>2. f[1] = next + 1 - 1 /\ a[Len(a)] = next - 1 /\ next \in Nat
      BY <1>1, <1>3, <2>1, <3>1 DEF CountOn, Numbers
    <3>3. QED BY <3>2
  <2>2. QED BY <1>2, <1>3, <2>1, ConsecutiveParts
<1>6. ASSUME a \o f # <<>> PROVE (a \o f)[Len(a \o f)] = (next + n) - 1
  <2>1. CASE f # <<>>
    <3>1. (a \o f)[Len(a \o f)] = f[n] /\ n # 0
      BY <1>1, <2>1, LastOfTwo
    <3>2. f[n] = next + n - 1
      BY <1>1, <3>1 DEF CountOn
    <3>3. next + n - 1 = (next + n) - 1
      BY DEF Numbers
    <3>4. QED BY <3>1, <3>2, <3>3
  <2>2. CASE f = <<>>
    <3>1. a \o f = a /\ n = 0 /\ next + n = next
      BY <1>1, <2>2, ConcatEmptySeq DEF Numbers
    <3>2. QED BY <1>3, <1>6, <3>1
  <2>3. QED BY <2>1, <2>2
<1>7. QED BY <1>1, <1>4, <1>5, <1>6 DEF Gapless

\* Numbers in three parts.
LEMMA NumberAssoc == \A a, b, c \in Seq(Nat) : (a \o b) \o c = a \o (b \o c)
BY ConcatAssociative, SMTT(40)

\* Numbers in one part, or two.
LEMMA NumberGlue ==
  /\ \A a, b \in Seq(Nat) : a \o b \in Seq(Nat)
  /\ \A a \in Seq(Nat) : a \o <<>> = a /\ <<>> \o a = a
  /\ <<>> \in Seq(Nat) /\ \A i \in Nat : <<i>> \in Seq(Nat)
<1>1. \A a, b \in Seq(Nat) : a \o b \in Seq(Nat)
  BY ConcatProperties
<1>2. \A a \in Seq(Nat) : a \o <<>> = a /\ <<>> \o a = a
  BY ConcatEmptySeq
<1>3. <<>> \in Seq(Nat)
  BY EmptySeq
<1>4. \A i \in Nat : <<i>> \in Seq(Nat)
  BY Singleton
<1>5. QED BY <1>1, <1>2, <1>3, <1>4

\* Nothing has no gap.
LEMMA GaplessEmpty == \A live, next : Gapless(<<>>, live, next)
<1>1. <<>> \in Seq(Numbers) /\ Len(<<>>) = 0
  BY EmptySeq
<1>2. Consecutive(<<>>)
  BY <1>1 DEF Consecutive
<1>3. QED BY <1>1, <1>2 DEF Gapless

\* What a step does to what is on the way leaves no gap.
LEMMA GapFollows ==
  ASSUME NEW h \in Nat, NEW old, NEW new, NEW live, NEW waslive, NEW v,
         NEW next \in Numbers, NEW fresh \in Seq(Event), CountOn(Sequences(fresh), next),
         Follows(old, new, live, fresh, RepliesAt(v)), Gapless(Said(h, old), waslive, next),
         live => waslive \/ (h = 0 /\ old = <<>>)
  PROVE  Gapless(Said(h, new), live, next + Len(fresh))
<1>1. PICK w \in Seq(Message), q \in Seq(Message), r \in Seq(Message) :
        /\ old = w \o q
        /\ Range(r) \subseteq {m \in Reply : m.revision = v}
        /\ live => q = <<>> /\ new = (w \o r) \o fresh
        /\ ~live => new = w \o r
  BY DEF Follows, RepliesAt
<1>2. PICK d \in Seq(Nat) : d = IF h = 0 THEN <<>> ELSE <<h>>
  BY NumberGlue
<1>3. PICK sw \in Seq(Nat), sq \in Seq(Nat), sf \in Seq(Nat) :
        sw = Sequences(w) /\ sq = Sequences(q) /\ sf = Sequences(fresh) /\ Len(sf) = Len(fresh)
  BY SequencesType, SequencesAll
<1>4. PICK u \in Seq(Message) : u = w \o r
  BY Glue
<1>5. Sequences(u) = sw
  <2>1. Range(r) \cap Event = {}
    BY <1>1, MessageFacts
  <2>2. Sequences(r) = <<>>
    BY <2>1, SequencesNone
  <2>3. Sequences(w \o r) = Sequences(w) \o Sequences(r)
    BY SequencesConcat
  <2>4. QED BY <1>3, <1>4, <2>2, <2>3, NumberGlue
<1>6. PICK a \in Seq(Nat) : a = d \o sw
  BY NumberGlue
<1>7. CASE ~live
  <2>1. Said(h, new) = a
    BY <1>1, <1>2, <1>4, <1>5, <1>6, <1>7 DEF Said
  <2>2. Sequences(w \o q) = sw \o sq
    BY <1>3, SequencesConcat
  <2>3. (d \o sw) \o sq = d \o (sw \o sq)
    BY NumberAssoc, ZenonT(60)
  <2>4. Said(h, old) = a \o sq
    BY <1>1, <1>2, <1>6, <2>2, <2>3 DEF Said
  <2>5. Gapless(a, FALSE, next + Len(fresh))
    <3>1. Gapless(a \o sq, waslive, next)
      BY <2>4
    <3>2. \A later : Gapless(a, FALSE, later)
      BY <3>1, GaplessCut
    <3>3. QED BY <3>2
  <2>6. QED BY <1>7, <2>1, <2>5 DEF Gapless
<1>8. CASE live
  <2>1. old = w
    BY <1>1, <1>8, Glue
  <2>2. Said(h, old) = a
    BY <1>2, <1>3, <1>6, <2>1 DEF Said
  <2>3. Gapless(a, TRUE, next)
    <3>1. CASE waslive
      BY <2>2, <3>1 DEF Gapless
    <3>2. CASE h = 0 /\ old = <<>>
      <4>1. Range(<<>>) \cap Event = {} /\ <<>> \in Seq(Message)
        BY Glue DEF Range
      <4>2. Sequences(<<>>) = <<>>
        BY <4>1, SequencesNone
      <4>3. a = <<>>
        BY <1>2, <1>3, <1>6, <2>1, <3>2, <4>2, NumberGlue
      <4>4. QED BY <4>3, GaplessEmpty
    <3>3. QED BY <1>8, <3>1, <3>2
  <2>4. fresh \in Seq(Message)
    BY SeqMonotonic DEF Message
  <2>5. Sequences(u \o fresh) = sw \o sf
    BY <1>3, <1>5, <2>4, SequencesConcat
  <2>6. (d \o sw) \o sf = d \o (sw \o sf)
    BY NumberAssoc, ZenonT(60)
  <2>7. Said(h, new) = a \o sf
    BY <1>1, <1>2, <1>4, <1>6, <1>8, <2>5, <2>6 DEF Said
  <2>8. Gapless(a \o sf, TRUE, next + Len(sf))
    BY <1>3, <2>3, GaplessAdd
  <2>9. QED BY <1>3, <1>8, <2>7, <2>8 DEF Gapless
<1>9. QED BY <1>7, <1>8

\* A client that is told something.
LEMMA GapTold ==
  ASSUME ShapeInv, GapInv, NEW c \in Connected, NEW fresh, Speaks(fresh), Told(c, fresh)
  PROVE  Gapless(Said(history.heard[c], Way(client[c].socket)), Live(client[c].socket), next_event_sequence)'
<1>1. TypeOK /\ FreshInv /\ next_event_sequence \in Numbers
  BY DEF ShapeInv, TypeOK, ServiceType, Numbers
<1>2. c \in Clients /\ client[c].socket \in Connections /\ history.heard[c] \in Nat
  BY <1>1, SocketFacts
<1>3. PICK k \in Connections, h \in Nat, next \in Numbers :
        k = client[c].socket /\ h = history.heard[c] /\ next = next_event_sequence
  BY <1>1, <1>2
<1>4. PICK old, new, v, live, waslive :
        old = Way(k) /\ new = Way(k)' /\ v = revision' /\ live = Live(k)' /\ waslive = Live(k)
  OBVIOUS
<1>5. client'[c].socket = k /\ history'.heard[c] = h /\ Follows(old, new, live, fresh, RepliesAt(v))
      /\ (live => waslive \/ k \in Range(backlog))
  <2>1. Effect(k, fresh) /\ client'[c].socket = k /\ history'.heard[c] = h
    BY <1>3 DEF Told
  <2>2. Follows(old, new, live, fresh, RepliesAt(v))
    BY <1>4, <2>1, RepliesAreCurrent
  <2>3. QED BY <1>4, <2>1, <2>2 DEF Effect
<1>6. fresh \in Seq(Event) /\ next_event_sequence' = next + Len(fresh)
  BY <1>3 DEF Speaks, Numbered
<1>7. CountOn(Sequences(fresh), next)
  <2>1. \A i \in 1..Len(fresh) : fresh[i].sequence = next + i - 1
    BY <1>3 DEF Speaks, Numbered
  <2>2. QED BY <1>6, <2>1, SequencesAll DEF CountOn
<1>8. Gapless(Said(h, old), waslive, next)
  BY <1>3, <1>4 DEF GapInv
<1>9. live => waslive \/ (h = 0 /\ old = <<>>)
  <2>1. ASSUME k \in Range(backlog) PROVE (h = 0 /\ old = <<>>) \/ waslive
    <3>1. h = 0 /\ peer[k].stream = <<>> /\ peer[k].outbox = <<>>
      BY <1>1, <1>2, <1>3, <2>1 DEF FreshInv
    <3>2. CASE waslive
      BY <3>2
    <3>3. CASE ~waslive
      <4>1. Coming(k) = <<>>
        BY <1>4, <3>3 DEF Coming
      <4>2. QED BY <1>4, <3>1, <4>1, Glue DEF Way
    <3>4. QED BY <3>2, <3>3
  <2>2. QED BY <1>5, <2>1
<1>10. Gapless(Said(h, new), live, next + Len(fresh))
  BY <1>5, <1>6, <1>7, <1>8, <1>9, GapFollows
<1>11. QED BY <1>4, <1>5, <1>6, <1>10 DEF Gapless, Said

\* A client that takes a message.
LEMMA GapTook ==
  ASSUME ShapeInv, ShapeInv', GapInv, NEW c \in Connected, Took(c), next_event_sequence' = next_event_sequence
  PROVE  Gapless(Said(history.heard[c], Way(client[c].socket)), Live(client[c].socket), next_event_sequence)'
<1>1. TypeOK /\ TypeOK' /\ c \in Clients /\ client[c].socket \in Connections /\ history.heard[c] \in Nat
  BY SocketFacts DEF ShapeInv
<1>2. PICK k \in Connections, h \in Nat : k = client[c].socket /\ h = history.heard[c]
  BY <1>1
<1>3. PICK x \in Seq(Message) : x = Way(k)'
  BY <1>1, WayFactsNext
<1>4. PICK next, live, waslive : next = next_event_sequence /\ live = Live(k)' /\ waslive = Live(k)
  OBVIOUS
<1>5. /\ client'[c].socket = k /\ (live => waslive)
      /\ \E m \in Message : /\ Way(k) = <<m>> \o x
                            /\ history'.heard[c] = IF m \in Event THEN m.sequence ELSE h
  BY <1>2, <1>3, <1>4 DEF Took
<1>6. PICK m \in Message : Way(k) = <<m>> \o x /\ history'.heard[c] = IF m \in Event THEN m.sequence ELSE h
  BY <1>5
<1>7. PICK mm \in Seq(Message) : mm = <<m>>
  BY Glue
<1>8. Range(mm) = {m} /\ Len(mm) = 1 /\ mm[1] = m
  BY <1>7 DEF Range
<1>9. PICK sm \in Seq(Nat), sx \in Seq(Nat) : sm = Sequences(mm) /\ sx = Sequences(x)
  BY SequencesType
<1>10. Sequences(mm \o x) = sm \o sx
  BY <1>9, SequencesConcat
<1>11. PICK d \in Seq(Nat) : d = IF h = 0 THEN <<>> ELSE <<h>>
  BY NumberGlue
<1>12. Gapless(d \o (sm \o sx), waslive, next)
  BY <1>2, <1>4, <1>6, <1>7, <1>10, <1>11 DEF GapInv, Said
<1>13. Gapless(Said(history'.heard[c], x), waslive, next)
  <2>1. CASE m \in Event
    <3>1. mm \in Seq(Event)
      BY <1>7, <2>1, Singleton
    <3>2. Len(sm) = 1 /\ sm[1] = m.sequence /\ m.sequence \in Nat
      <4>1. Len(sm) = Len(mm) /\ \A i \in 1..Len(mm) : sm[i] = mm[i].sequence
        BY <1>9, <3>1, SequencesAll
      <4>2. m.sequence \in Nat
        BY <2>1, MessageFacts
      <4>3. QED BY <1>8, <4>1, <4>2
    <3>3. sm = <<m.sequence>>
      <4>1. sm \in [1..1 -> Nat]
        BY <3>2, LenProperties
      <4>2. QED BY <3>2, <4>1
    <3>4. sm \o sx \in Seq(Nat)
      BY NumberGlue
    <3>5. Gapless(sm \o sx, waslive, next)
      BY <1>12, <3>4, GaplessRest
    <3>6. m.sequence # 0
      <4>1. sm \o sx \in Seq(Numbers)
        BY <3>5 DEF Gapless
      <4>2. sm \in Seq(Numbers)
        BY <4>1, NumbersParts
      <4>3. 1 \in 1..Len(sm)
        BY <3>2
      <4>4. sm[1] \in Numbers
        BY <4>2, <4>3, ElementOfSeq
      <4>5. QED BY <3>2, <4>4 DEF Numbers
    <3>7. Said(history'.heard[c], x) = sm \o sx
      BY <1>6, <1>9, <2>1, <3>3, <3>6 DEF Said
    <3>8. QED BY <3>5, <3>7
  <2>2. CASE m \notin Event
    <3>1. sm = <<>>
      BY <1>8, <1>9, <2>2, SequencesNone
    <3>2. Said(history'.heard[c], x) = d \o sx
      BY <1>6, <1>9, <1>11, <2>2 DEF Said
    <3>3. sm \o sx = sx
      BY <3>1, NumberGlue
    <3>4. QED BY <1>12, <3>2, <3>3
  <2>3. QED BY <2>1, <2>2
<1>14. Gapless(Said(history'.heard[c], x), live, next)
  BY <1>5, <1>13 DEF Gapless
<1>15. QED BY <1>3, <1>4, <1>5, <1>14 DEF Gapless, Said

\* No step leaves a gap.
LEMMA GapStep ==
  ASSUME ShapeInv, ShapeInv', GapInv, ChannelTells
  PROVE  GapInv'
<1>1. SUFFICES ASSUME NEW c \in Connected'
               PROVE  Gapless(Said(history.heard[c], Way(client[c].socket)), Live(client[c].socket),
                              next_event_sequence)'
  BY DEF GapInv
<1>2. CASE \E fresh : Speaks(fresh) /\ c \in Connected /\ Told(c, fresh)
  BY <1>2, GapTold
<1>3. CASE c \in Connected /\ Took(c) /\ Speaks(<<>>)
  <2>1. next_event_sequence' = next_event_sequence
    <3>1. next_event_sequence \in Nat /\ Len(<<>>) = 0
      BY DEF ShapeInv, TypeOK, ServiceType
    <3>2. QED BY <1>3, <3>1 DEF Speaks, Numbered
  <2>2. QED BY <1>3, <2>1, GapTook
<1>4. CASE Joined(c)
  <2>1. Way(client[c].socket)' = <<>> /\ history'.heard[c] = 0
    BY <1>4 DEF Joined
  <2>2. Range(<<>>) \cap Event = {} /\ <<>> \in Seq(Message)
    BY Glue DEF Range
  <2>3. Sequences(<<>>) = <<>>
    BY <2>2, SequencesNone
  <2>4. Said(0, <<>>) = <<>>
    BY <2>3, NumberGlue DEF Said
  <2>5. Said(history.heard[c], Way(client[c].socket))' = <<>>
    BY <2>1, <2>4 DEF Said
  <2>6. QED BY <2>5, GaplessEmpty DEF Gapless
<1>5. QED BY <1>2, <1>3, <1>4 DEF ChannelTells

\* What the invariant says of a client is what GaplessStreams says.
LEMMA GapMeaning ==
  ASSUME ShapeInv, GapInv
  PROVE  GaplessStreams
<1>1. SUFFICES ASSUME NEW c \in Connected
               PROVE  LET k == client[c].socket
                          numbers == (IF history.heard[c] = 0 THEN <<>> ELSE <<history.heard[c]>>)
                                       \o Sequences(OnTheWay(c))
                      IN  /\ \A i \in 1..Len(numbers) - 1 : numbers[i + 1] = numbers[i] + 1
                          /\ numbers # <<>> /\ k \in Range(clients) /\ ~peer[k].congested =>
                               Last(numbers) = next_event_sequence - 1
  BY DEF GaplessStreams
<1>2. OnTheWay(c) = Way(client[c].socket)
  BY DEF OnTheWay, Way, Coming, Live
<1>3. PICK n : n = Said(history.heard[c], Way(client[c].socket))
  OBVIOUS
<1>4. (IF history.heard[c] = 0 THEN <<>> ELSE <<history.heard[c]>>) \o Sequences(OnTheWay(c)) = n
  BY <1>2, <1>3 DEF Said
<1>5. Gapless(n, Live(client[c].socket), next_event_sequence)
  BY <1>3 DEF GapInv
<1>6. QED BY <1>4, <1>5 DEF Gapless, Live, Last, Consecutive

\* At first nobody is connected.
LEMMA GapInit == ChannelInit => GapInv
BY DEF ChannelInit, ServerInit, GapInv, Connected

\* A connected client is told every event from the first it hears on, in order and
\* without a gap; a client that cannot keep up loses its connection, never an event.
THEOREM StreamsHaveNoGap == ChannelSpec => []GaplessStreams
<1>1. ShapeInv /\ GapInv /\ [ChannelNext]_channelvars => (ShapeInv /\ GapInv)'
  BY StepFacts, GapStep
<1>2. ChannelInit => ShapeInv /\ GapInv
  BY ShapeInit, GapInit
<1>3. ShapeInv /\ GapInv => GaplessStreams
  BY GapMeaning
<1>4. QED BY <1>1, <1>2, <1>3, PTL DEF ChannelSpec

-----------------------------------------------------------------------------
(* Requests and answers: what is owed to a client.                         *)

\* What the switch has for client k: requests it read and requests it did not.
Pending(k) == IF stage = "handle" /\ clients[index] = k THEN inbox ELSE <<>>
Todo(k) == Pending(k) \o requests[k]

\* The switch serves connection k, or is going to.
Open(k) == Live(k) \/ k \in Range(backlog)

\* The replies on the way, and what they are still due for.
Item == Reply \cup Request
Replies(k) == Select(Way(k), Reply)
Rest(k) == IF Open(k) THEN Todo(k) ELSE <<>>
Owed(k) == Replies(k) \o Rest(k)

\* From old to new: replies, at revision v, take the place of requests; a connection
\* that is lost misses the end.
Carried(old, new, open, v) ==
  /\ Len(new) <= Len(old) /\ (open => Len(new) = Len(old))
  /\ \A i \in 1..Len(new) : /\ new[i].request_id = old[i].request_id
                            /\ new[i] = old[i] \/ new[i].revision = v

\* A request is no reply.
LEMMA ItemFacts ==
  /\ Reply \cap Request = {}
  /\ \A m \in Item : m.request_id \in Nat /\ m.revision \in Nat
<1>1. \A m \in Item : m.request_id \in Nat /\ m.revision \in Nat
  BY DEF Item, Reply, Request
<1>2. ASSUME NEW m \in Reply, m \in Request PROVE FALSE
  <2>1. DOMAIN m = {"kind", "request_id", "accepted", "revision"}
    BY DEF Reply
  <2>2. DOMAIN m = {"request_id", "command", "revision", "target"}
    BY <1>2 DEF Request
  <2>3. "kind" \in DOMAIN m /\ "kind" \notin DOMAIN m
    BY <2>1, <2>2
  <2>4. QED BY <2>3
<1>3. QED BY <1>1, <1>2

\* Items in two parts, and in one.
LEMMA ItemGlue ==
  /\ \A a, b \in Seq(Item) : a \o b \in Seq(Item)
  /\ \A a \in Seq(Item) : a \o <<>> = a /\ <<>> \o a = a
  /\ <<>> \in Seq(Item)
  /\ \A m \in Item : <<m>> \in Seq(Item)
<1>2. \A a, b \in Seq(Item) : a \o b \in Seq(Item)
  BY ConcatProperties
<1>3. \A a \in Seq(Item) : a \o <<>> = a /\ <<>> \o a = a
  BY ConcatEmptySeq
<1>4. <<>> \in Seq(Item)
  BY EmptySeq
<1>5. \A m \in Item : <<m>> \in Seq(Item)
  BY Singleton
<1>6. QED BY <1>2, <1>3, <1>4, <1>5

\* Items in three parts.
LEMMA ItemAssoc == \A a, b, c \in Seq(Item) : (a \o b) \o c = a \o (b \o c)
BY ConcatAssociative

\* The replies among messages, in two parts, among events and in a single reply.
LEMMA RepliesFacts ==
  /\ \A w \in Seq(Message) : Select(w, Reply) \in Seq(Item) /\ Range(Select(w, Reply)) \subseteq Range(w)
  /\ \A a, b \in Seq(Message) : Select(a \o b, Reply) = Select(a, Reply) \o Select(b, Reply)
  /\ \A f \in Seq(Event) : Select(f, Reply) = <<>>
  /\ \A m \in Reply : Select(<<m>>, Reply) = <<m>>
  /\ \A m \in Event : Select(<<m>>, Reply) = <<>>
  /\ Select(<<>>, Reply) = <<>>
<1>1. ASSUME NEW w \in Seq(Message) PROVE Select(w, Reply) \in Seq(Item) /\ Range(Select(w, Reply)) \subseteq Range(w)
  <2>1. Select(w, Reply) \in Seq(Message \cap Reply) /\ Range(Select(w, Reply)) \subseteq Range(w)
    BY SelectType, SelectFacts
  <2>2. QED BY <2>1, SeqMonotonic DEF Item
<1>2. \A a, b \in Seq(Message) : Select(a \o b, Reply) = Select(a, Reply) \o Select(b, Reply)
  BY SelectConcat
<1>3. \A f \in Seq(Event) : Select(f, Reply) = <<>>
  BY SelectAllOrNone, MessageFacts
<1>4. ASSUME NEW m \in Reply PROVE Select(<<m>>, Reply) = <<m>>
  <2>1. PICK mm \in Seq(Reply) : mm = <<m>>
    BY Singleton
  <2>2. Select(mm, Reply) = mm
    BY SelectAllOrNone
  <2>3. QED BY <2>1, <2>2
<1>5. ASSUME NEW m \in Event PROVE Select(<<m>>, Reply) = <<>>
  <2>1. <<m>> \in Seq(Event)
    BY Singleton
  <2>2. QED BY <1>3, <2>1
<1>6. Select(<<>>, Reply) = <<>>
  BY <1>3, EmptySeq
<1>7. QED BY <1>1, <1>2, <1>3, <1>4, <1>5, <1>6

\* What is owed are replies and requests.
LEMMA OwedType ==
  ASSUME TypeOK, NEW k \in Connections
  PROVE  /\ Todo(k) \in Seq(Request) /\ Rest(k) \in Seq(Item) /\ Replies(k) \in Seq(Item) /\ Owed(k) \in Seq(Item)
         /\ Pending(k) \in Seq(Request) /\ requests[k] \in Seq(Request)
<1>1. inbox \in Seq(Request) /\ requests[k] \in Seq(Request) /\ <<>> \in Seq(Request)
  BY EmptySeq DEF TypeOK, ServerType, SocketType
<1>2. Pending(k) \in Seq(Request)
  BY <1>1 DEF Pending
<1>3. Todo(k) \in Seq(Request)
  BY <1>1, <1>2, ConcatProperties DEF Todo
<1>4. Todo(k) \in Seq(Item)
  BY <1>3, SeqMonotonic DEF Item
<1>5. Rest(k) \in Seq(Item)
  BY <1>4, ItemGlue DEF Rest
<1>6. Replies(k) \in Seq(Item)
  BY WayFacts, RepliesFacts DEF Replies
<1>7. QED BY <1>1, <1>2, <1>3, <1>5, <1>6, ItemGlue DEF Owed

\* So it is after a step.
LEMMA OwedTypeNext ==
  ASSUME TypeOK', NEW k \in Connections
  PROVE  /\ Todo(k)' \in Seq(Request) /\ Rest(k)' \in Seq(Item) /\ Replies(k)' \in Seq(Item) /\ Owed(k)' \in Seq(Item)
         /\ Pending(k)' \in Seq(Request) /\ requests'[k] \in Seq(Request)
<1>1. inbox' \in Seq(Request) /\ requests'[k] \in Seq(Request) /\ <<>> \in Seq(Request)
  BY EmptySeq DEF TypeOK, ServerType, SocketType
<1>2. Pending(k)' \in Seq(Request)
  BY <1>1 DEF Pending
<1>3. Todo(k)' \in Seq(Request)
  BY <1>1, <1>2, ConcatProperties DEF Todo
<1>4. Todo(k)' \in Seq(Item)
  BY <1>3, SeqMonotonic DEF Item
<1>5. Rest(k)' \in Seq(Item)
  BY <1>4, ItemGlue DEF Rest
<1>6. Replies(k)' \in Seq(Item)
  BY WayFactsNext, RepliesFacts DEF Replies
<1>7. QED BY <1>1, <1>2, <1>3, <1>5, <1>6, ItemGlue DEF Owed

\* Nothing happens, or the end is lost.
LEMMA CarriedCut ==
  ASSUME NEW a \in Seq(Item), NEW b \in Seq(Item), NEW open, NEW v, open => b = <<>>
  PROVE  Carried(a \o b, a, open, v)
<1>1. PICK m \in Nat, n \in Nat : m = Len(a) /\ n = Len(b)
  BY LenProperties
<1>2. Len(a \o b) = m + n /\ \A i \in 1..m + n : (a \o b)[i] = IF i <= m THEN a[i] ELSE b[i - m]
  BY <1>1, ConcatProperties
<1>3. open => n = 0
  BY <1>1
<1>4. \A i \in 1..m : (a \o b)[i] = a[i]
  BY <1>2
<1>5. QED BY <1>1, <1>2, <1>3, <1>4 DEF Carried

\* A request is answered.
LEMMA CarriedAnswer ==
  ASSUME NEW a \in Seq(Item), NEW q \in Item, NEW m \in Item, NEW t \in Seq(Item), NEW open, NEW v,
         m.request_id = q.request_id, m.revision = v
  PROVE  Carried((a \o <<q>>) \o t, (a \o <<m>>) \o t, open, v)
<1>1. PICK i1 \in Nat, i2 \in Nat : i1 = Len(a) /\ i2 = Len(t)
  BY LenProperties
<1>2. ASSUME NEW x \in Item
      PROVE  /\ Len((a \o <<x>>) \o t) = i1 + 1 + i2
             /\ \A i \in 1..i1 + 1 + i2 :
                  ((a \o <<x>>) \o t)[i] = IF i <= i1 THEN a[i] ELSE IF i = i1 + 1 THEN x ELSE t[i - (i1 + 1)]
  <2>1. PICK s \in Seq(Item) : s = a \o <<x>> /\ Len(s) = i1 + 1
                               /\ \A i \in 1..i1 + 1 : s[i] = IF i <= i1 THEN a[i] ELSE x
    <3>1. <<x>> \in Seq(Item) /\ Len(<<x>>) = 1 /\ <<x>>[1] = x
      BY Singleton
    <3>2. /\ a \o <<x>> \in Seq(Item) /\ Len(a \o <<x>>) = i1 + 1
          /\ \A i \in 1..i1 + 1 : (a \o <<x>>)[i] = IF i <= i1 THEN a[i] ELSE <<x>>[i - i1]
      BY <1>1, <3>1, ConcatProperties
    <3>3. \A i \in 1..i1 + 1 : (a \o <<x>>)[i] = IF i <= i1 THEN a[i] ELSE x
      <4>1. SUFFICES ASSUME NEW i \in 1..i1 + 1, ~(i <= i1) PROVE (a \o <<x>>)[i] = x
        BY <3>2
      <4>2. i - i1 = 1
        BY <4>1
      <4>3. QED BY <3>1, <3>2, <4>1, <4>2
    <3>4. QED BY <3>2, <3>3
  <2>2. Len(s \o t) = i1 + 1 + i2 /\ \A i \in 1..i1 + 1 + i2 : (s \o t)[i] = IF i <= i1 + 1 THEN s[i] ELSE t[i - (i1 + 1)]
    BY <1>1, <2>1, ConcatProperties
  <2>3. QED BY <2>1, <2>2
<1>3. PICK old, new : old = (a \o <<q>>) \o t /\ new = (a \o <<m>>) \o t
  OBVIOUS
<1>4. Len(old) = i1 + 1 + i2 /\ Len(new) = i1 + 1 + i2
  BY <1>2, <1>3
<1>5. ASSUME NEW i \in 1..i1 + 1 + i2
      PROVE  new[i].request_id = old[i].request_id /\ (new[i] = old[i] \/ new[i].revision = v)
  <2>1. old[i] = (IF i <= i1 THEN a[i] ELSE IF i = i1 + 1 THEN q ELSE t[i - (i1 + 1)])
    BY <1>2, <1>3
  <2>2. new[i] = (IF i <= i1 THEN a[i] ELSE IF i = i1 + 1 THEN m ELSE t[i - (i1 + 1)])
    BY <1>2, <1>3
  <2>3. QED BY <2>1, <2>2
<1>6. Carried(old, new, open, v)
  BY <1>4, <1>5 DEF Carried
<1>7. QED BY <1>3, <1>6

\* What a step of the switch does to the requests of a connection it keeps: it handles
\* the first, or leaves them.
Handles(k) ==
  /\ k \in Range(backlog)' => k \in Range(backlog)
  /\ Open(k)' => Todo(k) = (IF Answering(k) THEN <<Head(inbox)>> ELSE <<>>) \o Todo(k)'

\* The requests are left alone.
LEMMA HandlesNone ==
  ASSUME TypeOK, NEW k \in Connections, k \in Range(backlog)' => k \in Range(backlog), ~Answering(k),
         Open(k)' => Pending(k)' = Pending(k) /\ requests'[k] = requests[k]
  PROVE  Handles(k)
<1>1. Todo(k) \in Seq(Request)
  BY OwedType
<1>2. <<>> \o Todo(k) = Todo(k)
  BY <1>1, ConcatEmptySeq
<1>3. QED BY <1>2 DEF Handles, Todo

\* Elsewhere than in handle nothing is pending.
LEMMA NothingPending ==
  ASSUME PositionInv, stage # "handle"
  PROVE  inbox = <<>> /\ \A k : Pending(k) = <<>> /\ ~Answering(k)
BY DEF PositionInv, Pending, Answering

\* A client that is removed is gone.
LEMMA RemoveApart ==
  ASSUME NEW s \in Seq(Connections), Chain(s, Apart), NEW k \in 1..Len(s)
  PROVE  Range(RemoveAt(s, k)) \subseteq Range(s) /\ s[k] \notin Range(RemoveAt(s, k))
<1>1. PICK n \in Nat : n = Len(s)
  BY LenProperties
<1>2. PICK rest \in Seq(Connections) : /\ rest = RemoveAt(s, k) /\ Len(rest) = n - 1
                                       /\ \A i \in 1..n - 1 : rest[i] = IF i < k THEN s[i] ELSE s[i + 1]
  BY <1>1, RemoveAtFacts
<1>3. Range(rest) = {rest[i] : i \in 1..n - 1} /\ Range(s) = {s[i] : i \in 1..n}
  BY <1>1, <1>2, RangeEquality
<1>4. ASSUME NEW i \in 1..n - 1 PROVE rest[i] \in Range(s) /\ rest[i] # s[k]
  <2>1. PICK x \in 1..n : x = (IF i < k THEN i ELSE i + 1) /\ rest[i] = s[x]
    BY <1>1, <1>2
  <2>2. x < k \/ k < x
    BY <1>1, <2>1
  <2>3. s[x] # s[k]
    BY <1>1, <2>2 DEF Chain, Apart
  <2>4. QED BY <1>3, <2>1, <2>3
<1>5. \A e \in Range(rest) : e \in Range(s) /\ e # s[k]
  BY <1>3, <1>4
<1>6. QED BY <1>2, <1>5

\* Steps of the switch outside the loop over the clients.
LEMMA OutsideHandles ==
  ASSUME ShapeInv, Broadcast \/ publish_analysis \/ publish_supervision \/ StartPoll
  PROVE  \A k \in Connections : Handles(k)
<1>1. TypeOK /\ PositionInv
  BY DEF ShapeInv
<1>2. SUFFICES ASSUME NEW k \in Connections PROVE Handles(k)
  OBVIOUS
<1>3. inbox' = inbox /\ requests' = requests /\ backlog' = backlog /\ clients' = clients /\ index' = index
  BY DEF Broadcast, publish_analysis, publish_supervision, StartPoll, polling, sockets
<1>4. Pending(k)' = Pending(k)
  <2>1. CASE StartPoll
    <3>1. stage # "handle" /\ stage' # "handle"
      BY <2>1 DEF StartPoll, Between
    <3>2. QED BY <1>1, <3>1, NothingPending DEF Pending
  <2>2. CASE ~StartPoll
    <3>1. stage' = stage
      BY <2>2 DEF Broadcast, publish_analysis, publish_supervision, polling
    <3>2. QED BY <1>3, <3>1 DEF Pending
  <2>3. QED BY <2>1, <2>2
<1>5. QED BY <1>1, <1>3, <1>4, HandlesNone DEF Answering

\* The switch hangs up on connections it does not keep.
LEMMA WatchHandles ==
  ASSUME ShapeInv, Watch
  PROVE  \A k \in Connections : Handles(k)
<1>1. TypeOK /\ PositionInv /\ stage # "handle" /\ stage' # "handle"
  BY DEF ShapeInv, Watch
<1>2. SUFFICES ASSUME NEW k \in Connections PROVE Handles(k)
  OBVIOUS
<1>3. Pending(k) = <<>> /\ Pending(k)' = <<>> /\ ~Answering(k)
  BY <1>1, NothingPending, SMTT(40) DEF Pending
<1>4. Range(backlog)' = {}
  BY DEF Watch, Range
<1>5. PICK hung : Hangup(hung) /\ hung \cap Range(clients)' = {}
  <2>1. PICK all, kept : Hangup(all \ Range(kept)) /\ clients' = kept
    BY Zenon DEF Watch
  <2>2. (all \ Range(kept)) \cap Range(clients)' = {}
    BY <2>1
  <2>3. QED BY <2>1, <2>2
<1>6. ASSUME Open(k)' PROVE requests'[k] = requests[k]
  <2>1. k \in Range(clients)'
    BY <1>4, <1>6 DEF Open, Live
  <2>2. QED BY <1>5, <2>1 DEF Hangup
<1>7. QED BY <1>1, <1>3, <1>4, <1>6, HandlesNone

\* Requests are read.
LEMMA ServeHandles ==
  ASSUME ShapeInv, Serve
  PROVE  \A k \in Connections : Handles(k)
<1> DEFINE j == clients[index]
           taken == IF j \in revents.read THEN Min({Len(requests[j]), MaxInbox + 1}) ELSE 0
<1>1. /\ TypeOK /\ PositionInv /\ stage # "handle" /\ stage' = "handle"
      /\ clients \in Seq(Connections) /\ index \in 1..Len(clients)
      /\ requests \in [Connections -> Seq(Request)]
  BY DEF ShapeInv, Serve, PositionInv, TypeOK, ServerType, SocketType
<1>2. SUFFICES ASSUME NEW k \in Connections PROVE Handles(k)
  OBVIOUS
<1>3. Pending(k) = <<>> /\ ~Answering(k)
  BY <1>1, NothingPending
<1>4. /\ inbox' = SubSeq(requests[j], 1, taken)
      /\ requests' = [requests EXCEPT ![j] = SubSeq(requests[j], taken + 1, Len(requests[j]))]
      /\ UNCHANGED <<clients, index, backlog>>
  BY DEF Serve
<1>5. j \in Connections
  BY <1>1, ElementOfSeq
<1>6. requests[j] \in Seq(Request) /\ Len(requests[j]) \in Nat
  BY <1>1, <1>5, LenProperties
<1> HIDE DEF j
<1>7. taken \in 0..Len(requests[j])
  <2>1. MaxInbox + 1 \in Nat
    BY Bounds
  <2>2. Min({Len(requests[j]), MaxInbox + 1}) \in 0..Len(requests[j])
    BY <1>6, <2>1, MinOfTwo
  <2>3. QED BY <1>6, <2>2
<1> HIDE DEF taken
<1>8. requests[j] = SubSeq(requests[j], 1, taken) \o SubSeq(requests[j], taken + 1, Len(requests[j]))
  BY <1>6, <1>7, SplitAt
<1>9. CASE k = j
  <2>1. Pending(k)' = SubSeq(requests[j], 1, taken)
    BY <1>1, <1>4, <1>9 DEF Pending, j
  <2>2. requests'[k] = SubSeq(requests[j], taken + 1, Len(requests[j]))
    BY <1>1, <1>4, <1>5, <1>9
  <2>3. Todo(k)' = requests[k]
    BY <1>8, <1>9, <2>1, <2>2 DEF Todo
  <2>4. <<>> \o requests[k] = requests[k]
    BY <1>6, <1>9, ConcatEmptySeq
  <2>5. QED BY <1>3, <1>4, <2>3, <2>4 DEF Handles, Todo
<1>10. CASE k # j
  <2>1. Pending(k)' = <<>> /\ requests'[k] = requests[k]
    BY <1>1, <1>4, <1>10 DEF Pending, j
  <2>2. QED BY <1>1, <1>3, <1>4, <2>1, HandlesNone
<1>11. QED BY <1>9, <1>10

\* A request is handled: what dispatch does, whatever the command.
LEMMA DispatchAnswers ==
  ASSUME dispatch
  PROVE  Handling /\ \E accepted, v, notes : Answer(accepted, v, notes)
<1>1. ASSUME reject PROVE \E accepted, v, notes : Answer(accepted, v, notes)
  BY <1>1 DEF reject
<1>2. QED
  BY <1>1 DEF dispatch, Refuse, GetState, GetActiveFaults, LoadTopology, SetFault, ClearFault, start_benchmark,
              stop_run, Accepts

\* The request that is handled was the first of its client.
LEMMA DispatchHandles ==
  ASSUME ShapeInv, dispatch
  PROVE  \A k \in Connections : Handles(k)
<1>1. SUFFICES ASSUME NEW k \in Connections PROVE Handles(k)
  OBVIOUS
<1>2. /\ TypeOK /\ inbox \in Seq(Request) /\ inbox # <<>> /\ stage = "handle"
      /\ requests[k] \in Seq(Request)
  BY DispatchAnswers DEF ShapeInv, TypeOK, ServerType, SocketType, Handling
<1>3. inbox' = Tail(inbox) /\ UNCHANGED <<clients, stage, index, backlog, requests>>
  <2>1. PICK accepted, v, notes : Answer(accepted, v, notes)
    BY DispatchAnswers
  <2>2. QED BY <2>1 DEF Answer, sockets
<1>4. inbox' # inbox
  BY <1>2, <1>3, HeadTailProperties
<1>5. CASE clients[index] = k
  <2>1. PICK h \in Seq(Request), t \in Seq(Request), r \in Seq(Request) :
          h = <<Head(inbox)>> /\ t = Tail(inbox) /\ r = requests[k] /\ inbox = h \o t
    <3>1. Head(inbox) \in Request /\ Tail(inbox) \in Seq(Request) /\ inbox = <<Head(inbox)>> \o Tail(inbox)
      BY <1>2, HeadFirst
    <3>2. <<Head(inbox)>> \in Seq(Request)
      BY <3>1, Singleton
    <3>3. QED BY <1>2, <3>1, <3>2
  <2>2. (h \o t) \o r = h \o (t \o r)
    BY ConcatAssociative
  <2>3. Todo(k) = (h \o t) \o r /\ Todo(k)' = t \o r
    BY <1>2, <1>3, <1>5, <2>1 DEF Todo, Pending
  <2>4. Answering(k)
    BY <1>2, <1>4, <1>5 DEF Answering
  <2>5. QED BY <1>3, <2>1, <2>2, <2>3, <2>4, SMTT(40) DEF Handles
<1>6. CASE clients[index] # k
  <2>1. Pending(k)' = Pending(k) /\ ~Answering(k)
    BY <1>3, <1>6 DEF Pending, Answering
  <2>2. QED BY <1>2, <1>3, <2>1, HandlesNone
<1>7. QED BY <1>5, <1>6

\* A client that is forgotten is not served any more.
LEMMA FinishHandles ==
  ASSUME ShapeInv, FinishClient
  PROVE  \A k \in Connections : Handles(k)
<1>1. SUFFICES ASSUME NEW k \in Connections PROVE Handles(k)
  OBVIOUS
<1>2. /\ TypeOK /\ SocketInv /\ clients \in Seq(Connections) /\ index \in 1..Len(clients) /\ inbox = <<>>
      /\ inbox' = inbox /\ backlog' = backlog
  BY DEF ShapeInv, TypeOK, ServerType, PositionInv, FinishClient
<1>3. Pending(k) = <<>> /\ Pending(k)' = <<>> /\ ~Answering(k)
  BY <1>2 DEF Pending, Answering
<1>4. ASSUME Open(k)' PROVE requests'[k] = requests[k]
  <2>1. CASE clients' = RemoveAt(clients, index) /\ Hangup({clients[index]})
    <3>1. clients[index] \notin Range(clients')
      BY <1>2, <2>1, ApartFacts, RemoveApart
    <3>2. clients[index] \notin Range(backlog)
      <4>1. clients[index] \in Range(clients)
        BY <1>2, RangeEquality
      <4>2. QED BY <1>2, <4>1, ApartFacts
    <3>3. k # clients[index]
      BY <1>2, <1>4, <3>1, <3>2 DEF Open, Live
    <3>4. QED BY <2>1, <3>3 DEF Hangup
  <2>2. CASE requests' = requests
    BY <2>2
  <2>3. QED BY <2>1, <2>2 DEF FinishClient
<1>5. QED BY <1>2, <1>3, <1>4, HandlesNone

\* Every step of the switch.
LEMMA ServerHandles ==
  ASSUME ShapeInv, ServerStep
  PROVE  \A k \in Connections : Handles(k)
BY OutsideHandles, WatchHandles, ServeHandles, DispatchHandles, FinishHandles DEF ServerStep, Server, poll

\* What is owed on a connection is carried on by every step of the switch.
LEMMA ServerCarries ==
  ASSUME ShapeInv, ShapeInv', NEW k \in Connections, NEW fresh \in Seq(Event), Effect(k, fresh), Handles(k)
  PROVE  Carried(Owed(k), Owed(k)', Open(k)', revision') /\ (Open(k)' => Open(k))
<1>1. TypeOK /\ TypeOK' /\ FreshInv /\ FreshInv'
  BY DEF ShapeInv
<1>2. Open(k)' => Open(k)
  BY DEF Effect, Handles, Open
<1>3. PICK w \in Seq(Message), q \in Seq(Message), r \in Seq(Message) :
        /\ Way(k) = w \o q
        /\ r \in Due(k)
        /\ Live(k)' => q = <<>> /\ Way(k)' = (w \o r) \o fresh
        /\ ~Live(k)' => Way(k)' = w \o r
  BY DEF Effect, Follows
<1>4. PICK a \in Seq(Item), b \in Seq(Item), u \in Seq(Item), t \in Seq(Item) :
        a = Select(w, Reply) /\ b = Select(q, Reply) /\ u = Rest(k) /\ t = Todo(k)'
  <2>1. Todo(k)' \in Seq(Item)
    BY <1>1, OwedTypeNext, SeqMonotonic DEF Item
  <2>2. QED BY <1>1, <2>1, RepliesFacts, OwedType
<1>5. Replies(k) = a \o b /\ Owed(k) = (a \o b) \o u
  <2>1. Select(w \o q, Reply) = Select(w, Reply) \o Select(q, Reply)
    BY RepliesFacts
  <2>2. QED BY <1>3, <1>4, <2>1 DEF Owed, Replies
<1>6. fresh \in Seq(Message)
  BY SeqMonotonic DEF Message
<1>7. CASE ~Live(k)' /\ ~Open(k)'
  <2>1. r = <<>> /\ w \o <<>> = w
    BY <1>3, <1>7, Glue DEF Due
  <2>2. Replies(k)' = a
    BY <1>3, <1>4, <1>7, <2>1 DEF Replies
  <2>3. Rest(k)' = <<>>
    BY <1>7 DEF Rest
  <2>4. Owed(k)' = a
    BY <2>2, <2>3, ItemGlue DEF Owed
  <2>5. PICK z \in Seq(Item) : z = b \o u
    BY ItemGlue
  <2>6. (a \o b) \o u = a \o z
    <3>1. (a \o b) \o u = a \o (b \o u)
      BY ItemAssoc, ZenonT(60)
    <3>2. QED BY <2>5, <3>1
  <2>7. Open(k)' = FALSE
    BY <1>7 DEF Open, Live
  <2>8. Carried(a \o z, a, FALSE, revision')
    BY CarriedCut
  <2>9. QED BY <1>2, <1>5, <2>4, <2>6, <2>7, <2>8
<1>8. CASE ~Live(k)' /\ Open(k)'
  <2>1. k \in Range(backlog)' /\ k \in Range(backlog)
    BY <1>8 DEF Open, Handles
  <2>2. Way(k)' = <<>>
    <3>1. peer'[k].stream = <<>> /\ peer'[k].outbox = <<>> /\ Coming(k)' = <<>>
      BY <1>1, <1>8, <2>1 DEF FreshInv, Coming
    <3>2. QED BY <3>1, Glue DEF Way
  <2>3. k \notin Range(clients)
    BY <1>1, <2>1, ApartFacts DEF ShapeInv
  <2>4. Way(k) = <<>>
    <3>1. peer[k].stream = <<>> /\ peer[k].outbox = <<>> /\ Coming(k) = <<>>
      BY <1>1, <2>1, <2>3 DEF FreshInv, Coming, Live
    <3>2. QED BY <3>1, Glue DEF Way
  <2>5. ~Answering(k)
    <3>1. ASSUME inbox # <<>> PROVE clients[index] \in Range(clients)
      <4>1. index \in 1..Len(clients) /\ clients \in Seq(Connections)
        BY <1>1, <3>1 DEF ShapeInv, PositionInv, TypeOK, ServerType
      <4>2. QED BY <4>1, RangeEquality
    <3>2. QED BY <2>3, <3>1 DEF Answering
  <2>6. Todo(k) = t /\ Rest(k) = t /\ Rest(k)' = t
    <3>1. Todo(k) = <<>> \o t
      BY <1>4, <1>8, <2>5 DEF Handles
    <3>2. QED BY <1>2, <1>4, <1>8, <3>1, ItemGlue DEF Rest
  <2>7. Replies(k) = <<>> /\ Replies(k)' = <<>>
    BY <2>2, <2>4, RepliesFacts DEF Replies
  <2>8. Owed(k) = t /\ Owed(k)' = t /\ t \o <<>> = t /\ <<>> \in Seq(Item)
    BY <2>6, <2>7, ItemGlue DEF Owed
  <2>9. Carried(t \o <<>>, t, Open(k)', revision')
    BY <2>8, CarriedCut
  <2>10. QED BY <1>2, <2>8, <2>9
<1>9. CASE Live(k)'
  <2>1. Open(k)' /\ Open(k)
    BY <1>2, <1>9 DEF Open
  <2>2. Replies(k)' = a \o Select(r, Reply)
    <3>1. PICK x \in Seq(Message) : x = w \o r
      BY Glue
    <3>2. Select(x \o fresh, Reply) = Select(x, Reply) \o Select(fresh, Reply)
      BY <1>6, RepliesFacts
    <3>3. Select(x, Reply) = Select(w, Reply) \o Select(r, Reply)
      BY <3>1, RepliesFacts
    <3>4. Select(fresh, Reply) = <<>> /\ Select(x, Reply) \in Seq(Item)
      BY RepliesFacts
    <3>5. Select(x, Reply) \o <<>> = Select(x, Reply)
      BY <3>4, ItemGlue
    <3>6. QED BY <1>3, <1>4, <1>9, <3>1, <3>2, <3>3, <3>4, <3>5 DEF Replies
  <2>3. Replies(k) = a
    <3>1. Select(<<>>, Reply) = <<>>
      BY RepliesFacts
    <3>2. QED BY <1>3, <1>4, <1>5, <1>9, <3>1, ItemGlue
  <2>4. Rest(k)' = t /\ Rest(k) = Todo(k)
    BY <1>4, <2>1 DEF Rest
  <2>5. CASE ~Answering(k)
    <3>1. r = <<>> /\ Select(<<>>, Reply) = <<>>
      BY <1>3, <2>5, RepliesFacts DEF Due
    <3>2. Replies(k)' = a
      BY <2>2, <3>1, ItemGlue
    <3>3. Todo(k) = t
      BY <1>4, <2>1, <2>5, ItemGlue DEF Handles
    <3>4. PICK s \in Seq(Item) : s = a \o t
      BY ItemGlue
    <3>5. Owed(k) = s /\ Owed(k)' = s /\ s \o <<>> = s /\ <<>> \in Seq(Item)
      BY <2>3, <2>4, <3>2, <3>3, <3>4, ItemGlue DEF Owed
    <3>6. Carried(s \o <<>>, s, Open(k)', revision')
      BY <3>5, CarriedCut
    <3>7. QED BY <1>2, <3>5, <3>6
  <2>6. CASE Answering(k)
    <3>1. PICK m \in Reply : r = <<m>> /\ m.request_id = Head(inbox).request_id
      BY <1>3, <1>9, <2>6 DEF Due
    <3>2. m.revision = revision'
      <4>1. Range(<<m>>) = {m}
        BY DEF Range
      <4>2. QED BY <1>3, <3>1, <4>1 DEF Due
    <3>3. PICK h \in Item : h = Head(inbox)
      <4>1. inbox \in Seq(Request) /\ inbox # <<>>
        BY <1>1, <2>6 DEF TypeOK, ServerType, Answering
      <4>2. QED BY <4>1, HeadFirst DEF Item
    <3>4. Todo(k) = <<h>> \o t
      BY <1>4, <2>1, <2>6, <3>3 DEF Handles
    <3>5. Owed(k) = a \o (<<h>> \o t)
      BY <2>3, <2>4, <3>4 DEF Owed
    <3>6. Owed(k)' = (a \o <<m>>) \o t
      BY <2>2, <2>4, <3>1, RepliesFacts DEF Owed
    <3>7. a \o (<<h>> \o t) = (a \o <<h>>) \o t
      <4>1. PICK hh \in Seq(Item) : hh = <<h>>
        BY ItemGlue
      <4>2. (a \o hh) \o t = a \o (hh \o t)
        BY ItemAssoc, ZenonT(60)
      <4>3. QED BY <4>1, <4>2
    <3>8. m \in Item /\ m.request_id = h.request_id
      BY <3>1, <3>3 DEF Item
    <3>9. PICK open, v : open = Open(k)' /\ v = revision'
      OBVIOUS
    <3>10. Carried((a \o <<h>>) \o t, (a \o <<m>>) \o t, open, v)
      BY <3>2, <3>8, <3>9, CarriedAnswer
    <3>11. QED BY <1>2, <3>5, <3>6, <3>7, <3>9, <3>10
  <2>7. QED BY <2>5, <2>6
<1>10. QED BY <1>7, <1>8, <1>9

-----------------------------------------------------------------------------
(* Requests and answers: what a step is to a client.                       *)

\* What the history knows of the requests of client c.
Ledger(c) == <<history.asked[c], history.answered[c], history.begun[c]>>

\* What a step is to a client: others act,
Waits(c) ==
  /\ client'[c] = client[c] /\ Ledger(c)' = Ledger(c)
  /\ LET k == client[c].socket
     IN  c \in Connected => Carried(Owed(k), Owed(k)', Open(k)', revision') /\ (Open(k)' => Open(k))

\* or the client sends a request, after which old and that are owed,
Asks(c, id, old) ==
  LET k == client[c].socket
  IN  /\ history'.asked[c] = history.asked[c] + 1
      /\ \E q \in Request : q.request_id = id /\ Owed(k)' = IF Open(k) THEN old \o <<q>> ELSE old

Stays(c) ==
  LET k == client[c].socket
  IN  /\ c \in Connected /\ client'[c].socket = k /\ client'[c].outcome = client[c].outcome
      /\ Open(k)' <=> Open(k)

Sends(c) ==
  /\ Stays(c) /\ client'[c] = client[c] /\ client[c].phase = "idle"
  /\ history'.answered[c] = history.answered[c] /\ history'.begun[c] = history.begun[c]
  /\ Asks(c, 0, Owed(client[c].socket))

Starts(c) ==
  /\ Stays(c) /\ client[c].phase = "idle" /\ client'[c].phase = "query" /\ client'[c].sequence = 1
  /\ history'.answered[c] = history.answered[c] /\ history'.begun[c] = revision
  /\ Asks(c, 1, Owed(client[c].socket))

\* or takes a message,
Hears(c) ==
  LET k == client[c].socket
  IN  /\ Stays(c) /\ client'[c] = client[c]
      /\ history'.asked[c] = history.asked[c] /\ history'.begun[c] = history.begun[c]
      /\ \/ /\ history'.answered[c] = history.answered[c] + 1
            /\ \E m \in Reply : Owed(k) = <<m>> \o Owed(k)'
         \/ history'.answered[c] = history.answered[c] /\ Owed(k)' = Owed(k)

\* which is the answer that resync goes on with,
Learns(c) ==
  LET k == client[c].socket
  IN  /\ Stays(c) /\ client[c].phase = "query"
      /\ history'.answered[c] = history.answered[c] + 1 /\ history'.begun[c] = history.begun[c]
      /\ \E m \in Reply, x \in Seq(Item) :
           /\ m \in Range(Way(k)) /\ m.request_id = client[c].sequence /\ client'[c].revision = m.revision
           /\ Owed(k) = <<m>> \o x
           /\ \/ /\ client'[c].phase = "settle" /\ client'[c].sequence = client[c].sequence
                 /\ history'.asked[c] = history.asked[c] /\ Owed(k)' = x
              \/ /\ client'[c].phase = "query" /\ client'[c].sequence = client[c].sequence + 1
                 /\ Asks(c, client[c].sequence + 1, x)

\* or resync ends,
Ends(c) ==
  LET k == client[c].socket
  IN  /\ client'[c].socket = k /\ client'[c].revision = client[c].revision
      /\ client'[c].phase = "idle" /\ client'[c].sequence = client[c].sequence /\ Ledger(c)' = Ledger(c)
      /\ client[c].phase = "settle" \/ client'[c].outcome = "failed"
      /\ c \in Connected => Owed(k)' = Owed(k) /\ (Open(k)' <=> Open(k))

\* or it connects or leaves.
Turns(c) ==
  LET k == client[c].socket
  IN  /\ client[c].phase = "idle" /\ client'[c].phase = "idle" /\ client'[c].outcome = "none"
      /\ history'.asked[c] = 0 /\ history'.answered[c] = 0 /\ history'.begun[c] = history.begun[c]
      /\ c \in Connected' => Owed(k)' = <<>>

Acts(c) == Waits(c) \/ Sends(c) \/ Hears(c) \/ Learns(c) \/ Ends(c) \/ Turns(c)

\* A connection nothing happens to.
LEMMA OwedStays ==
  ASSUME SwitchRests, NEW k \in Connections, peer'[k] = peer[k], requests'[k] = requests[k],
         k \in Range(backlog)' <=> k \in Range(backlog)
  PROVE  Owed(k)' = Owed(k) /\ (Open(k)' <=> Open(k))
<1>1. Way(k)' = Way(k) /\ (Live(k)' <=> Live(k))
  BY DEF SwitchRests, Way, Coming, Live
<1>2. Todo(k)' = Todo(k)
  BY DEF SwitchRests, Todo, Pending
<1>3. QED BY <1>1, <1>2 DEF Owed, Replies, Rest, Open

\* A client to which nothing is owed anew.
LEMMA WaitsWhenSame ==
  ASSUME TypeOK, NEW c \in Clients, client'[c] = client[c], Ledger(c)' = Ledger(c),
         c \in Connected => /\ Owed(client[c].socket)' = Owed(client[c].socket)
                            /\ Open(client[c].socket)' => Open(client[c].socket)
  PROVE  Waits(c)
<1>1. ASSUME c \in Connected
      PROVE  Carried(Owed(client[c].socket), Owed(client[c].socket)', Open(client[c].socket)', revision')
  <2>1. PICK s \in Seq(Item) : s = Owed(client[c].socket)
    BY <1>1, SocketFacts, OwedType
  <2>2. s \o <<>> = s /\ <<>> \in Seq(Item)
    BY ItemGlue
  <2>3. PICK open, v : open = Open(client[c].socket)' /\ v = revision'
    OBVIOUS
  <2>4. Carried(s \o <<>>, s, open, v)
    BY <2>2, CarriedCut
  <2>5. QED BY <1>1, <2>1, <2>2, <2>3, <2>4
<1>2. PICK k : k = client[c].socket
  OBVIOUS
<1>3. QED BY <1>1 DEF Waits

\* A step of one client is nothing to another.
LEMMA OthersWait ==
  ASSUME ShapeInv, SwitchRests, NEW c \in Clients, NEW d \in Clients, d # c, client'[d] = client[d],
         Ledger(d)' = Ledger(d),
         \A j \in Connections : j # client[c].socket => peer'[j] = peer[j] /\ requests'[j] = requests[j],
         \A j \in Connections : j <= dialled => (j \in Range(backlog)' <=> j \in Range(backlog))
  PROVE  Waits(d)
<1>1. TypeOK /\ SocketInv
  BY DEF ShapeInv
<1>2. ASSUME d \in Connected
      PROVE  /\ Owed(client[d].socket)' = Owed(client[d].socket)
             /\ Open(client[d].socket)' => Open(client[d].socket)
  <2>1. PICK j \in Connections : j = client[d].socket /\ j # client[c].socket /\ j <= dialled
    BY <1>1, <1>2, SocketFacts DEF SocketInv, Connected
  <2>2. Owed(j)' = Owed(j) /\ (Open(j)' <=> Open(j))
    BY <2>1, OwedStays
  <2>3. QED BY <2>1, <2>2
<1>3. QED BY <1>1, <1>2, WaitsWhenSame

\* A request that is sent is added to what is to be done, unless the connection is lost.
LEMMA TransmitAsks ==
  ASSUME TypeOK, SwitchRests, backlog' = backlog, NEW c \in Connected, NEW k \in Connections,
         k = client[c].socket, peer'[k].congested = peer[k].congested, NEW id \in Nat,
         NEW command \in ControlCommand \cup {"malformed"}, NEW v \in Nat, NEW target \in Targets \cup {NoTarget},
         Transmit(c, id, command, v, target)
  PROVE  /\ Open(k)' <=> Open(k)
         /\ \E q \in Request : q.request_id = id /\ Rest(k)' = IF Open(k) THEN Rest(k) \o <<q>> ELSE Rest(k)
         /\ \A j \in Connections : j # k => requests'[j] = requests[j]
<1>1. requests \in [Connections -> Seq(Request)] /\ clients \in Seq(Connections) /\ backlog \in Seq(Connections)
  BY DEF TypeOK, ServerType, SocketType
<1>2. PICK q \in Request : q = [request_id |-> id, command |-> command, revision |-> v, target |-> target]
  BY DEF Request
<1>3. q.request_id = id
  BY <1>2
<1>4. requests' = IF Dropped(k) THEN requests ELSE [requests EXCEPT ![k] = Append(requests[k], q)]
  BY <1>2 DEF Transmit
<1>5. Open(k)' <=> Open(k)
  BY DEF SwitchRests, Open, Live
<1>6. Open(k) => ~Dropped(k)
  <2>1. Range(clients \o backlog) = Range(clients) \cup Range(backlog)
    BY <1>1, RangeConcatenation
  <2>2. QED BY <2>1 DEF Open, Live, Dropped
<1>7. CASE Open(k)
  <2>1. requests'[k] = Append(requests[k], q)
    BY <1>1, <1>4, <1>6, <1>7
  <2>2. PICK p \in Seq(Request), r \in Seq(Request), qq \in Seq(Request) :
          p = Pending(k) /\ r = requests[k] /\ qq = <<q>>
    BY <1>1, OwedType, Singleton
  <2>3. requests'[k] = r \o qq
    BY <2>1, <2>2, AppendIsConcat
  <2>4. Pending(k)' = p
    BY <2>2 DEF SwitchRests, Pending
  <2>5. (p \o r) \o qq = p \o (r \o qq)
    <3>1. p \in Seq(Item) /\ r \in Seq(Item) /\ qq \in Seq(Item)
      BY SeqMonotonic, SMTT(40) DEF Item
    <3>2. QED BY <3>1, ItemAssoc, Zenon
  <2>6. Rest(k)' = p \o (r \o qq) /\ Rest(k) = p \o r
    BY <1>5, <1>7, <2>2, <2>3, <2>4 DEF Rest, Todo
  <2>7. Rest(k)' = Rest(k) \o <<q>>
    BY <2>2, <2>5, <2>6
  <2>8. QED BY <1>1, <1>3, <1>4, <1>5, <1>7, <2>7
<1>8. CASE ~Open(k)
  <2>1. Rest(k)' = Rest(k)
    BY <1>5, <1>8 DEF Rest
  <2>2. QED BY <1>1, <1>3, <1>4, <1>5, <1>8, <2>1
<1>9. QED BY <1>7, <1>8

\* What is owed ends with the request.
LEMMA OwedEnds ==
  ASSUME NEW r \in Seq(Item), NEW t \in Seq(Item), NEW q \in Item, NEW open
  PROVE  r \o (IF open THEN t \o <<q>> ELSE t) = IF open THEN (r \o t) \o <<q>> ELSE r \o t
<1>1. PICK qq \in Seq(Item) : qq = <<q>>
  BY ItemGlue
<1>2. (r \o t) \o qq = r \o (t \o qq)
  BY ItemAssoc, Zenon
<1>3. QED BY <1>1, <1>2

\* A command is sent.
LEMMA SendActs ==
  ASSUME ShapeInv, NEW c \in Clients, NEW command \in Commands, NEW target \in Targets \cup {NoTarget},
         send(c, command, target)
  PROVE  \A d \in Clients : Acts(d)
<1>1. /\ TypeOK /\ client \in [Clients -> Client] /\ history \in History /\ revision \in Nat /\ c \in Connected
      /\ client[c].phase = "idle"
  BY DEF ShapeInv, TypeOK, ClientType, ControllerType, send, Connected
<1>2. SwitchRests /\ UNCHANGED <<peer, backlog, client>>
  BY DEF send, SwitchRests, controller, service, polling
<1>3. PICK k \in Connections : k = client[c].socket
  BY <1>1, SocketFacts
<1>4. /\ Open(k)' <=> Open(k)
      /\ \E q \in Request : q.request_id = 0 /\ Rest(k)' = IF Open(k) THEN Rest(k) \o <<q>> ELSE Rest(k)
      /\ \A j \in Connections : j # k => requests'[j] = requests[j]
  BY <1>1, <1>2, <1>3, TransmitAsks, ChannelConfig, ZenonT(60) DEF send
<1>5. PICK q \in Request : q.request_id = 0 /\ Rest(k)' = IF Open(k) THEN Rest(k) \o <<q>> ELSE Rest(k)
  BY <1>4
<1>6. /\ history'.asked[c] = history.asked[c] + 1 /\ history'.answered = history.answered
      /\ history'.begun = history.begun /\ \A d \in Clients : d # c => history'.asked[d] = history.asked[d]
  BY <1>1 DEF send, History
<1>7. Owed(k)' = IF Open(k) THEN Owed(k) \o <<q>> ELSE Owed(k)
  <2>1. Replies(k)' = Replies(k)
    BY <1>2 DEF SwitchRests, Replies, Way, Coming, Live
  <2>2. PICK r \in Seq(Item), t \in Seq(Item), x \in Item : r = Replies(k) /\ t = Rest(k) /\ x = q
    BY <1>1, OwedType DEF Item
  <2>3. PICK open : open = Open(k)
    OBVIOUS
  <2>4. Owed(k)' = r \o (IF open THEN t \o <<x>> ELSE t) /\ Owed(k) = r \o t
    BY <1>5, <2>1, <2>2, <2>3 DEF Owed
  <2>5. Owed(k)' = IF open THEN (r \o t) \o <<x>> ELSE r \o t
    BY <2>4, OwedEnds
  <2>6. QED BY <2>2, <2>3, <2>4, <2>5
<1>8. Sends(c)
  BY <1>1, <1>2, <1>3, <1>4, <1>5, <1>6, <1>7 DEF Sends, Stays, Asks
<1>9. ASSUME NEW d \in Clients, d # c PROVE Waits(d)
  BY <1>2, <1>3, <1>4, <1>6, <1>9, OthersWait DEF Ledger
<1>10. QED BY <1>8, <1>9 DEF Acts

\* A resync is started.
LEMMA ResyncStarts ==
  ASSUME ShapeInv, NEW c \in Clients, resync(c)
  PROVE  Starts(c) /\ \A d \in Clients : d # c => Waits(d)
<1>1. /\ TypeOK /\ client \in [Clients -> Client] /\ history \in History /\ revision \in Nat /\ c \in Connected
      /\ client[c].phase = "idle" /\ client[c] \in Client
  BY DEF ShapeInv, TypeOK, ClientType, ControllerType, resync, Connected
<1>2. SwitchRests /\ UNCHANGED <<peer, backlog>>
  BY DEF resync, SwitchRests, controller, service, polling
<1>3. PICK k \in Connections : k = client[c].socket
  BY <1>1, SocketFacts
<1>4. /\ Open(k)' <=> Open(k)
      /\ \E q \in Request : q.request_id = 1 /\ Rest(k)' = IF Open(k) THEN Rest(k) \o <<q>> ELSE Rest(k)
      /\ \A j \in Connections : j # k => requests'[j] = requests[j]
  <2>1. QUERIES[1] \in ControlCommand /\ client[c].revision \in Nat
    BY <1>1, QueriesAreCommands DEF Client
  <2>2. Transmit(c, 1, QUERIES[1], client[c].revision, NoTarget)
    BY DEF resync
  <2>3. QED BY <1>1, <1>2, <1>3, <2>1, <2>2, TransmitAsks
<1>5. PICK q \in Request : q.request_id = 1 /\ Rest(k)' = IF Open(k) THEN Rest(k) \o <<q>> ELSE Rest(k)
  BY <1>4
<1>6. /\ history'.asked[c] = history.asked[c] + 1 /\ history'.begun[c] = revision
      /\ \A d \in Clients : /\ history'.answered[d] = history.answered[d]
                            /\ d # c => history'.asked[d] = history.asked[d] /\ history'.begun[d] = history.begun[d]
  <2>0. /\ [history.asked EXCEPT ![c] = @ + 1] \in [Clients -> Nat]
        /\ [history.begun EXCEPT ![c] = revision] \in [Clients -> Nat]
    BY <1>1 DEF History
  <2>1. PICK f \in [Clients -> Nat], g \in [Clients -> Nat] :
          f = [history.asked EXCEPT ![c] = @ + 1] /\ g = [history.begun EXCEPT ![c] = revision]
    BY <2>0
  <2>2. history' = [[history EXCEPT !.asked = f] EXCEPT !.begun = g]
    BY <1>1, <2>1 DEF resync, History
  <2>3. history'.asked = f /\ history'.begun = g /\ history'.answered = history.answered
    BY <1>1, <2>2 DEF History
  <2>4. QED BY <1>1, <2>1, <2>3 DEF History
<1>7. Owed(k)' = IF Open(k) THEN Owed(k) \o <<q>> ELSE Owed(k)
  <2>1. Replies(k)' = Replies(k)
    BY <1>2 DEF SwitchRests, Replies, Way, Coming, Live
  <2>2. PICK r \in Seq(Item), t \in Seq(Item), x \in Item : r = Replies(k) /\ t = Rest(k) /\ x = q
    BY <1>1, OwedType DEF Item
  <2>3. PICK open : open = Open(k)
    OBVIOUS
  <2>4. Owed(k)' = r \o (IF open THEN t \o <<x>> ELSE t) /\ Owed(k) = r \o t
    BY <1>5, <2>1, <2>2, <2>3 DEF Owed
  <2>5. Owed(k)' = IF open THEN (r \o t) \o <<x>> ELSE r \o t
    BY <2>4, OwedEnds
  <2>6. QED BY <2>2, <2>3, <2>4, <2>5
<1>8. PICK n : n = [client[c] EXCEPT !.phase = "query", !.query = 1, !.attempt = 0, !.sequence = 1]
  OBVIOUS
<1>9. client' = [client EXCEPT ![c] = n]
  BY <1>1, <1>8 DEF resync
<1>10. n.phase = "query" /\ n.sequence = 1 /\ n.socket = client[c].socket /\ n.outcome = client[c].outcome
  BY <1>1, <1>8 DEF Client
<1>11. client'[c] = n /\ \A d \in Clients : d # c => client'[d] = client[d]
  BY <1>1, <1>9
<1>12. Starts(c)
  BY <1>1, <1>3, <1>4, <1>5, <1>6, <1>7, <1>10, <1>11 DEF Starts, Stays, Asks
<1>13. ASSUME NEW d \in Clients, d # c PROVE Waits(d)
  BY <1>2, <1>3, <1>4, <1>6, <1>11, <1>13, OthersWait DEF Ledger
<1>14. QED BY <1>12, <1>13

\* A resync ends.
LEMMA EndActs ==
  ASSUME ShapeInv, NEW c \in Clients, ResyncFails(c) \/ ResyncReturns(c)
  PROVE  \A d \in Clients : Acts(d)
<1>1. TypeOK /\ client \in [Clients -> Client] /\ client[c] \in Client
  BY DEF ShapeInv, TypeOK, ClientType
<1>2. SwitchRests /\ UNCHANGED <<peer, backlog, requests, history>>
  BY DEF ResyncFails, ResyncReturns, SwitchRests, servervars, controller, service, polling, sockets
<1>3. PICK o \in {"failed", "synced"} : /\ client' = [client EXCEPT ![c].phase = "idle", ![c].outcome = o]
                                        /\ client[c].phase = "settle" \/ o = "failed"
  BY DEF ResyncFails, ResyncReturns
<1>4. PICK n : n = [client[c] EXCEPT !.phase = "idle", !.outcome = o]
  OBVIOUS
<1>5. /\ n.phase = "idle" /\ n.outcome = o /\ n.socket = client[c].socket /\ n.revision = client[c].revision
      /\ n.sequence = client[c].sequence
  BY <1>1, <1>4 DEF Client
<1>6. client'[c] = n /\ \A d \in Clients : d # c => client'[d] = client[d]
  BY <1>1, <1>3, <1>4
<1>7. Ends(c)
  <2>1. ASSUME c \in Connected
        PROVE  /\ Owed(client[c].socket)' = Owed(client[c].socket)
               /\ Open(client[c].socket)' <=> Open(client[c].socket)
    <3>1. PICK k \in Connections : k = client[c].socket
      BY <1>1, <2>1, SocketFacts
    <3>2. Owed(k)' = Owed(k) /\ (Open(k)' <=> Open(k))
      BY <1>2, OwedStays
    <3>3. client'[c].socket = k
      BY <1>5, <1>6, <3>1
    <3>4. QED BY <3>1, <3>2, <3>3
  <2>2. QED BY <1>2, <1>3, <1>5, <1>6, <2>1 DEF Ends, Ledger
<1>8. ASSUME NEW d \in Clients, d # c PROVE Waits(d)
  BY <1>2, <1>6, <1>8, OthersWait DEF Ledger
<1>9. QED BY <1>7, <1>8 DEF Acts

\* What is owed begins with the reply that is taken.
LEMMA TakenFromOwed ==
  ASSUME TypeOK, TypeOK', NEW k \in Connections, NEW m \in Message, Way(k) = <<m>> \o Way(k)'
  PROVE  /\ m \in Reply => Replies(k) = <<m>> \o Replies(k)'
         /\ m \in Event => Replies(k) = Replies(k)'
<1>1. PICK mm \in Seq(Message), w \in Seq(Message) : mm = <<m>> /\ w = Way(k)'
  BY WayFactsNext, Glue
<1>2. Select(mm \o w, Reply) = Select(mm, Reply) \o Select(w, Reply)
  BY RepliesFacts
<1>3. Replies(k) = Select(mm, Reply) \o Replies(k)'
  BY <1>1, <1>2 DEF Replies
<1>4. <<>> \o Replies(k)' = Replies(k)'
  BY OwedTypeNext, ItemGlue
<1>5. m \in Reply => Select(mm, Reply) = <<m>>
  BY <1>1, RepliesFacts
<1>6. m \in Event => Select(mm, Reply) = <<>>
  BY <1>1, RepliesFacts
<1>7. QED BY <1>3, <1>4, <1>5, <1>6

\* A caller, or resync, takes a message that is not an answer to resync.
LEMMA HearActs ==
  ASSUME ShapeInv, ShapeInv', NEW c \in Clients, receive(c) \/ ResyncHears(c)
  PROVE  \A d \in Clients : Acts(d)
<1>1. TypeOK /\ TypeOK' /\ client \in [Clients -> Client] /\ history \in History
  BY DEF ShapeInv, TypeOK, ClientType
<1>2. SwitchRests /\ UNCHANGED <<backlog, requests, client>>
  BY DEF receive, ResyncHears, SwitchRests, controller, service, polling, sockets
<1>3. PICK m \in NextMessage(c) : Take(c, m)
  BY DEF receive, ResyncHears
<1>4. c \in Connected /\ peer[client[c].socket].stream # <<>> /\ m = Head(peer[client[c].socket].stream)
  BY <1>3 DEF NextMessage, Connected
<1>5. PICK k \in Connections : k = client[c].socket
  BY <1>1, <1>4, SocketFacts
<1>6. peer' = [peer EXCEPT ![k].stream = Tail(@)] /\ UNCHANGED <<clients, outgoing>>
  BY <1>2, <1>3, <1>5 DEF Take, SwitchRests
<1>7. /\ m \in Message /\ Way(k) = <<m>> \o Way(k)' /\ (Live(k)' <=> Live(k))
      /\ \A j \in Connections : j # k => peer'[j] = peer[j]
  BY <1>1, <1>4, <1>5, <1>6, HeadIsTaken
<1>8. /\ \A d \in Clients : history'.asked[d] = history.asked[d] /\ history'.begun[d] = history.begun[d]
      /\ \A d \in Clients : d # c => history'.answered[d] = history.answered[d]
      /\ history'.answered[c] = IF m.kind = "event" THEN history.answered[c] ELSE history.answered[c] + 1
  <2>1. CASE m.kind = "event"
    <3>1. history' = [history EXCEPT !.heard[c] = m.sequence]
      BY <1>3, <2>1 DEF Take
    <3>2. QED BY <1>1, <2>1, <3>1 DEF History
  <2>2. CASE m.kind # "event"
    <3>1. history' = [history EXCEPT !.answered[c] = @ + 1]
      BY <1>3, <2>2 DEF Take
    <3>2. QED BY <1>1, <2>2, <3>1 DEF History
  <2>3. QED BY <2>1, <2>2
<1>9. (Open(k)' <=> Open(k)) /\ Rest(k)' = Rest(k)
  <2>1. Open(k)' <=> Open(k)
    BY <1>2, <1>7 DEF Open
  <2>2. Todo(k)' = Todo(k)
    BY <1>2 DEF SwitchRests, Todo, Pending
  <2>3. QED BY <2>1, <2>2 DEF Rest
<1>10. Hears(c)
  <2>1. CASE m \in Event
    <3>1. Owed(k)' = Owed(k)
      BY <1>1, <1>7, <1>9, <2>1, TakenFromOwed DEF Owed
    <3>2. m.kind = "event"
      BY <1>7, <2>1, MessageFacts
    <3>3. QED BY <1>2, <1>4, <1>5, <1>8, <1>9, <3>1, <3>2 DEF Hears, Stays
  <2>2. CASE m \in Reply
    <3>1. Replies(k) = <<m>> \o Replies(k)'
      BY <1>1, <1>7, <2>2, TakenFromOwed
    <3>2. PICK mm \in Seq(Item), a \in Seq(Item), t \in Seq(Item) : mm = <<m>> /\ a = Replies(k)' /\ t = Rest(k)
      BY <1>1, <2>2, OwedType, OwedTypeNext, ItemGlue DEF Item
    <3>3. (mm \o a) \o t = mm \o (a \o t)
      BY ItemAssoc, Zenon
    <3>4. Owed(k) = <<m>> \o Owed(k)'
      BY <1>9, <3>1, <3>2, <3>3 DEF Owed
    <3>5. m.kind # "event"
      BY <1>7, <2>2, MessageFacts
    <3>6. QED BY <1>2, <1>4, <1>5, <1>8, <1>9, <2>2, <3>4, <3>5 DEF Hears, Stays
  <2>3. QED BY <1>7, <2>1, <2>2 DEF Message
<1>11. ASSUME NEW d \in Clients, d # c PROVE Waits(d)
  BY <1>2, <1>5, <1>7, <1>8, <1>11, OthersWait DEF Ledger
<1>12. QED BY <1>10, <1>11 DEF Acts

\* resync takes the answer to its query, and may ask the next one.
LEMMA LearnActs ==
  ASSUME ShapeInv, ShapeInv', NEW c \in Clients, ResyncAnswered(c)
  PROVE  \A d \in Clients : Acts(d)
<1>1. /\ TypeOK /\ TypeOK' /\ client \in [Clients -> Client] /\ history \in History
      /\ requests \in [Connections -> Seq(Request)] /\ client[c] \in Client
  BY DEF ShapeInv, TypeOK, ClientType, SocketType
<1>2. SwitchRests /\ UNCHANGED <<backlog, dialled>> /\ client[c].phase = "query"
  BY DEF ResyncAnswered, SwitchRests, controller, service, polling
<1> DEFINE moved(m) == m.revision # client[c].revision
           again(m) == ~m.accepted /\ moved(m) /\ client[c].attempt = 0
           next(m) == IF again(m) THEN client[c].query ELSE client[c].query + 1
           told == [history EXCEPT !.answered[c] = @ + 1]
           Last_(m) == /\ client' = [client EXCEPT ![c].revision = m.revision, ![c].phase = "settle"]
                       /\ history' = told
                       /\ UNCHANGED requests
           Next_(m) == /\ client' = [client EXCEPT ![c].revision = m.revision, ![c].query = next(m),
                                                   ![c].attempt = IF again(m) THEN 1 ELSE 0,
                                                   ![c].sequence = @ + 1]
                       /\ Transmit(c, client[c].sequence + 1, QUERIES[next(m)], m.revision, NoTarget)
                       /\ history' = [told EXCEPT !.asked[c] = @ + 1]
<1>3. PICK m \in NextMessage(c) :
        /\ m.kind = "reply" /\ m.request_id = client[c].sequence
        /\ peer' = [peer EXCEPT ![client[c].socket].stream = Tail(@)]
        /\ IF next(m) > Len(QUERIES) THEN Last_(m) ELSE Next_(m)
  <2>1. PICK reply \in NextMessage(c) :
          /\ IsAnswer(c, reply)
          /\ peer' = [peer EXCEPT ![client[c].socket].stream = Tail(@)]
          /\ IF next(reply) > Len(QUERIES)
             THEN /\ client' = [client EXCEPT ![c].revision = Learned(c, reply), ![c].phase = "settle"]
                  /\ history' = told
                  /\ UNCHANGED requests
             ELSE /\ client' = [client EXCEPT ![c].revision = Learned(c, reply), ![c].query = next(reply),
                                              ![c].attempt = IF again(reply) THEN 1 ELSE 0,
                                              ![c].sequence = @ + 1]
                  /\ Transmit(c, client[c].sequence + 1, QUERIES[next(reply)], Learned(c, reply), NoTarget)
                  /\ history' = [told EXCEPT !.asked[c] = @ + 1]
    BY ZenonT(60) DEF ResyncAnswered
  <2>2. reply.kind = "reply" /\ reply.request_id = client[c].sequence
    BY <2>1 DEF IsAnswer
  <2>3. next(reply) > Len(QUERIES) => Last_(reply)
    BY <2>1 DEF Learned
  <2>4. ~(next(reply) > Len(QUERIES)) => Next_(reply)
    BY <2>1 DEF Learned
  <2> HIDE DEF Last_, Next_, next
  <2>5. QED BY <2>1, <2>2, <2>3, <2>4
<1>4. c \in Connected /\ peer[client[c].socket].stream # <<>> /\ m = Head(peer[client[c].socket].stream)
  BY <1>3 DEF NextMessage, Connected
<1>5. PICK k \in Connections : k = client[c].socket
  BY <1>1, <1>4, SocketFacts
<1>6. peer' = [peer EXCEPT ![k].stream = Tail(@)] /\ UNCHANGED <<clients, outgoing>>
  BY <1>2, <1>3, <1>5 DEF SwitchRests
<1>7. /\ m \in Message /\ m \in Range(Way(k)) /\ Way(k) = <<m>> \o Way(k)' /\ (Live(k)' <=> Live(k))
      /\ peer'[k].congested = peer[k].congested
      /\ \A j \in Connections : j # k => peer'[j] = peer[j]
  BY <1>1, <1>4, <1>5, <1>6, HeadIsTaken
<1>8. m \in Reply /\ m.revision \in Nat
  BY <1>3, <1>7, MessageFacts
<1>9. PICK a \in Seq(Item), t \in Seq(Item), mm \in Seq(Item) : a = Replies(k)' /\ t = Rest(k) /\ mm = <<m>>
  BY <1>1, <1>8, OwedType, OwedTypeNext, ItemGlue DEF Item
<1>10. PICK x \in Seq(Item) : x = a \o t
  BY ItemGlue
<1>11. Owed(k) = <<m>> \o x
  <2>1. Replies(k) = <<m>> \o Replies(k)'
    BY <1>1, <1>7, <1>8, TakenFromOwed
  <2>2. (mm \o a) \o t = mm \o (a \o t)
    BY ItemAssoc, Zenon
  <2>3. QED BY <1>9, <1>10, <2>1, <2>2 DEF Owed
<1>12. Open(k)' <=> Open(k)
  BY <1>2, <1>7 DEF Open
<1>13. PICK f \in [Clients -> Nat], g \in [Clients -> Nat] :
        /\ f = [history.answered EXCEPT ![c] = @ + 1] /\ g = [history.asked EXCEPT ![c] = @ + 1]
  <2>1. /\ [history.answered EXCEPT ![c] = @ + 1] \in [Clients -> Nat]
        /\ [history.asked EXCEPT ![c] = @ + 1] \in [Clients -> Nat]
    BY <1>1, SMTT(40) DEF History
  <2>2. QED BY <2>1
<1>14. PICK h \in History : h = [history EXCEPT !.answered = f]
  <2>1. [history EXCEPT !.answered = f] \in History
    BY <1>1, HistoryWith
  <2>2. QED BY <2>1
<1>15. told = h /\ h.begun = history.begun /\ h.answered = f /\ h.asked = history.asked
  BY <1>1, <1>13, <1>14 DEF History
<1>16. f[c] = history.answered[c] + 1 /\ g[c] = history.asked[c] + 1
       /\ \A d \in Clients : d # c => f[d] = history.answered[d] /\ g[d] = history.asked[d]
  BY <1>1, <1>13 DEF History
<1>17. PICK n \in Client : n = [client[c] EXCEPT !.revision = m.revision]
  <2>1. [client[c] EXCEPT !.revision = m.revision] \in Client
    BY <1>1, <1>8, ClientWith
  <2>2. QED BY <2>1
<1>18. /\ n.revision = m.revision /\ n.socket = client[c].socket /\ n.outcome = client[c].outcome
       /\ n.sequence = client[c].sequence /\ n.phase = "query"
  BY <1>1, <1>2, <1>17 DEF Client
<1>19. CASE Last_(m)
  <2>1. [n EXCEPT !.phase = "settle"] \in Client
    BY ClientWith
  <2>2. PICK p \in Client : p = [n EXCEPT !.phase = "settle"]
    BY <2>1
  <2>3. /\ p.socket = client[c].socket /\ p.revision = m.revision /\ p.outcome = client[c].outcome
        /\ p.phase = "settle" /\ p.sequence = client[c].sequence
    BY <1>18, <2>2 DEF Client
  <2>4. client' = [client EXCEPT ![c] = p]
    BY <1>1, <1>17, <1>19, <2>2
  <2>5. client'[c] = p /\ \A d \in Clients : d # c => client'[d] = client[d]
    BY <1>1, <2>4
  <2>6. history'.answered = f /\ history'.asked = history.asked /\ history'.begun = history.begun
        /\ requests' = requests
    BY <1>15, <1>19
  <2>7. Owed(k)' = x
    <3>1. Todo(k)' = Todo(k)
      BY <1>2, <2>6 DEF SwitchRests, Todo, Pending
    <3>2. QED BY <1>9, <1>10, <1>12, <3>1 DEF Owed, Rest
  <2>8. Learns(c)
    <3>1. Stays(c)
      BY <1>4, <1>5, <1>12, <2>3, <2>5 DEF Stays
    <3>2. client'[c].socket = k
      BY <1>5, <2>3, <2>5
    <3> HIDE DEF Last_, Next_, again, moved, next, told
    <3>3. QED BY <1>2, <1>3, <1>5, <1>7, <1>8, <1>11, <1>16, <2>3, <2>5, <2>6, <2>7, <3>1, <3>2 DEF Learns
  <2>9. ASSUME NEW d \in Clients, d # c PROVE Waits(d)
    <3> HIDE DEF Last_, Next_, again, moved, next, told
    <3>1. QED BY <1>2, <1>5, <1>7, <1>16, <2>5, <2>6, <2>9, OthersWait DEF Ledger
  <2>10. QED BY <2>8, <2>9 DEF Acts
<1>20. CASE Next_(m) /\ ~(next(m) > Len(QUERIES))
  <2>1. PICK q \in 1..3, b \in 0..1, s \in Nat :
          q = next(m) /\ b = (IF again(m) THEN 1 ELSE 0) /\ s = client[c].sequence + 1
    <3>1. client[c].query \in 1..3 /\ client[c].sequence \in Nat
      BY <1>1, QueriesAreCommands DEF Client
    <3>2. next(m) \in 1..3
      BY <1>20, <3>1, QueriesAreCommands
    <3>3. (IF again(m) THEN 1 ELSE 0) \in 0..1 /\ client[c].sequence + 1 \in Nat
      BY <3>1, SMTT(40)
    <3>4. QED BY <3>2, <3>3
  <2>2. /\ client' = [client EXCEPT ![c].revision = m.revision, ![c].query = q, ![c].attempt = b, ![c].sequence = s]
        /\ Transmit(c, s, QUERIES[q], m.revision, NoTarget)
        /\ history' = [h EXCEPT !.asked[c] = @ + 1]
    BY <1>15, <1>20, <2>1
  <2> HIDE DEF Last_, Next_, again, moved, next, told
  <2>3. PICK p \in Client : p = [n EXCEPT !.query = q]
    <3>1. [n EXCEPT !.query = q] \in Client
      BY ClientWith
    <3>2. QED BY <3>1
  <2>4. PICK y \in Client : y = [p EXCEPT !.attempt = b]
    <3>1. [p EXCEPT !.attempt = b] \in Client
      BY ClientWith
    <3>2. QED BY <3>1
  <2>5. PICK z \in Client : z = [y EXCEPT !.sequence = s]
    <3>1. [y EXCEPT !.sequence = s] \in Client
      BY ClientWith
    <3>2. QED BY <3>1
  <2>6. /\ p.socket = client[c].socket /\ p.revision = m.revision /\ p.outcome = client[c].outcome
        /\ p.phase = "query"
    BY <1>18, <2>3 DEF Client
  <2>7. /\ y.socket = client[c].socket /\ y.revision = m.revision /\ y.outcome = client[c].outcome
        /\ y.phase = "query"
    BY <2>4, <2>6 DEF Client
  <2>8. /\ z.socket = client[c].socket /\ z.revision = m.revision /\ z.outcome = client[c].outcome
        /\ z.phase = "query" /\ z.sequence = s
    BY <2>5, <2>7 DEF Client
  <2>9. client' = [client EXCEPT ![c] = z]
    BY <1>1, <1>17, <2>2, <2>3, <2>4, <2>5
  <2>10. client'[c] = z /\ \A d \in Clients : d # c => client'[d] = client[d]
    BY <1>1, <2>9
  <2>11. history' = [h EXCEPT !.asked = g]
    BY <1>13, <1>15, <2>2 DEF History
  <2>12. history'.answered = f /\ history'.asked = g /\ history'.begun = history.begun
    BY <1>15, <2>11, SMTT(40) DEF History
  <2>13. /\ \E e \in Request : e.request_id = s /\ Rest(k)' = IF Open(k) THEN Rest(k) \o <<e>> ELSE Rest(k)
         /\ \A j \in Connections : j # k => requests'[j] = requests[j]
    <3>1. QUERIES[q] \in ControlCommand
      BY QueriesAreCommands
    <3>2. QED BY <1>1, <1>2, <1>4, <1>5, <1>7, <1>8, <2>2, <3>1, TransmitAsks
  <2>14. PICK e \in Request : e.request_id = s /\ Rest(k)' = IF Open(k) THEN Rest(k) \o <<e>> ELSE Rest(k)
    BY <2>13
  <2>15. Owed(k)' = IF Open(k) THEN x \o <<e>> ELSE x
    <3>1. PICK open : open = Open(k)
      OBVIOUS
    <3>2. e \in Item
      BY DEF Item
    <3>3. Owed(k)' = a \o (IF open THEN t \o <<e>> ELSE t)
      BY <1>9, <2>14, <3>1 DEF Owed
    <3>4. Owed(k)' = IF open THEN (a \o t) \o <<e>> ELSE a \o t
      BY <3>2, <3>3, OwedEnds
    <3>5. QED BY <1>10, <3>1, <3>4
  <2>16. Asks(c, s, x)
    <3>1. client'[c].socket = k
      BY <1>5, <2>8, <2>10
    <3>2. QED BY <1>5, <1>16, <2>12, <2>14, <2>15, <3>1 DEF Asks
  <2>17. Learns(c)
    <3>1. Stays(c)
      BY <1>4, <1>5, <1>12, <2>8, <2>10 DEF Stays
    <3>2. QED BY <1>2, <1>3, <1>5, <1>7, <1>8, <1>11, <1>16, <2>1, <2>8, <2>10, <2>12, <2>16, <3>1 DEF Learns
  <2>18. ASSUME NEW d \in Clients, d # c PROVE Waits(d)
    BY <1>2, <1>5, <1>7, <1>16, <2>10, <2>12, <2>13, <2>18, OthersWait DEF Ledger
  <2>19. QED BY <2>17, <2>18 DEF Acts
<1>21. QED BY <1>3, <1>19, <1>20

\* A socket that was not dialled yet holds no request.
UnusedInv == \A k \in Connections : k > dialled => requests[k] = <<>>

\* The switch reads from, and hangs up on, clients and the backlog.
LEMMA UnusedServer ==
  ASSUME ShapeInv, UnusedInv, ServerStep
  PROVE  UnusedInv'
<1>1. /\ TypeOK /\ SocketInv /\ dialled \in Nat /\ dialled' = dialled /\ requests \in [Connections -> Seq(Request)]
      /\ clients \in Seq(Connections)
  BY DEF ShapeInv, TypeOK, ServerType, SocketType, ClientType, ServerStep
<1>2. SUFFICES ASSUME NEW k \in Connections, k > dialled PROVE requests'[k] \in {requests[k], <<>>}
  BY <1>1 DEF UnusedInv
<1>3. ASSUME NEW ks, Hangup(ks) PROVE requests'[k] \in {requests[k], <<>>}
  BY <1>3 DEF Hangup
<1>4. CASE Serve
  <2>1. index \in 1..Len(clients)
    BY <1>4 DEF ShapeInv, PositionInv, Serve
  <2>2. clients[index] \in Range(clients)
    BY <1>1, <2>1, RangeEquality
  <2>3. k \notin Range(clients)
    <3>1. k \in Nat /\ \A j \in Range(clients) : j <= dialled
      BY <1>1, Bounds DEF SocketInv
    <3>2. QED BY <1>1, <1>2, <3>1
  <2>4. PICK s : requests' = [requests EXCEPT ![clients[index]] = s]
    BY <1>4 DEF Serve
  <2>5. QED BY <1>1, <2>2, <2>3, <2>4
<1>5. CASE Watch
  BY <1>3, <1>5, Zenon DEF Watch
<1>6. CASE FinishClient
  <2>1. CASE Hangup({clients[index]})
    BY <1>3, <2>1
  <2>2. CASE requests' = requests
    BY <2>2
  <2>3. QED BY <1>6, <2>1, <2>2 DEF FinishClient
<1>7. CASE dispatch
  <2>1. PICK accepted, v, notes : Answer(accepted, v, notes)
    BY <1>7, DispatchAnswers
  <2>2. QED BY <2>1 DEF Answer, sockets
<1>8. CASE Broadcast \/ publish_analysis \/ publish_supervision \/ StartPoll
  BY <1>8 DEF Broadcast, publish_analysis, publish_supervision, StartPoll, sockets
<1>9. QED BY <1>4, <1>5, <1>6, <1>7, <1>8 DEF ServerStep, Server, poll

\* A step of a client that sends nothing.
LEMMA UnusedQuiet ==
  ASSUME ShapeInv, UnusedInv, requests' = requests, dialled' \in {dialled, dialled + 1}
  PROVE  UnusedInv'
<1>1. dialled \in Nat /\ Connections \subseteq Nat
  BY Bounds DEF ShapeInv, TypeOK, ClientType
<1>2. QED BY <1>1 DEF UnusedInv

\* A client sends to a socket that was dialled.
LEMMA UnusedTransmit ==
  ASSUME ShapeInv, UnusedInv, NEW c \in Connected, NEW id, NEW command, NEW v, NEW target,
         Transmit(c, id, command, v, target), dialled' = dialled
  PROVE  UnusedInv'
<1>1. PICK j \in Connections : j = client[c].socket
  BY SocketFacts DEF ShapeInv
<1>2. j <= dialled /\ dialled \in Nat /\ requests \in [Connections -> Seq(Request)]
  BY <1>1 DEF ShapeInv, SocketInv, TypeOK, ClientType, SocketType, Connected
<1>3. \E s : requests' \in {requests, [requests EXCEPT ![j] = s]}
  BY <1>1 DEF Transmit
<1>4. QED BY <1>2, <1>3, Bounds DEF UnusedInv

\* No step puts a request into such a socket.
LEMMA UnusedStep ==
  ASSUME ShapeInv, UnusedInv, [ChannelNext]_channelvars
  PROVE  UnusedInv'
<1>1. ASSUME NEW c \in Clients, Reading(c) \/ Calling(c) PROVE UnusedInv'
  <2>1. CASE receive(c) \/ ResyncHears(c) \/ ResyncReturns(c) \/ ResyncFails(c) \/ Disconnect(c)
    <3>1. requests' = requests /\ dialled' = dialled
      BY <2>1 DEF receive, ResyncHears, ResyncReturns, ResyncFails, Disconnect, sockets, servervars
    <3>2. QED BY <3>1, UnusedQuiet
  <2>2. CASE reconnect(c)
    <3>1. requests' = requests /\ dialled' = dialled + 1
      BY <2>2 DEF reconnect
    <3>2. QED BY <3>1, UnusedQuiet
  <2>3. CASE ResyncAnswered(c)
    <3>1. dialled' = dialled /\ c \in Connected
      BY <2>3 DEF ResyncAnswered, NextMessage, Connected
    <3>2. CASE requests' = requests
      BY <3>1, <3>2, UnusedQuiet
    <3>3. CASE \E id, command, v, target : Transmit(c, id, command, v, target)
      BY <3>1, <3>3, UnusedTransmit
    <3>4. QED BY <2>3, <3>2, <3>3 DEF ResyncAnswered
  <2>4. CASE \E command, target : send(c, command, target)
    <3>1. PICK command, target : send(c, command, target)
      BY <2>4
    <3>2. c \in Connected /\ dialled' = dialled /\ Transmit(c, 0, command, revision, target)
      BY <3>1 DEF send, Connected
    <3>3. QED BY <3>2, UnusedTransmit
  <2>5. QED BY <1>1, <2>1, <2>2, <2>3, <2>4 DEF Reading, Calling, reconnect_fails
<1>2. ASSUME NEW c \in Consoles, resync(c) PROVE UnusedInv'
  <2>1. c \in Connected /\ dialled' = dialled /\ Transmit(c, 1, QUERIES[1], client[c].revision, NoTarget)
    BY <1>2, ChannelConfig DEF resync, Connected
  <2>2. QED BY <2>1, UnusedTransmit
<1>3. CASE UNCHANGED channelvars
  <2>1. requests' = requests /\ dialled' = dialled
    BY <1>3 DEF channelvars, servervars, sockets
  <2>2. QED BY <2>1, UnusedQuiet
<1>4. QED BY <1>1, <1>2, <1>3, UnusedServer DEF ChannelNext

\* A client closes its connection and, unless it leaves, dials a new one.
LEMMA CloseActs ==
  ASSUME ShapeInv, UnusedInv, NEW c \in Clients, Disconnect(c) \/ reconnect(c)
  PROVE  \A d \in Clients : Acts(d)
<1>1. /\ TypeOK /\ SocketInv /\ FreshInv /\ PositionInv
      /\ peer \in [Connections -> Peer] /\ client \in [Clients -> Client] /\ history \in History /\ dialled \in Nat
      /\ backlog \in Seq(Connections) /\ clients \in Seq(Connections) /\ client[c] \in Client
      /\ Connections \subseteq Nat /\ Unconnected \notin Connections
  BY Bounds, ChannelConfig DEF ShapeInv, TypeOK, ServerType, SocketType, ClientType
<1>2. SwitchRests /\ requests' = requests /\ client[c].phase = "idle"
  BY DEF Disconnect, reconnect, SwitchRests, controller, service, polling
<1>3. PICK now : /\ close(c, now)
                 /\ \/ now = Unconnected /\ backlog' = backlog
                    \/ now = dialled + 1 /\ now \in Connections /\ backlog' = Append(backlog, now)
  <2>1. CASE Disconnect(c)
    BY <2>1 DEF Disconnect
  <2>2. CASE reconnect(c)
    <3>1. close(c, dialled + 1) /\ dialled + 1 \in Connections /\ backlog' = Append(backlog, dialled + 1)
      BY <2>2 DEF reconnect
    <3>2. QED BY <3>1
  <2>3. QED BY <2>1, <2>2
<1>4. PICK n : n = [client[c] EXCEPT !.socket = now, !.outcome = "none"]
  OBVIOUS
<1>5. n.socket = now /\ n.outcome = "none" /\ n.phase = "idle"
  BY <1>1, <1>2, <1>4 DEF Client
<1>6. client'[c] = n /\ \A d \in Clients : d # c => client'[d] = client[d]
  <2>1. client' = [client EXCEPT ![c] = n]
    BY <1>1, <1>3, <1>4 DEF close
  <2>2. QED BY <1>1, <2>1
<1>7. /\ \A d \in Clients : /\ history'.begun[d] = history.begun[d]
                            /\ d # c => history'.asked[d] = history.asked[d] /\ history'.answered[d] = history.answered[d]
      /\ history'.asked[c] = 0 /\ history'.answered[c] = 0
  BY <1>1, <1>3 DEF close, History
<1>8. \A j \in Connections : j # client[c].socket => peer'[j] = peer[j]
  BY <1>3 DEF close
<1>9. \A j \in Connections : j <= dialled => (j \in Range(backlog)' <=> j \in Range(backlog))
  <2>1. CASE backlog' = backlog
    BY <2>1
  <2>2. CASE now = dialled + 1 /\ now \in Connections /\ backlog' = Append(backlog, now)
    <3>1. Append(backlog, now) = backlog \o <<now>> /\ <<now>> \in Seq(Connections)
      BY <1>1, <2>2, AppendIsConcat, Singleton
    <3>2. Range(<<now>>) = {now}
      BY DEF Range
    <3>3. PICK s \in Seq(Connections) : s = <<now>>
      BY <3>1
    <3>4. Range(backlog \o s) = Range(backlog) \cup Range(s)
      BY <1>1, RangeConcatenation
    <3>5. Range(backlog') = Range(backlog) \cup {now}
      BY <2>2, <3>1, <3>2, <3>3, <3>4
    <3>6. \A j \in Connections : j <= dialled => j # now
      BY <1>1, <2>2
    <3>7. QED BY <3>5, <3>6
  <2>3. QED BY <1>3, <2>1, <2>2
<1>10. ASSUME now \in Connections, now > dialled PROVE Owed(now)' = <<>>
  <2>1. now # client[c].socket /\ now \notin Range(clients)
    <3>1. /\ client[c].socket # Unconnected => client[c].socket <= dialled
          /\ \A j \in Range(clients) : j <= dialled
      BY <1>1 DEF SocketInv
    <3>2. PICK x \in Nat : x = now /\ x > dialled
      BY <1>1, <1>10
    <3>3. ~(x <= dialled)
      BY <1>1, <3>2
    <3>4. QED BY <1>1, <1>10, <3>1, <3>2, <3>3
  <2>2. peer'[now].stream = <<>> /\ peer'[now].outbox = <<>>
    BY <1>1, <1>8, <1>10, <2>1 DEF FreshInv
  <2>3. Coming(now)' = <<>>
    BY <1>2, <2>1 DEF Coming, Live, SwitchRests
  <2>4. Replies(now)' = <<>>
    BY <2>2, <2>3, Glue, RepliesFacts DEF Replies, Way
  <2>5. Pending(now)' = <<>>
    <3>1. ASSUME stage = "handle" PROVE clients[index] \in Range(clients)
      <4>1. index \in 1..Len(clients)
        BY <1>1, <3>1 DEF PositionInv
      <4>2. QED BY <1>1, <4>1, RangeEquality
    <3>2. QED BY <1>2, <2>1, <3>1 DEF Pending, SwitchRests
  <2>6. requests'[now] = <<>>
    BY <1>2, <1>10 DEF UnusedInv
  <2>7. Todo(now)' = <<>>
    BY <2>5, <2>6, ItemGlue DEF Todo
  <2>8. QED BY <2>4, <2>7, ItemGlue DEF Owed, Rest
<1>11. Turns(c)
  <2>1. ASSUME c \in Connected' PROVE Owed(client[c].socket)' = <<>>
    <3>1. client'[c].socket = now /\ now # Unconnected
      BY <1>5, <1>6, <2>1 DEF Connected
    <3>2. now \in Connections /\ now > dialled
      BY <1>1, <1>3, <3>1
    <3>3. Owed(now)' = <<>>
      BY <1>10, <3>2
    <3>4. QED BY <3>1, <3>3
  <2>2. QED BY <1>2, <1>5, <1>6, <1>7, <2>1 DEF Turns
<1>12. ASSUME NEW d \in Clients, d # c PROVE Waits(d)
  BY <1>2, <1>6, <1>7, <1>8, <1>9, <1>12, OthersWait DEF Ledger
<1>13. QED BY <1>11, <1>12 DEF Acts

\* The switch acts.
LEMMA ServerActs ==
  ASSUME ShapeInv, ShapeInv', ServerStep
  PROVE  \A d \in Clients : Acts(d)
<1>1. TypeOK /\ UNCHANGED <<client, history>>
  BY DEF ServerStep, ShapeInv
<1>2. PICK fresh : Speaks(fresh) /\ \A k \in Connections : Effect(k, fresh)
  BY ServerTells DEF Tells
<1>3. fresh \in Seq(Event)
  BY <1>2 DEF Speaks
<1>4. \A k \in Connections : Handles(k)
  BY ServerHandles
<1>5. ASSUME NEW d \in Clients PROVE Waits(d)
  <2>1. ASSUME NEW k \in Connections
        PROVE  Carried(Owed(k), Owed(k)', Open(k)', revision') /\ (Open(k)' => Open(k))
    BY <1>2, <1>3, <1>4, ServerCarries
  <2>2. ASSUME d \in Connected PROVE client[d].socket \in Connections
    BY <1>1, <2>2, SocketFacts
  <2>3. PICK k : k = client[d].socket /\ k = client'[d].socket
    BY <1>1
  <2>4. d \in Connected => Carried(Owed(k), Owed(k)', Open(k)', revision') /\ (Open(k)' => Open(k))
    BY <2>1, <2>2, <2>3
  <2>5. QED BY <1>1, <2>3, <2>4 DEF Waits, Ledger
<1>6. QED BY <1>5 DEF Acts

\* Whatever happens, a client does one of these things; only a resync is a start.
LEMMA ChannelActs ==
  ASSUME ShapeInv, ShapeInv', UnusedInv, ServerStep \/ (\E c \in Clients : Reading(c) \/ Calling(c)) \/ UNCHANGED channelvars
  PROVE  \A d \in Clients : Acts(d)
<1>1. ASSUME NEW c \in Clients, Reading(c) \/ Calling(c) PROVE \A d \in Clients : Acts(d)
  <2>1. CASE Reading(c)
    BY <2>1, HearActs, LearnActs, EndActs DEF Reading
  <2>2. CASE ResyncFails(c)
    BY <2>2, EndActs
  <2>3. CASE reconnect(c) \/ Disconnect(c)
    BY <2>3, CloseActs
  <2>4. CASE \E command \in Commands :
               \E target \in IF command \in FaultCommands THEN Targets ELSE {NoTarget} : send(c, command, target)
    <3>1. PICK command \in Commands, target \in Targets \cup {NoTarget} : send(c, command, target)
      BY <2>4
    <3>2. QED BY <3>1, SendActs
  <2>5. QED BY <1>1, <2>1, <2>2, <2>3, <2>4 DEF Calling, reconnect_fails
<1>2. CASE UNCHANGED channelvars
  <2>1. SwitchRests /\ UNCHANGED <<peer, backlog, requests, client, history>> /\ TypeOK
    BY <1>2 DEF channelvars, servervars, SwitchRests, controller, service, polling, sockets, ShapeInv
  <2>2. ASSUME NEW d \in Clients PROVE Waits(d)
    <3>1. ASSUME d \in Connected
          PROVE  /\ Owed(client[d].socket)' = Owed(client[d].socket)
                 /\ Open(client[d].socket)' => Open(client[d].socket)
      <4>1. PICK k \in Connections : k = client[d].socket /\ k = client'[d].socket
        BY <2>1, <3>1, SocketFacts
      <4>2. Owed(k)' = Owed(k) /\ (Open(k)' <=> Open(k))
        BY <2>1, OwedStays
      <4>3. QED BY <4>1, <4>2
    <3>2. QED BY <2>1, <3>1, WaitsWhenSame DEF Ledger
  <2>3. QED BY <2>2 DEF Acts
<1>3. QED BY <1>1, <1>2, ServerActs

-----------------------------------------------------------------------------
(* Requests and answers: the balance.                                      *)

\* Every request is answered and taken, or owed; all of them, if the switch serves the
\* connection.
Balanced(n, open, asked, answered) ==
  /\ answered + n <= asked
  /\ open => answered + n = asked

BalanceInv ==
  \A c \in Connected :
    Balanced(Len(Owed(client[c].socket)), Open(client[c].socket), history.asked[c], history.answered[c])

\* One more item at the end, or at the head.
LEMMA ItemLens ==
  ASSUME NEW s \in Seq(Item), NEW m \in Item
  PROVE  /\ Len(s) \in Nat
         /\ Len(s \o <<m>>) = Len(s) + 1 /\ Len(<<m>> \o s) = Len(s) + 1
         /\ \A i \in 1..Len(s) : (s \o <<m>>)[i] = s[i] /\ (<<m>> \o s)[i + 1] = s[i]
         /\ (s \o <<m>>)[Len(s) + 1] = m /\ (<<m>> \o s)[1] = m
<1>1. PICK mm \in Seq(Item) : mm = <<m>> /\ Len(mm) = 1 /\ mm[1] = m
  BY Singleton
<1>2. PICK n \in Nat : n = Len(s)
  BY LenProperties
<1>3. Len(s \o mm) = n + 1 /\ \A i \in 1..n + 1 : (s \o mm)[i] = IF i <= n THEN s[i] ELSE mm[i - n]
  BY <1>1, <1>2, ConcatProperties
<1>4. Len(mm \o s) = 1 + n /\ \A i \in 1..1 + n : (mm \o s)[i] = IF i <= 1 THEN mm[i] ELSE s[i - 1]
  BY <1>1, <1>2, ConcatProperties
<1>5. ASSUME NEW i \in 1..n PROVE (s \o mm)[i] = s[i] /\ (mm \o s)[i + 1] = s[i]
  <2>1. i \in 1..n + 1 /\ i <= n /\ i + 1 \in 1..1 + n /\ ~(i + 1 <= 1) /\ (i + 1) - 1 = i
    BY <1>5
  <2>2. QED BY <1>3, <1>4, <2>1
<1>6. (s \o mm)[n + 1] = m
  <2>1. n + 1 \in 1..n + 1 /\ ~(n + 1 <= n) /\ (n + 1) - n = 1
    OBVIOUS
  <2>2. QED BY <1>1, <1>3, <2>1
<1>7. (mm \o s)[1] = m
  <2>1. 1 \in 1..1 + n
    OBVIOUS
  <2>2. QED BY <1>1, <1>4, <2>1
<1>8. QED BY <1>1, <1>2, <1>3, <1>4, <1>5, <1>6, <1>7

\* What the invariant says of a client, before and after a step.
LEMMA LedgerFacts ==
  ASSUME TypeOK, TypeOK', NEW c \in Clients
  PROVE  /\ history.asked[c] \in Nat /\ history.answered[c] \in Nat /\ history.begun[c] \in Nat
         /\ history'.asked[c] \in Nat /\ history'.answered[c] \in Nat /\ history'.begun[c] \in Nat
         /\ client[c] \in Client /\ client'[c] \in Client
         /\ c \in Connected => client[c].socket \in Connections /\ Owed(client[c].socket) \in Seq(Item)
         /\ c \in Connected' => client'[c].socket \in Connections /\ Owed(client[c].socket)' \in Seq(Item)
<1>1. /\ history \in History /\ history' \in History /\ client \in [Clients -> Client]
      /\ client' \in [Clients -> Client]
  BY DEF TypeOK, ClientType
<1>2. c \in Connected => client[c].socket \in Connections /\ Owed(client[c].socket) \in Seq(Item)
  BY SocketFacts, OwedType
<1>3. ASSUME c \in Connected' PROVE client'[c].socket \in Connections /\ Owed(client[c].socket)' \in Seq(Item)
  <2>1. client'[c].socket \in Connections
    BY <1>1, <1>3 DEF Connected, Client
  <2>2. PICK k \in Connections : k = client'[c].socket
    BY <2>1
  <2>3. Owed(k)' \in Seq(Item)
    BY OwedTypeNext
  <2>4. QED BY <2>1, <2>2, <2>3
<1>4. QED BY <1>1, <1>2, <1>3 DEF History

\* A step keeps the balance of every client.
LEMMA BalanceActs ==
  ASSUME TypeOK, TypeOK', BalanceInv, NEW c \in Clients, Acts(c) \/ Starts(c), c \in Connected'
  PROVE  Balanced(Len(Owed(client[c].socket)), Open(client[c].socket), history.asked[c], history.answered[c])'
<1>1. CASE Turns(c)
  BY <1>1 DEF Turns, Balanced
<1>2. CASE ~Turns(c)
  <2>1. client'[c].socket = client[c].socket /\ c \in Connected
    <3>1. client'[c].socket = client[c].socket
      BY <1>2 DEF Acts, Waits, Sends, Starts, Hears, Learns, Ends, Stays
    <3>2. QED BY <3>1 DEF Connected
  <2>2. PICK k \in Connections, o \in Seq(Item) : k = client[c].socket /\ o = Owed(k)
    BY <2>1, LedgerFacts
  <2>3. PICK p \in Seq(Item) : p = Owed(k)'
    BY <2>1, <2>2, LedgerFacts
  <2>4. PICK a \in Nat, b \in Nat : a = history.asked[c] /\ b = history.answered[c]
    BY LedgerFacts
  <2>5. PICK a2 \in Nat, b2 \in Nat : a2 = history'.asked[c] /\ b2 = history'.answered[c]
    BY LedgerFacts
  <2>6. PICK n \in Nat, n2 \in Nat : n = Len(o) /\ n2 = Len(p)
    BY LenProperties
  <2>7. PICK open, open2 : open = Open(k) /\ open2 = Open(k)'
    OBVIOUS
  <2>8. b + n <= a /\ (open => b + n = a)
    BY <2>1, <2>2, <2>4, <2>6, <2>7 DEF BalanceInv, Balanced
  <2>9. SUFFICES b2 + n2 <= a2 /\ (open2 => b2 + n2 = a2)
    BY <2>1, <2>2, <2>3, <2>5, <2>6, <2>7 DEF Balanced
  <2>10. CASE Waits(c)
    <3>1. a2 = a /\ b2 = b
      BY <2>4, <2>5, <2>10 DEF Waits, Ledger
    <3>2. n2 <= n /\ (open2 => n2 = n) /\ (open2 => open)
      BY <2>1, <2>2, <2>3, <2>6, <2>7, <2>10 DEF Waits, Carried
    <3>3. QED BY <2>8, <3>1, <3>2
  <2>11. CASE Sends(c) \/ Starts(c)
    <3>1. b2 = b /\ a2 = a + 1 /\ (open2 <=> open)
      BY <2>1, <2>2, <2>4, <2>5, <2>7, <2>11 DEF Sends, Starts, Asks, Stays
    <3>2. PICK q \in Request : p = IF open THEN o \o <<q>> ELSE o
      BY <2>1, <2>2, <2>3, <2>7, <2>11 DEF Sends, Starts, Asks
    <3>3. n2 = IF open THEN n + 1 ELSE n
      BY <2>6, <3>2, ItemLens DEF Item
    <3>4. QED BY <2>8, <3>1, <3>3
  <2>12. CASE Hears(c)
    <3>1. a2 = a /\ (open2 <=> open)
      BY <2>1, <2>2, <2>4, <2>5, <2>7, <2>12 DEF Hears, Stays
    <3>2. \/ b2 = b + 1 /\ \E m \in Reply : o = <<m>> \o p
          \/ b2 = b /\ p = o
      BY <2>1, <2>2, <2>3, <2>4, <2>5, <2>12 DEF Hears
    <3>3. (b2 = b + 1 /\ n = n2 + 1) \/ (b2 = b /\ n2 = n)
      BY <2>6, <3>2, ItemLens DEF Item
    <3>4. QED BY <2>8, <3>1, <3>3
  <2>13. CASE Learns(c)
    <3>1. b2 = b + 1 /\ (open2 <=> open)
      BY <2>1, <2>2, <2>4, <2>5, <2>7, <2>13 DEF Learns, Stays
    <3>2. PICK m \in Reply, x \in Seq(Item) :
            /\ o = <<m>> \o x
            /\ \/ a2 = a /\ p = x
               \/ a2 = a + 1 /\ \E q \in Request : p = IF open THEN x \o <<q>> ELSE x
      BY <2>1, <2>2, <2>3, <2>4, <2>5, <2>7, <2>13 DEF Learns, Asks
    <3>3. PICK i \in Nat : i = Len(x)
      BY LenProperties
    <3>4. n = i + 1
      BY <2>6, <3>2, <3>3, ItemLens DEF Item
    <3>5. (a2 = a /\ n2 = i) \/ (a2 = a + 1 /\ n2 = IF open THEN i + 1 ELSE i)
      BY <2>6, <3>2, <3>3, ItemLens DEF Item
    <3>6. QED BY <2>8, <3>1, <3>4, <3>5
  <2>14. CASE Ends(c)
    <3>1. a2 = a /\ b2 = b
      BY <2>4, <2>5, <2>14 DEF Ends, Ledger
    <3>2. p = o /\ (open2 <=> open)
      BY <2>1, <2>2, <2>3, <2>7, <2>14 DEF Ends
    <3>3. QED BY <2>6, <2>8, <3>1, <3>2
  <2>15. QED BY <1>2, <2>10, <2>11, <2>12, <2>13, <2>14 DEF Acts
<1>3. QED BY <1>1, <1>2

-----------------------------------------------------------------------------
(* Requests and answers: resync.                                           *)

\* A resync: begun is the revision at which it was called.
Resyncing(x, begun, rev) ==
  /\ begun <= rev
  /\ x.phase = "settle" \/ (x.phase = "idle" /\ x.outcome = "synced") => begun <= x.revision
  /\ x.phase # "idle" => x.socket # Unconnected /\ x.outcome # "failed"

\* Of what is owed, the answer to the query is the last; out requests are not answered.
\* What the first query is answered with is no older than begun, nor is what the client
\* knows since.
Querying(x, owed, out, begun) ==
  /\ x.phase # "query" /\ x.outcome # "failed" => \A i \in 1..Len(owed) : owed[i].request_id = 0
  /\ x.phase = "query" =>
       /\ x.sequence # 0
       /\ \A i \in 1..Len(owed) : owed[i].request_id = IF i = out THEN x.sequence ELSE 0
       /\ IF x.sequence = 1
          THEN \A i \in 1..Len(owed) : owed[i] \in Reply /\ owed[i].request_id # 0 => begun <= owed[i].revision
          ELSE begun <= x.revision

QueryInv ==
  /\ \A c \in Clients : Resyncing(client[c], history.begun[c], revision)
  /\ \A c \in Connected : Querying(client[c], Owed(client[c].socket), history.asked[c] - history.answered[c],
                                   history.begun[c])

\* The switch answers, or the end is lost.
LEMMA QueryingCarried ==
  ASSUME NEW x, NEW old \in Seq(Item), NEW new \in Seq(Item), NEW open, NEW v \in Nat, NEW out, NEW begun \in Nat,
         begun <= v, Carried(old, new, open, v), Querying(x, old, out, begun)
  PROVE  Querying(x, new, out, begun)
<1>1. PICK n \in Nat, l \in Nat : n = Len(new) /\ l = Len(old)
  BY LenProperties
<1>2. n <= l
  BY <1>1 DEF Carried
<1>3. \A i \in 1..n : i \in 1..l /\ new[i].request_id = old[i].request_id /\ (new[i] = old[i] \/ new[i].revision = v)
  BY <1>1, <1>2 DEF Carried
<1>4. \A i \in 1..n : begun <= old[i].revision => begun <= new[i].revision
  BY <1>3
<1>5. ASSUME x.phase = "query", x.sequence = 1, NEW i \in 1..n, new[i] \in Reply, new[i].request_id # 0
      PROVE  begun <= new[i].revision
  <2>1. CASE new[i] = old[i]
    BY <1>1, <1>3, <1>5, <2>1 DEF Querying
  <2>2. CASE new[i].revision = v
    BY <2>2
  <2>3. QED BY <1>3, <2>1, <2>2
<1>6. QED BY <1>1, <1>3, <1>5 DEF Querying

\* The client takes a reply that is not its answer.
LEMMA QueryingHeard ==
  ASSUME NEW x, NEW m \in Item, NEW rest \in Seq(Item), NEW out \in Int, NEW begun,
         Querying(x, <<m>> \o rest, out, begun)
  PROVE  Querying(x, rest, out - 1, begun)
<1>1. PICK n \in Nat, s \in Seq(Item) : n = Len(rest) /\ s = <<m>> \o rest
  BY LenProperties, ItemGlue DEF Item
<1>2. Len(s) = n + 1 /\ \A i \in 1..n : s[i + 1] = rest[i]
  BY <1>1, ItemLens
<1>3. \A i \in 1..n : i + 1 \in 1..n + 1 /\ (i + 1 = out <=> i = out - 1)
  OBVIOUS
<1>4. Querying(x, s, out, begun)
  BY <1>1
<1>5. x.phase # "query" /\ x.outcome # "failed" => \A i \in 1..n : rest[i].request_id = 0
  BY <1>2, <1>3, <1>4 DEF Querying
<1>6. ASSUME x.phase = "query"
      PROVE  /\ x.sequence # 0
             /\ \A i \in 1..n : rest[i].request_id = IF i = out - 1 THEN x.sequence ELSE 0
             /\ IF x.sequence = 1
                THEN \A i \in 1..n : rest[i] \in Reply /\ rest[i].request_id # 0 => begun <= rest[i].revision
                ELSE begun <= x.revision
  <2>1. /\ x.sequence # 0
        /\ \A i \in 1..n + 1 : s[i].request_id = IF i = out THEN x.sequence ELSE 0
        /\ IF x.sequence = 1
           THEN \A i \in 1..n + 1 : s[i] \in Reply /\ s[i].request_id # 0 => begun <= s[i].revision
           ELSE begun <= x.revision
    BY <1>2, <1>4, <1>6 DEF Querying
  <2>2. ASSUME NEW i \in 1..n PROVE rest[i].request_id = IF i = out - 1 THEN x.sequence ELSE 0
    BY <1>2, <1>3, <2>1
  <2>3. ASSUME x.sequence = 1, NEW i \in 1..n, rest[i] \in Reply, rest[i].request_id # 0
        PROVE  begun <= rest[i].revision
    BY <1>2, <1>3, <2>1, <2>3
  <2>4. QED BY <2>1, <2>2, <2>3
<1>7. QED BY <1>1, <1>5, <1>6 DEF Querying

\* A command is sent while no resync is under way.
LEMMA QueryingSends ==
  ASSUME NEW x, NEW owed \in Seq(Item), NEW q \in Item, NEW out, NEW next, NEW begun, q.request_id = 0,
         x.phase = "idle", Querying(x, owed, out, begun)
  PROVE  Querying(x, owed, next, begun) /\ Querying(x, owed \o <<q>>, next, begun)
<1>1. PICK n \in Nat, s \in Seq(Item) : n = Len(owed) /\ s = owed \o <<q>>
  BY LenProperties, ItemGlue DEF Item
<1>2. Len(s) = n + 1 /\ s[n + 1] = q /\ \A i \in 1..n : s[i] = owed[i]
  BY <1>1, ItemLens
<1>3. \A i \in 1..n + 1 : i = n + 1 \/ i \in 1..n
  OBVIOUS
<1>4. x.outcome # "failed" => \A i \in 1..n : owed[i].request_id = 0
  BY <1>1 DEF Querying
<1>5. x.outcome # "failed" => \A i \in 1..n + 1 : s[i].request_id = 0
  BY <1>2, <1>3, <1>4
<1>6. QED BY <1>1, <1>2, <1>4, <1>5 DEF Querying

\* A query is sent when nothing else than replies to commands is owed.
LEMMA QueryingAsks ==
  ASSUME NEW x, NEW owed \in Seq(Item), NEW q \in Request, NEW open, NEW out \in Int, NEW begun,
         NEW new, new = IF open THEN owed \o <<q>> ELSE owed,
         \A i \in 1..Len(owed) : owed[i].request_id = 0,
         Len(owed) < out, open => Len(owed) + 1 = out,
         x.phase = "query", x.sequence # 0, q.request_id = x.sequence, x.sequence = 1 \/ begun <= x.revision
  PROVE  Querying(x, new, out, begun)
<1>1. PICK n \in Nat, s \in Seq(Item) : n = Len(owed) /\ s = owed \o <<q>>
  BY LenProperties, ItemGlue DEF Item
<1>2. Len(s) = n + 1 /\ s[n + 1] = q /\ \A i \in 1..n : s[i] = owed[i]
  BY <1>1, ItemLens DEF Item
<1>3. \A i \in 1..n + 1 : i = n + 1 \/ i \in 1..n
  OBVIOUS
<1>4. CASE open
  <2>1. out = n + 1
    BY <1>1, <1>4
  <2>2. ASSUME NEW i \in 1..n + 1
        PROVE  /\ s[i].request_id = IF i = out THEN x.sequence ELSE 0
               /\ ~(s[i] \in Reply /\ s[i].request_id # 0)
    <3>1. CASE i = n + 1
      BY <1>2, <2>1, <3>1, ItemFacts
    <3>2. CASE i \in 1..n
      <4>1. i # out
        BY <2>1, <3>2
      <4>2. QED BY <1>1, <1>2, <3>2, <4>1
    <3>3. QED BY <1>3, <3>1, <3>2
  <2>3. QED BY <1>1, <1>2, <1>4, <2>2 DEF Querying
<1>5. CASE ~open
  <2>1. ASSUME NEW i \in 1..n PROVE owed[i].request_id = 0 /\ i # out
    BY <1>1, <2>1
  <2>2. QED BY <1>1, <1>5, <2>1 DEF Querying
<1>6. QED BY <1>4, <1>5

\* The answer to a query is the only thing that was owed, and no older than begun.
LEMMA QueryingLearns ==
  ASSUME NEW x, NEW m \in Reply, NEW rest \in Seq(Item), NEW out \in Int, NEW begun \in Nat,
         Querying(x, <<m>> \o rest, out, begun), Len(<<m>> \o rest) <= out, x.phase = "query",
         m.request_id = x.sequence, x.revision \in Nat, x.revision <= m.revision
  PROVE  out = 1 /\ rest = <<>> /\ begun <= m.revision
<1>1. PICK n \in Nat, s \in Seq(Item) : n = Len(rest) /\ s = <<m>> \o rest
  BY LenProperties, ItemGlue DEF Item
<1>2. m \in Item /\ m.revision \in Nat
  BY ItemFacts DEF Item
<1>3. Len(s) = n + 1 /\ s[1] = m
  BY <1>1, <1>2, ItemLens
<1>4. 1 \in 1..n + 1
  OBVIOUS
<1>5. /\ x.sequence # 0 /\ s[1].request_id = IF 1 = out THEN x.sequence ELSE 0
      /\ IF x.sequence = 1 THEN s[1] \in Reply /\ s[1].request_id # 0 => begun <= s[1].revision
         ELSE begun <= x.revision
  BY <1>1, <1>3, <1>4 DEF Querying
<1>6. out = 1
  BY <1>3, <1>5
<1>7. n = 0
  BY <1>1, <1>3, <1>6
<1>8. begun <= m.revision
  <2>1. PICK y \in Nat, z \in Nat : y = x.revision /\ z = m.revision
    BY <1>2
  <2>2. CASE x.sequence = 1
    BY <1>3, <1>5, <2>2
  <2>3. CASE x.sequence # 1
    BY <1>5, <2>1, <2>3
  <2>4. QED BY <2>2, <2>3
<1>9. rest = <<>>
  BY <1>1, <1>7, EmptySeq
<1>10. QED BY <1>6, <1>8, <1>9

\* The answer that resync goes on with is to the last request of the client.
LEMMA AnswerIsLast ==
  ASSUME TypeOK, RevisionInv, BalanceInv, QueryInv, NEW c \in Connected, NEW m \in Reply, NEW x \in Seq(Item),
         client[c].phase = "query", m \in Range(Way(client[c].socket)), m.request_id = client[c].sequence,
         Owed(client[c].socket) = <<m>> \o x
  PROVE  history.asked[c] = history.answered[c] + 1 /\ x = <<>> /\ history.begun[c] <= m.revision
<1>1. /\ c \in Clients /\ client[c].revision \in Nat /\ history \in History
      /\ Rising(Way(client[c].socket), client[c].revision, revision)
  BY SocketFacts DEF TypeOK, ClientType, RevisionInv
<1>2. PICK a \in Nat, b \in Nat, begun \in Nat :
        a = history.asked[c] /\ b = history.answered[c] /\ begun = history.begun[c]
  BY <1>1 DEF History
<1>3. PICK out \in Int : out = a - b
  OBVIOUS
<1>4. PICK n \in Nat : n = Len(<<m>> \o x)
  <2>1. m \in Item
    BY DEF Item
  <2>2. Len(<<m>> \o x) = Len(x) + 1 /\ Len(x) \in Nat
    BY <2>1, ItemLens
  <2>3. QED BY <2>2
<1>5. b + n <= a
  BY <1>2, <1>4 DEF BalanceInv, Balanced
<1>6. Querying(client[c], <<m>> \o x, out, begun)
  BY <1>2, <1>3 DEF QueryInv
<1>7. client[c].revision <= m.revision
  BY <1>1 DEF Rising
<1>8. n <= out
  BY <1>3, <1>5
<1>9. out = 1 /\ x = <<>> /\ begun <= m.revision
  BY <1>1, <1>4, <1>6, <1>7, <1>8, QueryingLearns
<1>10. QED BY <1>2, <1>3, <1>9

\* A careful client starts a resync only if the last did not fail.
Careful(c) == Acts(c) \/ (Starts(c) /\ client[c].outcome # "failed")

\* A step keeps what is known of a resync.
LEMMA ResyncingActs ==
  ASSUME TypeOK, TypeOK', RevisionInv, BalanceInv, QueryInv, revision <= revision', NEW c \in Clients, Careful(c)
  PROVE  Resyncing(client[c], history.begun[c], revision)'
<1>1. PICK v \in Nat, w \in Nat, begun \in Nat, next \in Nat :
        v = revision /\ w = revision' /\ begun = history.begun[c] /\ next = history'.begun[c]
  BY LedgerFacts DEF TypeOK, ControllerType
<1>2. PICK x \in Client, y \in Client : x = client[c] /\ y = client'[c]
  BY LedgerFacts
<1>3. v <= w /\ Resyncing(x, begun, v)
  BY <1>1, <1>2 DEF QueryInv
<1>4. SUFFICES Resyncing(y, next, w)
  BY <1>1, <1>2
<1>5. begun <= w
  BY <1>1, <1>3 DEF Resyncing
<1>6. CASE Waits(c) \/ Sends(c) \/ Hears(c)
  <2>1. y = x /\ next = begun
    BY <1>1, <1>2, <1>6 DEF Waits, Sends, Hears, Ledger
  <2>2. QED BY <1>3, <1>5, <2>1 DEF Resyncing
<1>7. CASE Starts(c) /\ client[c].outcome # "failed"
  <2>1. next = v /\ y.phase = "query" /\ y.outcome = x.outcome /\ y.socket = x.socket /\ x.socket # Unconnected
    BY <1>1, <1>2, <1>7 DEF Starts, Stays, Connected
  <2>2. QED BY <1>2, <1>3, <1>7, <2>1 DEF Resyncing
<1>8. CASE Learns(c)
  <2>1. /\ next = begun /\ y.outcome = x.outcome /\ y.socket = x.socket /\ x.phase = "query"
        /\ y.phase \in {"query", "settle"}
    BY <1>1, <1>2, <1>8 DEF Learns, Stays
  <2>2. begun <= y.revision
    BY <1>1, <1>2, <1>8, AnswerIsLast DEF Learns, Stays
  <2>3. QED BY <1>3, <1>5, <2>1, <2>2 DEF Resyncing
<1>9. CASE Ends(c)
  <2>1. /\ next = begun /\ y.revision = x.revision /\ y.phase = "idle"
        /\ x.phase = "settle" \/ y.outcome = "failed"
    BY <1>1, <1>2, <1>9 DEF Ends, Ledger
  <2>2. QED BY <1>3, <1>5, <2>1 DEF Resyncing
<1>10. CASE Turns(c)
  <2>1. next = begun /\ y.phase = "idle" /\ y.outcome = "none"
    BY <1>1, <1>2, <1>10 DEF Turns
  <2>2. QED BY <1>5, <2>1 DEF Resyncing
<1>11. QED BY <1>6, <1>7, <1>8, <1>9, <1>10 DEF Careful, Acts

\* A step keeps the answer to the query the last of what is owed.
LEMMA QueryingActs ==
  ASSUME TypeOK, TypeOK', RevisionInv, BalanceInv, QueryInv, revision <= revision', NEW c \in Clients, Careful(c),
         c \in Connected'
  PROVE  Querying(client[c], Owed(client[c].socket), history.asked[c] - history.answered[c], history.begun[c])'
<1>1. CASE Turns(c)
  <2>1. client'[c].phase = "idle" /\ Owed(client[c].socket)' = <<>> /\ Len(<<>>) = 0
    BY <1>1 DEF Turns
  <2>2. QED BY <2>1 DEF Querying
<1>2. CASE ~Turns(c)
  <2>1. client'[c].socket = client[c].socket /\ c \in Connected
    <3>1. client'[c].socket = client[c].socket
      BY <1>2 DEF Careful, Acts, Waits, Sends, Starts, Hears, Learns, Ends, Stays
    <3>2. QED BY <3>1 DEF Connected
  <2>2. PICK k \in Connections, o \in Seq(Item) : k = client[c].socket /\ o = Owed(k)
    BY <2>1, LedgerFacts
  <2>3. PICK p \in Seq(Item) : p = Owed(k)'
    BY <2>1, <2>2, LedgerFacts
  <2>4. PICK a \in Nat, b \in Nat, begun \in Nat :
          a = history.asked[c] /\ b = history.answered[c] /\ begun = history.begun[c]
    BY LedgerFacts
  <2>5. PICK a2 \in Nat, b2 \in Nat, next \in Nat :
          a2 = history'.asked[c] /\ b2 = history'.answered[c] /\ next = history'.begun[c]
    BY LedgerFacts
  <2>6. PICK out \in Int, out2 \in Int : out = a - b /\ out2 = a2 - b2
    OBVIOUS
  <2>7. PICK x \in Client, y \in Client : x = client[c] /\ y = client'[c]
    BY LedgerFacts
  <2>8. PICK v \in Nat, w \in Nat : v = revision /\ w = revision'
    BY DEF TypeOK, ControllerType
  <2>9. PICK open : open = Open(k)
    OBVIOUS
  <2>10. Querying(x, o, out, begun)
    BY <2>1, <2>2, <2>4, <2>6, <2>7 DEF QueryInv
  <2>11. Resyncing(x, begun, v) /\ begun <= w
    <3>1. Resyncing(x, begun, v)
      BY <2>4, <2>7, <2>8 DEF QueryInv
    <3>2. QED BY <2>8, <3>1 DEF Resyncing
  <2>12. SUFFICES Querying(y, p, out2, next)
    BY <2>1, <2>2, <2>3, <2>5, <2>6, <2>7
  <2>13. PICK n \in Nat : n = Len(o) /\ n <= out /\ (open => n = out)
    <3>1. PICK n \in Nat : n = Len(o)
      BY LenProperties
    <3>2. b + n <= a /\ (open => b + n = a)
      BY <2>1, <2>2, <2>4, <2>9, <3>1 DEF BalanceInv, Balanced
    <3>3. QED BY <2>6, <3>1, <3>2
  <2>14. CASE Waits(c)
    <3>1. y = x /\ out2 = out /\ next = begun
      BY <2>4, <2>5, <2>6, <2>7, <2>14 DEF Waits, Ledger
    <3>2. PICK open2 : Carried(o, p, open2, w)
      BY <2>1, <2>2, <2>3, <2>8, <2>14 DEF Waits
    <3>3. QED BY <2>10, <2>11, <3>1, <3>2, QueryingCarried
  <2>15. CASE Sends(c)
    <3>1. y = x /\ next = begun /\ x.phase = "idle"
      BY <2>4, <2>5, <2>7, <2>15 DEF Sends
    <3>2. PICK q \in Request : q.request_id = 0 /\ p = IF open THEN o \o <<q>> ELSE o
      BY <2>1, <2>2, <2>3, <2>9, <2>15 DEF Sends, Asks
    <3>3. q \in Item
      BY DEF Item
    <3>4. Querying(x, o, out2, begun) /\ Querying(x, o \o <<q>>, out2, begun)
      BY <2>10, <3>1, <3>2, <3>3, QueryingSends
    <3>5. QED BY <3>1, <3>2, <3>4
  <2>16. CASE Starts(c) /\ client[c].outcome # "failed"
    <3>1. y.phase = "query" /\ y.sequence = 1 /\ x.phase = "idle" /\ x.outcome # "failed"
      BY <2>7, <2>16 DEF Starts
    <3>2. PICK q \in Request : q.request_id = 1 /\ p = IF open THEN o \o <<q>> ELSE o
      BY <2>1, <2>2, <2>3, <2>9, <2>16 DEF Starts, Asks
    <3>3. a2 = a + 1 /\ b2 = b
      BY <2>4, <2>5, <2>16 DEF Starts, Asks
    <3>4. out2 = out + 1
      BY <2>6, <3>3
    <3>5. \A i \in 1..Len(o) : o[i].request_id = 0
      BY <2>10, <3>1 DEF Querying
    <3>6. Len(o) < out2 /\ (open => Len(o) + 1 = out2)
      BY <2>13, <3>4
    <3>7. y.sequence # 0 /\ q.request_id = y.sequence
      BY <3>1, <3>2
    <3>8. QED BY <3>1, <3>2, <3>5, <3>6, <3>7, QueryingAsks
  <2>17. CASE Hears(c)
    <3>1. y = x /\ next = begun /\ a2 = a
      BY <2>4, <2>5, <2>7, <2>17 DEF Hears
    <3>2. \/ b2 = b + 1 /\ \E m \in Reply : o = <<m>> \o p
          \/ b2 = b /\ p = o
      BY <2>1, <2>2, <2>3, <2>4, <2>5, <2>17 DEF Hears
    <3>3. CASE b2 = b + 1 /\ \E m \in Reply : o = <<m>> \o p
      <4>1. out2 = out - 1
        BY <2>6, <3>1, <3>3
      <4>2. PICK m \in Item : o = <<m>> \o p
        BY <3>3 DEF Item
      <4>3. QED BY <2>10, <3>1, <4>1, <4>2, QueryingHeard
    <3>4. CASE b2 = b /\ p = o
      BY <2>6, <2>10, <3>1, <3>4
    <3>5. QED BY <3>2, <3>3, <3>4
  <2>18. CASE Learns(c)
    <3>1. b2 = b + 1 /\ next = begun /\ x.phase = "query"
      BY <2>4, <2>5, <2>7, <2>18 DEF Learns
    <3>2. PICK m \in Reply, s \in Seq(Item) :
            /\ m \in Range(Way(k)) /\ m.request_id = x.sequence /\ y.revision = m.revision /\ o = <<m>> \o s
            /\ \/ y.phase = "settle" /\ p = s
               \/ /\ y.phase = "query" /\ y.sequence = x.sequence + 1 /\ a2 = a + 1
                  /\ \E q \in Request : q.request_id = x.sequence + 1 /\ p = IF open THEN s \o <<q>> ELSE s
      BY <2>1, <2>2, <2>3, <2>4, <2>5, <2>7, <2>9, <2>18 DEF Learns, Asks
    <3>3. a = b + 1 /\ s = <<>> /\ begun <= m.revision
      BY <2>1, <2>2, <2>4, <2>7, <3>1, <3>2, AnswerIsLast
    <3>4. CASE y.phase = "settle" /\ p = s
      <4>1. Len(<<>>) = 0
        OBVIOUS
      <4>2. QED BY <3>3, <3>4, <4>1 DEF Querying
    <3>5. CASE /\ y.phase = "query" /\ y.sequence = x.sequence + 1 /\ a2 = a + 1
               /\ \E q \in Request : q.request_id = x.sequence + 1 /\ p = IF open THEN s \o <<q>> ELSE s
      <4>1. PICK q \in Request : q.request_id = y.sequence /\ p = IF open THEN s \o <<q>> ELSE s
        BY <3>5
      <4>2. out2 = 1
        BY <2>6, <3>1, <3>3, <3>5
      <4>3. y.sequence # 0
        <5>1. x.sequence \in Nat
          BY DEF Client
        <5>2. QED BY <3>5, <5>1
      <4>4. Len(s) = 0 /\ \A i \in 1..Len(s) : s[i].request_id = 0
        BY <3>3
      <4>5. begun <= y.revision
        BY <3>2, <3>3
      <4>6. Len(s) < out2 /\ Len(s) + 1 = out2
        BY <4>2, <4>4
      <4>7. Querying(y, p, out2, begun)
        BY <3>5, <4>1, <4>3, <4>4, <4>5, <4>6, QueryingAsks
      <4>8. QED BY <3>1, <4>7
    <3>6. QED BY <3>2, <3>4, <3>5
  <2>19. CASE Ends(c)
    <3>1. y.phase = "idle" /\ (x.phase = "settle" \/ y.outcome = "failed")
      BY <2>7, <2>19 DEF Ends
    <3>2. p = o
      BY <2>1, <2>2, <2>3, <2>19 DEF Ends
    <3>3. x.phase = "settle" => \A i \in 1..Len(o) : o[i].request_id = 0
      BY <2>10, <2>11 DEF Querying, Resyncing
    <3>4. QED BY <3>1, <3>2, <3>3 DEF Querying
  <2>20. QED BY <1>2, <2>14, <2>15, <2>16, <2>17, <2>18, <2>19 DEF Careful, Acts
<1>3. QED BY <1>1, <1>2

\* Every step is one of these to each client.
LEMMA EveryoneActs ==
  ASSUME ShapeInv, UnusedInv, [ChannelNext]_channelvars
  PROVE  \A d \in Clients : Acts(d) \/ Starts(d)
<1>1. ShapeInv'
  BY StepFacts
<1>2. CASE ServerStep \/ (\E c \in Clients : Reading(c) \/ Calling(c)) \/ UNCHANGED channelvars
  BY <1>1, <1>2, ChannelActs
<1>3. ASSUME NEW c \in Consoles, resync(c) PROVE \A d \in Clients : Acts(d) \/ Starts(d)
  <2>1. c \in Clients
    BY ChannelConfig
  <2>2. QED BY <1>3, <2>1, ResyncStarts DEF Acts
<1>4. QED BY <1>2, <1>3 DEF ChannelNext

\* So it is to careful clients.
LEMMA EveryoneIsCareful ==
  ASSUME ShapeInv, UnusedInv, [CarefulNext]_channelvars
  PROVE  \A d \in Clients : Careful(d)
<1>1. ShapeInv'
  BY CarefulStep, StepFacts
<1>2. CASE ServerStep \/ (\E c \in Clients : Reading(c) \/ Calling(c)) \/ UNCHANGED channelvars
  BY <1>1, <1>2, ChannelActs DEF Careful
<1>3. ASSUME NEW c \in Consoles, client[c].outcome # "failed", resync(c) PROVE \A d \in Clients : Careful(d)
  <2>1. c \in Clients
    BY ChannelConfig
  <2>2. QED BY <1>3, <2>1, ResyncStarts DEF Careful, Acts
<1>4. QED BY <1>2, <1>3 DEF CarefulNext

\* The balance is kept.
LEMMA BalanceStep ==
  ASSUME ShapeInv, UnusedInv, BalanceInv, [ChannelNext]_channelvars
  PROVE  BalanceInv'
<1>1. TypeOK /\ TypeOK'
  BY StepFacts DEF ShapeInv
<1>2. SUFFICES ASSUME NEW c \in Connected'
               PROVE  Balanced(Len(Owed(client[c].socket)), Open(client[c].socket), history.asked[c],
                               history.answered[c])'
  BY DEF BalanceInv
<1>3. c \in Clients /\ (Acts(c) \/ Starts(c))
  BY EveryoneActs DEF Connected
<1>4. QED BY <1>1, <1>3, BalanceActs

\* What is known of resyncs is kept.
LEMMA QueryStep ==
  ASSUME ShapeInv, UnusedInv, RevisionInv, BalanceInv, QueryInv, [CarefulNext]_channelvars
  PROVE  QueryInv'
<1>1. TypeOK /\ TypeOK' /\ revision <= revision'
  BY CarefulStep, StepFacts DEF ShapeInv, ChannelTells, Speaks, Current
<1>2. ASSUME NEW c \in Clients PROVE Resyncing(client[c], history.begun[c], revision)'
  BY <1>1, EveryoneIsCareful, ResyncingActs
<1>3. ASSUME NEW c \in Connected'
      PROVE  Querying(client[c], Owed(client[c].socket), history.asked[c] - history.answered[c], history.begun[c])'
  <2>1. c \in Clients /\ Careful(c)
    BY EveryoneIsCareful DEF Connected
  <2>2. QED BY <1>1, <2>1, QueryingActs
<1>4. QED BY <1>2, <1>3 DEF QueryInv

\* At first nothing is asked.
LEMMA RequestsInit == ChannelInit => UnusedInv /\ BalanceInv /\ QueryInv
<1> SUFFICES ASSUME ChannelInit PROVE UnusedInv /\ BalanceInv /\ QueryInv
  OBVIOUS
<1>1. Connected = {}
  BY DEF ChannelInit, Connected
<1>2. UnusedInv /\ BalanceInv
  BY <1>1 DEF ChannelInit, ServerInit, UnusedInv, BalanceInv
<1>3. ASSUME NEW c \in Clients PROVE Resyncing(client[c], history.begun[c], revision)
  BY DEF ChannelInit, ServerInit, Resyncing
<1>4. QED BY <1>1, <1>2, <1>3 DEF QueryInv

\* The balance of a connection the switch serves is what AnsweredOnce says.
LEMMA BalanceMeaning ==
  ASSUME ShapeInv, BalanceInv
  PROVE  AnsweredOnce
<1>1. SUFFICES ASSUME NEW c \in Connected
               PROVE  LET k == client[c].socket
                          replies == Select(OnTheWay(c), Reply)
                          handled == IF stage = "handle" /\ clients[index] = k THEN Len(inbox) ELSE 0
                      IN  ~Dropped(k) /\ ~peer[k].congested =>
                            history.asked[c] = history.answered[c] + Len(replies) + handled + Len(requests[k])
  BY DEF AnsweredOnce
<1>2. /\ TypeOK /\ c \in Clients /\ clients \in Seq(Connections) /\ backlog \in Seq(Connections)
      /\ history \in History
  BY DEF ShapeInv, TypeOK, ServerType, SocketType, ClientType, Connected
<1>3. PICK k \in Connections : k = client[c].socket /\ k <= dialled
  BY <1>2, SocketFacts DEF ShapeInv, SocketInv, Connected
<1>4. Select(OnTheWay(c), Reply) = Replies(k)
  BY <1>3 DEF OnTheWay, Replies, Way, Coming, Live
<1>5. (IF stage = "handle" /\ clients[index] = k THEN Len(inbox) ELSE 0) = Len(Pending(k))
  BY DEF Pending
<1>6. SUFFICES ASSUME ~Dropped(k), ~peer[k].congested
               PROVE  history.asked[c] = history.answered[c] + Len(Replies(k)) + Len(Pending(k)) + Len(requests[k])
  BY <1>3, <1>4, <1>5
<1>7. Open(k)
  <2>1. Range(clients \o backlog) = Range(clients) \cup Range(backlog)
    BY <1>2, RangeConcatenation
  <2>2. QED BY <1>3, <1>6, <2>1 DEF Dropped, Open, Live
<1>8. PICK a \in Seq(Item), p \in Seq(Item), r \in Seq(Item) : a = Replies(k) /\ p = Pending(k) /\ r = requests[k]
  BY <1>2, OwedType, SeqMonotonic DEF Item
<1>9. PICK t \in Seq(Item) : t = p \o r /\ Len(t) = Len(p) + Len(r)
  BY ConcatProperties
<1>10. Owed(k) = a \o t
  BY <1>7, <1>8, <1>9 DEF Owed, Rest, Todo
<1>11. Len(a \o t) = Len(a) + Len(t)
  BY ConcatProperties
<1>12. PICK x \in Nat, y \in Nat, z \in Nat : x = Len(a) /\ y = Len(p) /\ z = Len(r)
  BY LenProperties
<1>13. PICK m \in Nat, n \in Nat : m = history.asked[c] /\ n = history.answered[c]
  BY <1>2 DEF History
<1>14. n + Len(Owed(k)) = m
  BY <1>3, <1>7, <1>13 DEF BalanceInv, Balanced
<1>15. Len(Owed(k)) = x + (y + z)
  BY <1>9, <1>10, <1>11, <1>12
<1>16. m = n + x + y + z
  BY <1>14, <1>15
<1>17. QED BY <1>8, <1>12, <1>13, <1>16

\* What is known of a resync that has returned is what ResyncIsFresh says.
LEMMA ResyncMeaning ==
  ASSUME ShapeInv, QueryInv
  PROVE  ResyncIsFresh
<1>1. SUFFICES ASSUME NEW c \in Clients, client[c].outcome = "synced", client[c].phase = "idle"
               PROVE  client[c].revision >= history.begun[c]
  BY DEF ResyncIsFresh
<1>2. client[c].revision \in Nat /\ history.begun[c] \in Nat
  BY DEF ShapeInv, TypeOK, ClientType, Client, History
<1>3. history.begun[c] <= client[c].revision
  BY <1>1 DEF QueryInv, Resyncing
<1>4. QED BY <1>2, <1>3

\* Only the answer to the last request takes a resync further.
LEMMA QueryMeaning ==
  ASSUME ShapeInv, UnusedInv, RevisionInv, BalanceInv, QueryInv, [CarefulNext]_channelvars, NEW c \in Clients,
         client[c].phase = "query", client'[c].phase = "settle" \/ client'[c].sequence > client[c].sequence
  PROVE  history.answered[c] + 1 = history.asked[c]
<1>1. TypeOK /\ TypeOK' /\ Careful(c)
  BY CarefulStep, StepFacts, EveryoneIsCareful DEF ShapeInv
<1>2. client[c].sequence \in Nat
  BY <1>1, LedgerFacts DEF Client
<1>3. ~(client[c].sequence > client[c].sequence)
  BY <1>2
<1>4. ~(Waits(c) \/ Hears(c))
  BY <1>3 DEF Waits, Hears
<1>5. ~(Sends(c) \/ Starts(c) \/ Turns(c))
  BY DEF Sends, Starts, Turns
<1>6. ~Ends(c)
  BY <1>3 DEF Ends
<1>7. Learns(c)
  BY <1>1, <1>4, <1>5, <1>6 DEF Careful, Acts
<1>8. QED BY <1>1, <1>7, AnswerIsLast DEF Learns, Stays

\* Every request of a client is in its socket, being handled, answered on the way back,
\* or answered and taken, and no more than once; whatever else is sent, however often it
\* reconnects, and whatever the switch reads in one go.
THEOREM RequestsAreAnsweredOnce == ChannelSpec => []AnsweredOnce
<1> DEFINE Inv == ShapeInv /\ UnusedInv /\ BalanceInv
<1>1. ChannelInit => Inv
  BY ShapeInit, RequestsInit
<1>2. Inv /\ [ChannelNext]_channelvars => Inv'
  BY StepFacts, UnusedStep, BalanceStep
<1>3. Inv => AnsweredOnce
  BY BalanceMeaning
<1>4. QED BY <1>1, <1>2, <1>3, PTL DEF ChannelSpec

\* What the clients of CarefulSpec keep: with every answer the resyncs too.
CarefulInv == ShapeInv /\ UnusedInv /\ RevisionInv /\ BalanceInv /\ QueryInv

\* It holds at first and is kept.
LEMMA CarefulInvariant == CarefulSpec => []CarefulInv
<1>1. ChannelInit => CarefulInv
  BY ShapeInit, RevisionInit, RequestsInit DEF CarefulInv
<1>2. CarefulInv /\ [CarefulNext]_channelvars => CarefulInv'
  BY CarefulStep, StepFacts, UnusedStep, RevisionStep, BalanceStep, QueryStep DEF CarefulInv
<1>3. QED BY <1>1, <1>2, PTL DEF CarefulSpec

\* A resync that succeeds leaves the client with no older revision than the switch had
\* when resync was called, if clients reconnect after one that failed.
THEOREM ResyncsAreFresh == CarefulSpec => []ResyncIsFresh
<1>1. CarefulInv => ResyncIsFresh
  BY ResyncMeaning DEF CarefulInv
<1>2. QED BY <1>1, CarefulInvariant, PTL

\* Under the same condition resync goes on only with the answer to the query it sent
\* last, never with the answer to an earlier one or to a command.
THEOREM QueriesGetTheirAnswers == CarefulSpec => QueryGetsItsAnswer
<1> DEFINE Gets == \A c \in Clients :
                     client[c].phase = "query"
                       /\ (client'[c].phase = "settle" \/ client'[c].sequence > client[c].sequence)
                     => history.answered[c] + 1 = history.asked[c]
<1>1. CarefulInv /\ [CarefulNext]_channelvars => [Gets]_channelvars
  BY QueryMeaning DEF CarefulInv
<1>2. QED BY <1>1, CarefulInvariant, PTL DEF CarefulSpec, QueryGetsItsAnswer

-----------------------------------------------------------------------------
\* What is said of all clients holds as well of clients that reconnect after a resync
\* that failed.
THEOREM CarefulClients ==
  CarefulSpec => [](GaplessStreams /\ RevisionsNeverGoBack /\ ResultEndsRun /\ AnsweredOnce)
<1> DEFINE Inv == CarefulInv /\ RunInv /\ GapInv
<1>1. ChannelInit => RunInv /\ GapInv
  BY RunInit, GapInit
<1>2. CarefulInv /\ RunInv /\ GapInv /\ [CarefulNext]_channelvars => (RunInv /\ GapInv)'
  BY CarefulStep, StepFacts, RunsStep, GapStep DEF CarefulInv
<1>3. Inv => GaplessStreams /\ RevisionsNeverGoBack /\ ResultEndsRun /\ AnsweredOnce
  BY RevisionMeaning, RunMeaning, GapMeaning, BalanceMeaning DEF CarefulInv
<1>4. QED BY <1>1, <1>2, <1>3, CarefulInvariant, PTL DEF CarefulSpec
=============================================================================
