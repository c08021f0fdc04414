--------------------------- MODULE ControlChannel ----------------------------
(***************************************************************************)
(* Both ends of the control channel: ControlServer with the ControlClients *)
(* that dial it.  A client sends commands, reads what the switch says, and *)
(* after it lost the connection reconnects and resynchronises: resync asks *)
(* three queries in turn, repeats one that was refused because the         *)
(* topology moved on, and gives up when its deadline passes.               *)
(***************************************************************************)
EXTENDS ControlServer

CONSTANTS
  Clients,          \* the ControlClient objects
  Operators,        \* those that send commands
  Consoles,         \* those that resynchronise
  Leaving,          \* those that may close their connection for good
  Commands,         \* the commands operators send
  MaxCommands,      \* bound: commands sent
  MaxResyncs,       \* bound: calls of resync
  Unconnected       \* the socket of a client that is not connected

VARIABLES
  client,           \* see Client
  dialled,          \* connections dialled so far; the next is dialled + 1
  commands,         \* commands sent so far
  resyncs,          \* calls of resync so far
  history           \* what the properties remember, see ChannelInit

channelvars == <<servervars, client, dialled, commands, resyncs, history>>

QUERIES == <<"get_switch_state", "get_active_faults", "get_supervision_state">>

Client ==
  [socket: Connections \cup {Unconnected},
   revision: Nat,                      \* topology_revision_
   phase: {"idle", "query", "settle"}, \* inside resync, or not
   query: 1..Len(QUERIES),             \* which of QUERIES
   attempt: 0..1,
   sequence: Nat,                      \* of the last request_id, "resync-<n>"
   outcome: {"none", "synced", "failed"}]   \* of the last resync on this socket

ASSUME ChannelConfig ==
  /\ Operators \cup Consoles \cup Leaving \subseteq Clients
  /\ Commands \subseteq ControlCommand \cup {"malformed"}
  /\ Unconnected \notin Connections

\* The switch closed the connection, or never took it from the backlog.
Dropped(k) == k <= dialled /\ k \notin Range(clients \o backlog)

-----------------------------------------------------------------------------
(* connect, reconnect, close and send.                                     *)

\* close: what was on the way to the client is gone.
close(c, now) ==
  LET k == client[c].socket
  IN  /\ closed' = [j \in Connections |-> closed[j] \/ j = k]
      /\ peer' = [j \in Connections |-> IF j = k THEN [peer[j] EXCEPT !.stream = <<>>] ELSE peer[j]]
      /\ client' = [client EXCEPT ![c].socket = now, ![c].outcome = "none"]
      /\ history' = [history EXCEPT !.asked[c] = 0, !.answered[c] = 0, !.heard[c] = 0]

Disconnect(c) ==
  /\ client[c].phase = "idle"
  /\ client[c].socket # Unconnected
  /\ close(c, Unconnected)
  /\ UNCHANGED <<controller, service, clients, polling, outgoing, backlog, requests, published,
                 dialled, commands, resyncs>>

\* reconnect closes before it dials, and nobody may answer.
reconnect_fails(c) == dialled + 1 \in Connections /\ Disconnect(c)

\* connect, and reconnect of a client that was connected: only the connection
\* is new, topology_revision_ stays.
reconnect(c) ==
  /\ client[c].phase = "idle"
  /\ dialled + 1 \in Connections
  /\ dialled' = dialled + 1
  /\ backlog' = Append(backlog, dialled')
  /\ close(c, dialled')
  /\ UNCHANGED <<controller, service, clients, polling, outgoing, requests, published, commands, resyncs>>

\* A request goes into the socket; it is lost if the switch closed it.
Transmit(c, id, command, at_revision, target) ==
  LET k == client[c].socket
      request == [request_id |-> id, command |-> command, revision |-> at_revision, target |-> target]
  IN  requests' = IF Dropped(k) THEN requests
                  ELSE [requests EXCEPT ![k] = Append(@, request)]

\* The caller's own command, with the revision of the switch as it is sent: it
\* may well be stale when the command is handled.
send(c, command, target) ==
  /\ client[c].phase = "idle"
  /\ client[c].socket # Unconnected
  /\ commands < MaxCommands
  /\ commands' = commands + 1
  /\ Transmit(c, 0, command, revision, target)
  /\ history' = [history EXCEPT !.asked[c] = @ + 1]
  /\ UNCHANGED <<controller, service, clients, peer, polling, outgoing, backlog, closed, published,
                 client, dialled, resyncs>>

-----------------------------------------------------------------------------
(* receive.  The messages drain put in inbox_ are still in the stream here: *)
(* when they leave the socket makes no difference to what is said in it.   *)

\* The message take_message would return, if any.
NextMessage(c) ==
  LET k == client[c].socket
  IN  IF k # Unconnected /\ peer[k].stream # <<>> THEN {Head(peer[k].stream)} ELSE {}

\* It is taken, and the history notes what the client has heard.
Take(c, message) ==
  /\ peer' = [peer EXCEPT ![client[c].socket].stream = Tail(@)]
  /\ history' = IF message.kind = "event"
                THEN [history EXCEPT !.heard[c] = message.sequence]
                ELSE [history EXCEPT !.answered[c] = @ + 1]

\* A caller takes the next message.  Those that arrived before the switch
\* closed the connection can still be taken, after receive reported it.
receive(c) ==
  /\ client[c].phase = "idle"
  /\ \E message \in NextMessage(c) : Take(c, message)
  /\ UNCHANGED <<controller, service, clients, polling, outgoing, sockets, published,
                 client, dialled, commands, resyncs>>

-----------------------------------------------------------------------------
(* resync.                                                                 *)

\* Request ids start anew with every resync.
resync(c) ==
  /\ client[c].phase = "idle"
  /\ client[c].socket # Unconnected
  /\ resyncs < MaxResyncs
  /\ resyncs' = resyncs + 1
  /\ Transmit(c, 1, QUERIES[1], client[c].revision, NoTarget)
  /\ history' = [history EXCEPT !.asked[c] = @ + 1, !.begun[c] = revision]
  /\ client' = [client EXCEPT ![c].phase = "query", ![c].query = 1, ![c].attempt = 0, ![c].sequence = 1]
  /\ UNCHANGED <<controller, service, clients, peer, polling, outgoing, backlog, closed, published,
                 dialled, commands>>

\* Mutant: the next reply is taken for the answer.
AnyReply(c, message) == message.kind = "reply"

\* Only a reply that carries the query's request_id is its answer.
IsAnswer(c, message) ==
  message.kind = "reply" /\ message.request_id = client[c].sequence

\* query keeps anything else for the caller, in ControlResync::messages; so
\* does the settling after the last query.  Once the switch has closed the
\* connection what was drained before is still taken; ResyncFails is the drain
\* that sees the end of the stream.
ResyncHears(c) ==
  /\ client[c].phase # "idle"
  /\ \E message \in NextMessage(c) :
       /\ client[c].phase = "query" => ~IsAnswer(c, message)
       /\ Take(c, message)
  /\ UNCHANGED <<controller, service, clients, polling, outgoing, sockets, published,
                 client, dialled, commands, resyncs>>

\* Mutant: the revision of a refusal is not taken over.
LearnsFromAcceptance(c, reply) == IF reply.accepted THEN reply.revision ELSE client[c].revision

\* Every reply carries the revision of the switch, a refusal too.
Learned(c, reply) == reply.revision

\* The answer to a query: it is asked again, once, if it was refused at a
\* revision the client had not seen; else the next one is, or settling begins.
ResyncAnswered(c) ==
  /\ client[c].phase = "query"
  /\ \E reply \in NextMessage(c) :
       /\ IsAnswer(c, reply)
       /\ LET moved == reply.revision # client[c].revision
              again == ~reply.accepted /\ moved /\ client[c].attempt = 0
              next == IF again THEN client[c].query ELSE client[c].query + 1
              told == [history EXCEPT !.answered[c] = @ + 1]
          IN  /\ peer' = [peer EXCEPT ![client[c].socket].stream = Tail(@)]
              /\ IF next > Len(QUERIES)
                 THEN /\ client' = [client EXCEPT ![c].revision = Learned(c, reply), ![c].phase = "settle"]
                      /\ history' = told
                      /\ UNCHANGED requests
                 ELSE /\ client' = [client EXCEPT ![c].revision = Learned(c, reply), ![c].query = next,
                                                  ![c].attempt = IF again THEN 1 ELSE 0,
                                                  ![c].sequence = @ + 1]
                      /\ Transmit(c, client[c].sequence + 1, QUERIES[next], Learned(c, reply), NoTarget)
                      /\ history' = [told EXCEPT !.asked[c] = @ + 1]
  /\ UNCHANGED <<controller, service, clients, polling, outgoing, backlog, closed, published,
                 dialled, commands, resyncs>>

\* The deadline passes before the answer is there, or the connection is gone.
ResyncFails(c) ==
  /\ \/ client[c].phase = "query"
     \/ client[c].phase = "settle" /\ Dropped(client[c].socket)
  /\ client' = [client EXCEPT ![c].phase = "idle", ![c].outcome = "failed"]
  /\ UNCHANGED <<servervars, dialled, commands, resyncs, history>>

\* 50 ms of silence, or the deadline, end the settling: resync returns.
ResyncReturns(c) ==
  /\ client[c].phase = "settle"
  /\ client' = [client EXCEPT ![c].phase = "idle", ![c].outcome = "synced"]
  /\ UNCHANGED <<servervars, dialled, commands, resyncs, history>>

-----------------------------------------------------------------------------
ChannelInit ==
  /\ ServerInit
  /\ client = [c \in Clients |->
                 [socket |-> Unconnected, revision |-> 0, phase |-> "idle", query |-> 1,
                  attempt |-> 0, sequence |-> 0, outcome |-> "none"]]
  /\ dialled = 0
  /\ commands = 0
  /\ resyncs = 0
  /\ history =
       [asked    |-> [c \in Clients |-> 0],    \* requests sent on this socket
        answered |-> [c \in Clients |-> 0],    \* replies taken from it
        heard    |-> [c \in Clients |-> 0],    \* sequence of the last event taken
        begun    |-> [c \in Clients |-> 0]]    \* the revision when resync was called

Reading(c) == receive(c) \/ ResyncHears(c) \/ ResyncAnswered(c) \/ ResyncReturns(c)

Calling(c) ==
  \/ reconnect(c) \/ reconnect_fails(c) \/ ResyncFails(c)
  \/ c \in Leaving /\ Disconnect(c)
  \/ /\ c \in Operators
     /\ \E command \in Commands :
          \E target \in IF command \in FaultCommands THEN Targets ELSE {NoTarget} : send(c, command, target)

ServerStep == Server /\ UNCHANGED <<client, dialled, commands, resyncs, history>>

\* Clients call resync as often as they like.
ChannelNext ==
  \/ ServerStep
  \/ \E c \in Clients : Reading(c) \/ Calling(c)
  \/ \E c \in Consoles : resync(c)

\* Clients reconnect after a resync that failed, as README.md:364 describes.
CarefulNext ==
  \/ ServerStep
  \/ \E c \in Clients : Reading(c) \/ Calling(c)
  \/ \E c \in Consoles : client[c].outcome # "failed" /\ resync(c)

\* The receive loop keeps polling.  Nothing obliges a client to read.
PollStep == (Broadcast \/ poll) /\ UNCHANGED <<client, dialled, commands, resyncs, history>>

ChannelSpec == ChannelInit /\ [][ChannelNext]_channelvars /\ WF_channelvars(PollStep)
CarefulSpec == ChannelInit /\ [][CarefulNext]_channelvars /\ WF_channelvars(PollStep)

-----------------------------------------------------------------------------
(* Properties.                                                             *)

\* Everything on its way to client c: in the socket, in the outbox, and not
\* broadcast yet.
OnTheWay(c) ==
  LET k == client[c].socket
  IN  peer[k].stream \o peer[k].outbox
        \o (IF k \in Range(clients) /\ ~peer[k].congested THEN outgoing ELSE <<>>)

Sequences(messages) ==
  LET numbered == Select(messages, Event)
  IN  [i \in 1..Len(numbered) |-> numbered[i].sequence]

Connected == {c \in Clients : client[c].socket # Unconnected}

\* An event "carries the sequence number [clients] use to order it"
\* (control_server.hpp:55): a connected client is told every event from the
\* first it hears on, in order and without a gap, whatever else polls, publishes
\* or falls behind; one that cannot keep up loses its connection, not an event.
GaplessStreams ==
  \A c \in Connected :
    LET k == client[c].socket
        numbers == (IF history.heard[c] = 0 THEN <<>> ELSE <<history.heard[c]>>) \o Sequences(OnTheWay(c))
    IN  /\ \A i \in 1..Len(numbers) - 1 : numbers[i + 1] = numbers[i] + 1
        /\ numbers # <<>> /\ k \in Range(clients) /\ ~peer[k].congested =>
             Last(numbers) = next_event_sequence - 1

\* A client never hears of an older topology after a newer one, be it in a reply
\* or in an event, and never goes by a newer one than it was told of.
RevisionsNeverGoBack ==
  \A c \in Connected :
    LET heard == OnTheWay(c)
    IN  /\ \A i \in 1..Len(heard) - 1 : heard[i].revision <= heard[i + 1].revision
        /\ \A i \in 1..Len(heard) : heard[i].revision \in client[c].revision..revision

\* "A reply goes to the client that asked" (control_server.hpp:54), once: every
\* request of a connected client is in the socket, being handled, answered on
\* the way back, or answered and taken.
AnsweredOnce ==
  \A c \in Connected :
    LET k == client[c].socket
        replies == Select(OnTheWay(c), Reply)
        handled == IF stage = "handle" /\ clients[index] = k THEN Len(inbox) ELSE 0
    IN  ~Dropped(k) /\ ~peer[k].congested =>
          history.asked[c] = history.answered[c] + Len(replies) + handled + Len(requests[k])

\* "What the client believed about the switch is re-established by resync()"
\* (control_server.cpp:711): a resync that succeeds leaves the client with no
\* older revision than the switch had when resync was called.
ResyncIsFresh ==
  \A c \in Clients : client[c].outcome = "synced" /\ client[c].phase = "idle" =>
                       client[c].revision >= history.begun[c]

\* "Anything that is not this request's answer is an event the caller still
\* wants" (control_server.cpp:809-811): resync moves on only with the reply to
\* the query it just sent, which is the last it sent, so the last to come.
QueryGetsItsAnswer ==
  [][\A c \in Clients :
       client[c].phase = "query" /\ (client'[c].phase = "settle" \/ client'[c].sequence > client[c].sequence)
         => history.answered[c] + 1 = history.asked[c]]_channelvars

\* A result is the last a client hears of a run, its progress never goes back,
\* and a run reported as complete to the last packet accounts for every packet.
ResultEndsRun ==
  \A c \in Connected :
    LET heard == Select(OnTheWay(c), {m \in Event : m.run # NoRun})
    IN  /\ \A i, j \in 1..Len(heard) : i < j =>
             \/ heard[i].run.operation < heard[j].run.operation
             \/ /\ heard[i].about = "progress"
                /\ heard[i].run.completed <= heard[j].run.completed
        /\ \A i \in 1..Len(heard) : heard[i].about = "completed" /\ finished(heard[i].run) =>
             heard[i].run.received = PacketCount

\* "A client that stops reading must never be able to stall" the switch
\* (control_server.hpp:58): whatever other clients do, what a client sent is
\* read, unless it is dropped.
EveryRequestIsRead == \A k \in Connections : requests[k] # <<>> ~> requests[k] = <<>> \/ Dropped(k)

\* "An active benchmark must keep moving even while every client is quiet"
\* (control_server.cpp:318): a run that was started ends, with its result.
BenchmarkEnds == run # NoRun ~> run = NoRun

=============================================================================
