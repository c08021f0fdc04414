---------------------------- MODULE ControlServer ----------------------------
(***************************************************************************)
(* The switch's end of the control channel: ControlServer, a line-oriented *)
(* server polled by the switch's receive loop, and ControlService, which   *)
(* answers requests and numbers the events every client is told of.        *)
(*                                                                         *)
(* A connection is a pair of FIFO socket buffers.  Messages are the unit:  *)
(* the byte limits of ControlServerConfig count messages here.  One poll   *)
(* is several steps (stage says which), so that clients send, read and     *)
(* hang up between any two of them.                                        *)
(***************************************************************************)
EXTENDS BenchmarkRun, Sequences, SequencesExt, FiniteSets, Selection

CONSTANTS
  Connections,      \* 1..n: every connection that is ever dialled
  Topologies,       \* the fault targets of each topology that can be loaded
  Targets,          \* fault targets (ports and links) a client can name
  MaxClients,       \* ControlServerConfig::max_clients
  MaxInbox,         \* requests that fit max_request_bytes
  MaxPending,       \* messages that fit max_pending_bytes
  SocketBuffer,     \* messages the kernel holds for a client that is not reading
  PacketsPerPoll,   \* ControlServerConfig::benchmark_packets_per_poll
  Backends,         \* subset of BOOLEAN: is the analyzer of a run streaming?
  MaxPublished,     \* bound: analysis outcomes and supervision states published
  NoTarget

VARIABLES
  topology, revision, faults,      \* TopologyController
  next_event_sequence,             \* ControlService
  run, next_benchmark_id,
  clients,                         \* clients_: connections in accept order
  peer,                            \* output half of each connection, see Peer
  stage, index, revents, inbox, alive,   \* where poll is
  outgoing,                        \* events numbered but not broadcast yet
  backlog, requests, closed,       \* sockets: dialled, client to server, hung up
  published

controller == <<topology, revision, faults>>
service == <<next_event_sequence, run, next_benchmark_id>>
polling == <<stage, index, revents, inbox, alive>>
sockets == <<backlog, requests, closed>>
servervars == <<controller, service, clients, peer, polling, outgoing, sockets, published>>

ASSUME ServerConfig ==
  /\ IsFiniteSet(Connections) /\ Connections = 1..Cardinality(Connections)
  /\ {MaxClients, MaxInbox, MaxPending, SocketBuffer, PacketsPerPoll} \subseteq Nat \ {0}
  /\ Backends \subseteq BOOLEAN
  /\ Topologies \subseteq SUBSET Targets

Queries == {"get_switch_state", "get_active_faults", "get_supervision_state"}
FaultCommands == {"set_fault", "clear_fault"}
ControlCommand == Queries \cup FaultCommands \cup {"load_topology", "start_benchmark", "stop_run"}

\* A request that does not parse or validate has the command "malformed".
Request ==
  [request_id: Nat, command: ControlCommand \cup {"malformed"},
   revision: Nat, target: Targets \cup {NoTarget}]

Reply == [kind: {"reply"}, request_id: Nat, accepted: BOOLEAN, revision: Nat]

\* Events about a benchmark run, and "state" for those about metrics, faults,
\* the topology, supervision, anomalies and policies.
EventKind == {"progress", "completed", "stopped", "state"}
Event ==
  [kind: {"event"}, sequence: Nat, revision: Nat, about: EventKind, run: Run \cup {NoRun}]

\* ControlServer::Client, and the socket buffer it writes to.
Peer == [outbox: Seq(Reply \cup Event), congested: BOOLEAN, stream: Seq(Reply \cup Event)]

-----------------------------------------------------------------------------
(* enqueue, flush and broadcast.                                           *)

enqueue(p, message) ==
  IF p.congested THEN p
  ELSE IF Len(p.outbox) + 1 > MaxPending
  THEN [p EXCEPT !.congested = TRUE, !.outbox = <<>>]
  ELSE [p EXCEPT !.outbox = Append(@, message)]

\* Writes what the socket takes; nothing once the client has hung up.
flush(p, hung_up) ==
  LET room == IF hung_up \/ Len(p.stream) >= SocketBuffer THEN 0 ELSE SocketBuffer - Len(p.stream)
      sent == Min({room, Len(p.outbox)})
  IN  [p EXCEPT !.stream = @ \o SubSeq(p.outbox, 1, sent),
                !.outbox = SubSeq(@, sent + 1, Len(@))]

\* broadcast: one event to every client, oldest event first.
Broadcast ==
  /\ outgoing # <<>>
  /\ peer' = [k \in Connections |->
                IF \E i \in 1..Len(clients) : clients[i] = k
                THEN flush(enqueue(peer[k], Head(outgoing)), closed[k])
                ELSE peer[k]]
  /\ outgoing' = Tail(outgoing)
  /\ UNCHANGED <<controller, service, clients, polling, sockets, published>>

StateEvents(n) == [i \in 1..n |-> [about |-> "state", run |-> NoRun]]
RunEvent(what, r) == [about |-> what, run |-> r]

\* Mutant: every event of an outcome gets the same number.
SharedNumber(notes, at_revision) ==
  /\ outgoing' = [i \in 1..Len(notes) |->
                    [kind |-> "event", sequence |-> next_event_sequence, revision |-> at_revision,
                     about |-> notes[i].about, run |-> notes[i].run]]
  /\ next_event_sequence' = next_event_sequence + 1

\* Events are stamped with the next sequence numbers and the revision, and are
\* then broadcast in that order.
Publish(notes, at_revision) ==
  /\ outgoing' = [i \in 1..Len(notes) |->
                    [kind |-> "event", sequence |-> next_event_sequence + i - 1, revision |-> at_revision,
                     about |-> notes[i].about, run |-> notes[i].run]]
  /\ next_event_sequence' = next_event_sequence + Len(notes)

-----------------------------------------------------------------------------
(* The supervisor publishes between polls.                                 *)

Between == stage = "between" /\ outgoing = <<>>

\* An analysis may contain or release a port.  publish_analysis tells of the
\* anomaly and the policy it triggered, if there is one, and of the port's
\* fault; with nobody listening nothing is numbered.
publish_analysis ==
  /\ Between /\ published < MaxPublished
  /\ \E t \in topology \cup {NoTarget} :
       /\ faults' \in {faults \cup {t}, faults \ {t}} \cap SUBSET topology
       /\ IF clients = <<>> THEN UNCHANGED <<outgoing, next_event_sequence>>
          ELSE \E n \in IF t = NoTarget THEN {2} ELSE {1, 3} : Publish(StateEvents(n), revision)
  /\ published' = published + 1
  /\ UNCHANGED <<topology, revision, run, next_benchmark_id, clients, peer, polling, sockets>>

publish_supervision ==
  /\ Between /\ published < MaxPublished /\ clients # <<>>
  /\ Publish(StateEvents(1), revision)
  /\ published' = published + 1
  /\ UNCHANGED <<controller, run, next_benchmark_id, clients, peer, polling, sockets>>

-----------------------------------------------------------------------------
(* poll.                                                                   *)

NoEvents == [read |-> {}, write |-> {}]

\* advance_benchmark, on both sides: a run that is finished, or out of time
\* after any slice, reports its result after its progress, and is gone.
AdvanceBenchmark ==
  \E r \in advance(run, PacketsPerPoll) :
    IF r.completed = run.completed /\ ~finished(r)
    THEN run' = r /\ UNCHANGED <<next_event_sequence, outgoing>>
    ELSE \E over \in {finished(r), TRUE} :
           /\ run' = IF over THEN NoRun ELSE r
           /\ Publish(IF over THEN <<RunEvent("progress", r), RunEvent("completed", r)>>
                      ELSE <<RunEvent("progress", r)>>, revision)

StartPoll ==
  /\ Between
  /\ run # NoRun
  /\ AdvanceBenchmark
  /\ stage' = "watch"
  /\ UNCHANGED <<controller, next_benchmark_id, clients, peer, index, revents, inbox, alive,
                 sockets, published>>

\* The switch closes its end of the connections ks: what it had not read or
\* written is gone, what it had written the client can still read.
Hangup(ks) ==
  /\ requests' = [k \in Connections |-> IF k \in ks THEN <<>> ELSE requests[k]]
  /\ peer' = [k \in Connections |->
                IF k \in ks THEN [peer[k] EXCEPT !.outbox = <<>>, !.congested = FALSE] ELSE peer[k]]

\* Mutant: a client with output pending is watched for that alone.
ReadableOnceFlushed(ks) ==
  {k \in ks : /\ peer[k].outbox = <<>>
              /\ requests[k] # <<>> \/ closed[k]}

\* POLLIN: there is a request to read, or the end of the stream.
Readable(ks) == {k \in ks : requests[k] # <<>> \/ closed[k]}

\* POLLOUT, watched for only while output is pending.
Writable(ks) ==
  {k \in ks : /\ peer[k].outbox # <<>>
              /\ Len(peer[k].stream) < SocketBuffer \/ closed[k]}

\* Congested clients are dropped, the sockets are polled, and every connection
\* in the backlog is accepted, or closed when there is no room.
Watch ==
  /\ outgoing = <<>>
  /\ stage = "watch" \/ (stage = "between" /\ run = NoRun)
  /\ LET kept == Select(clients, {k \in Connections : ~peer[k].congested})
         readable == Readable(Range(kept))
         writable == Writable(Range(kept))
         room == IF Len(kept) < MaxClients THEN MaxClients - Len(kept) ELSE 0
         accepted == SubSeq(backlog, 1, Min({room, Len(backlog)}))
         busy == readable \cup writable # {}
     IN  /\ clients' = kept \o accepted
         /\ revents' = [read |-> readable, write |-> writable]
         /\ index' = IF busy THEN Max({i \in 1..Len(kept) : kept[i] \in readable \cup writable}) ELSE 0
         /\ stage' = IF busy THEN "serve" ELSE "between"
         /\ Hangup(Range(clients \o backlog) \ Range(kept \o accepted))
  /\ backlog' = <<>>
  /\ UNCHANGED <<controller, service, inbox, alive, outgoing, closed, published>>

\* The clients before the i-th that poll reported something for: those the loop
\* does not skip.
ReadyBefore(i) == {j \in 1..i - 1 : clients[j] \in revents.read \cup revents.write}

\* The loop goes backwards, so that a client can be erased on the way.
Advance ==
  /\ index' = IF ReadyBefore(index) = {} THEN 0 ELSE Max(ReadyBefore(index))
  /\ stage' = IF ReadyBefore(index) = {} THEN "between" ELSE "serve"
  /\ revents' = IF ReadyBefore(index) = {} THEN NoEvents ELSE revents
  /\ alive' = TRUE

\* serve: drain stops once it read more than max_request_bytes, or the end of
\* the stream; the complete requests it read are handled all the same.
Serve ==
  /\ stage = "serve"
  /\ LET k == clients[index]
         taken == IF k \in revents.read THEN Min({Len(requests[k]), MaxInbox + 1}) ELSE 0
     IN  /\ inbox' = SubSeq(requests[k], 1, taken)
         /\ requests' = [requests EXCEPT ![k] = SubSeq(@, taken + 1, Len(@))]
         /\ alive' = (k \in revents.read => taken <= MaxInbox /\ ~closed[k])
  /\ stage' = "handle"
  /\ UNCHANGED <<controller, service, clients, peer, index, revents, outgoing, backlog, closed, published>>

\* After the requests: flush, and forget a client that hung up, sent too much
\* or is congested.
FinishClient ==
  /\ stage = "handle" /\ inbox = <<>> /\ outgoing = <<>>
  /\ LET k == clients[index]
         flushed == flush(peer[k], closed[k])
         failed == closed[k] /\ peer[k].outbox # <<>>
     IN  IF ~alive \/ failed \/ peer[k].congested
         THEN clients' = RemoveAt(clients, index) /\ Hangup({k})
         ELSE peer' = [peer EXCEPT ![k] = flushed] /\ UNCHANGED <<clients, requests>>
  /\ Advance
  /\ UNCHANGED <<controller, service, inbox, outgoing, backlog, closed, published>>

-----------------------------------------------------------------------------
(* ControlService::dispatch, one action per command.                       *)

Handling == stage = "handle" /\ inbox # <<>> /\ outgoing = <<>>

current_revision == Head(inbox).revision = revision

\* Mutant: events carry the revision of the request.
AnswerAsAsked(accepted, at_revision, notes) ==
  /\ peer' = [peer EXCEPT ![clients[index]] =
                enqueue(@, [kind |-> "reply", request_id |-> Head(inbox).request_id,
                            accepted |-> accepted, revision |-> at_revision])]
  /\ Publish(notes, Head(inbox).revision)
  /\ inbox' = Tail(inbox)
  /\ UNCHANGED <<clients, stage, index, revents, alive, sockets, published>>

\* handle: the reply is enqueued for the client that asked, before the events.
Answer(accepted, at_revision, notes) ==
  /\ peer' = [peer EXCEPT ![clients[index]] =
                enqueue(@, [kind |-> "reply", request_id |-> Head(inbox).request_id,
                            accepted |-> accepted, revision |-> at_revision])]
  /\ Publish(notes, at_revision)
  /\ inbox' = Tail(inbox)
  /\ UNCHANGED <<clients, stage, index, revents, alive, sockets, published>>

reject == Answer(FALSE, revision, <<>>) /\ UNCHANGED <<controller, run, next_benchmark_id>>

\* Mutant: a request that is refused is dropped without a reply.
RefuseSilently ==
  /\ Handling
  /\ Head(inbox).command = "malformed" \/ ~current_revision
  /\ inbox' = Tail(inbox)
  /\ UNCHANGED <<controller, service, clients, peer, stage, index, revents, alive, outgoing,
                 sockets, published>>

\* What does not parse, validate or carry the current revision is refused. A
\* request that does not parse is answered under an empty id: it comes only from
\* send, whose id 0 stands for every id that no query of resync has.
Refuse ==
  /\ Handling
  /\ Head(inbox).command = "malformed" \/ ~current_revision
  /\ reject

Accepts(command) == Handling /\ Head(inbox).command = command /\ current_revision

GetState(command) ==
  /\ Accepts(command)
  /\ Answer(TRUE, revision, StateEvents(1))
  /\ UNCHANGED <<controller, run, next_benchmark_id>>

\* One event for every active fault.
GetActiveFaults ==
  /\ Accepts("get_active_faults")
  /\ Answer(TRUE, revision, StateEvents(Cardinality(faults)))
  /\ UNCHANGED <<controller, run, next_benchmark_id>>

\* A file that cannot be read or is no topology changes nothing.
LoadTopology ==
  /\ Accepts("load_topology")
  /\ \/ reject
     \/ /\ topology' \in Topologies
        /\ revision' = revision + 1
        /\ faults' = {}
        /\ Answer(TRUE, revision', StateEvents(1))
        /\ UNCHANGED <<run, next_benchmark_id>>

\* set_port_fault, set_link_fault: refused on a target the topology lacks, or
\* when the configuration is invalid.
SetFault ==
  /\ Accepts("set_fault")
  /\ \/ reject
     \/ /\ Head(inbox).target \in topology
        /\ faults' = faults \cup {Head(inbox).target}
        /\ Answer(TRUE, revision, StateEvents(1))
        /\ UNCHANGED <<topology, revision, run, next_benchmark_id>>

ClearFault ==
  /\ Accepts("clear_fault")
  /\ \/ Head(inbox).target \notin faults /\ reject
     \/ /\ Head(inbox).target \in faults
        /\ faults' = faults \ {Head(inbox).target}
        /\ Answer(TRUE, revision, StateEvents(1))
        /\ UNCHANGED <<topology, revision, run, next_benchmark_id>>

\* One run at a time; a backend or scenario nobody can build is refused.
start_benchmark ==
  /\ Accepts("start_benchmark")
  /\ \/ reject
     \/ /\ run = NoRun
        /\ \E streaming \in Backends : run' = create(next_benchmark_id, streaming)
        /\ next_benchmark_id' = next_benchmark_id + 1
        /\ Answer(TRUE, revision, <<RunEvent("progress", run')>>)
        /\ UNCHANGED controller

stop_run ==
  /\ Accepts("stop_run")
  /\ \/ run = NoRun /\ reject
     \/ /\ run # NoRun
        /\ Answer(TRUE, revision, <<RunEvent("stopped", run)>>)
        /\ run' = NoRun
        /\ UNCHANGED <<controller, next_benchmark_id>>

dispatch ==
  \/ Refuse
  \/ GetState("get_switch_state")
  \/ GetState("get_supervision_state")
  \/ GetActiveFaults \/ LoadTopology \/ SetFault \/ ClearFault
  \/ start_benchmark \/ stop_run

poll == StartPoll \/ Watch \/ Serve \/ dispatch \/ FinishClient

-----------------------------------------------------------------------------
\* vswitch_main loads a topology before it serves the control protocol.
ServerInit ==
  /\ topology \in Topologies
  /\ revision = 1
  /\ faults = {}
  /\ next_event_sequence = 1
  /\ run = NoRun
  /\ next_benchmark_id = 1
  /\ clients = <<>>
  /\ peer = [k \in Connections |-> [outbox |-> <<>>, congested |-> FALSE, stream |-> <<>>]]
  /\ stage = "between"
  /\ index = 0
  /\ revents = NoEvents
  /\ inbox = <<>>
  /\ alive = TRUE
  /\ outgoing = <<>>
  /\ backlog = <<>>
  /\ requests = [k \in Connections |-> <<>>]
  /\ closed = [k \in Connections |-> FALSE]
  /\ published = 0

Server == Broadcast \/ publish_analysis \/ publish_supervision \/ poll

=============================================================================
