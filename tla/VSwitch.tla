------------------------------- MODULE VSwitch -------------------------------
(***************************************************************************)
(* The live switch: VSwitch::start's receive loop over a MacTable, with    *)
(* the fault of the sender's port judged before a frame is learned or      *)
(* forwarded (FrameGate::inspect over FaultEngine::evaluate), copies       *)
(* deferred by latency, jitter or a bandwidth cap, and stop() called from  *)
(* another thread at any point.                                            *)
(*                                                                         *)
(* Frames are [from, src, dst]; their bytes are abstracted to whether they *)
(* parse.  All frames have one size, so a bandwidth cap is the time        *)
(* transmission_time gives one frame.  Random draws are nondeterminism.    *)
(* Here a sender and its topology port are the same thing: SwitchSupervisor*)
(* binds them once.                                                        *)
(***************************************************************************)
EXTENDS Integers, Sequences, FiniteSets, FiniteSetsExt, SequencesExt, Selection

CONSTANTS
  Endpoints,      \* senders, each on its own port
  Macs,           \* addresses, Broadcast among them
  Broadcast,
  Frames,         \* well-formed frames that arrive: [from, src, dst]
  Faults,         \* port fault configurations that get installed
  SocketErrors,   \* may poll and sendto fail on an open socket?
  MaxFrames,      \* bound: frames received
  MaxFaults,      \* bound: fault changes
  MaxNow,         \* bound: last instant of the clock
  NoEndpoint

Fault ==
  [blocked: BOOLEAN,      \* blackhole or isolated
   lossy: BOOLEAN,        \* loss between 0 and 100 percent
   duplicates: BOOLEAN,   \* duplication between 0 and 100 percent
   latency: Nat, jitter: Nat,
   cost: Nat]             \* transmission_time of a frame; 0 without a cap

NoFault ==
  [blocked |-> FALSE, lossy |-> FALSE, duplicates |-> FALSE,
   latency |-> 0, jitter |-> 0, cost |-> 0]

ASSUME ConstantTypes ==
  /\ IsFiniteSet(Macs) /\ Broadcast \in Macs
  /\ Frames \subseteq [from: Endpoints, src: Macs, dst: Macs]
  /\ Faults \subseteq Fault
  /\ NoEndpoint \notin Endpoints
  /\ MaxFrames \in Nat /\ MaxFaults \in Nat /\ MaxNow \in Nat /\ SocketErrors \in BOOLEAN

VARIABLES
  pc,          \* where the receive loop is
  running,     \* running_
  socket,      \* "open" or "closed"
  stopping,    \* the thread in stop(): "no", "closing" or "returned"
  table,       \* MacTable::table_
  pending,     \* pending_: deferred copies
  outbox,      \* copies the current handler still has to hand to deliver
  port,        \* FaultEngine::states_: the fault of each port and its next_transmit_time
  metrics,     \* SwitchMetrics: packet counters but for broadcasts and learned addresses
  now,
  history      \* what the properties remember, see Init

vars == <<pc, running, socket, stopping, table, pending, outbox, port, metrics,
          now, history>>

-----------------------------------------------------------------------------
(* FaultEngine::evaluate.                                                  *)

\* A copy leaves no earlier than the port is done with the one before it.
DeliveryTime(fault, earliest, next) ==
  IF fault.cost = 0 THEN earliest ELSE Max({earliest, next})

NextTransmit(fault, time, next) == IF fault.cost = 0 THEN next ELSE time + fault.cost

\* A FaultDecision: the delivery times of the copies (none when dropped) and the
\* next_transmit_time it leaves behind.
One(state, earliest) ==
  LET t == DeliveryTime(state.fault, earliest, state.next)
  IN  [times |-> <<t>>, next |-> NextTransmit(state.fault, t, state.next)]

\* Mutant: the cap is charged once for a duplicated frame.
TwoForOne(state, earliest) ==
  LET first == One(state, earliest)
  IN  [times |-> first.times \o first.times, next |-> first.next]

Two(state, earliest) ==
  LET first  == One(state, earliest)
      second == One([state EXCEPT !.next = first.next], earliest)
  IN  [times |-> first.times \o second.times, next |-> second.next]

\* Every decision evaluate can come to for a frame that arrives now.
FaultDecisions(state) ==
  LET fault == state.fault
      dropped == [times |-> <<>>, next |-> state.next]
      earliest == {now + fault.latency + j : j \in 0..fault.jitter}
  IN  IF fault.blocked THEN {dropped}
      ELSE (IF fault.lossy THEN {dropped} ELSE {})
           \cup {One(state, t) : t \in earliest}
           \cup (IF fault.duplicates THEN {Two(state, t) : t \in earliest} ELSE {})

-----------------------------------------------------------------------------
(* The receive loop.                                                       *)

\* SwitchMetrics: one more for each of these counters.
Count(counters) ==
  metrics' = [c \in DOMAIN metrics |-> IF c \in counters THEN metrics[c] + 1 ELSE metrics[c]]

Start ==
  /\ pc = "idle"
  /\ ~running
  /\ running' = TRUE
  /\ pc' = "loop"
  /\ UNCHANGED <<socket, stopping, table, pending, outbox, port, metrics, now, history>>

\* The copies of a sequence that are due, and those that have to wait.
Due(copies) == {copy \in Range(copies) : copy.due <= now}
Later(copies) == Range(copies) \ Due(copies)

\* Mutant: due copies are handed over but stay deferred.
DrainKeepsCopies ==
  /\ pc = "loop"
  /\ running
  /\ outbox' = Select(pending, Due(pending))
  /\ pc' = "draining"
  /\ UNCHANGED <<running, socket, stopping, table, pending, port, metrics, now, history>>

\* Mutant: the loop condition does not look at running_.
DrainForever ==
  /\ pc = "loop"
  /\ outbox' = Select(pending, Due(pending))
  /\ pending' = Select(pending, Later(pending))
  /\ pc' = "draining"
  /\ UNCHANGED <<running, socket, stopping, table, port, metrics, now, history>>

\* drain_due: hand over the due copies in the order they were deferred.
DrainDue ==
  /\ pc = "loop"
  /\ running
  /\ outbox' = Select(pending, Due(pending))
  /\ pending' = Select(pending, Later(pending))
  /\ pc' = "draining"
  /\ UNCHANGED <<running, socket, stopping, table, port, metrics, now, history>>

\* Mutant: what is still deferred is left behind.
LeaveCopies ==
  /\ pc = "loop"
  /\ ~running
  /\ pc' = "done"
  /\ UNCHANGED <<running, socket, stopping, table, pending, outbox, port, metrics, now, history>>

\* The loop saw running_ go down and drops what is still deferred.
Leave ==
  /\ pc = "loop"
  /\ ~running
  /\ pc' = "done"
  /\ pending' = <<>>
  /\ history' = [history EXCEPT !.discarded = @ + Len(pending)]
  /\ UNCHANGED <<running, socket, stopping, table, outbox, port, metrics, now>>

\* deliver: one sendto.  It fails on a closed socket and may fail on an open one.
Deliver ==
  /\ outbox # <<>>
  /\ outbox' = Tail(outbox)
  /\ \/ /\ socket = "open"
        /\ Count({"forwarded"})
        /\ UNCHANGED history
     \/ /\ socket = "closed" \/ SocketErrors
        /\ Count({"dropped"})
        /\ history' = [history EXCEPT !.failed = @ + 1]
  /\ UNCHANGED <<pc, running, socket, stopping, table, pending, port, now>>

EnterWait ==
  /\ pc = "draining"
  /\ outbox = <<>>
  /\ pc' = "wait"
  /\ UNCHANGED <<running, socket, stopping, table, pending, outbox, port, metrics, now, history>>

\* wait_budget is never longer than the gate's tick interval, so a wait without
\* a frame ends.
Timeout ==
  /\ pc = "wait"
  /\ pc' = "tick"
  /\ UNCHANGED <<running, socket, stopping, table, pending, outbox, port, metrics, now, history>>

\* wait_readable reports a closed socket or an error: the loop calls stop(),
\* which closes the socket if running_ was still up, and ends.
WaitFails ==
  /\ pc = "wait"
  /\ socket = "closed" \/ SocketErrors
  /\ running' = FALSE
  /\ socket' = IF running THEN "closed" ELSE socket
  /\ pc' = "done"
  /\ pending' = <<>>
  /\ history' = [history EXCEPT !.discarded = @ + Len(pending)]
  /\ UNCHANGED <<stopping, table, outbox, port, metrics, now>>

Receiving ==
  /\ pc = "wait"
  /\ socket = "open"
  /\ metrics.received < MaxFrames

ReceiveMalformed ==
  /\ Receiving
  /\ Count({"received", "malformed", "dropped"})
  /\ pc' = "tick"
  /\ UNCHANGED <<running, socket, stopping, table, pending, outbox, port, now, history>>

\* Mutant: the source address is learned before the gate is asked.
BlockAfterLearning(f, decision) ==
  /\ decision.times = <<>>
  /\ table' = [table EXCEPT ![f.src] = f.from]
  /\ Count({"received", "dropped"})
  /\ pc' = "tick"
  /\ history' = [history EXCEPT !.taught[f.from] = now]
  /\ UNCHANGED <<pending, outbox>>

\* The gate dropped the frame: nothing is learned, nothing is sent.
Block(f, decision) ==
  /\ decision.times = <<>>
  /\ Count({"received", "dropped"})
  /\ pc' = "tick"
  /\ UNCHANGED <<table, pending, outbox, history>>

Learned(f) == [table EXCEPT ![f.src] = f.from]

KnownMacs(t) == {mac \in Macs : t[mac] # NoEndpoint}

\* get_all_endpoints_except lists one endpoint per address in the table other
\* than the excluded one.
EndpointsExcept(t, src) ==
  LET macs == SetToSeq(KnownMacs(t) \ {src})
  IN  [i \in 1..Len(macs) |-> t[macs[i]]]

\* Where process_frame sends a frame once its source is learned.
Destinations(f) ==
  LET t == Learned(f)
  IN  IF t[f.dst] # NoEndpoint THEN <<t[f.dst]>>
      ELSE IF f.dst = Broadcast THEN EndpointsExcept(t, f.src) ELSE <<>>

\* schedule: the copies of a frame, one per destination and delivery time.
Copies(f, decision) ==
  FlattenSeq([i \in 1..Len(Destinations(f)) |->
    [k \in 1..Len(decision.times) |->
      [due |-> decision.times[k], to |-> Destinations(f)[i], from |-> f.from,
       arrival |-> now, id |-> <<metrics.received, k>>]]])

\* Learn the source and schedule the copies.
Forward(f, decision) ==
  LET copies == Copies(f, decision)
      unknown == Learned(f)[f.dst] = NoEndpoint /\ f.dst # Broadcast
  IN  /\ decision.times # <<>>
      /\ table' = Learned(f)
      /\ outbox' = Select(copies, Due(copies))
      /\ pending' = pending \o Select(copies, Later(copies))
      /\ Count({"received"} \cup IF unknown THEN {"dropped", "unknown"} ELSE {})
      /\ history' = [history EXCEPT !.copies = @ + Len(copies), !.taught[f.from] = now]
      /\ pc' = IF unknown THEN "tick" ELSE "sending"

\* process_frame for a frame that parses.  A late copy must still come due.
ReceiveFrame(f) ==
  /\ Receiving
  /\ \E decision \in FaultDecisions(port[f.from]) :
       /\ \A k \in 1..Len(decision.times) : decision.times[k] <= MaxNow
       /\ Block(f, decision) \/ Forward(f, decision)
       /\ port' = [port EXCEPT ![f.from].next = decision.next]
  /\ UNCHANGED <<running, socket, stopping, now>>

Sent ==
  /\ pc = "sending"
  /\ outbox = <<>>
  /\ pc' = "tick"
  /\ UNCHANGED <<running, socket, stopping, table, pending, outbox, port, metrics, now, history>>

\* gate_->tick: analysis and the control plane may change the fault of a port,
\* which also restarts its shaper (set_fault assigns a fresh FaultState).
Tick ==
  /\ pc = "tick"
  /\ pc' = "loop"
  /\ UNCHANGED <<running, socket, stopping, table, pending, outbox, port, metrics, now, history>>

TickSetsFault(e, fault) ==
  /\ pc = "tick"
  /\ history.changes < MaxFaults
  /\ pc' = "loop"
  /\ port' = [port EXCEPT ![e] = [fault |-> fault, next |-> 0]]
  /\ history' = [history EXCEPT !.changes = @ + 1,
                                !.since[e] = now,
                                !.epoch[e] = metrics.received]
  /\ UNCHANGED <<running, socket, stopping, table, pending, outbox, metrics, now>>

-----------------------------------------------------------------------------
(* Another thread calls stop(), and time passes.                           *)

\* exchange(false): only the call that takes running_ down goes on to close the
\* socket, and a stop() before start() set it returns at once.
StopExchange ==
  /\ stopping = "no"
  /\ stopping' = IF running THEN "closing" ELSE "returned"
  /\ running' = FALSE
  /\ UNCHANGED <<pc, socket, table, pending, outbox, port, metrics, now, history>>

StopClose ==
  /\ stopping = "closing"
  /\ socket' = "closed"
  /\ stopping' = "returned"
  /\ UNCHANGED <<pc, running, table, pending, outbox, port, metrics, now, history>>

\* Every handler reads the clock once, so it is enough that time passes between
\* them, where the loop waits.
Clock ==
  /\ pc = "wait"
  /\ now < MaxNow
  /\ now' = now + 1
  /\ UNCHANGED <<pc, running, socket, stopping, table, pending, outbox, port, metrics, history>>

-----------------------------------------------------------------------------
Init ==
  /\ pc = "idle"
  /\ running = FALSE
  /\ socket = "open"
  /\ stopping = "no"
  /\ table = [mac \in Macs |-> NoEndpoint]
  /\ pending = <<>>
  /\ outbox = <<>>
  /\ port = [e \in Endpoints |-> [fault |-> NoFault, next |-> 0]]
  /\ metrics = [received |-> 0, malformed |-> 0, unknown |-> 0, dropped |-> 0, forwarded |-> 0]
  /\ now = 0
  /\ history =
       [copies    |-> 0,                          \* copies ever scheduled
        failed    |-> 0,                          \* copies sendto refused
        discarded |-> 0,                          \* copies still deferred at the end
        taught    |-> [e \in Endpoints |-> 0],    \* when e last taught the table
        since     |-> [e \in Endpoints |-> 0],    \* when the fault of e was installed
        epoch     |-> [e \in Endpoints |-> 0],    \* frames received before that
        changes   |-> 0]

Loop ==
  \/ DrainDue \/ Leave \/ Deliver \/ EnterWait \/ Timeout \/ WaitFails \/ Sent \/ Tick

Receive == ReceiveMalformed \/ \E f \in Frames : ReceiveFrame(f)

Gate == \E e \in Endpoints : \E fault \in Faults : TickSetsFault(e, fault)

Stop == StopExchange \/ StopClose

Next == Start \/ Loop \/ Receive \/ Gate \/ Stop \/ Clock

Spec == Init /\ [][Next]_vars

\* The loop's thread and the thread in stop() keep running, and so does time.
\* Nobody owes the switch a frame, a fault or a stop.
FairSpec == Spec /\ WF_vars(Start) /\ WF_vars(Loop) /\ WF_vars(StopClose) /\ SF_vars(Clock)

-----------------------------------------------------------------------------
(* Properties.                                                             *)

\* A deferred copy: when and where it goes, whose frame it is a copy of, when
\* that frame arrived, and which of the frame's delivery times it has.
Copy == [due: Nat, to: Endpoints, from: Endpoints, arrival: Nat, id: Nat \X {1, 2}]

Metrics == [{"received", "malformed", "unknown", "dropped", "forwarded"} -> Nat]

History ==
  [copies: Nat, failed: Nat, discarded: Nat, changes: Nat,
   taught: [Endpoints -> Nat], since: [Endpoints -> Nat], epoch: [Endpoints -> Nat]]

TypeOK ==
  /\ pc \in {"idle", "loop", "draining", "wait", "sending", "tick", "done"}
  /\ running \in BOOLEAN
  /\ socket \in {"open", "closed"}
  /\ stopping \in {"no", "closing", "returned"}
  /\ table \in [Macs -> Endpoints \cup {NoEndpoint}]
  /\ pending \in Seq(Copy) /\ outbox \in Seq(Copy)
  /\ port \in [Endpoints -> [fault: Fault, next: Nat]]
  /\ metrics \in Metrics
  /\ now \in Nat
  /\ history \in History

\* No copy is lost or sent twice: each one scheduled is deferred, about to be
\* sent, counted as forwarded or dropped, or discarded when the loop ends, at
\* whatever point stop() closes the socket.
CopiesAccountedFor ==
  history.copies = metrics.forwarded + history.failed + history.discarded
                   + Len(pending) + Len(outbox)

\* "an isolated port neither teaches the MAC table nor reaches anyone"
\* (vswitch.hpp:35-37): since a port was blocked it has taught nothing, and the
\* only copies of its frames still to be sent arrived before that.
BlockedPortsAreSilent ==
  \A e \in Endpoints :
    port[e].fault.blocked =>
      /\ history.taught[e] <= history.since[e]
      /\ \A c \in Range(pending \o outbox) : c.from = e => c.arrival <= history.since[e]

\* A bandwidth cap spaces what a port sends: two copies scheduled under its
\* present cap (but not the copies of one frame to several endpoints) are due at
\* least one transmission time apart, duplicates of one frame included.
CapSpacesCopies ==
  \A c, d \in Range(pending \o outbox) :
    LET fault == port[c.from].fault
    IN  /\ c.from = d.from
        /\ c.id # d.id
        /\ c.id[1] >= history.epoch[c.from] /\ d.id[1] >= history.epoch[c.from]
        /\ c.due <= d.due
        => d.due - c.due >= fault.cost

\* A stop() that took running_ down ends the loop, wherever the loop was.
StopEndsLoop == stopping = "closing" ~> pc = "done"

\* Every deferred copy is sent, dropped or discarded in the end.
DeferredCopiesLeave == <>[](pending = <<>> /\ outbox = <<>>)

=============================================================================
