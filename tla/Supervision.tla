----------------------------- MODULE Supervision -----------------------------
(***************************************************************************)
(* SwitchSupervisor: the loop that makes live traffic subject to analysis. *)
(* It composes the sliding-window detector (AnomalyDetector) and the       *)
(* containment state (Enforcement) with what the supervisor itself keeps:  *)
(* which sender is which ingress port, and the frames not yet analysed.    *)
(*                                                                         *)
(* inspect records a frame, analyses early when that fills the batch and   *)
(* only then judges the frame by the fault of the port its sender was      *)
(* bound to; tick polls the control plane and analyses what is due.        *)
(* Everything runs on the thread of the switch's receive loop: stage says  *)
(* where it is.  What a fault other than a block does to a frame (delay,   *)
(* chance loss, duplication) is the business of VSwitch.                   *)
(***************************************************************************)
EXTENDS Enforcement, FiniteSets, FiniteSetsExt

CONSTANTS
  Senders,          \* UDP endpoints that send to the switch
  Traffic(_),       \* packets a sender can send, but for their ingress port
  MaxBatchFrames,   \* SwitchSupervisorConfig::max_batch_frames
  TickInterval,     \* SwitchSupervisorConfig::tick_interval
  RuleAction,       \* the action of the first enabled rule for an anomaly type
  RuleRate,         \* the rate limit of that rule, in packets per second
  Window, Threshold, NoSource,   \* AnomalyDetectorConfig
  MaxFrames,        \* bound: frames received
  NoSender, NoPort

VARIABLES
  bindings,         \* bindings_ in first-seen order: ingress_port i is entry i + 1
  batch,            \* batch_
  last_tick,        \* last_tick_, -TickInterval before the first analysis
  stage,            \* "wait", "tick", "apply" or "judge"
  current,          \* the sender of the frame inspect is working on, or NoSender
  observations, active_anomalies, clock, events,   \* the detector
  history           \* what the properties remember, see SInit

detector == <<observations, active_anomalies, clock, events>>
supervisor == <<bindings, batch, last_tick, stage, current>>
svars == <<vars, detector, supervisor, history>>

D == INSTANCE AnomalyDetector
       WITH seen <- <<>>

ASSUME SupervisorConfig ==
  /\ MaxBatchFrames \in Nat \ {0}
  /\ TickInterval \in Nat \ {0}
  /\ RuleAction \in [D!AnomalyType -> PolicyAction]
  /\ RuleRate \in [D!AnomalyType -> Nat]
  /\ \A type \in D!AnomalyType : RuleAction[type] = "RateLimit" => RuleRate[type] # 0
  /\ MaxFrames \in Nat
  /\ NoSender \notin Senders
  /\ NoPort \notin Ports

-----------------------------------------------------------------------------
(* Binding and recording a frame.                                          *)

\* Mutant: the port is looked up after the sender was counted.
BoundLate(s) ==
  IF \E i \in 1..Len(bindings) : bindings[i].sender = s THEN bindings
  ELSE Append(bindings,
         [sender |-> s,
          port |-> IF HasPortAt(Len(bindings) + 1) THEN port_id_at(Len(bindings) + 1) ELSE NoPort])

\* bind: a sender keeps the port it got when it was first seen; senders beyond
\* the last host have none.
Bound(s) ==
  IF \E i \in 1..Len(bindings) : bindings[i].sender = s THEN bindings
  ELSE Append(bindings,
         [sender |-> s,
          port |-> IF HasPortAt(Len(bindings)) THEN port_id_at(Len(bindings)) ELSE NoPort])

IngressOf(b, s) == (CHOOSE i \in 1..Len(b) : b[i].sender = s) - 1

\* Mutant: a full batch waits for the next due tick.
NeverFull(b) == FALSE

Full(b) == Len(b) >= MaxBatchFrames

\* The first half of inspect: bind, record, and analyse before judging if the
\* batch is full.
Record(s, packet) ==
  /\ stage = "wait"
  /\ history.received < MaxFrames
  /\ history' = [history EXCEPT !.received = @ + 1]
  /\ bindings' = Bound(s)
  /\ batch' = IF Len(batch) < MaxBatchFrames
              THEN Append(batch, [packet EXCEPT !.ingress = IngressOf(Bound(s), s)])
              ELSE batch
  /\ current' = s
  /\ stage' = IF Full(batch') THEN "tick" ELSE "judge"
  /\ UNCHANGED <<vars, detector, last_tick>>

\* The receive loop ticks the gate after every frame and every idle wait.
IdleTick ==
  /\ stage = "wait"
  /\ stage' = "tick"
  /\ UNCHANGED <<vars, detector, bindings, batch, last_tick, current, history>>

-----------------------------------------------------------------------------
(* tick.                                                                   *)

\* Where a tick returns to: inspect, or the receive loop.
AfterTick == IF current = NoSender THEN "wait" ELSE "judge"

\* control_->poll(): commands of control clients.
Command(A) ==
  /\ stage = "tick"
  /\ A
  /\ UNCHANGED <<detector, supervisor, history>>

AnalysisDue == now - last_tick >= TickInterval \/ Len(batch) >= MaxBatchFrames

SkipAnalysis ==
  /\ stage = "tick"
  /\ ~AnalysisDue
  /\ stage' = AfterTick
  /\ UNCHANGED <<vars, detector, bindings, batch, last_tick, current, history>>

\* PolicyEngine::evaluate: one decision per reported anomaly that a rule covers.
\* (Frames are as long as the enforcer assumes.)
DecisionFor(anomaly) ==
  [ingress |-> anomaly.ingress, action |-> RuleAction[anomaly.type],
   pps |-> RuleRate[anomaly.type], frame |-> AssumedFrameBytes]

\* The order event_less sorts the anomalies in is left open.
DecisionOrders(anomalies) ==
  LET n == Cardinality(anomalies)
  IN  {[i \in 1..n |-> DecisionFor(order[i])] :
         order \in {o \in [1..n -> anomalies] : \A i, j \in 1..n : i # j => o[i] # o[j]}}

\* The batch goes through the detector and the policies, expired leases end,
\* and apply has its decisions.
Analyse ==
  /\ stage = "tick"
  /\ AnalysisDue
  /\ last_tick' = now
  /\ batch' = <<>>
  /\ D!Detect(batch, now)
  /\ \E order \in DecisionOrders(events') : Evaluate(order)
  /\ stage' = "apply"
  /\ UNCHANGED <<bindings, current, history>>

Apply ==
  /\ stage = "apply"
  /\ Enforce \/ Decline
  /\ history' = [history EXCEPT !.leased = @ \cup {p \in Ports : is_enforced(p)'}]
  /\ UNCHANGED <<detector, supervisor>>

Applied ==
  /\ stage = "apply"
  /\ Idle
  /\ stage' = AfterTick
  /\ UNCHANGED <<vars, detector, bindings, batch, last_tick, current, history>>

-----------------------------------------------------------------------------
(* The second half of inspect, and time.                                   *)

PortOf(s) == bindings[IngressOf(bindings, s) + 1].port

\* evaluate_port fails on a port the topology does not have, and inspect then
\* forwards; a port without a fault forwards as well.
Blocks(p) ==
  p # NoPort /\ is_port(p) /\ fault[p] # NoFault /\ (fault[p].blackhole \/ fault[p].isolated)

Judge ==
  /\ stage = "judge"
  /\ history' = IF Blocks(PortOf(current)) THEN history
                ELSE [history EXCEPT !.passed[current] = Append(@, now)]
  /\ current' = NoSender
  /\ stage' = "tick"
  /\ UNCHANGED <<vars, detector, bindings, batch, last_tick>>

Pass ==
  /\ stage = "wait"
  /\ Tick
  /\ UNCHANGED <<detector, supervisor, history>>

-----------------------------------------------------------------------------
\* vswitch_main loads a topology before it attaches the supervisor.
SInit ==
  /\ topology \in Topologies
  /\ fault = [p \in Ports |-> NoFault]
  /\ leases = [p \in Ports |-> NoLease]
  /\ now = 0
  /\ decisions = <<>>
  /\ intent = [p \in Ports |-> NoFault]
  /\ bindings = <<>>
  /\ batch = <<>>
  /\ last_tick = -TickInterval
  /\ stage = "wait"
  /\ current = NoSender
  /\ observations = <<>>
  /\ active_anomalies = {}
  /\ clock = 0
  /\ events = {}
  /\ history =
       [received |-> 0,
        passed   |-> [s \in Senders |-> <<>>],   \* arrival of each forwarded frame
        leased   |-> {}]                         \* ports that ever had a lease

Inspect == Judge \/ \E s \in Senders : \E packet \in Traffic(s) : Record(s, packet)

Ticking == IdleTick \/ SkipAnalysis \/ Analyse \/ Apply \/ Applied

\* A switch whose operator leaves contained ports alone and reloads nothing.
SNext == Inspect \/ Ticking \/ Pass \/ Command(CarefulOperator)

SSpec == SInit /\ [][SNext]_svars

\* The same switch, with load_topology coming in over the control channel.
ReloadedSpec == SInit /\ [][SNext \/ Command(Reload)]_svars

-----------------------------------------------------------------------------
(* Properties.                                                             *)

\* "a policy that quarantines a port stops that port forwarding"
\* (switch_supervisor.hpp:37): while the port a sender's traffic is blamed on is
\* under a lease that blocks, inspect forwards no frame of that sender.
QuarantineStopsForwarding ==
  [][\A s \in Senders :
       history'.passed[s] # history.passed[s] =>
         LET ingress == IngressOf(bindings, s)
         IN  HasPortAt(ingress) /\ is_enforced(port_id_at(ingress)) =>
               leases[port_id_at(ingress)].kind = "RateLimit"]_svars

\* "Analyse early when a burst fills the batch, so a storm is contained within
\* the tick" (switch_supervisor.hpp:27-28): until its port is first contained, a
\* sender gets at most a threshold's worth of broadcasts through in any window,
\* plus what one batch holds before it is analysed.
StormIsCutOff ==
  \A i \in 1..Len(bindings) :
    bindings[i].port \notin history.leased \cup {NoPort} =>
      LET times == history.passed[bindings[i].sender]
          recent == {k \in 1..Len(times) : times[k] >= now - Window}
      IN  Cardinality(recent) < Threshold["BroadcastStorm"] + MaxBatchFrames

\* "If the traffic of a port agrees with a policy rule, the enforcer puts the
\* port in quarantine" (README.md:306): after a tick, every anomaly the window
\* still shows has its port contained.
StormStaysContained ==
  stage = "wait" =>
    \A a \in active_anomalies :
      Actionable(DecisionFor(a)) => is_enforced(port_id_at(a.ingress))

=============================================================================
