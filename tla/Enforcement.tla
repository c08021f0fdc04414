----------------------------- MODULE Enforcement -----------------------------
(***************************************************************************)
(* The containment loop of WireLab: policy decisions become leased faults  *)
(* on the ingress port of an anomaly (PolicyEnforcer), installed in the    *)
(* per-port fault table that forwarding obeys (TopologyController over     *)
(* FaultEngine), and AnalysisPipeline::evaluate ends expired leases before *)
(* it applies the decisions of the same batch.                             *)
(*                                                                         *)
(* Three actors share this state: the analysis tick, the operator who sets *)
(* and clears faults by hand, and whoever reloads the topology.  Two       *)
(* programs embed it.  The switch (vswitch) takes operator commands and    *)
(* reloads through ControlService, the desktop session through Session.    *)
(* Everything runs on one thread, so handlers never overlap: a batch that  *)
(* is being applied (decisions # <<>>) excludes every other action.        *)
(***************************************************************************)
EXTENDS Integers, Sequences

CONSTANTS
  Ports,            \* identifiers a host node of some topology may have
  Topologies,       \* loadable topologies: their host ids in declaration order
  Profiles,         \* values of the fault fields enforcement never touches
  ValidProfiles,    \* those of them that FaultEngine::validate accepts
  DefaultProfile,   \* no latency, jitter, loss or duplication
  OperatorFaults,   \* configurations the operator tries to set
  Decisions,        \* policy decisions a batch can contain
  MaxBatch,         \* bound: decisions in one batch
  MaxNow,           \* bound: last instant of the clock
  RateLimitLease, DropLease, QuarantineLease,   \* PolicyEnforcerConfig
  AssumedFrameBytes,                            \* PolicyEnforcerConfig
  NoFault, NoLease, NoTopology

VARIABLES
  topology,    \* the loaded topology, or NoTopology
  fault,       \* FaultEngine::states_ restricted to port targets
  leases,      \* PolicyEnforcer::leases_
  now,         \* the steady clock handed to evaluate
  decisions,   \* decisions of the current batch apply has not reached yet
  intent       \* history: what the operator last asked for on each port

vars == <<topology, fault, leases, now, decisions, intent>>

-----------------------------------------------------------------------------
(* Data.                                                                   *)

\* latency, jitter, loss and duplication are one opaque profile: the enforcer
\* copies them and never looks inside.
FaultConfiguration ==
  [bandwidth: Nat, blackhole: BOOLEAN, isolated: BOOLEAN, profile: Profiles]

DefaultFault ==
  [bandwidth |-> 0, blackhole |-> FALSE, isolated |-> FALSE,
   profile |-> DefaultProfile]

PolicyAction ==
  {"Allow", "Drop", "Quarantine", "RateLimit", "Mirror", "AlertOnly"}

\* What apply reads of a PolicyDecision; frame is the mean observed frame size,
\* 0 when the anomaly observed no packets or no bytes.
Decision == [ingress: Nat, action: PolicyAction, pps: Nat, frame: Nat]

EnforcementKind == {"RateLimit", "Blackhole", "Isolate"}

\* restore = NoFault stands for had_restore = false.
Lease ==
  [kind: EnforcementKind, bits: Nat, expires: Nat,
   restore: FaultConfiguration \cup {NoFault}]

ASSUME ConstantTypes ==
  /\ Topologies \subseteq Seq(Ports)
  /\ ValidProfiles \subseteq Profiles
  /\ DefaultProfile \in ValidProfiles
  /\ OperatorFaults \subseteq FaultConfiguration
  /\ Decisions \subseteq Decision
  /\ MaxBatch \in Nat
  /\ MaxNow \in Nat
  /\ AssumedFrameBytes \in Nat

\* Every lease of PolicyEnforcerConfig is positive (the defaults are 10 s, 5 s
\* and 30 s).
ASSUME PositiveLeases ==
  /\ RateLimitLease \in Nat \ {0}
  /\ DropLease \in Nat \ {0}
  /\ QuarantineLease \in Nat \ {0}

ASSUME Sentinels ==
  /\ NoFault \notin FaultConfiguration
  /\ NoLease \notin Lease
  /\ NoTopology \notin Seq(Ports)

-----------------------------------------------------------------------------
(* TopologyController and FaultEngine.                                     *)

is_port(p) == topology # NoTopology /\ \E i \in 1..Len(topology) : topology[i] = p

\* port_id_at takes a zero-based index into the hosts.
HasPortAt(ingress) == topology # NoTopology /\ ingress < Len(topology)
port_id_at(ingress) == topology[ingress + 1]

validate(configuration) == configuration.profile \in ValidProfiles

\* Mutant: the controller installs a configuration without validating it.
UncheckedPortFault(p, configuration) == is_port(p)

SetPortFaultAccepted(p, configuration) == is_port(p) /\ validate(configuration)

-----------------------------------------------------------------------------
(* PolicyEnforcer.                                                         *)

\* Allow, Mirror and AlertOnly enforce nothing (EnforcementKind::None).
Enforcing(action) == action \in {"Drop", "Quarantine", "RateLimit"}

kind_for(action) ==
  CASE action = "Drop"       -> "Blackhole"
    [] action = "Quarantine" -> "Isolate"
    [] action = "RateLimit"  -> "RateLimit"

severity(kind) ==
  CASE kind = "RateLimit" -> 1
    [] kind = "Blackhole" -> 2
    [] kind = "Isolate"   -> 3

lease_for(kind) ==
  CASE kind = "RateLimit" -> RateLimitLease
    [] kind = "Blackhole" -> DropLease
    [] kind = "Isolate"   -> QuarantineLease

overlay(base, kind, bits) ==
  [base EXCEPT !.bandwidth = IF kind = "RateLimit" THEN bits ELSE @,
               !.blackhole = @ \/ kind = "Blackhole",
               !.isolated  = @ \/ kind = "Isolate"]

rate_limit_bits(d) ==
  IF d.pps = 0 THEN 0
  ELSE d.pps * (IF d.frame = 0 THEN AssumedFrameBytes ELSE d.frame) * 8

is_enforced(p) == leases[p] # NoLease

\* The configuration an overlay starts from.
Baseline(restore) == IF restore = NoFault THEN DefaultFault ELSE restore

\* Decisions apply gives up on before it looks at leases: Skipped, UnknownPort,
\* and Rejected for a rate limit of no bits.
Actionable(d) ==
  /\ Enforcing(d.action)
  /\ HasPortAt(d.ingress)
  /\ d.action = "RateLimit" => rate_limit_bits(d) # 0

Larger(a, b) == IF a < b THEN b ELSE a

\* Mutant: the latest decision always decides the kind.
LatestSupersedes(p, kind) == TRUE

\* A weaker kind never downgrades a live lease.
supersedes(p, kind) == ~is_enforced(p) \/ severity(kind) >= severity(leases[p].kind)

effective_kind(p, kind) == IF supersedes(p, kind) THEN kind ELSE leases[p].kind

effective_bits(p, d) ==
  IF supersedes(p, kind_for(d.action)) /\ d.action = "RateLimit" THEN rate_limit_bits(d)
  ELSE IF is_enforced(p) THEN leases[p].bits ELSE 0

\* Mutant: every decision captures the current fault, its own overlay included.
Recaptured(p) == fault[p]

\* A first lease captures the configuration it covers, a later one keeps that.
Captured(p) == IF is_enforced(p) THEN leases[p].restore ELSE fault[p]

\* Mutant: re-triggering stacks leases.
StackedExpiry(p, kind) ==
  IF is_enforced(p) THEN leases[p].expires + lease_for(kind) ELSE now + lease_for(kind)

\* Re-triggering extends a live lease, never shortens it.
expires_at(p, kind) ==
  IF is_enforced(p) THEN Larger(now + lease_for(kind), leases[p].expires)
  ELSE now + lease_for(kind)

\* The lease apply leaves on p.
NextLease(p, d) ==
  LET kind == effective_kind(p, kind_for(d.action))
  IN  [kind    |-> kind,
       bits    |-> effective_bits(p, d),
       expires |-> expires_at(p, kind),
       restore |-> Captured(p)]

\* Mutant: the overlay starts from an empty configuration.
OverlayOnDefault(lease) == overlay(DefaultFault, lease.kind, lease.bits)

LeaseOverlay(lease) == overlay(Baseline(lease.restore), lease.kind, lease.bits)

\* restore_port: what the fault of p becomes when its lease ends.  Both calls
\* it makes are no-ops on a port the loaded topology does not have.
RestoredFault(p) ==
  LET restore == leases[p].restore
  IN  IF restore = NoFault
      THEN IF is_port(p) THEN NoFault ELSE fault[p]
      ELSE IF SetPortFaultAccepted(p, restore) THEN restore ELSE fault[p]

\* Mutant: a lease lives through the instant it expires at.
StrictlyExpired(p) == is_enforced(p) /\ leases[p].expires < now

expired(p) == is_enforced(p) /\ leases[p].expires <= now

-----------------------------------------------------------------------------
(* The analysis tick.                                                      *)

Idle == decisions = <<>>

Batches == UNION {[1..n -> Decisions] : n \in 0..MaxBatch}

\* Mutant: evaluate returns early when the batch brings no decisions.
EvaluateDecisionsOnly(batch) ==
  /\ Idle
  /\ batch # <<>>
  /\ fault' = [p \in Ports |-> IF expired(p) THEN RestoredFault(p) ELSE fault[p]]
  /\ leases' = [p \in Ports |-> IF expired(p) THEN NoLease ELSE leases[p]]
  /\ decisions' = batch
  /\ UNCHANGED <<topology, now, intent>>

\* AnalysisPipeline::evaluate up to and including release_expired; the batch it
\* hands to apply is then worked off by the two actions below.
Evaluate(batch) ==
  /\ Idle
  /\ fault' = [p \in Ports |-> IF expired(p) THEN RestoredFault(p) ELSE fault[p]]
  /\ leases' = [p \in Ports |-> IF expired(p) THEN NoLease ELSE leases[p]]
  /\ decisions' = batch
  /\ UNCHANGED <<topology, now, intent>>

\* The decision reaches the controller and the controller takes the overlay.
Installs(d) ==
  /\ Actionable(d)
  /\ LET p == port_id_at(d.ingress)
     IN  SetPortFaultAccepted(p, LeaseOverlay(NextLease(p, d)))

\* One iteration of apply's loop that enforces (Applied or Extended).
Enforce ==
  /\ ~Idle
  /\ LET d == Head(decisions)
         p == port_id_at(d.ingress)
     IN  /\ Installs(d)
         /\ fault' = [fault EXCEPT ![p] = LeaseOverlay(NextLease(p, d))]
         /\ leases' = [leases EXCEPT ![p] = NextLease(p, d)]
  /\ decisions' = Tail(decisions)
  /\ UNCHANGED <<topology, now, intent>>

\* One iteration of apply's loop that only reports why it did nothing.
Decline ==
  /\ ~Idle
  /\ ~Installs(Head(decisions))
  /\ decisions' = Tail(decisions)
  /\ UNCHANGED <<topology, fault, leases, now, intent>>

\* Time passes between handlers, never inside one: evaluate reads it once.
Tick ==
  /\ Idle
  /\ now < MaxNow
  /\ now' = now + 1
  /\ UNCHANGED <<topology, fault, leases, decisions, intent>>

-----------------------------------------------------------------------------
(* Operator commands and reloads.                                          *)

\* set_port_fault of ControlService and of Session::apply_selected_fault: the
\* configuration replaces whatever the port has, a leased fault included.
SetPortFault(p, configuration) ==
  /\ Idle
  /\ SetPortFaultAccepted(p, configuration)
  /\ fault' = [fault EXCEPT ![p] = configuration]
  /\ intent' = [intent EXCEPT ![p] = configuration]
  /\ UNCHANGED <<topology, leases, now, decisions>>

ClearPortFault(p) ==
  /\ Idle
  /\ is_port(p)
  /\ fault[p] # NoFault
  /\ fault' = [fault EXCEPT ![p] = NoFault]
  /\ intent' = [intent EXCEPT ![p] = NoFault]
  /\ UNCHANGED <<topology, leases, now, decisions>>

\* TopologyController::load: a new topology and a fresh fault engine.
Load(t) ==
  /\ topology' = t
  /\ fault' = [p \in Ports |-> NoFault]
  /\ intent' = [p \in Ports |-> NoFault]

\* The control channel's load_topology: the leases stay in the enforcer.
LoadTopology(t) ==
  /\ Idle
  /\ Load(t)
  /\ UNCHANGED <<leases, now, decisions>>

\* Session::commit_topology: reset_simulation also resets the pipeline, whose
\* enforcer forgets its leases.
CommitTopology(t) ==
  /\ Idle
  /\ Load(t)
  /\ leases' = [p \in Ports |-> NoLease]
  /\ UNCHANGED <<now, decisions>>

\* Session::release_enforcement.
ReleaseEnforcement(p) ==
  /\ Idle
  /\ is_enforced(p)
  /\ fault' = [fault EXCEPT ![p] = RestoredFault(p)]
  /\ leases' = [leases EXCEPT ![p] = NoLease]
  /\ UNCHANGED <<topology, now, decisions, intent>>

-----------------------------------------------------------------------------
(* Specifications.                                                         *)

Init ==
  /\ topology = NoTopology
  /\ fault = [p \in Ports |-> NoFault]
  /\ leases = [p \in Ports |-> NoLease]
  /\ now = 0
  /\ decisions = <<>>
  /\ intent = [p \in Ports |-> NoFault]

Pipeline ==
  \/ \E batch \in Batches : Evaluate(batch)
  \/ Enforce
  \/ Decline
  \/ Tick

Operator ==
  \E p \in Ports :
    \/ \E configuration \in OperatorFaults : SetPortFault(p, configuration)
    \/ ClearPortFault(p)

\* An operator who leaves contained ports alone.
CarefulOperator ==
  \E p \in Ports :
    /\ ~is_enforced(p)
    /\ \/ \E configuration \in OperatorFaults : SetPortFault(p, configuration)
       \/ ClearPortFault(p)

Reload == \E t \in Topologies : LoadTopology(t)
Commit == \E t \in Topologies : CommitTopology(t)
Release == \E p \in Ports : ReleaseEnforcement(p)

\* Every step either program can take.
Next == Pipeline \/ Operator \/ Reload \/ Commit \/ Release

Spec == Init /\ [][Next]_vars

\* The desktop session.
SessionNext == Pipeline \/ Operator \/ Commit \/ Release

SessionSpec == Init /\ [][SessionNext]_vars

\* The session of a careful operator.
CarefulNext == Pipeline \/ CarefulOperator \/ Commit \/ Release

CarefulSpec == Init /\ [][CarefulNext]_vars

LongestLease == Larger(RateLimitLease, Larger(DropLease, QuarantineLease))

\* A live pipeline in which anomalies stop early enough for the bounded clock to
\* reach the end of the last lease.  The receive loop ticks the supervisor for
\* as long as it runs, and a due tick evaluates even an empty batch, which is
\* what the weak fairness says (in the desktop session: while traffic runs);
\* time is strongly fair because no amount of handler activity holds the clock
\* back.  Nobody owes the switch an anomaly or a command.
QuietingPipeline ==
  \/ \E batch \in Batches :
       /\ batch # <<>> => now + LongestLease <= MaxNow
       /\ Evaluate(batch)
  \/ Enforce
  \/ Decline
  \/ Tick

QuietingSpec ==
  /\ Init
  /\ [][QuietingPipeline \/ Operator \/ Reload \/ Commit \/ Release]_vars
  /\ WF_vars(Evaluate(<<>>))
  /\ WF_vars(Enforce \/ Decline)
  /\ SF_vars(Tick)

-----------------------------------------------------------------------------
(* Properties.                                                             *)

TypeOK ==
  /\ topology \in Topologies \cup {NoTopology}
  /\ fault \in [Ports -> FaultConfiguration \cup {NoFault}]
  /\ leases \in [Ports -> Lease \cup {NoLease}]
  /\ now \in 0..MaxNow
  /\ decisions \in Seq(Decisions)
  /\ intent \in [Ports -> FaultConfiguration \cup {NoFault}]

\* While a lease lives, no decision, command or reload weakens it: its severity
\* and its expiry only grow, and the configuration it will put back stays the
\* one captured when it began (apply: "A weaker action never downgrades a live
\* lease; it only extends it").
LeaseNeverWeakens ==
  [][\A p \in Ports :
       is_enforced(p) /\ is_enforced(p)' =>
         /\ severity(leases'[p].kind) >= severity(leases[p].kind)
         /\ leases'[p].expires >= leases[p].expires
         /\ leases'[p].restore = leases[p].restore]_vars

\* A lease whose time is up is never revived.  evaluate releases before it
\* applies, so a decision that arrives in the batch a lease ends in starts a new
\* lease, with its own severity, instead of inheriting the dead one's.
DeadLeaseStaysDead ==
  [][\A p \in Ports :
       is_enforced(p) /\ is_enforced(p)' /\ leases'[p] # leases[p] =>
         now < leases[p].expires]_vars

\* Containment is bounded: however often a port is re-triggered and whatever is
\* reloaded in between, its lease ends within one full lease from now.
BoundedContainment ==
  \A p \in Ports : is_enforced(p) => leases[p].expires <= now + LongestLease

\* Everything set_port_fault installed or apply captured passed validate, so
\* putting a captured configuration back can only fail on a vanished port.
OnlyValidFaults ==
  \A p \in Ports :
    /\ fault[p] # NoFault => validate(fault[p])
    /\ is_enforced(p) /\ leases[p].restore # NoFault =>
         validate(leases[p].restore)

\* "When the lease expires, the switch restores the fault configuration of the
\* operator" (README.md:312): a port nobody contains has exactly the fault the
\* operator last asked for.
Reversible ==
  \A p \in Ports : ~is_enforced(p) => fault[p] = intent[p]

\* A contained port has the operator's configuration with the lease's kind laid
\* over it: it is really contained, and "quarantining a port never silently
\* discards a manually configured latency or loss profile"
\* (policy_enforcer.hpp:64-65).
Contained ==
  \A p \in Ports :
    is_enforced(p) =>
      fault[p] = overlay(Baseline(intent[p]), leases[p].kind, leases[p].bits)

\* Leases name ports of the loaded topology only: Session::reset_simulation drops
\* leases "rather than restore[s them] onto a topology that may no longer have
\* the port they referenced" (session_traffic.cpp:28-30).
LeasesOnLoadedPorts == \A p \in Ports : is_enforced(p) => is_port(p)

\* Once anomalies stop, every contained port comes back without operator action
\* (README.md:19) and stays released, reloads and commands notwithstanding.
EventuallyReleased == <>[](\A p \in Ports : ~is_enforced(p))

=============================================================================
