-------------------------- MODULE SupervisionProofs --------------------------
(***************************************************************************)
(* Proofs about the containment loop, first of Enforcement and then of     *)
(* Supervision, which extends it.                                          *)
(*                                                                         *)
(* Enforcement: for every set of ports, topologies, decisions, lease       *)
(* lengths and bounds.  Its Next is the union of what the switch and the   *)
(* session can do, so what is proved of Spec holds of both programs.       *)
(*                                                                         *)
(* Supervision: for any senders, any traffic, any batch size, window,      *)
(* thresholds and rules, a quarantined port forwards nothing.  Nothing has *)
(* to be known of what the detector reports, only that it reports finitely *)
(* many anomalies of known types.                                          *)
(***************************************************************************)
EXTENDS Supervision, SequenceProofs


-----------------------------------------------------------------------------
(* The operators of PolicyEnforcer.                                        *)

\* kind_for, lease_for and severity are total on what reaches them.
LEMMA KindFacts ==
  /\ \A action \in PolicyAction :
       Enforcing(action) => kind_for(action) \in EnforcementKind
  /\ \A kind \in EnforcementKind :
       /\ lease_for(kind) \in Nat \ {0}
       /\ lease_for(kind) <= LongestLease
       /\ severity(kind) \in 1..3
  /\ LongestLease \in Nat
  BY PositiveLeases
  DEF PolicyAction, Enforcing, kind_for, EnforcementKind, lease_for, severity,
      LongestLease, Larger

\* rate_limit_bits is a bit rate.
LEMMA RateTyped ==
  ASSUME NEW d, d.pps \in Nat, d.frame \in Nat
  PROVE  rate_limit_bits(d) \in Nat
<1>2. \A a, b \in Nat : a * b * 8 \in Nat
  OBVIOUS
<1>3. QED
  BY <1>2, ConstantTypes DEF rate_limit_bits

\* overlay changes one field of a configuration, and never the profile.
LEMMA OverlayTyped ==
  ASSUME NEW base \in FaultConfiguration,
         NEW kind \in EnforcementKind,
         NEW bits \in Nat
  PROVE  /\ overlay(base, kind, bits) \in FaultConfiguration
         /\ overlay(base, kind, bits).profile = base.profile
  BY DEF overlay, FaultConfiguration

\* What an overlay starts from is a configuration.
LEMMA BaselineTyped ==
  ASSUME NEW restore \in FaultConfiguration \cup {NoFault}
  PROVE  Baseline(restore) \in FaultConfiguration
  BY ConstantTypes DEF Baseline, DefaultFault, FaultConfiguration

\* port_id_at yields a port of the loaded topology.
LEMMA PortAtTyped ==
  ASSUME TypeOK, NEW ingress \in Nat, HasPortAt(ingress)
  PROVE  /\ port_id_at(ingress) \in Ports
         /\ is_port(port_id_at(ingress))
<1>1. topology \in Seq(Ports)
  BY ConstantTypes DEF TypeOK, HasPortAt
<1>2. ingress + 1 \in 1..Len(topology)
  BY <1>1 DEF HasPortAt
<1>3. QED
  BY <1>1, <1>2 DEF port_id_at, is_port, HasPortAt

\* The lease apply stores is a lease, in force after now and for at most one
\* full lease more than the one it replaces.
LEMMA NextLeaseFacts ==
  ASSUME TypeOK, NEW p \in Ports, NEW d \in Decisions, Actionable(d)
  PROVE  /\ NextLease(p, d) \in Lease
         /\ NextLease(p, d).expires > now
         /\ is_enforced(p) =>
              /\ severity(NextLease(p, d).kind) >= severity(leases[p].kind)
              /\ NextLease(p, d).expires >= leases[p].expires
              /\ NextLease(p, d).restore = leases[p].restore
         /\ ~is_enforced(p) => NextLease(p, d).restore = fault[p]
         /\ \/ NextLease(p, d).expires <= now + LongestLease
            \/ is_enforced(p) /\ NextLease(p, d).expires = leases[p].expires
<1> DEFINE kind == effective_kind(p, kind_for(d.action))
<1>0. d \in Decision /\ d.pps \in Nat /\ d.frame \in Nat
  BY ConstantTypes DEF TypeOK, Decision
<1>a. rate_limit_bits(d) \in Nat
  BY <1>0, RateTyped
<1>1. /\ d \in Decision
      /\ kind_for(d.action) \in EnforcementKind
      /\ rate_limit_bits(d) \in Nat
      /\ now \in Nat
      /\ fault[p] \in FaultConfiguration \cup {NoFault}
  BY <1>0, <1>a, KindFacts, ConstantTypes DEF TypeOK, Actionable, Decision
<1>2. is_enforced(p) =>
        /\ leases[p].kind \in EnforcementKind
        /\ leases[p].bits \in Nat
        /\ leases[p].expires \in Nat
        /\ leases[p].restore \in FaultConfiguration \cup {NoFault}
  BY DEF TypeOK, is_enforced, Lease
<1>3. /\ kind \in EnforcementKind
      /\ is_enforced(p) => severity(kind) >= severity(leases[p].kind)
  BY <1>1, <1>2, KindFacts DEF effective_kind, supersedes
<1> HIDE DEF kind
<1>4. /\ lease_for(kind) \in Nat \ {0}
      /\ lease_for(kind) <= LongestLease
      /\ LongestLease \in Nat
  BY <1>3, KindFacts
<1>5. effective_bits(p, d) \in Nat
  BY <1>1, <1>2 DEF effective_bits
<1>6. /\ expires_at(p, kind) \in Nat
      /\ expires_at(p, kind) > now
      /\ is_enforced(p) => expires_at(p, kind) >= leases[p].expires
      /\ \/ expires_at(p, kind) <= now + LongestLease
         \/ is_enforced(p) /\ expires_at(p, kind) = leases[p].expires
  BY <1>1, <1>2, <1>4 DEF expires_at, Larger
<1>7. /\ Captured(p) \in FaultConfiguration \cup {NoFault}
      /\ is_enforced(p) => Captured(p) = leases[p].restore
      /\ ~is_enforced(p) => Captured(p) = fault[p]
  BY <1>1, <1>2 DEF Captured
<1>8. NextLease(p, d) = [kind |-> kind, bits |-> effective_bits(p, d),
                         expires |-> expires_at(p, kind), restore |-> Captured(p)]
  BY DEF NextLease, kind
<1>9. QED
  BY <1>3, <1>5, <1>6, <1>7, <1>8 DEF Lease

\* What the lease stores can be laid over what it captured.
LEMMA LeaseOverlayTyped ==
  ASSUME NEW lease \in Lease
  PROVE  /\ LeaseOverlay(lease) \in FaultConfiguration
         /\ LeaseOverlay(lease).profile = Baseline(lease.restore).profile
  BY BaselineTyped, OverlayTyped DEF LeaseOverlay, Lease

\* A batch is a sequence of decisions.
LEMMA BatchTyped ==
  ASSUME NEW order \in Batches
  PROVE  order \in Seq(Decisions)
<1>1. PICK n \in 0..MaxBatch : order \in [1..n -> Decisions]
  BY DEF Batches
<1>2. n \in Nat
  BY ConstantTypes
<1>3. QED
  BY <1>1, <1>2

-----------------------------------------------------------------------------
(* What every step preserves.                                              *)

\* Sets the scene of an Enforce step: the decision at the head, its port and
\* the lease it leaves there.
LEMMA EnforceFacts ==
  ASSUME TypeOK, Enforce
  PROVE  LET d == Head(decisions)
             p == port_id_at(d.ingress)
         IN  /\ d \in Decisions
             /\ Actionable(d)
             /\ p \in Ports
             /\ is_port(p)
             /\ NextLease(p, d) \in Lease
             /\ validate(LeaseOverlay(NextLease(p, d)))
             /\ fault' = [fault EXCEPT ![p] = LeaseOverlay(NextLease(p, d))]
             /\ leases' = [leases EXCEPT ![p] = NextLease(p, d)]
             /\ decisions' \in Seq(Decisions)
<1> DEFINE d == Head(decisions)
           p == port_id_at(d.ingress)
<1>1. d \in Decisions /\ decisions' \in Seq(Decisions)
  BY DEF TypeOK, Enforce, Idle
<1>2. Actionable(d)
  BY DEF Enforce, Installs
<1>3. p \in Ports /\ is_port(p)
  BY <1>1, <1>2, PortAtTyped, ConstantTypes DEF Actionable, Decision
<1>4. NextLease(p, d) \in Lease
  BY <1>1, <1>2, <1>3, NextLeaseFacts
<1>5. QED
  BY <1>1, <1>2, <1>3, <1>4 DEF Enforce, Installs, SetPortFaultAccepted

\* TypeOK is inductive.
LEMMA TypeStep == TypeOK /\ [Next]_vars => TypeOK'
<1> SUFFICES ASSUME TypeOK, [Next]_vars
             PROVE  TypeOK'
  OBVIOUS
<1> USE ConstantTypes
<1>1. ASSUME NEW order \in Batches, Evaluate(order)
      PROVE  TypeOK'
  <2>1. \A p \in Ports : expired(p) => RestoredFault(p) \in FaultConfiguration \cup {NoFault}
    BY DEF TypeOK, expired, is_enforced, RestoredFault, Lease
  <2>2. QED
    BY <1>1, <2>1, BatchTyped DEF TypeOK, Evaluate
<1>2. CASE Enforce
  BY <1>2, EnforceFacts, LeaseOverlayTyped DEF TypeOK, Enforce
<1>3. CASE Decline
  BY <1>3 DEF TypeOK, Decline, Idle
<1>4. CASE Tick
  BY <1>4 DEF TypeOK, Tick
<1>5. ASSUME NEW p \in Ports, NEW c \in OperatorFaults, SetPortFault(p, c)
      PROVE  TypeOK'
  BY <1>5 DEF TypeOK, SetPortFault
<1>6. ASSUME NEW p \in Ports, ClearPortFault(p)
      PROVE  TypeOK'
  BY <1>6 DEF TypeOK, ClearPortFault
<1>7. ASSUME NEW t \in Topologies, LoadTopology(t) \/ CommitTopology(t)
      PROVE  TypeOK'
  BY <1>7 DEF TypeOK, LoadTopology, CommitTopology, Load
<1>8. ASSUME NEW p \in Ports, ReleaseEnforcement(p)
      PROVE  TypeOK'
  <2>1. RestoredFault(p) \in FaultConfiguration \cup {NoFault}
    BY <1>8 DEF TypeOK, ReleaseEnforcement, is_enforced, RestoredFault, Lease
  <2>2. QED
    BY <1>8, <2>1 DEF TypeOK, ReleaseEnforcement
<1>9. CASE UNCHANGED vars
  BY <1>9 DEF TypeOK, vars
<1>10. QED
  BY <1>1, <1>2, <1>3, <1>4, <1>5, <1>6, <1>7, <1>8, <1>9
  DEF Next, Pipeline, Operator, Reload, Commit, Release

\* Every state of the containment loop is well typed.
THEOREM TypeCorrect == Spec => []TypeOK
<1>1. Init => TypeOK
  BY ConstantTypes DEF Init, TypeOK
<1>2. QED
  BY <1>1, TypeStep, PTL DEF Spec

-----------------------------------------------------------------------------
(* Leases.                                                                 *)

\* The inductive invariant behind DeadLeaseStaysDead and BoundedContainment:
\* while apply works off a batch no lease is past its time, because evaluate
\* released those first and every lease apply stores is in force.
LeasesLive ==
  \A p \in Ports : is_enforced(p) /\ ~Idle => now < leases[p].expires

LeaseInv == TypeOK /\ LeasesLive /\ BoundedContainment

\* A step leaves a lease alone, ends it, or is an Enforce step on its port.
LEMMA LeaseStep ==
  ASSUME TypeOK, [Next]_vars, NEW p \in Ports
  PROVE  \/ leases'[p] = leases[p]
         \/ leases'[p] = NoLease
         \/ /\ Enforce
            /\ p = port_id_at(Head(decisions).ingress)
            /\ Head(decisions) \in Decisions
            /\ Actionable(Head(decisions))
            /\ leases'[p] = NextLease(p, Head(decisions))
<1>1. CASE Enforce
  BY <1>1, EnforceFacts DEF TypeOK
<1>2. CASE ~Enforce
  BY <1>2 DEF Next, Pipeline, Operator, Reload, Commit, Release, Evaluate,
              Decline, Tick, SetPortFault, ClearPortFault, LoadTopology,
              CommitTopology, ReleaseEnforcement, TypeOK, vars
<1>3. QED
  BY <1>1, <1>2

\* Every step keeps live leases in the future while a batch is applied.
LEMMA LeaseInvStep == LeaseInv /\ [Next]_vars => LeaseInv'
<1> SUFFICES ASSUME LeaseInv, [Next]_vars
             PROVE  LeaseInv'
  OBVIOUS
<1>1. TypeOK /\ TypeOK'
  BY TypeStep DEF LeaseInv
<1>2. now \in Nat /\ now' \in Nat /\ now <= now' /\ LongestLease \in Nat
  <2>1. now \in Nat /\ now' \in Nat /\ LongestLease \in Nat
    BY <1>1, KindFacts, ConstantTypes DEF TypeOK
  <2>2. now' = now \/ now' = now + 1
    BY DEF Next, Pipeline, Operator, Reload, Commit, Release, Evaluate, Enforce,
           Decline, Tick, SetPortFault, ClearPortFault, LoadTopology,
           CommitTopology, ReleaseEnforcement, vars
  <2>3. QED
    BY <2>1, <2>2
<1>3. ASSUME NEW p \in Ports, is_enforced(p)'
      PROVE  leases'[p].expires <= now' + LongestLease
  <2>1. leases'[p] # NoLease
    BY <1>3 DEF is_enforced
  <2>2. CASE leases'[p] = leases[p]
    <3>1. is_enforced(p) /\ leases[p].expires <= now + LongestLease
      BY <1>1, <2>1, <2>2 DEF LeaseInv, BoundedContainment, is_enforced
    <3>2. leases[p].expires \in Nat
      BY <1>1, <3>1 DEF TypeOK, is_enforced, Lease
    <3>3. QED
      BY <1>2, <2>2, <3>1, <3>2
  <2>3. CASE /\ Enforce
             /\ Head(decisions) \in Decisions
             /\ Actionable(Head(decisions))
             /\ leases'[p] = NextLease(p, Head(decisions))
    <3>1. now' = now
      BY <2>3 DEF Enforce
    <3>2. QED
      BY <1>1, <2>3, <3>1, NextLeaseFacts DEF LeaseInv, BoundedContainment
  <2>4. QED
    BY <1>1, <2>1, <2>2, <2>3, LeaseStep
<1>4. ASSUME NEW p \in Ports, is_enforced(p)', ~Idle'
      PROVE  now' < leases'[p].expires
  <2>1. leases'[p] # NoLease /\ decisions' # <<>>
    BY <1>4 DEF is_enforced, Idle
  <2>2. CASE \E order \in Batches : Evaluate(order)
    <3>1. now' = now /\ leases'[p] = leases[p] /\ ~expired(p)
      BY <2>1, <2>2 DEF Evaluate
    <3>2. is_enforced(p) /\ leases[p].expires \in Nat
      BY <1>1, <2>1, <3>1 DEF is_enforced, TypeOK, Lease
    <3>3. QED
      BY <1>2, <3>1, <3>2 DEF expired
  <2>3. CASE Enforce
    <3>1. now' = now /\ ~Idle
      BY <2>3 DEF Enforce
    <3>2. CASE leases'[p] = leases[p]
      BY <2>1, <3>1, <3>2 DEF LeaseInv, LeasesLive, is_enforced
    <3>3. CASE /\ Head(decisions) \in Decisions
               /\ Actionable(Head(decisions))
               /\ leases'[p] = NextLease(p, Head(decisions))
      BY <1>1, <3>1, <3>3, NextLeaseFacts
    <3>4. QED
      BY <1>1, <2>1, <3>2, <3>3, LeaseStep
  <2>4. CASE Decline \/ UNCHANGED vars
    <3>1. ~Idle /\ now' = now /\ leases' = leases
      BY <2>1, <2>4 DEF Decline, Idle, vars
    <3>2. QED
      BY <2>1, <3>1 DEF LeaseInv, LeasesLive, is_enforced
  <2>5. QED
    <3>1. \/ \E order \in Batches : Evaluate(order)
          \/ Enforce
          \/ Decline \/ UNCHANGED vars
          \/ decisions' = <<>>
      BY DEF Next, Pipeline, Operator, Reload, Commit, Release, Tick, Idle,
             SetPortFault, ClearPortFault, LoadTopology, CommitTopology,
             ReleaseEnforcement
    <3>2. QED
      BY <2>1, <2>2, <2>3, <2>4, <3>1
<1>5. LeasesLive'
  BY <1>4 DEF LeasesLive
<1>6. BoundedContainment'
  BY <1>3 DEF BoundedContainment
<1>7. QED
  BY <1>1, <1>5, <1>6 DEF LeaseInv

\* So they always are.
LEMMA LeaseInvCorrect == Spec => []LeaseInv
<1>1. Init => LeaseInv
  BY ConstantTypes
  DEF Init, LeaseInv, TypeOK, LeasesLive, BoundedContainment, is_enforced
<1>2. QED
  BY <1>1, LeaseInvStep, PTL DEF Spec

\* However often a port is re-triggered, it is never contained for longer than
\* the longest configured lease from now.
THEOREM ContainmentIsBounded == Spec => []BoundedContainment
  BY LeaseInvCorrect, PTL DEF LeaseInv

\* A weaker decision never downgrades a live lease, no decision shortens it, and
\* nothing replaces the configuration it captured.
THEOREM LeasesNeverWeaken == Spec => LeaseNeverWeakens
<1>1. ASSUME TypeOK, [Next]_vars, NEW p \in Ports, is_enforced(p), is_enforced(p)'
      PROVE  /\ severity(leases'[p].kind) >= severity(leases[p].kind)
             /\ leases'[p].expires >= leases[p].expires
             /\ leases'[p].restore = leases[p].restore
  <2>1. leases[p] \in Lease /\ leases'[p] # NoLease
    BY <1>1 DEF TypeOK, is_enforced
  <2>2. severity(leases[p].kind) \in Nat /\ leases[p].expires \in Nat
    BY <2>1, KindFacts DEF Lease
  <2>3. QED
    BY <1>1, <2>1, <2>2, LeaseStep, NextLeaseFacts
<1>2. TypeOK /\ [Next]_vars =>
        [\A p \in Ports :
           is_enforced(p) /\ is_enforced(p)' =>
             /\ severity(leases'[p].kind) >= severity(leases[p].kind)
             /\ leases'[p].expires >= leases[p].expires
             /\ leases'[p].restore = leases[p].restore]_vars
  BY <1>1
<1>3. QED
  BY <1>2, TypeCorrect, PTL DEF Spec, LeaseNeverWeakens

\* A lease is only ever extended while it is in force.
THEOREM DeadLeasesStayDead == Spec => DeadLeaseStaysDead
<1>1. ASSUME LeaseInv, [Next]_vars, NEW p \in Ports,
             is_enforced(p), is_enforced(p)', leases'[p] # leases[p]
      PROVE  now < leases[p].expires
  <2>1. Enforce
    BY <1>1, LeaseStep DEF LeaseInv, is_enforced
  <2>2. QED
    BY <1>1, <2>1 DEF LeaseInv, LeasesLive, Enforce
<1>2. LeaseInv /\ [Next]_vars =>
        [\A p \in Ports :
           is_enforced(p) /\ is_enforced(p)' /\ leases'[p] # leases[p] =>
             now < leases[p].expires]_vars
  BY <1>1
<1>3. QED
  BY <1>2, LeaseInvCorrect, PTL DEF Spec, DeadLeaseStaysDead

-----------------------------------------------------------------------------
(* Validity.                                                               *)

ValidInv == TypeOK /\ OnlyValidFaults

\* Every step keeps installed and captured configurations valid.
LEMMA ValidStep == ValidInv /\ [Next]_vars => ValidInv'
<1> SUFFICES ASSUME ValidInv, [Next]_vars
             PROVE  OnlyValidFaults'
  BY TypeStep DEF ValidInv
<1> USE DEF ValidInv
<1>1. ASSUME NEW order \in Batches, Evaluate(order)
      PROVE  OnlyValidFaults'
  BY <1>1 DEF OnlyValidFaults, Evaluate, expired, is_enforced, RestoredFault,
              SetPortFaultAccepted, validate
<1>2. CASE Enforce
  <2> DEFINE d == Head(decisions)
             p == port_id_at(d.ingress)
             lease == NextLease(p, d)
  <2>1. /\ p \in Ports /\ d \in Decisions /\ Actionable(d)
        /\ validate(LeaseOverlay(lease))
        /\ fault' = [fault EXCEPT ![p] = LeaseOverlay(lease)]
        /\ leases' = [leases EXCEPT ![p] = lease]
    BY <1>2, EnforceFacts
  <2>2. \/ lease.restore = fault[p]
        \/ is_enforced(p) /\ lease.restore = leases[p].restore
    BY <2>1, NextLeaseFacts
  <2> HIDE DEF lease, p, d
  <2>3. QED
    BY <2>1, <2>2 DEF OnlyValidFaults, TypeOK, is_enforced, validate
<1>3. CASE Decline \/ Tick \/ UNCHANGED vars
  BY <1>3 DEF Decline, Tick, OnlyValidFaults, is_enforced, validate, vars
<1>4. ASSUME NEW p \in Ports, NEW c \in OperatorFaults, SetPortFault(p, c)
      PROVE  OnlyValidFaults'
  BY <1>4 DEF SetPortFault, SetPortFaultAccepted, OnlyValidFaults, is_enforced,
              validate, TypeOK
<1>5. ASSUME NEW p \in Ports, ClearPortFault(p)
      PROVE  OnlyValidFaults'
  BY <1>5 DEF ClearPortFault, OnlyValidFaults, is_enforced, validate, TypeOK
<1>6. ASSUME NEW t \in Topologies, LoadTopology(t) \/ CommitTopology(t)
      PROVE  OnlyValidFaults'
  BY <1>6 DEF LoadTopology, CommitTopology, Load, OnlyValidFaults, is_enforced,
              validate
<1>7. ASSUME NEW p \in Ports, ReleaseEnforcement(p)
      PROVE  OnlyValidFaults'
  BY <1>7 DEF ReleaseEnforcement, OnlyValidFaults, is_enforced, RestoredFault,
              SetPortFaultAccepted, validate, TypeOK
<1>8. QED
  BY <1>1, <1>2, <1>3, <1>4, <1>5, <1>6, <1>7
  DEF Next, Pipeline, Operator, Reload, Commit, Release

\* No configuration that FaultEngine::validate would reject is ever in force or
\* waiting to be restored.
THEOREM FaultsAreValid == Spec => []OnlyValidFaults
<1>1. Init => ValidInv
  BY ConstantTypes DEF Init, ValidInv, TypeOK, OnlyValidFaults, is_enforced
<1>2. QED
  BY <1>1, ValidStep, PTL DEF Spec, ValidInv

-----------------------------------------------------------------------------
(* Reversibility, for an operator who leaves contained ports alone.        *)

\* What a live lease will put back is what the operator wants on the port.
CapturedIntent ==
  \A p \in Ports : is_enforced(p) => leases[p].restore = intent[p]

\* Reversible alone is not inductive: a release restores what the lease captured,
\* so the capture has to agree with the operator, has to be accepted by validate,
\* and the port has to be there still.
CarefulInv ==
  /\ ValidInv
  /\ Reversible
  /\ Contained
  /\ CapturedIntent
  /\ LeasesOnLoadedPorts

CarefulParts == Reversible /\ Contained /\ CapturedIntent /\ LeasesOnLoadedPorts

\* Ending the lease of any set of ports gives each of them back to the operator.
LEMMA RestoredIsIntent ==
  ASSUME CarefulInv, NEW p \in Ports, is_enforced(p)
  PROVE  RestoredFault(p) = intent[p]
<1>1. /\ is_port(p)
      /\ leases[p].restore = intent[p]
      /\ leases[p].restore # NoFault => validate(leases[p].restore)
  BY DEF CarefulInv, ValidInv, OnlyValidFaults, CapturedIntent, LeasesOnLoadedPorts
<1>2. QED
  BY <1>1 DEF RestoredFault, SetPortFaultAccepted

\* Every step of a careful session keeps leases and the operator's intent in agreement.
LEMMA CarefulStep == CarefulInv /\ [CarefulNext]_vars => CarefulInv'
<1> SUFFICES ASSUME CarefulInv, [CarefulNext]_vars
             PROVE  CarefulInv'
  OBVIOUS
<1>1. [Next]_vars
  BY DEF CarefulNext, Next, CarefulOperator, Operator
<1>2. ValidInv /\ TypeOK /\ ValidInv'
  BY <1>1, ValidStep DEF CarefulInv, ValidInv
<1>3. CarefulParts
  BY DEF CarefulInv, CarefulParts
<1> SUFFICES CarefulParts'
  BY <1>2 DEF CarefulInv, CarefulParts
<1> USE DEF CarefulParts, Reversible, Contained, CapturedIntent,
            LeasesOnLoadedPorts, is_enforced
<1>4. ASSUME NEW order \in Batches, Evaluate(order)
      PROVE  CarefulParts'
  BY <1>3, <1>4, RestoredIsIntent DEF Evaluate, expired, is_port
<1>5. CASE Enforce
  <2> DEFINE d == Head(decisions)
             p == port_id_at(d.ingress)
             lease == NextLease(p, d)
  <2>1. /\ p \in Ports /\ d \in Decisions /\ Actionable(d) /\ is_port(p)
        /\ lease \in Lease
        /\ fault' = [fault EXCEPT ![p] = LeaseOverlay(lease)]
        /\ leases' = [leases EXCEPT ![p] = lease]
    BY <1>2, <1>5, EnforceFacts
  <2>2. lease.restore = intent[p]
    BY <1>2, <1>3, <2>1, NextLeaseFacts
  <2>3. LeaseOverlay(lease) = overlay(Baseline(intent[p]), lease.kind, lease.bits)
    BY <2>2 DEF LeaseOverlay
  <2>4. /\ intent' = intent /\ topology' = topology
        /\ lease # NoLease
        /\ fault'[p] = LeaseOverlay(lease) /\ leases'[p] = lease
        /\ \A q \in Ports : q # p => fault'[q] = fault[q] /\ leases'[q] = leases[q]
    BY <1>2, <1>5, <2>1, Sentinels DEF Enforce, TypeOK
  <2> HIDE DEF lease, p, d
  <2>5. Reversible'
    BY <1>3, <2>4
  <2>6. CapturedIntent'
    BY <1>3, <2>2, <2>4
  <2>7. LeasesOnLoadedPorts'
    BY <1>3, <2>1, <2>4 DEF is_port
  <2>8. Contained'
    <3>1. SUFFICES ASSUME NEW q \in Ports, leases'[q] # NoLease
                   PROVE  fault'[q] = overlay(Baseline(intent[q]), leases'[q].kind, leases'[q].bits)
      BY <2>4
    <3>2. QED
      BY <1>3, <2>3, <2>4, <3>1
  <2>9. QED
    BY <2>5, <2>6, <2>7, <2>8
<1>6. CASE Decline \/ Tick \/ UNCHANGED vars
  BY <1>3, <1>6 DEF Decline, Tick, vars, is_port
<1>7. ASSUME NEW p \in Ports, ~is_enforced(p),
             NEW c \in OperatorFaults, SetPortFault(p, c)
      PROVE  CarefulParts'
  BY <1>2, <1>3, <1>7 DEF SetPortFault, TypeOK, is_port
<1>8. ASSUME NEW p \in Ports, ~is_enforced(p), ClearPortFault(p)
      PROVE  CarefulParts'
  BY <1>2, <1>3, <1>8 DEF ClearPortFault, TypeOK, is_port
<1>9. ASSUME NEW t \in Topologies, CommitTopology(t)
      PROVE  CarefulParts'
  BY <1>9 DEF CommitTopology, Load
<1>10. ASSUME NEW p \in Ports, ReleaseEnforcement(p)
       PROVE  CarefulParts'
  BY <1>2, <1>3, <1>10, RestoredIsIntent DEF ReleaseEnforcement, TypeOK, is_port
<1>11. QED
  BY <1>4, <1>5, <1>6, <1>7, <1>8, <1>9, <1>10
  DEF CarefulNext, Pipeline, CarefulOperator, Commit, Release

\* So they always agree.
LEMMA CarefulInvCorrect == CarefulSpec => []CarefulInv
<1>1. Init => CarefulInv
  BY ConstantTypes
  DEF Init, CarefulInv, ValidInv, TypeOK, OnlyValidFaults, Reversible, Contained,
      CapturedIntent, LeasesOnLoadedPorts, is_enforced
<1>2. QED
  BY <1>1, CarefulStep, PTL DEF CarefulSpec

\* If the operator leaves contained ports alone and topologies are replaced the
\* way Session does it, every port nobody contains has exactly the fault the
\* operator asked for.
THEOREM EnforcementIsReversible == CarefulSpec => []Reversible
  BY CarefulInvCorrect, PTL DEF CarefulInv

\* Under the same conditions a contained port has the operator's configuration
\* plus the containment of its lease, and nothing else.
THEOREM ContainmentKeepsTheProfile == CarefulSpec => []Contained
  BY CarefulInvCorrect, PTL DEF CarefulInv

-----------------------------------------------------------------------------
(* Leases and topologies, for any operator of the desktop session.         *)

\* A step of the session grants leases on loaded ports only, and a topology that
\* is committed ends them all.
LEMMA LoadedStep ==
  TypeOK /\ LeasesOnLoadedPorts /\ [SessionNext]_vars => LeasesOnLoadedPorts'
<1> SUFFICES ASSUME TypeOK, LeasesOnLoadedPorts, [SessionNext]_vars
             PROVE  LeasesOnLoadedPorts'
  OBVIOUS
<1> USE DEF LeasesOnLoadedPorts, is_enforced, is_port
<1>1. ASSUME UNCHANGED topology,
             \A p \in Ports : leases'[p] # NoLease => leases[p] # NoLease
      PROVE  LeasesOnLoadedPorts'
  BY <1>1
<1>2. ASSUME NEW order \in Batches, Evaluate(order) PROVE LeasesOnLoadedPorts'
  BY <1>1, <1>2 DEF Evaluate, expired
<1>3. CASE Enforce
  <2> DEFINE d == Head(decisions)
             p == port_id_at(d.ingress)
             lease == NextLease(p, d)
  <2>1. p \in Ports /\ is_port(p) /\ leases' = [leases EXCEPT ![p] = lease]
    BY <1>3, EnforceFacts
  <2>2. topology' = topology
    BY <1>3 DEF Enforce
  <2> HIDE DEF p, lease
  <2>3. QED
    BY <2>1, <2>2 DEF TypeOK
<1>4. CASE Decline \/ Tick \/ UNCHANGED vars
  BY <1>1, <1>4 DEF Decline, Tick, vars
<1>5. ASSUME NEW p \in Ports, ClearPortFault(p) \/ \E c \in OperatorFaults : SetPortFault(p, c)
      PROVE  LeasesOnLoadedPorts'
  BY <1>1, <1>5 DEF ClearPortFault, SetPortFault
<1>6. ASSUME NEW t \in Topologies, CommitTopology(t) PROVE LeasesOnLoadedPorts'
  BY <1>6 DEF CommitTopology, Load
<1>7. ASSUME NEW p \in Ports, ReleaseEnforcement(p) PROVE LeasesOnLoadedPorts'
  BY <1>1, <1>7 DEF ReleaseEnforcement, TypeOK
<1>8. QED
  BY <1>2, <1>3, <1>4, <1>5, <1>6, <1>7 DEF SessionNext, Pipeline, Operator, Commit, Release

\* In the desktop session, whatever the operator does to contained ports, a lease
\* never names a port that the loaded topology does not have.
THEOREM LeasesNameLoadedPorts == SessionSpec => []LeasesOnLoadedPorts
<1>1. Init => TypeOK /\ LeasesOnLoadedPorts
  BY ConstantTypes DEF Init, TypeOK, LeasesOnLoadedPorts, is_enforced
<1>2. [SessionNext]_vars => [Next]_vars
  BY DEF SessionNext, Next
<1>3. TypeOK /\ LeasesOnLoadedPorts /\ [SessionNext]_vars => (TypeOK /\ LeasesOnLoadedPorts)'
  BY <1>2, TypeStep, LoadedStep
<1>4. QED
  BY <1>1, <1>3, PTL DEF SessionSpec


-----------------------------------------------------------------------------
(* The detector.                                                           *)

\* Whatever the window holds, the detectors report finitely many anomalies, each of
\* one of the types that the rules are about.
LEMMA CandidatesFinite ==
  ASSUME NEW obs, Len(obs) \in Nat
  PROVE  /\ IsFiniteSet(D!Candidates(obs))
         /\ \A a \in D!Candidates(obs) : a.type \in D!AnomalyType
<1> DEFINE all == 1..Len(obs)
<1>1. IsFiniteSet(all) /\ \A I : I \subseteq all => IsFiniteSet(I)
  <2>1. 1 \in Int /\ Len(obs) \in Int
    OBVIOUS
  <2>2. IsFiniteSet(all)
    BY <2>1, FS_Interval
  <2> HIDE DEF all
  <2>3. QED BY <2>2, FS_Subset
<1>2. ASSUME NEW type \in D!AnomalyType, NEW counted, counted \subseteq all, NEW source
      PROVE  /\ IsFiniteSet(D!RateAnomalies(obs, type, counted, source))
             /\ \A a \in D!RateAnomalies(obs, type, counted, source) : a.type \in D!AnomalyType
  <2> DEFINE From(s) == {i \in counted : source[i] = s}
             X == {source[i] : i \in counted}
             Y == {s \in X : D!Exceeds(type, D!Cardinality(From(s)))}
             g == [s \in Y |-> D!Anomaly(type, s, obs[D!Max(From(s))].ingress)]
  <2>1. IsFiniteSet(X)
    BY <1>1, <1>2, ImageFinite
  <2>2. IsFiniteSet(Y)
    BY <2>1, FS_Subset
  <2>3. D!RateAnomalies(obs, type, counted, source) = {g[s] : s \in Y}
    <3>1. D!RateAnomalies(obs, type, counted, source) = {D!Anomaly(type, s, obs[D!Max(From(s))].ingress) : s \in Y}
      BY DEF D!RateAnomalies
    <3>2. \A s \in Y : g[s] = D!Anomaly(type, s, obs[D!Max(From(s))].ingress)
      OBVIOUS
    <3> HIDE DEF Y, g
    <3>3. QED BY <3>1, <3>2, ZenonT(60)
  <2>4. \A s \in Y : g[s].type = type
    BY DEF D!Anomaly
  <2> HIDE DEF Y, g
  <2>5. QED BY <2>2, <2>3, <2>4, ImageFinite
<1>3. /\ IsFiniteSet(D!PortScans(obs))
      /\ \A a \in D!PortScans(obs) : a.type \in D!AnomalyType
  <2> DEFINE counted == {i \in 1..Len(obs) : D!IsTransport(obs[i])}
             From(s) == {i \in counted : obs[i].ip = s}
             h == [i \in counted |-> obs[i].ip]
             X == {obs[i].ip : i \in counted}
             Y == {s \in X : D!Exceeds("PortScan", D!Cardinality({obs[i].port : i \in From(s)}))}
             g == [s \in Y |-> D!Anomaly("PortScan", s, obs[D!Max(From(s))].ingress)]
  <2>1. IsFiniteSet(X)
    <3>1. IsFiniteSet(counted)
      BY <1>1
    <3>2. X = {h[i] : i \in counted}
      OBVIOUS
    <3> HIDE DEF X, h, counted
    <3>3. QED BY <3>1, <3>2, ImageFinite
  <2>2. IsFiniteSet(Y)
    BY <2>1, FS_Subset
  <2>3. D!PortScans(obs) = {g[s] : s \in Y}
    <3>1. D!PortScans(obs) = {D!Anomaly("PortScan", s, obs[D!Max(From(s))].ingress) : s \in Y}
      BY DEF D!PortScans
    <3>2. \A s \in Y : g[s] = D!Anomaly("PortScan", s, obs[D!Max(From(s))].ingress)
      OBVIOUS
    <3> HIDE DEF Y, g
    <3>3. QED BY <3>1, <3>2, ZenonT(60)
  <2>4. \A s \in Y : g[s].type \in D!AnomalyType
    BY DEF D!Anomaly, D!AnomalyType
  <2> HIDE DEF Y, g
  <2>5. QED BY <2>2, <2>3, <2>4, ImageFinite
<1>4. /\ IsFiniteSet(D!MacFlaps(obs))
      /\ \A a \in D!MacFlaps(obs) : a.type \in D!AnomalyType
  <2> DEFINE Path(mac) == D!Select(obs, {o \in D!Range(obs) : D!IsFramed(o) /\ o.mac = mac})
             Transitions(mac) ==
               {k \in 2..Len(Path(mac)) : Path(mac)[k].ingress # Path(mac)[k - 1].ingress}
             counted == {i \in 1..Len(obs) : D!IsFramed(obs[i])}
             h == [i \in counted |-> obs[i].mac]
             X == {obs[i].mac : i \in counted}
             Y == {mac \in X : D!Exceeds("MacFlap", D!Cardinality(Transitions(mac)))}
             g == [mac \in Y |-> D!Anomaly("MacFlap", mac, D!Last(Path(mac)).ingress)]
  <2>1. IsFiniteSet(X)
    <3>1. IsFiniteSet(counted)
      BY <1>1
    <3>2. X = {h[i] : i \in counted}
      OBVIOUS
    <3> HIDE DEF X, h, counted
    <3>3. QED BY <3>1, <3>2, ImageFinite
  <2>2. IsFiniteSet(Y)
    BY <2>1, FS_Subset
  <2>3. D!MacFlaps(obs) = {g[s] : s \in Y}
    <3>1. D!MacFlaps(obs) = {D!Anomaly("MacFlap", mac, D!Last(Path(mac)).ingress) : mac \in Y}
      BY DEF D!MacFlaps
    <3>2. \A mac \in Y : g[mac] = D!Anomaly("MacFlap", mac, D!Last(Path(mac)).ingress)
      OBVIOUS
    <3> HIDE DEF Y, g
    <3>3. QED BY <3>1, <3>2
  <2>4. \A s \in Y : g[s].type \in D!AnomalyType
    BY DEF D!Anomaly, D!AnomalyType
  <2> HIDE DEF Y, g
  <2>5. QED BY <2>2, <2>3, <2>4, ImageFinite
<1>5. /\ IsFiniteSet(D!MalformedFrames(obs))
      /\ \A a \in D!MalformedFrames(obs) : a.type \in D!AnomalyType
  <2> DEFINE malformed == {i \in 1..Len(obs) : ~obs[i].valid}
             On(p) == {i \in malformed : obs[i].ingress = p}
             h == [i \in malformed |-> obs[i].ingress]
             X == {obs[i].ingress : i \in malformed}
             Y == {p \in X : D!Exceeds("MalformedFrame", D!Cardinality(On(p)))}
             g == [p \in Y |-> D!Anomaly("MalformedFrame", NoSource, p)]
  <2>1. IsFiniteSet(X)
    <3>1. IsFiniteSet(malformed)
      BY <1>1
    <3>2. X = {h[i] : i \in malformed}
      OBVIOUS
    <3> HIDE DEF X, h, malformed
    <3>3. QED BY <3>1, <3>2, ImageFinite
  <2>2. IsFiniteSet(Y)
    BY <2>1, FS_Subset
  <2>3. D!MalformedFrames(obs) = {g[s] : s \in Y}
    <3>1. D!MalformedFrames(obs) = {D!Anomaly("MalformedFrame", NoSource, p) : p \in Y}
      BY DEF D!MalformedFrames
    <3>2. \A p \in Y : g[p] = D!Anomaly("MalformedFrame", NoSource, p)
      OBVIOUS
    <3> HIDE DEF Y, g
    <3>3. QED BY <3>1, <3>2
  <2>4. \A s \in Y : g[s].type \in D!AnomalyType
    BY DEF D!Anomaly, D!AnomalyType
  <2> HIDE DEF Y, g
  <2>5. QED BY <2>2, <2>3, <2>4, ImageFinite
<1>6. {"BroadcastStorm", "UnknownUnicastFlood", "UdpFlood", "HotTalker"} \subseteq D!AnomalyType
  BY DEF D!AnomalyType
<1> DEFINE mac == [i \in all |-> obs[i].mac]
           ip == [i \in all |-> obs[i].ip]
           A == D!RateAnomalies(obs, "BroadcastStorm", {i \in all : D!IsBroadcast(obs[i])}, mac)
           B == D!RateAnomalies(obs, "UnknownUnicastFlood", {i \in all : D!IsUnknown(obs[i])}, mac)
           C == D!RateAnomalies(obs, "UdpFlood", {i \in all : D!IsUdp(obs[i])}, ip)
           H == D!RateAnomalies(obs, "HotTalker", {i \in all : obs[i].valid}, mac)
<1>7. D!Candidates(obs) =
        A \cup B \cup C \cup H \cup D!PortScans(obs) \cup D!MacFlaps(obs) \cup D!MalformedFrames(obs)
  BY DEF D!Candidates
<1>8. /\ IsFiniteSet(A) /\ IsFiniteSet(B) /\ IsFiniteSet(C) /\ IsFiniteSet(H)
      /\ \A a \in A \cup B \cup C \cup H : a.type \in D!AnomalyType
  BY <1>2, <1>6
<1> HIDE DEF A, B, C, H
<1>9. IsFiniteSet(D!Candidates(obs))
  <2>1. IsFiniteSet(A \cup B \cup C \cup H)
    BY <1>8, FS_Union
  <2>2. QED BY <1>3, <1>4, <1>5, <1>7, <2>1, FS_Union
<1>10. QED
  BY <1>3, <1>4, <1>5, <1>7, <1>8, <1>9

-----------------------------------------------------------------------------
(* The invariant.                                                          *)

\* A lease that blocks has its block in the fault table.
LeasesBlock ==
  \A p \in Ports :
    is_enforced(p) /\ leases[p].kind # "RateLimit" =>
      fault[p] # NoFault /\ (fault[p].blackhole \/ fault[p].isolated)

EnforcerInv ==
  /\ topology \in Topologies
  /\ fault \in [Ports -> FaultConfiguration \cup {NoFault}]
  /\ leases \in [Ports -> Lease \cup {NoLease}]
  /\ now \in Nat
  /\ LeasesBlock

\* What waits for apply came from DecisionFor.
PolicyDecision(d) == d.action \in PolicyAction /\ d.pps \in Nat /\ d.frame \in Nat

DecisionsInv == IsSeq(decisions) /\ \A d \in Range(decisions) : PolicyDecision(d)

\* The n-th sender stands for the n-th host, and the one at work has been counted.
BindingsInv ==
  /\ IsSeq(bindings)
  /\ \A i \in 1..Len(bindings) :
       bindings[i].port = IF HasPortAt(i - 1) THEN port_id_at(i - 1) ELSE NoPort
  /\ current # NoSender => \E i \in 1..Len(bindings) : bindings[i].sender = current
  /\ stage = "judge" => current # NoSender
  /\ current \in Senders \cup {NoSender}

HistoryInv == history \in [received: Nat, passed: [Senders -> Seq(Nat)], leased: SUBSET Ports]

SupervisorInv ==
  /\ EnforcerInv
  /\ DecisionsInv
  /\ BindingsInv
  /\ IsSeq(batch)
  /\ IsSeq(observations)
  /\ HistoryInv

-----------------------------------------------------------------------------
(* The steps of the enforcer.                                              *)

\* The fault a decision installs contains what its lease says.
LEMMA InstalledBlocks ==
  ASSUME EnforcerInv, NEW p \in Ports, NEW d, PolicyDecision(d), Actionable(d)
  PROVE  /\ NextLease(p, d) \in Lease
         /\ LeaseOverlay(NextLease(p, d)) \in FaultConfiguration
         /\ NextLease(p, d).kind # "RateLimit" =>
              \/ LeaseOverlay(NextLease(p, d)).blackhole
              \/ LeaseOverlay(NextLease(p, d)).isolated
<1> DEFINE kind == effective_kind(p, kind_for(d.action))
<1>0. rate_limit_bits(d) \in Nat
  BY RateTyped DEF PolicyDecision
<1>1. /\ kind_for(d.action) \in EnforcementKind /\ rate_limit_bits(d) \in Nat
      /\ now \in Nat /\ fault[p] \in FaultConfiguration \cup {NoFault}
  BY <1>0, KindFacts DEF PolicyDecision, Actionable, EnforcerInv
<1>2. is_enforced(p) =>
        /\ leases[p].kind \in EnforcementKind
        /\ leases[p].bits \in Nat
        /\ leases[p].expires \in Nat
        /\ leases[p].restore \in FaultConfiguration \cup {NoFault}
  BY DEF EnforcerInv, is_enforced, Lease
<1>3. kind \in EnforcementKind
  BY <1>1, <1>2 DEF effective_kind, supersedes
<1> HIDE DEF kind
<1>4. effective_bits(p, d) \in Nat
  BY <1>1, <1>2 DEF effective_bits
<1>5. expires_at(p, kind) \in Nat
  BY <1>1, <1>2, <1>3, KindFacts DEF expires_at, Larger
<1>6. Captured(p) \in FaultConfiguration \cup {NoFault}
  BY <1>1, <1>2 DEF Captured
<1>7. NextLease(p, d) = [kind |-> kind, bits |-> effective_bits(p, d),
                         expires |-> expires_at(p, kind), restore |-> Captured(p)]
  BY DEF NextLease, kind
<1>8. NextLease(p, d) \in Lease
  BY <1>3, <1>4, <1>5, <1>6, <1>7 DEF Lease
<1> DEFINE base == Baseline(Captured(p))
<1>9. base \in FaultConfiguration
  BY <1>6, BaselineTyped
<1>10. LeaseOverlay(NextLease(p, d)) = overlay(base, kind, effective_bits(p, d))
  BY <1>7 DEF LeaseOverlay
<1> HIDE DEF base
<1>11. overlay(base, kind, effective_bits(p, d)) \in FaultConfiguration
  BY <1>3, <1>4, <1>9, OverlayTyped
<1>12. /\ kind = "Blackhole" => overlay(base, kind, effective_bits(p, d)).blackhole
       /\ kind = "Isolate" => overlay(base, kind, effective_bits(p, d)).isolated
  BY <1>9 DEF overlay, FaultConfiguration
<1>13. QED
  BY <1>3, <1>7, <1>8, <1>10, <1>11, <1>12 DEF EnforcementKind

\* Ending leases and installing decisions keep the blocks of the leases that live.
LEMMA EnforcerStep ==
  ASSUME EnforcerInv, DecisionsInv,
         \/ \E order : Evaluate(order)
         \/ Enforce \/ Decline \/ Tick \/ CarefulOperator \/ UNCHANGED vars
  PROVE  EnforcerInv'
<1> USE Sentinels
<1>1. ASSUME NEW order, Evaluate(order) PROVE EnforcerInv'
  <2>1. \A p \in Ports : expired(p) => RestoredFault(p) \in FaultConfiguration \cup {NoFault}
    BY DEF EnforcerInv, expired, is_enforced, RestoredFault, Lease
  <2>2. /\ topology' \in Topologies /\ now' \in Nat
        /\ fault' \in [Ports -> FaultConfiguration \cup {NoFault}]
        /\ leases' \in [Ports -> Lease \cup {NoLease}]
    BY <1>1, <2>1 DEF Evaluate, EnforcerInv
  <2>3. LeasesBlock'
    BY <1>1 DEF Evaluate, EnforcerInv, LeasesBlock, is_enforced
  <2>4. QED BY <2>2, <2>3 DEF EnforcerInv
<1>2. CASE Enforce
  <2> DEFINE d == Head(decisions)
             p == port_id_at(d.ingress)
             lease == NextLease(p, d)
             installed == LeaseOverlay(lease)
  <2>1. /\ fault' = [fault EXCEPT ![p] = installed]
        /\ leases' = [leases EXCEPT ![p] = lease]
        /\ topology' = topology /\ now' = now /\ Actionable(d) /\ decisions # <<>>
    BY <1>2 DEF Enforce, Installs, Idle
  <2>2. d \in Range(decisions)
    BY <2>1, HeadTailProperties DEF DecisionsInv, IsSeq
  <2>3. PolicyDecision(d)
    BY <2>2 DEF DecisionsInv
  <2>4. p \in Ports => /\ lease \in Lease /\ installed \in FaultConfiguration
                       /\ lease.kind # "RateLimit" => installed.blackhole \/ installed.isolated
    BY <2>1, <2>3, InstalledBlocks
  <2> HIDE DEF d, p, lease, installed
  <2>5. \A q \in Ports : /\ fault'[q] = IF q = p THEN installed ELSE fault[q]
                         /\ leases'[q] = IF q = p THEN lease ELSE leases[q]
    BY <2>1 DEF EnforcerInv
  <2>6. LeasesBlock'
    BY <2>4, <2>5 DEF EnforcerInv, LeasesBlock, is_enforced
  <2>7. /\ fault' \in [Ports -> FaultConfiguration \cup {NoFault}]
        /\ leases' \in [Ports -> Lease \cup {NoLease}]
    BY <2>1, <2>4, <2>5 DEF EnforcerInv
  <2>8. QED BY <2>1, <2>6, <2>7 DEF EnforcerInv
<1>3. CASE Decline \/ Tick \/ UNCHANGED vars
  <2>1. fault' = fault /\ leases' = leases /\ topology' = topology /\ (now' = now \/ now' = now + 1)
    BY <1>3 DEF Decline, Tick, vars
  <2>2. QED BY <2>1 DEF EnforcerInv, LeasesBlock, is_enforced
<1>4. CASE CarefulOperator
  <2>1. PICK p \in Ports, c \in FaultConfiguration \cup {NoFault} :
          /\ ~is_enforced(p) /\ fault' = [fault EXCEPT ![p] = c]
          /\ leases' = leases /\ topology' = topology /\ now' = now
    BY <1>4, ConstantTypes DEF CarefulOperator, SetPortFault, ClearPortFault
  <2>2. QED BY <2>1 DEF EnforcerInv, LeasesBlock, is_enforced
<1>5. QED BY <1>1, <1>2, <1>3, <1>4

-----------------------------------------------------------------------------
(* The steps of the supervisor.                                            *)

\* expire leaves a sequence.
LEMMA ExpireIsSeq ==
  ASSUME NEW S, NEW o \in Seq(S), NEW t
  PROVE  D!expire(o, t) \in Seq(S)
<1> DEFINE N == {n \in 0..Len(o) : \A i \in 1..n : o[i].at < D!cutoff(t)}
           e == Max(N)
<1>1. Len(o) \in Nat /\ \A i \in 1..Len(o) : o[i] \in S
  BY LenProperties, ElementOfSeq
<1>2. N \subseteq 0..Len(o) /\ 0 \in N
  BY <1>1
<1>3. e \in N
  <2> HIDE DEF N
  <2> QED BY <1>1, <1>2, MaxFacts
<1>4. e \in 0..Len(o)
  BY <1>2, <1>3
<1>5. D!expire(o, t) = SubSeq(o, e + 1, Len(o))
  BY DEF D!expire, D!ExpiredCount, D!Max, Max
<1> HIDE DEF e
<1>6. e + 1 \in Int /\ Len(o) \in Int /\ \A i \in e + 1..Len(o) : o[i] \in S
  BY <1>1, <1>4
<1>7. QED BY <1>5, <1>6, SubSeqProperties

\* A batch that is observed is a sequence.
LEMMA ObserveIsSeq ==
  ASSUME NEW b, IsSeq(b), NEW t
  PROVE  IsSeq(D!Observe(b, t))
<1> DEFINE n == D!Observe(b, t)
<1>1. Len(b) \in Nat /\ DOMAIN n = 1..Len(b) /\ n = [i \in 1..Len(b) |-> n[i]]
  BY LenProperties DEF D!Observe, IsSeq
<1>2. \A i \in 1..Len(b) : n[i] \in Range(n)
  BY <1>1 DEF Range
<1> HIDE DEF n
<1>3. n \in [1..Len(b) -> Range(n)]
  BY <1>1, <1>2
<1>4. n \in Seq(Range(n))
  BY <1>1, <1>3, SeqDef
<1>5. QED BY <1>4 DEF IsSeq, n

\* Analysing leaves a deque that is a sequence and decisions that rules made.
LEMMA AnalyseFacts ==
  ASSUME SupervisorInv, Analyse
  PROVE  IsSeq(observations') /\ DecisionsInv'
<1> DEFINE t == D!ClampedClock(now)
           n == D!Observe(batch, t)
           x == D!expire(observations \o n, t)
           S == Range(observations) \cup Range(n)
<1>1. observations' = x /\ events' = D!Candidates(x) \ active_anomalies
  BY DEF Analyse, D!Detect
<1>2. IsSeq(n)
  BY ObserveIsSeq DEF SupervisorInv
<1>3. observations \in Seq(S) /\ n \in Seq(S)
  <2>1. Range(observations) \subseteq S /\ Range(n) \subseteq S
    OBVIOUS
  <2>2. QED BY <1>2, <2>1, SeqMonotonic DEF SupervisorInv, IsSeq
<1> HIDE DEF n, t
<1>4. x \in Seq(S)
  BY <1>3, ConcatProperties, ExpireIsSeq
<1> HIDE DEF S, x
<1>5. IsSeq(observations') /\ Len(x) \in Nat
  BY <1>1, <1>4, SeqFacts, LenProperties
<1> DEFINE A == D!Candidates(x) \ active_anomalies
           m == Cardinality(A)
<1>6. /\ IsFiniteSet(A) /\ m \in Nat
      /\ \A a \in A : a.type \in D!AnomalyType
  BY <1>5, CandidatesFinite, FS_Subset, FS_CardinalityType
<1>7. PICK order \in DecisionOrders(A) : Evaluate(order)
  BY <1>1 DEF Analyse
<1>8. PICK o \in [1..m -> A] : order = [i \in 1..m |-> DecisionFor(o[i])]
  BY DEF DecisionOrders
<1> HIDE DEF A, m
<1>9. \A i \in 1..m : PolicyDecision(order[i])
  BY <1>6, <1>8, SupervisorConfig, ConstantTypes DEF DecisionFor, PolicyDecision
<1>10. order \in [1..m -> {order[i] : i \in 1..m}]
  BY <1>8
<1>11. order \in Seq({order[i] : i \in 1..m})
  BY <1>6, <1>10, SeqDef
<1>12. IsSeq(order) /\ \A d \in Range(order) : PolicyDecision(d)
  BY <1>9, <1>11, SeqFacts, RangeOfSeq
<1>13. decisions' = order
  BY <1>7 DEF Evaluate
<1>14. QED BY <1>5, <1>12, <1>13 DEF DecisionsInv, IsSeq

\* apply works its decisions off from the front.
LEMMA ApplyDecisions ==
  ASSUME DecisionsInv, Enforce \/ Decline
  PROVE  DecisionsInv'
<1>1. decisions # <<>> /\ decisions' = Tail(decisions)
  BY DEF Enforce, Decline, Idle
<1>2. Tail(decisions) \in Seq(Range(decisions)) /\ Range(Tail(decisions)) \subseteq Range(decisions)
  BY <1>1, TailRange DEF DecisionsInv, IsSeq
<1>3. IsSeq(Tail(decisions)) /\ \A d \in Range(Tail(decisions)) : PolicyDecision(d)
  BY <1>2, SeqFacts DEF DecisionsInv
<1>4. QED BY <1>1, <1>3 DEF DecisionsInv, IsSeq

\* bind gives a sender that is new the host after the last one bound, and the
\* frame's sender is bound afterwards.
LEMMA RecordFacts ==
  ASSUME SupervisorInv, NEW s \in Senders, NEW packet, Record(s, packet)
  PROVE  BindingsInv' /\ IsSeq(batch') /\ HistoryInv'
<1>1. /\ IsSeq(bindings) /\ IsSeq(batch) /\ Len(bindings) \in Nat
  BY SeqFacts DEF SupervisorInv, BindingsInv
<1>2. /\ bindings' = Bound(s) /\ current' = s /\ topology' = topology
      /\ stage' \in {"tick", "judge"}
  BY DEF Record, vars
<1>3. /\ IsSeq(Bound(s))
      /\ \A i \in 1..Len(Bound(s)) :
           Bound(s)[i].port = IF HasPortAt(i - 1) THEN port_id_at(i - 1) ELSE NoPort
      /\ \E i \in 1..Len(Bound(s)) : Bound(s)[i].sender = s
  <2>1. CASE \E i \in 1..Len(bindings) : bindings[i].sender = s
    <3>1. Bound(s) = bindings
      BY <2>1 DEF Bound
    <3>2. QED BY <1>1, <2>1, <3>1 DEF SupervisorInv, BindingsInv
  <2>2. CASE ~\E i \in 1..Len(bindings) : bindings[i].sender = s
    <3> DEFINE port == IF HasPortAt(Len(bindings)) THEN port_id_at(Len(bindings)) ELSE NoPort
               new == [sender |-> s, port |-> port]
    <3>1. Bound(s) = Append(bindings, new) /\ new.sender = s /\ new.port = port
      BY <2>2 DEF Bound
    <3> HIDE DEF new
    <3>2. PICK k \in Nat : k = Len(bindings)
      BY <1>1
    <3>3. /\ IsSeq(Bound(s)) /\ Len(Bound(s)) = k + 1
          /\ \A i \in 1..k : Bound(s)[i] = bindings[i]
          /\ Bound(s)[k + 1] = new
      BY <1>1, <3>1, <3>2, SeqFacts
    <3>4. ASSUME NEW i \in 1..k + 1
          PROVE  Bound(s)[i].port = IF HasPortAt(i - 1) THEN port_id_at(i - 1) ELSE NoPort
      <4>1. CASE i = k + 1
        <5>1. i - 1 = k
          BY <4>1
        <5>2. QED BY <3>1, <3>2, <3>3, <4>1, <5>1
      <4>2. CASE i # k + 1
        <5>1. i \in 1..k
          BY <4>2
        <5>2. QED BY <3>2, <3>3, <5>1 DEF SupervisorInv, BindingsInv
      <4>3. QED BY <4>1, <4>2
    <3>5. k + 1 \in 1..k + 1 /\ Bound(s)[k + 1].sender = s
      BY <3>1, <3>3
    <3>6. QED BY <3>3, <3>4, <3>5
  <2>3. QED BY <2>1, <2>2
<1>4. BindingsInv'
  BY <1>2, <1>3, SupervisorConfig DEF BindingsInv, HasPortAt, port_id_at, IsSeq
<1>5. IsSeq(batch')
  BY <1>1, SeqFacts DEF Record
<1>6. HistoryInv'
  <2>1. history \in [received: Nat, passed: [Senders -> Seq(Nat)], leased: SUBSET Ports]
    BY DEF SupervisorInv, HistoryInv
  <2>2. PICK n \in Nat : n = history.received + 1
    BY <2>1
  <2>3. history' = [history EXCEPT !.received = n]
    BY <2>2 DEF Record
  <2>4. QED BY <2>1, <2>3 DEF HistoryInv
<1>7. QED BY <1>4, <1>5, <1>6

\* Judging appends to what one sender got through, and to no other's.
LEMMA JudgeFacts ==
  ASSUME SupervisorInv, Judge
  PROVE  /\ HistoryInv'
         /\ current \in Senders
         /\ \A s \in Senders :
              history'.passed[s] # history.passed[s] => s = current /\ ~Blocks(PortOf(current))
<1>1. current \in Senders /\ now \in Nat
  BY DEF Judge, SupervisorInv, BindingsInv, EnforcerInv
<1>2. /\ history \in [received: Nat, passed: [Senders -> Seq(Nat)], leased: SUBSET Ports]
      /\ history.passed \in [Senders -> Seq(Nat)]
  BY DEF SupervisorInv, HistoryInv
<1>3. CASE Blocks(PortOf(current))
  BY <1>1, <1>2, <1>3 DEF Judge, HistoryInv
<1>4. CASE ~Blocks(PortOf(current))
  <2> DEFINE new == Append(history.passed[current], now)
             passed == [history.passed EXCEPT ![current] = new]
  <2>1. new \in Seq(Nat)
    BY <1>1, <1>2, AppendProperties
  <2>2. history' = [history EXCEPT !.passed = passed]
    BY <1>4 DEF Judge
  <2> HIDE DEF new
  <2>3. passed \in [Senders -> Seq(Nat)] /\ \A s \in Senders : s # current => passed[s] = history.passed[s]
    BY <1>1, <1>2, <2>1
  <2> HIDE DEF passed
  <2>4. history'.passed = passed /\ HistoryInv'
    BY <1>2, <2>2, <2>3 DEF HistoryInv
  <2>5. QED BY <1>1, <1>4, <2>3, <2>4
<1>5. QED BY <1>3, <1>4

\* The invariant of the supervisor is inductive.
LEMMA SupervisorStep == SupervisorInv /\ [SNext]_svars => SupervisorInv'
<1> SUFFICES ASSUME SupervisorInv, [SNext]_svars PROVE SupervisorInv'
  OBVIOUS
<1> USE DEF SupervisorInv
<1>0. EnforcerInv /\ DecisionsInv /\ BindingsInv /\ IsSeq(batch) /\ IsSeq(observations) /\ HistoryInv
  OBVIOUS
<1>1. ASSUME UNCHANGED vars PROVE EnforcerInv' /\ DecisionsInv'
  <2>1. EnforcerInv'
    BY <1>0, <1>1, EnforcerStep
  <2>2. DecisionsInv'
    BY <1>0, <1>1 DEF DecisionsInv, IsSeq, vars
  <2>3. QED BY <2>1, <2>2
<1>2. ASSUME UNCHANGED <<topology, bindings, current>>,
             stage' = "judge" => current # NoSender
      PROVE  BindingsInv'
  BY <1>0, <1>2 DEF BindingsInv, HasPortAt, port_id_at, IsSeq
<1>3. ASSUME UNCHANGED <<batch, observations>> PROVE IsSeq(batch') /\ IsSeq(observations')
  BY <1>0, <1>3 DEF IsSeq
<1>4. ASSUME UNCHANGED history PROVE HistoryInv'
  BY <1>0, <1>4 DEF HistoryInv
<1>5. CASE Judge
  <2>1. HistoryInv'
    BY <1>5, JudgeFacts
  <2>2. UNCHANGED <<vars, batch, observations>>
    BY <1>5 DEF Judge, detector
  <2>3. BindingsInv'
    BY <1>0, <1>5, SupervisorConfig DEF Judge, BindingsInv, HasPortAt, port_id_at, IsSeq, vars
  <2>4. QED BY <1>1, <1>3, <2>1, <2>2, <2>3
<1>6. ASSUME NEW s \in Senders, NEW packet \in Traffic(s), Record(s, packet)
      PROVE  SupervisorInv'
  <2>1. UNCHANGED <<vars, observations>>
    BY <1>6 DEF Record, detector
  <2>2. IsSeq(observations')
    BY <1>0, <2>1 DEF IsSeq
  <2>3. QED BY <1>1, <1>6, <2>1, <2>2, RecordFacts
<1>7. CASE IdleTick
  BY <1>1, <1>2, <1>3, <1>4, <1>7 DEF IdleTick, detector, vars
<1>8. CASE SkipAnalysis
  BY <1>1, <1>2, <1>3, <1>4, <1>8 DEF SkipAnalysis, AfterTick, detector, vars
<1>9. CASE Analyse
  <2>1. \E order : Evaluate(order)
    BY <1>9 DEF Analyse
  <2>2. EnforcerInv'
    BY <1>0, <2>1, EnforcerStep
  <2>3. UNCHANGED <<topology, bindings, current, history>> /\ stage' = "apply" /\ batch' = <<>>
    BY <1>9, <2>1 DEF Analyse, Evaluate
  <2>4. IsSeq(batch')
    BY <2>3, SeqFacts
  <2>5. QED BY <1>2, <1>4, <1>9, <2>2, <2>3, <2>4, AnalyseFacts
<1>10. CASE Apply
  <2>1. Enforce \/ Decline
    BY <1>10 DEF Apply
  <2>2. EnforcerInv' /\ DecisionsInv'
    BY <1>0, <2>1, EnforcerStep, ApplyDecisions
  <2>3. UNCHANGED <<topology, bindings, current, batch, observations, stage>>
    BY <1>10, <2>1 DEF Apply, Enforce, Decline, detector, supervisor
  <2>4. HistoryInv'
    BY <1>0, <1>10 DEF Apply, HistoryInv
  <2>5. stage' = "judge" => current # NoSender
    BY <1>0, <2>3 DEF BindingsInv
  <2>6. QED BY <1>2, <1>3, <2>2, <2>3, <2>4, <2>5
<1>11. CASE Applied
  BY <1>1, <1>2, <1>3, <1>4, <1>11 DEF Applied, AfterTick, detector, vars
<1>12. CASE Pass \/ Command(CarefulOperator)
  <2>1. Tick \/ CarefulOperator
    BY <1>12 DEF Pass, Command
  <2>2. EnforcerInv'
    BY <1>0, <2>1, EnforcerStep
  <2>3. UNCHANGED <<topology, decisions, bindings, current, batch, observations, stage, history>>
    BY <1>12, <2>1 DEF Pass, Command, Tick, CarefulOperator, SetPortFault, ClearPortFault, detector, supervisor
  <2>4. DecisionsInv'
    BY <1>0, <2>3 DEF DecisionsInv, IsSeq
  <2>5. stage' = "judge" => current # NoSender
    BY <1>0, <2>3 DEF BindingsInv
  <2>6. QED BY <1>2, <1>3, <1>4, <2>2, <2>3, <2>4, <2>5
<1>13. CASE UNCHANGED svars
  <2>1. UNCHANGED <<vars, topology, bindings, current, batch, observations, stage, history>>
    BY <1>13 DEF svars, vars, detector, supervisor
  <2>2. stage' = "judge" => current # NoSender
    BY <1>0, <2>1 DEF BindingsInv
  <2>3. QED BY <1>1, <1>2, <1>3, <1>4, <2>1, <2>2
<1>14. QED
  BY <1>5, <1>6, <1>7, <1>8, <1>9, <1>10, <1>11, <1>12, <1>13 DEF SNext, Inspect, Ticking

-----------------------------------------------------------------------------
(* The promise of SwitchSupervisor.                                        *)

\* The frame of a sender whose port is under a blocking lease is not forwarded.
LEMMA JudgeObeysLeases ==
  ASSUME SupervisorInv, Judge, ~Blocks(PortOf(current)),
         HasPortAt(IngressOf(bindings, current)),
         is_enforced(port_id_at(IngressOf(bindings, current)))
  PROVE  leases[port_id_at(IngressOf(bindings, current))].kind = "RateLimit"
<1>1. \E i \in 1..Len(bindings) : bindings[i].sender = current
  BY DEF Judge, SupervisorInv, BindingsInv
<1> DEFINE i == CHOOSE j \in 1..Len(bindings) : bindings[j].sender = current
<1>2. i \in 1..Len(bindings)
  BY <1>1
<1>3. IngressOf(bindings, current) = i - 1
  BY DEF IngressOf
<1> HIDE DEF i
<1>4. Len(bindings) \in Nat
  BY SeqFacts DEF SupervisorInv, BindingsInv
<1>5. i - 1 \in Nat /\ (i - 1) + 1 = i
  BY <1>2, <1>4
<1>6. PortOf(current) = bindings[i].port
  BY <1>3, <1>5 DEF PortOf
<1> DEFINE p == port_id_at(i - 1)
<1>7. bindings[i].port = p
  BY <1>2, <1>3 DEF SupervisorInv, BindingsInv
<1>8. p \in Ports /\ is_port(p)
  <2>1. topology \in Seq(Ports)
    BY ConstantTypes DEF SupervisorInv, EnforcerInv
  <2>2. topology # NoTopology /\ i - 1 < Len(topology)
    BY <1>3 DEF HasPortAt
  <2>3. i \in 1..Len(topology)
    BY <1>2, <1>4, <2>1, <2>2
  <2>4. p = topology[i]
    BY <1>5 DEF port_id_at
  <2>5. QED BY <2>1, <2>2, <2>3, <2>4, ElementOfSeq DEF is_port
<1> HIDE DEF p
<1>9. p # NoPort
  BY <1>8, SupervisorConfig
<1>10. fault[p] = NoFault \/ (~fault[p].blackhole /\ ~fault[p].isolated)
  BY <1>6, <1>7, <1>8, <1>9 DEF Blocks
<1>11. leases[p].kind = "RateLimit"
  BY <1>3, <1>8, <1>10 DEF p, SupervisorInv, EnforcerInv, LeasesBlock
<1>12. QED BY <1>3, <1>11 DEF p

\* SwitchSupervisor: "a policy that quarantines a port stops that port forwarding".
\* While the port that a sender's frames are blamed on is under a lease that blocks,
\* inspect forwards none of them, for every batch size, window and rule, whatever else
\* the tick, the operator and the leases of other ports do in between.
THEOREM QuarantineStops == SSpec => QuarantineStopsForwarding
<1>1. SInit => SupervisorInv
  <2>1. SUFFICES ASSUME SInit PROVE SupervisorInv
    OBVIOUS
  <2>2. EnforcerInv
    BY <2>1 DEF SInit, EnforcerInv, LeasesBlock, is_enforced
  <2>3. Len(<<>>) = 0 /\ IsSeq(<<>>) /\ Range(<<>>) = {}
    <3>1. Range(<<>>) = {}
      BY DEF Range
    <3>2. QED BY <3>1, SeqFacts, EmptySeq
  <2>4. DecisionsInv /\ BindingsInv /\ IsSeq(batch) /\ IsSeq(observations)
    BY <2>1, <2>3 DEF SInit, DecisionsInv, BindingsInv
  <2>5. HistoryInv
    <3>1. <<>> \in Seq(Nat)
      BY EmptySeq
    <3>2. QED BY <2>1, <3>1 DEF SInit, HistoryInv
  <2>6. QED BY <2>2, <2>4, <2>5 DEF SupervisorInv
<1>2. ASSUME SupervisorInv, [SNext]_svars, NEW s \in Senders,
             history'.passed[s] # history.passed[s]
      PROVE  LET ingress == IngressOf(bindings, s)
             IN  HasPortAt(ingress) /\ is_enforced(port_id_at(ingress)) =>
                   leases[port_id_at(ingress)].kind = "RateLimit"
  <2>1. history.passed # history'.passed
    BY <1>2
  <2>2. CASE Judge
    BY <1>2, <2>2, JudgeFacts, JudgeObeysLeases
  <2>3. CASE Apply \/ (\E u \in Senders : \E packet \in Traffic(u) : Record(u, packet))
    <3>1. history'.passed = history.passed
      BY <1>2, <2>3 DEF Apply, Record, SupervisorInv, HistoryInv
    <3>2. QED BY <2>1, <3>1
  <2>4. CASE UNCHANGED history
    BY <2>1, <2>4
  <2>5. QED
    BY <1>2, <2>2, <2>3, <2>4 DEF SNext, Inspect, Ticking, IdleTick, SkipAnalysis, Analyse,
       Applied, Pass, Command, svars
<1>3. SupervisorInv /\ [SNext]_svars =>
        [\A s \in Senders :
           history'.passed[s] # history.passed[s] =>
             LET ingress == IngressOf(bindings, s)
             IN  HasPortAt(ingress) /\ is_enforced(port_id_at(ingress)) =>
                   leases[port_id_at(ingress)].kind = "RateLimit"]_svars
  BY <1>2
<1>4. QED
  BY <1>1, <1>3, SupervisorStep, PTL DEF SSpec, QuarantineStopsForwarding
=============================================================================
