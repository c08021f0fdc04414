---------------------------- MODULE MCEnforcement ----------------------------
(***************************************************************************)
(* Bounded instances of Enforcement.  Two ports and two topologies, one of *)
(* which lacks a port and renumbers the other, so that reloads make stale  *)
(* leases and ingress indices matter.  The operator can set a latency      *)
(* profile, an isolation of his own and an invalid profile.                *)
(***************************************************************************)
EXTENDS Enforcement

CONSTANTS h1, h2, clean, slow, bad

MCPorts == {h1, h2}
MCTopologies == {<<h1, h2>>, <<h2>>}
MCProfiles == {clean, slow, bad}
MCValidProfiles == {clean, slow}

SlowFault == [DefaultFault EXCEPT !.profile = slow]
OwnIsolation == [DefaultFault EXCEPT !.isolated = TRUE]
BadFault == [DefaultFault EXCEPT !.profile = bad]
MCOperatorFaults == {SlowFault, OwnIsolation, BadFault}

MakeDecision(ingress, action, pps, frame) ==
  [ingress |-> ingress, action |-> action, pps |-> pps, frame |-> frame]

\* Every enforcing kind on port index 0, two rate limits of different size, a
\* rate limit of no bits, an alert, and an index past the smaller topology.
MCDecisions ==
  {MakeDecision(0, "RateLimit", 1, 0), MakeDecision(0, "RateLimit", 1, 2),
   MakeDecision(0, "RateLimit", 0, 0), MakeDecision(0, "Drop", 0, 1),
   MakeDecision(0, "Quarantine", 0, 1), MakeDecision(0, "AlertOnly", 0, 1),
   MakeDecision(1, "Drop", 0, 1)}

\* The decisions that can touch a lease, one of each kind.
FewDecisions ==
  {MakeDecision(0, "RateLimit", 1, 0), MakeDecision(0, "Quarantine", 0, 1),
   MakeDecision(0, "AlertOnly", 0, 1), MakeDecision(1, "Drop", 0, 1)}
FewOperatorFaults == {SlowFault, BadFault}

=============================================================================
