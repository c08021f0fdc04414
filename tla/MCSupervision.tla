---------------------------- MODULE MCSupervision ----------------------------
(***************************************************************************)
(* Bounded instances of Supervision: two senders of broadcasts, batches of *)
(* two frames, a storm threshold of one, and a quarantine that outlasts    *)
(* the detection window, as the 30 s lease outlasts the 1 s window.        *)
(***************************************************************************)
EXTENDS Supervision

CONSTANTS h1, h2, clean, bad, s1, s2

MCPorts == {h1, h2}
FixedTopologies == {<<h1>>, <<h1, h2>>}
TwoTopologies == {<<h1, h2>>, <<h2, h1>>}
MCProfiles == {clean, bad}
MCValidProfiles == {clean}
MCSenders == {s1, s2}
OneSender == {s1}

OwnIsolation == [DefaultFault EXCEPT !.isolated = TRUE]
MCOperatorFaults == {OwnIsolation}

Types ==
  {"BroadcastStorm", "MacFlap", "UnknownUnicastFlood", "UdpFlood", "PortScan", "HotTalker",
   "MalformedFrame"}

MCRuleAction ==
  [type \in Types |-> IF type = "BroadcastStorm" THEN "Quarantine" ELSE "Allow"]

MCRuleRate == [type \in Types |-> 0]

MCThreshold == [type \in Types |-> IF type = "BroadcastStorm" THEN 1 ELSE 0]

MCDecisions == [ingress: {0, 1}, action: {"Quarantine"}, pps: {0}, frame: {0}]

MCTraffic(s) ==
  {[mac |-> s, ip |-> NoSource, port |-> 0, ingress |-> 0, protocol |-> "other",
    classification |-> "Broadcast", valid |-> TRUE]}
=============================================================================
