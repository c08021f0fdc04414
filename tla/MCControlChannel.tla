-------------------------- MODULE MCControlChannel ---------------------------
(***************************************************************************)
(* Bounded instances of ControlChannel.                                    *)
(***************************************************************************)
EXTENDS ControlChannel

CONSTANTS a, b, port

OneClient == {a}
TwoClients == {a, b}
OnlyA == {a}
OnlyB == {b}
Nobody == {}
TwoConnections == 1..2
ThreeConnections == 1..3
MCTargets == {port}
MCTopologies == {{port}}
Streaming == {TRUE}
AllCommands == FaultCommands \cup {"load_topology", "start_benchmark", "stop_run", "malformed"}
OnlyReload == {"load_topology"}

=============================================================================
