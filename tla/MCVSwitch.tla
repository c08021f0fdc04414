------------------------------ MODULE MCVSwitch ------------------------------
(***************************************************************************)
(* Bounded instances of VSwitch: two senders, one with two addresses       *)
(* behind it, and faults that block, defer, duplicate, lose and cap.       *)
(***************************************************************************)
EXTENDS VSwitch

CONSTANTS e1, e2, m1, m2, m3, all

MCEndpoints == {e1, e2}
MCMacs == {m1, m2, m3, all}

F(from, src, dst) == [from |-> from, src |-> src, dst |-> dst]

\* m1 and m3 live behind e1, m2 behind e2.
MCFrames == {F(e1, m1, all), F(e1, m3, m2), F(e2, m2, all)}

Isolated == [NoFault EXCEPT !.blocked = TRUE]
Slow == [NoFault EXCEPT !.latency = 1, !.jitter = 1, !.lossy = TRUE]
Capped == [NoFault EXCEPT !.cost = 1, !.duplicates = TRUE]

MCFaults == {Isolated, Slow, Capped}
=============================================================================
