-------------------------------- MODULE VPort --------------------------------
(***************************************************************************)
(* The vport program: two threads that copy frames between a TAP device    *)
(* and the switch, a main thread that starts them and then sleeps, and the *)
(* signal handler that ends it all from inside the main thread.            *)
(*                                                                         *)
(* Both threads block in the kernel with no time limit.  What close does   *)
(* to a reader that is already blocked belongs to the kernel (CloseWakes): *)
(* on Linux it leaves the reader where it is.                              *)
(***************************************************************************)
EXTENDS Naturals

CONSTANTS
  CloseWakes,     \* whether closing a descriptor wakes a reader blocked on it
  MaxWaiting      \* bound: frames waiting on one side

VARIABLES
  main,           \* where main is: setup, created, start_tap, start_udp, serve, failed
  handler,        \* where the signal handler is, which runs on top of main
  running,        \* running_
  open,           \* which of the two descriptors are open
  thread,         \* the two forwarders, each named after the side it reads
  waiting         \* frames the kernel holds for each side

vars == <<main, handler, running, open, thread, waiting>>

Sides == {"tap", "udp"}

Init ==
  /\ main = "setup" /\ handler = "none" /\ running = FALSE
  /\ open = [s \in Sides |-> FALSE]
  /\ thread = [s \in Sides |-> "none"]
  /\ waiting = [s \in Sides |-> 0]

-----------------------------------------------------------------------------
(* main, which stands still once the handler has interrupted it.            *)

\* VPort::create and g_vport: the device or the socket may be refused.
create ==
  /\ main = "setup" /\ handler = "none"
  /\ \/ main' = "failed" /\ UNCHANGED open
     \/ main' = "created" /\ open' = [s \in Sides |-> TRUE]
  /\ UNCHANGED <<handler, running, thread, waiting>>

\* VPort::start: the flag, then one thread after the other.
start ==
  /\ handler = "none"
  /\ \/ main = "created" /\ main' = "start_tap" /\ running' = TRUE /\ UNCHANGED thread
     \/ main = "start_tap" /\ main' = "start_udp" /\ thread' = [thread EXCEPT !["tap"] = "check"] /\ UNCHANGED running
     \/ main = "start_udp" /\ main' = "serve" /\ thread' = [thread EXCEPT !["udp"] = "check"] /\ UNCHANGED running
  /\ UNCHANGED <<handler, open, waiting>>

-----------------------------------------------------------------------------
(* signal_handler, wherever main was.                                       *)

Interrupt ==
  /\ main # "failed" /\ handler = "none"
  /\ handler' = IF main = "setup" THEN "exited" ELSE "exchange"
  /\ UNCHANGED <<main, running, open, thread, waiting>>

\* stop does nothing when the flag is already down.
Exchange ==
  /\ handler = "exchange"
  /\ handler' = IF running THEN "close_tap" ELSE "reset"
  /\ running' = FALSE
  /\ UNCHANGED <<main, open, thread, waiting>>

Close(side) ==
  /\ handler = IF side = "tap" THEN "close_tap" ELSE "close_udp"
  /\ handler' = IF side = "tap" THEN "close_udp" ELSE "join_tap"
  /\ open' = [open EXCEPT ![side] = FALSE]
  /\ UNCHANGED <<main, running, thread, waiting>>

\* join waits for the thread to end; a thread never started is not joinable.
Join(side) ==
  /\ handler = IF side = "tap" THEN "join_tap" ELSE "join_udp"
  /\ thread[side] \in {"none", "ended"}
  /\ handler' = IF side = "tap" THEN "join_udp" ELSE "reset"
  /\ UNCHANGED <<main, running, open, thread, waiting>>

\* g_vport.reset(), whose own stop finds nothing to do, and exit.
Reset ==
  /\ handler = "reset" /\ handler' = "exited"
  /\ open' = [s \in Sides |-> FALSE]
  /\ UNCHANGED <<main, running, thread, waiting>>

-----------------------------------------------------------------------------
(* forward_tap_to_switch and forward_switch_to_tap: the same loop, with the *)
(* sides exchanged.  Whatever fails is logged and the loop goes on.         *)

Step(side, from, to) == thread[side] = from /\ thread' = [thread EXCEPT ![side] = to]

CheckFlag(side) ==
  /\ Step(side, "check", IF running THEN "read" ELSE "ended")
  /\ UNCHANGED <<main, handler, running, open, waiting>>

\* A descriptor that is closed, or a read the kernel refuses, is an error; any
\* other read is in the kernel from here on.
Read(side) ==
  /\ \/ Step(side, "read", "check")
     \/ open[side] /\ Step(side, "read", "blocked")
  /\ UNCHANGED <<main, handler, running, open, waiting>>

\* The kernel answers: with a frame, or because of the close.
Return(side) ==
  /\ \/ waiting[side] > 0 /\ Step(side, "blocked", "write") /\ waiting' = [waiting EXCEPT ![side] = @ - 1]
     \/ CloseWakes /\ ~open[side] /\ Step(side, "blocked", "check") /\ UNCHANGED waiting
  /\ UNCHANGED <<main, handler, running, open>>

\* Forwarded, or refused because that side is closed: either way round again.
Write(side) ==
  /\ Step(side, "write", "check")
  /\ UNCHANGED <<main, handler, running, open, waiting>>

\* The other end sends a frame.
Arrive(side) ==
  /\ open[side] \/ thread[side] = "blocked"
  /\ waiting[side] < MaxWaiting
  /\ waiting' = [waiting EXCEPT ![side] = @ + 1]
  /\ UNCHANGED <<main, handler, running, open, thread>>

-----------------------------------------------------------------------------

Main == create \/ start \/ Exchange \/ Reset \/ \E side \in Sides : Close(side) \/ Join(side)

Forward(side) == CheckFlag(side) \/ Read(side) \/ Return(side) \/ Write(side)

Live == handler # "exited" /\ main # "failed"

Next == Live /\ (Main \/ Interrupt \/ \E side \in Sides : Forward(side) \/ Arrive(side))

\* The scheduler runs every thread that can run; nobody owes the program a frame.
Fairness == WF_vars(Live /\ Main) /\ \A side \in Sides : WF_vars(Live /\ Forward(side))

Spec == Init /\ [][Next]_vars /\ Fairness

-----------------------------------------------------------------------------

\* Ctrl-C ends the program: once the handler has started, it gets past both
\* joins and exits.
StopReturns == (handler # "none") ~> (handler = "exited")

=============================================================================
