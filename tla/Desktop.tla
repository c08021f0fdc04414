------------------------------- MODULE Desktop -------------------------------
(***************************************************************************)
(* The desktop program: the window (app.rs) drives a Session through the C *)
(* interface (wirelab_ffi.cpp).  Everything runs on the window's thread.   *)
(* A command is one call, then settle: the dirty bits are drained, the     *)
(* window is repainted when there were any, and the two timers are started *)
(* when they are needed.  A timer steps the session and drains.            *)
(*                                                                         *)
(* The handle the interface keeps adds an error and bits of its own to the *)
(* session's: an exception becomes last_error and the Status bit.          *)
(***************************************************************************)
EXTENDS Session

CONSTANT MaxCommands      \* bound

VARIABLES
  pc,                          \* what the window's thread does next
  last_error, extra_dirty,     \* wirelab_session
  traffic_tick, report_tick,   \* the timers held
  commands                     \* bound

handlevars == <<last_error, extra_dirty>>
tickvars == <<traffic_tick, report_tick>>
vars == <<sessionvars, pc, handlevars, tickvars, commands>>

ASSUME MaxCommandsAssumption == MaxCommands \in Nat

\* guard: an earlier error is forgotten before the call, and an exception that
\* leaves it is recorded.
guard(throws) ==
  /\ last_error' = throws
  /\ extra_dirty' = extra_dirty \cup IF throws THEN {"Status"} ELSE {}

\* take_dirty.
Drain == dirty' = {} /\ extra_dirty' = {}

-----------------------------------------------------------------------------

Unstepped == UNCHANGED <<lab, selection, traffic, counters, report, rows, failures>>

\* The bits of a session that was just opened are kept in the handle.
Init ==
  /\ SessionInit
  /\ pc = "idle" /\ last_error = FALSE /\ extra_dirty = {"Policies"}
  /\ traffic_tick = FALSE /\ report_tick = FALSE /\ commands = 0

\* One command of the window; settle is the next thing its thread does.
command(throws) ==
  /\ pc = "idle" /\ pc' = "settle"
  /\ commands < MaxCommands /\ commands' = commands + 1
  /\ guard(throws)
  /\ UNCHANGED tickvars

OpenTopology == command(FALSE) /\ open_topology
SaveTopology == command(FALSE) /\ save_topology
AddNode == command(FALSE) /\ add_node
AddLink == command(FALSE) /\ add_link
RemoveSelected == command(FALSE) /\ remove_selected
SelectNode == command(FALSE) /\ select_node
SelectLink == command(FALSE) /\ select_link
ClearSelection == command(FALSE) /\ clear_selection
ApplySelectedFault == command(FALSE) /\ apply_selected_fault
ClearFault == command(FALSE) /\ clear_fault
AddPolicy == command(FALSE) /\ add_policy
RemovePolicy == command(FALSE) /\ remove_policy
SetPolicyEnabled == command(FALSE) /\ set_policy_enabled
ReleaseEnforcement == command(FALSE) /\ release_enforcement
StartTraffic == \E throws \in BOOLEAN : command(throws) /\ start_traffic(throws)
StopTraffic == command(FALSE) /\ stop_traffic
RunBenchmarkReport == command(FALSE) /\ run_benchmark_report
ExportReport == command(FALSE) /\ export_report

\* A settle that starts no timer.
settle_NoTicks ==
  /\ pc = "settle" /\ pc' = "idle"
  /\ Drain
  /\ Unstepped /\ UNCHANGED <<last_error, tickvars, commands>>

settle ==
  /\ pc = "settle" /\ pc' = "idle"
  /\ Drain
  /\ traffic_tick' = (traffic_tick \/ traffic.running)
  /\ report_tick' = (report_tick \/ report.running)
  /\ Unstepped /\ UNCHANGED <<last_error, commands>>

\* A timer goes off.  It stops when there is nothing to step; a step is drained
\* before the thread does anything else.
TrafficTick ==
  /\ pc = "idle" /\ traffic_tick
  /\ IF traffic.running
     THEN \E throws \in BOOLEAN : /\ run_traffic_step(throws) /\ guard(throws)
                                  /\ pc' = "traffic" /\ UNCHANGED traffic_tick
     ELSE traffic_tick' = FALSE /\ UNCHANGED <<sessionvars, handlevars, pc>>
  /\ UNCHANGED <<report_tick, commands>>

ReportTick ==
  /\ pc = "idle" /\ report_tick
  /\ IF report.running
     THEN \E throws \in BOOLEAN : /\ run_report_step(throws) /\ guard(throws)
                                  /\ pc' = "report" /\ UNCHANGED report_tick
     ELSE report_tick' = FALSE /\ UNCHANGED <<sessionvars, handlevars, pc>>
  /\ UNCHANGED <<traffic_tick, commands>>

TickDrain ==
  /\ pc \in {"traffic", "report"} /\ pc' = "idle"
  /\ Drain
  /\ Unstepped /\ UNCHANGED <<last_error, tickvars, commands>>

TimePasses == pc = "idle" /\ Elapse /\ UNCHANGED <<pc, handlevars, tickvars, commands>>

Next ==
  \/ OpenTopology \/ SaveTopology \/ AddNode \/ AddLink \/ RemoveSelected
  \/ SelectNode \/ SelectLink \/ ClearSelection
  \/ ApplySelectedFault \/ ClearFault
  \/ AddPolicy \/ RemovePolicy \/ SetPolicyEnabled \/ ReleaseEnforcement
  \/ StartTraffic \/ StopTraffic \/ RunBenchmarkReport \/ ExportReport
  \/ settle \/ TrafficTick \/ ReportTick \/ TickDrain \/ TimePasses

\* The executor runs what is queued on the thread, and a timer that is due is
\* not passed over for ever, however often the other timer goes off.
Fairness == WF_vars(settle \/ TickDrain) /\ SF_vars(TrafficTick) /\ SF_vars(ReportTick)

Spec == Init /\ [][Next]_vars /\ Fairness

-----------------------------------------------------------------------------

\* What the window shows agrees with the session it stands for: the canvas with
\* the controller's topology, the faults with the engine's, the contained ports
\* with the leases, the rules with the engine's (their hits may be those from
\* before a reset), and the selection names a node or a link there is.
ViewsAgree ==
  /\ rows.topology = configuration
  /\ has_topology => topology = configuration
  /\ rows.faults = faults
  /\ rows.enforced = EnforcedPorts
  /\ [i \in DOMAIN rows.rules |-> rows.rules[i].rule] = rules
  /\ \A i \in DOMAIN rules : rows.rules[i].hits >= HitCount(hits, rules[i].name)
  /\ CASE Len(selection) = 0 -> TRUE
       [] Len(selection) = 1 -> selection[1] \in NodeIds(configuration)
       [] Len(selection) = 2 -> \E l \in ToSet(configuration.links) : <<l.from, l.to>> = selection

Received == SumFunction([h \in DOMAIN counters |-> counters[h].received])
Dropped == SumFunction([h \in DOMAIN counters |-> counters[h].dropped])

\* Every frame a port was given was forwarded or dropped, and the ports together
\* account for the totals of the run (the desktop's faults never duplicate, which
\* would count a frame as forwarded twice).  Only a step whose analyzer threw leaves
\* frames on the ports that the totals never saw.
CountersBalance ==
  /\ \A h \in DOMAIN counters :
       counters[h].received = counters[h].forwarded + counters[h].dropped
  /\ IF failures > 0 THEN Received > traffic.packets /\ Dropped >= traffic.dropped
     ELSE Received = traffic.packets /\ Dropped = traffic.dropped

ReportView(r) == <<r.running, r.completed, r.rows>>

\* A step raises the bit of every category of rows it changes (wirelab_ffi.h:
\* "One bit per category of change"), so the next drain repaints.  A report step
\* that throws between two backends has changed the report's rows under the
\* Status bit alone.  (Policies is left out: a reset empties the contained ports
\* without it.)
CategoriesMarked ==
  [][LET raised == dirty' \cup extra_dirty'
     IN /\ rows'.topology # rows.topology => "Topology" \in raised
        /\ rows'.faults # rows.faults => "Faults" \in raised
        /\ rows'.ports # rows.ports => "Telemetry" \in raised
        /\ selection' # selection => "Selection" \in raised
        /\ traffic'.running # traffic.running => "TrafficState" \in raised
        /\ ReportView(report') # ReportView(report) =>
             "Report" \in raised \/ (last_error' /\ "Status" \in raised)]_vars

\* A report that was started ends, with every packet of every backend counted
\* and the CPU measured, unless a device threw while it was being measured.
ReportEnds ==
  report.running ~> \/ report.broken
                    \/ /\ ~report.running
                       /\ report.completed = PacketCount * Len(Backends)
                       /\ "CPU" \in ToSet(report.rows)

\* The step the window's thread has just made threw.
StepThrew == pc = "traffic" /\ last_error

\* Leases end only inside a traffic step.  A lease that ran out while the
\* session was paused is released, or renewed, once traffic runs again, unless
\* a device throws first: its step reaches neither the leases nor the rows, and
\* the window, which ticks on, runs into it again.
ExpiredLeasesGo ==
  (Expired # {} /\ traffic.running /\ traffic.ticks < MaxTicks)
    ~> (Expired = {} \/ ~traffic.running \/ StepThrew)

\* What the enforcer promises of every lease (policy_enforcer.hpp: the operator's
\* configuration is "restored when the lease expires"), whatever the device does.
\* Nothing restores it while a broken device throws at every step.
LeasesEnd ==
  (Expired # {} /\ traffic.running /\ traffic.ticks < MaxTicks)
    ~> (Expired = {} \/ ~traffic.running)

=============================================================================
