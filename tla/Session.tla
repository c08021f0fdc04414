------------------------------- MODULE Session -------------------------------
(***************************************************************************)
(* The desktop's Session: a lab (topology, faults, policies, simulated     *)
(* traffic, benchmark report) and the rows it republishes, with a dirty    *)
(* bit per category of rows.  Every command of session_*.cpp is an action  *)
(* and does what the whole function does.                                  *)
(*                                                                         *)
(* The dataplane is abstract.  A fault target is a set of endpoints, one   *)
(* for a port and two for a link; its configuration is "lossy" and, under  *)
(* a lease, "contained".  A lease counts down the time it has left.  The   *)
(* detector may report any host that delivered a frame; every rule is for  *)
(* the anomaly it reports, and drops the port's frames or only alerts.     *)
(* The benchmark is BenchmarkRun, one run per backend.                     *)
(***************************************************************************)
EXTENDS Topology, BenchmarkRun, FiniteSets, Functions

CONSTANTS
  Ids,               \* node ids a user may type
  Files,             \* what the topology files on disk hold
  NoTopology,
  RuleNames,
  Backends,          \* available_backends(): a sequence, "CPU" first
  PacketsPerTick,
  LeaseTime,
  MaxTicks,          \* bound: traffic steps between two resets
  MaxFailures        \* bound: how many of the steps that throw between two resets
                     \* count their frames; any number of them may throw

VARIABLES
  configuration,     \* topology_configuration_
  topology, faults,  \* topology_controller_
  leases,            \* the enforcer's
  rules, hits,       \* the policy engine's
  selection,         \* the endpoints selected, in order; empty for none
  traffic,           \* traffic_running_, the backend of traffic_analyzer_, totals
  counters,          \* port_counters_
  report,            \* report_*
  rows,              \* what the frontend reads
  dirty,             \* dirty_
  failures           \* traffic steps that threw since the last reset

lab == <<configuration, topology, faults, leases, rules, hits>>
sessionvars == <<lab, selection, traffic, counters, report, rows, dirty, failures>>

\* The structures a configuration is made of.
TopologyNode == [id: STRING, type: {"host", "switch"}]
TopologyLink == [from: STRING, to: STRING, latency: Int]
TopologyConfiguration == [name: STRING, nodes: Seq(TopologyNode), links: Seq(TopologyLink)]

ASSUME SessionConfig ==
  /\ {PacketsPerTick, LeaseTime, MaxTicks, MaxFailures} \subseteq Nat \ {0}
  /\ Backends # <<>> /\ Backends[1] = "CPU"
  /\ Ids \subseteq STRING /\ Files \subseteq TopologyConfiguration

Mark(bits) == dirty' = dirty \cup bits

\* A command that only reports why it did nothing, or did nothing at all.
set_status == Mark({"Status"}) /\ UNCHANGED <<lab, selection, traffic, counters, report, rows, failures>>
Ignored == UNCHANGED sessionvars

-----------------------------------------------------------------------------
(* The controller, the policy engine and the enforcer, as Session uses them. *)

has_topology == topology # NoTopology
is_port(p) == has_topology /\ p \in ToSet(Hosts(topology))
is_link(a, b) == has_topology /\ \E l \in ToSet(topology.links) : Joins(l, a, b)
is_target(t) == IF Cardinality(t) = 1 THEN is_port(CHOOSE p \in t : TRUE)
                ELSE \E a, b \in t : a # b /\ is_link(a, b)

Without(f, key) == [k \in DOMAIN f \ {key} |-> f[k]]
With(f, key, v) == [k \in DOMAIN f \cup {key} |-> IF k = key THEN v ELSE f[k]]
Fault(f, target) == IF target \in DOMAIN f THEN f[target] ELSE {}

\* The faults after the leases of ports have been released.
Restored(ports) ==
  [t \in {u \in DOMAIN faults :
            \A p \in ports : u = {p} => leases[p].restore # {}}
         \cup {{p} : p \in {q \in ports : leases[q].restore # {}}} |->
     IF \E p \in ports : t = {p} THEN leases[CHOOSE p \in ports : t = {p}].restore ELSE faults[t]]

FirstEnabled == LET enabled == Select(rules, {r \in ToSet(rules) : r.enabled})
                IN IF enabled = <<>> THEN <<>> ELSE <<Head(enabled)>>

HitCount(h, name) == IF name \in DOMAIN h THEN h[name] ELSE 0
EnforcedPorts == DOMAIN leases
Expired == {p \in EnforcedPorts : leases[p].left = 0}

-----------------------------------------------------------------------------
(* The rows the frontend reads, each category rebuilt as a whole.  The port  *)
(* states stand for all the telemetry.                                       *)

rebuild_topology_rows(r, c) == [r EXCEPT !.topology = c]
rebuild_fault_rows(r, f) == [r EXCEPT !.faults = f]
rebuild_policy_rows(r, rs, h, ports) ==
  [r EXCEPT !.rules = [i \in DOMAIN rs |-> [rule |-> rs[i], hits |-> HitCount(h, rs[i].name)]],
            !.enforced = ports]
rebuild_telemetry_rows(r, ports, cs) ==
  [r EXCEPT !.ports = [p \in DOMAIN cs |-> [enforced |-> p \in ports, counters |-> cs[p]]]]

\* Time goes by whether or not the session is stepped.
Elapse ==
  /\ \E p \in EnforcedPorts : leases[p].left > 0
  /\ leases' = [p \in EnforcedPorts |->
                  [leases[p] EXCEPT !.left = IF @ > 0 THEN @ - 1 ELSE 0]]
  /\ UNCHANGED <<configuration, topology, faults, rules, hits, selection, traffic, counters,
                 report, rows, dirty, failures>>

-----------------------------------------------------------------------------
(* Topology.                                                                *)

NoTraffic == [running |-> FALSE, analyzer |-> "none",
              ticks |-> 0, packets |-> 0, dropped |-> 0]
ZeroCounters == [received |-> 0, forwarded |-> 0, dropped |-> 0]

\* A reset that forgets the total of dropped frames.
ResetTraffic_KeepsDropped == [NoTraffic EXCEPT !.dropped = traffic.dropped]

\* What stop_traffic and reset_simulation leave of the traffic.
ResetTraffic == NoTraffic

\* reset_simulation leaves the rows of the rules as they are, although it
\* clears the hit counts in them.
ResetRows == [rows EXCEPT !.enforced = {}, !.ports = <<>>]

\* stop_traffic, load, clear_selection, reset_simulation and the rebuilds.
commit_topology(edited) ==
  IF ValidationError(edited) # "none" THEN set_status
  ELSE /\ configuration' = edited /\ topology' = edited
       /\ faults' = <<>> /\ leases' = <<>> /\ hits' = <<>> /\ selection' = <<>>
       /\ traffic' = ResetTraffic
       /\ counters' = [h \in ToSet(Hosts(edited)) |-> ZeroCounters]
       /\ rows' = rebuild_fault_rows(rebuild_topology_rows(ResetRows, edited), <<>>)
       /\ failures' = 0
       /\ Mark({"Status", "Topology", "Selection", "Telemetry", "Faults"}
               \cup IF traffic.running THEN {"TrafficState"} ELSE {})
       /\ UNCHANGED <<rules, report>>

\* A file that cannot be read or parsed is only reported.
open_topology == set_status \/ \E c \in Files : commit_topology(c)

\* save_topology writes the file and changes nothing here but the status.
save_topology == set_status

add_node ==
  \E id \in Ids \cup {""}, type \in {"host", "switch"} :
    commit_topology([configuration EXCEPT
      !.name = IF @ = "" THEN "untitled-lab" ELSE @,
      !.nodes = Append(@, Node(id, type))])

add_link ==
  \E from \in Ids, to \in Ids, latency \in {-1, 1} :
    commit_topology([configuration EXCEPT !.links = Append(@, Link(from, to, latency))])

remove_selected ==
  CASE selection = <<>> -> Ignored
    [] Len(selection) = 1 ->
         commit_topology([configuration EXCEPT
           !.nodes = Select(@, {n \in ToSet(@) : n.id # selection[1]}),
           !.links = Select(@, {l \in ToSet(@) : selection[1] \notin {l.from, l.to}})])
    [] Len(selection) = 2 ->
         commit_topology([configuration EXCEPT
           !.links = Select(@, {l \in ToSet(@) : ~Joins(l, selection[1], selection[2])})])

\* A selection that raises no bit.
SetSelection_Unmarked(endpoints) ==
  /\ selection' = endpoints /\ dirty' = dirty
  /\ UNCHANGED <<lab, traffic, counters, report, rows, failures>>

SetSelection(endpoints) ==
  /\ selection' = endpoints /\ Mark({"Selection"})
  /\ UNCHANGED <<lab, traffic, counters, report, rows, failures>>

select_node == \E id \in Ids : IF id \in NodeIds(configuration) THEN SetSelection(<<id>>) ELSE Ignored

select_link ==
  \E a \in Ids, b \in Ids :
    LET found == {l \in ToSet(configuration.links) : Joins(l, a, b)}
    IN IF found = {} THEN Ignored ELSE \E l \in found : SetSelection(<<l.from, l.to>>)

clear_selection == SetSelection(<<>>)

-----------------------------------------------------------------------------
(* Faults and policies.                                                     *)

\* An operator's fault is "lossy" or a configuration that is refused.
apply_selected_fault ==
  \E valid \in BOOLEAN :
    LET accepted == valid /\ is_target(ToSet(selection))
    IN IF selection = <<>> THEN set_status
       ELSE /\ faults' = IF accepted THEN With(faults, ToSet(selection), {"lossy"}) ELSE faults
            /\ rows' = rebuild_fault_rows(rows, faults')
            /\ Mark({"Status", "Faults"})
            /\ UNCHANGED <<configuration, topology, leases, rules, hits,
                           selection, traffic, counters, report, failures>>

clear_fault ==
  \E target \in DOMAIN faults \cup {{"no such port"}} :
    /\ faults' = Without(faults, target)
    /\ rows' = rebuild_fault_rows(rows, faults')
    /\ Mark({"Status", "Faults"})
    /\ UNCHANGED <<configuration, topology, leases, rules, hits,
                   selection, traffic, counters, report, failures>>

\* The rules, and the rows rebuild_policy_rows makes of them.
ChangeRules(rs, h) ==
  /\ rules' = rs /\ hits' = h
  /\ rows' = rebuild_policy_rows(rows, rs, h, EnforcedPorts)
  /\ Mark({"Status", "Policies"})
  /\ UNCHANGED <<configuration, topology, faults, leases, selection, traffic, counters, report, failures>>

add_policy ==
  \E name \in RuleNames \cup {""}, contains \in BOOLEAN :
    IF name = "" \/ \E r \in ToSet(rules) : r.name = name THEN set_status
    ELSE ChangeRules(Append(rules, [name |-> name, contains |-> contains, enabled |-> TRUE]), hits)

remove_policy ==
  \E name \in RuleNames :
    IF \A r \in ToSet(rules) : r.name # name THEN set_status
    ELSE ChangeRules(Select(rules, {r \in ToSet(rules) : r.name # name}), Without(hits, name))

set_policy_enabled ==
  \E name \in RuleNames, enabled \in BOOLEAN :
    IF \A r \in ToSet(rules) : r.name # name THEN set_status
    ELSE ChangeRules([i \in DOMAIN rules |-> IF rules[i].name = name
                                             THEN [rules[i] EXCEPT !.enabled = enabled]
                                             ELSE rules[i]], hits)

\* A release that forgets that the operator's fault is back.
release_enforcement_StaleFaults ==
  \E p \in Ids :
    IF p \notin EnforcedPorts THEN set_status
    ELSE /\ faults' = Restored({p}) /\ leases' = Without(leases, p)
         /\ rows' = rebuild_policy_rows(rows, rules, hits, EnforcedPorts \ {p})
         /\ Mark({"Status", "Policies", "Telemetry"})
         /\ UNCHANGED <<configuration, topology, rules, hits, selection, traffic, counters, report, failures>>

release_enforcement ==
  \E p \in Ids :
    IF p \notin EnforcedPorts THEN set_status
    ELSE /\ faults' = Restored({p}) /\ leases' = Without(leases, p)
         /\ rows' = rebuild_fault_rows(rebuild_policy_rows(rows, rules, hits, EnforcedPorts \ {p}), faults')
         /\ Mark({"Status", "Faults", "Policies", "Telemetry"})
         /\ UNCHANGED <<configuration, topology, rules, hits, selection, traffic, counters, report, failures>>

-----------------------------------------------------------------------------
(* Traffic.  An exception leaves a command through Throw: what was assigned  *)
(* before it stays assigned.                                                 *)

\* Invalid settings are reported.  A lab of fewer than two hosts makes the
\* generator's constructor throw.  So may the constructor of an analyzer that
\* is not the CPU's: the CPU's has then been made and stays.
start_traffic(throws) ==
  \E backend \in ToSet(Backends) \cup {"absent"}, valid \in BOOLEAN :
    IF ~has_topology \/ ~valid \/ backend = "absent" THEN ~throws /\ set_status
    ELSE LET hosts == Len(Hosts(configuration))
         IN /\ throws => hosts < 2 \/ backend # "CPU"
            /\ hosts < 2 => throws
            /\ traffic' = [traffic EXCEPT !.analyzer = CASE hosts < 2 -> @
                                                         [] hosts >= 2 /\ throws -> "CPU"
                                                         [] OTHER -> backend,
                                          !.running = @ \/ ~throws]
            /\ Mark(IF throws THEN {} ELSE {"Status", "TrafficState"})
            /\ UNCHANGED <<lab, selection, counters, report, rows, failures>>

stop_traffic ==
  IF ~traffic.running THEN Ignored
  ELSE /\ traffic' = [traffic EXCEPT !.running = FALSE]
       /\ Mark({"Status", "TrafficState"})
       /\ UNCHANGED <<lab, selection, counters, report, rows, failures>>

Frames == 0 .. PacketsPerTick - 1

\* The host each frame of this tick is charged to, and how often the port's and
\* the link's faults may deliver it.
HostOf == LET hosts == Hosts(configuration)
          IN [i \in Frames |-> hosts[1 + ((traffic.ticks * PacketsPerTick + i) % Len(hosts))]]

Passes(fault) == IF "contained" \in fault THEN {0} ELSE IF "lossy" \in fault THEN {0, 1} ELSE {1}

Deliveries(host) ==
  LET links == {l \in ToSet(configuration.links) : host \in {l.from, l.to}}
  IN IF links = {} THEN {0}
     ELSE UNION {{p * q : p \in Passes(Fault(faults, {host})),
                          q \in Passes(Fault(faults, {l.from, l.to}))} : l \in links}

Counted(host, delivered) ==
  [h \in DOMAIN counters |->
     LET sent == {i \in Frames : host[i] = h}
         passed == {i \in sent : delivered[i] > 0}
     IN [received |-> counters[h].received + Cardinality(sent),
         forwarded |-> counters[h].forwarded + Cardinality(passed),
         dropped |-> counters[h].dropped + Cardinality(sent \ passed)]]

\* An evaluation that does not look for leases that have ended.
ReleasedBy_None == {}

\* The leases that end in this evaluation.
ReleasedBy == Expired

\* AnalysisPipeline::evaluate on the anomalies of hosts: hits are counted,
\* leases that ended are released, then the decisions are applied.
Evaluate(hosts, released, f, ls, h) ==
  LET rule == FirstEnabled
      restored == Restored(released)
      kept == [p \in EnforcedPorts \ released |-> leases[p]]
      contained == IF rule = <<>> \/ ~Head(rule).contains THEN {} ELSE hosts
      Base(p) == IF p \in DOMAIN kept THEN kept[p].restore ELSE Fault(restored, {p})
  IN /\ h = IF rule = <<>> \/ hosts = {} THEN hits
            ELSE With(hits, Head(rule).name, HitCount(hits, Head(rule).name) + Cardinality(hosts))
     /\ ls = [p \in DOMAIN kept \cup contained |->
                IF p \in contained THEN [restore |-> Base(p), left |-> LeaseTime] ELSE kept[p]]
     /\ f = [t \in DOMAIN restored \cup {{p} : p \in contained} |->
               IF \E p \in contained : t = {p}
               THEN Base(CHOOSE p \in contained : t = {p}) \cup {"contained"} ELSE restored[t]]

\* A step whose analyzer threw: the ports have counted frames that the totals
\* never see, and the leases are not looked at.  A device that is broken throws
\* at every step.
Thrown(counted) ==
  /\ traffic.analyzer # "CPU"
  /\ IF failures < MaxFailures THEN counters' = counted /\ failures' = failures + 1
     ELSE UNCHANGED <<counters, failures>>
  /\ UNCHANGED <<lab, selection, traffic, report, rows, dirty>>

\* run_traffic_step and rebuild_telemetry_rows.  The analyzer, which a device
\* may throw from, is given the frames that were delivered.
run_traffic_step(throws) ==
  IF ~traffic.running THEN ~throws /\ Ignored
  ELSE
    /\ traffic.ticks < MaxTicks
    /\ \E host \in {HostOf}, delivered \in [Frames -> 0 .. 1] :
         /\ \A i \in Frames : delivered[i] \in Deliveries(host[i])
         /\ IF throws
            THEN (\E i \in Frames : delivered[i] > 0) /\ Thrown(Counted(host, delivered))
            ELSE
              /\ counters' = Counted(host, delivered)
              /\ traffic' = [traffic EXCEPT !.ticks = @ + 1, !.packets = @ + PacketsPerTick,
                                !.dropped = @ + Cardinality({i \in Frames : delivered[i] = 0})]
              /\ \E anomalous \in SUBSET {h \in DOMAIN counters : counters'[h].forwarded > 0} :
                   LET released == ReleasedBy
                       rebuilt == released # {} \/ (anomalous # {} /\ FirstEnabled # <<>>)
                   IN /\ Evaluate(anomalous, released, faults', leases', hits')
                      /\ rows' = rebuild_telemetry_rows(
                           IF rebuilt
                           THEN rebuild_fault_rows(rebuild_policy_rows(rows, rules, hits', DOMAIN leases'), faults')
                           ELSE rows,
                           DOMAIN leases', counters')
                      /\ Mark({"Telemetry"} \cup IF rebuilt THEN {"Faults", "Policies"} ELSE {})
              /\ UNCHANGED <<configuration, topology, rules, selection, report, failures>>

-----------------------------------------------------------------------------
(* The benchmark report.                                                    *)

NoReport == [running |-> FALSE, index |-> 1, run |-> NoRun, completed |-> 0,
             rows |-> <<>>, broken |-> FALSE]

\* finish_report.
Finished(r) == [r EXCEPT !.run = NoRun, !.running = FALSE]

\* begin_next_report_backend skips the devices that have gone, counting their
\* packets as done, and finish_report follows when no backend is left.
Skips(r) == {j \in r.index .. Len(Backends) + 1 :
               \A i \in r.index .. j - 1 : Backends[i] # "CPU"}

SkippedPackets(r, j) == (j - r.index) * PacketCount

Begin(r) ==
  {LET s == [r EXCEPT !.index = j, !.completed = @ + SkippedPackets(r, j)]
   IN IF j <= Len(Backends) THEN [s EXCEPT !.run = create(1, FALSE)] ELSE Finished(s) : j \in Skips(r)}

ChangeReport(r, bits) ==
  /\ report' = r
  /\ Mark({"Report"} \cup bits)
  /\ UNCHANGED <<lab, selection, traffic, counters, rows, failures>>

run_benchmark_report ==
  \E valid \in BOOLEAN :
    IF report.running \/ ~valid THEN set_status
    ELSE \E r \in Begin([NoReport EXCEPT !.running = TRUE]) :
            ChangeReport(r, {"Status"})

SliceBudget == LET slice == (PacketCount + 19) \div 20
               IN IF slice > BatchSize THEN slice ELSE BatchSize

rebuild_report_rows(r) == [r EXCEPT !.rows = Append(@, Backends[r.index])]

Device(index) == index <= Len(Backends) /\ Backends[index] # "CPU"

Outcomes(reached, threw) == {[to |-> r, threw |-> threw] : r \in reached}

\* begin_next_report_backend, whose device may throw while it is set up.
Begun(r) ==
  Outcomes(Begin(r), FALSE)
  \cup Outcomes({[r EXCEPT !.index = j, !.completed = @ + SkippedPackets(r, j), !.broken = TRUE] :
                   j \in {i \in Skips(r) : Device(i)}}, TRUE)

\* One slice of the run in hand.  A device may throw in the middle of it: the
\* batches it had analysed are then never added to the report's progress.
Sliced(r) ==
  Outcomes({[r EXCEPT !.run.completed = c, !.broken = TRUE] :
              c \in {k \in r.run.completed .. AfterSlice(r.run, SliceBudget) - 1 :
                       Device(r.index) /\ k % BatchSize = 0}}, TRUE)
  \cup UNION {LET s == [r EXCEPT !.run = run, !.completed = @ + (run.completed - r.run.completed)]
              IN IF ~finished(run) THEN Outcomes({s}, FALSE)
                 ELSE Begun([rebuild_report_rows(s) EXCEPT !.run = NoRun, !.index = @ + 1]) :
              run \in advance(r.run, SliceBudget)}

\* A report whose last step threw between two backends has no run in hand.
StepOutcomes(r) ==
  IF r.run # NoRun THEN Sliced(r)
  ELSE UNION {IF o.threw \/ ~o.to.running THEN {o} ELSE Sliced(o.to) : o \in Begun(r)}

run_report_step(throws) ==
  IF ~report.running THEN ~throws /\ Ignored
  ELSE \E o \in StepOutcomes(report) :
         /\ o.threw = throws
         /\ IF throws
            THEN /\ report' = o.to
                 /\ UNCHANGED <<lab, selection, traffic, counters, rows, dirty, failures>>
            ELSE ChangeReport(o.to, IF o.to.running THEN {} ELSE {"Status"})

\* export_report writes two files and changes nothing here but the status and
\* the line that says where they are.
export_report == ChangeReport(report, {"Status"})

-----------------------------------------------------------------------------

EmptyConfiguration == Configuration("", <<>>, <<>>)

\* The constructor builds the rows of the rules, of which there are none, and
\* raises Policies; wirelab_session_open drains the session before it is used.
SessionInit ==
  /\ configuration = EmptyConfiguration /\ topology = NoTopology
  /\ faults = <<>> /\ leases = <<>> /\ rules = <<>> /\ hits = <<>>
  /\ selection = <<>> /\ traffic = NoTraffic /\ counters = <<>> /\ report = NoReport
  /\ rows = [topology |-> EmptyConfiguration, faults |-> <<>>, rules |-> <<>>,
             enforced |-> {}, ports |-> <<>>]
  /\ dirty = {}
  /\ failures = 0

=============================================================================
