# A verification project for WireLab

WireLab is a layer 2 switch simulator: a user-space switch (`vswitch`) forwards
Ethernet frames between UDP clients, watches its own traffic for anomalies,
contains the port an anomaly comes from for a limited time, and is steered over
a control channel or from a desktop session. A second program (`wirelab_pcap`)
replays captures through the same detector, a third (`vport`) joins a TAP device to
the switch. This directory holds TLA+ models of these programs, the TLC runs that
check them and TLAPS proofs of their main properties.

`PROJECT.json` lists components, runs, mutants, findings, hazards and theorems,
and maps every definition to the lines it models.

## Inventory

| Part | State | Operations | Hard because | Correct when |
|---|---|---|---|---|
| `VSwitch` + `MacTable` | MAC table, deferred copies, `running_`, socket, counters | receive loop, `process_frame`, `drain_due`, `stop` | `stop` comes from another thread or a signal; faults change while copies are deferred | no copy lost or doubled, blocked ports silent, loop ends |
| `FaultEngine` | fault and shaper time per target | `set_fault`, `clear_fault`, `evaluate` | duplicates, jitter and a cap interact; replacing a fault resets the shaper | a cap spaces what it defers |
| `TopologyController` | topology, revision, port and link faults | `load`, set/clear, `evaluate_*` | reload discards faults that others captured | only valid faults on existing targets |
| `PolicyEnforcer` | a lease per port with the fault to restore | `apply`, `release_expired`, `release`, `forget` | operator and reload change what a lease covers | bounded, never weakened, exactly undone |
| `AnomalyDetector` | window of observations, active anomalies | `evaluate`, `reset` | clocks jump; edge triggering | the deque is the window; active means justified |
| `PolicyEngine` | rules, hit counts | rule edits, `evaluate` | first enabled rule wins | deterministic verdict per anomaly |
| `AnalysisPipeline` | clamped clock, the three above | `evaluate`, `attach`, `release`, `reset` | order of release and apply | a dead lease is not revived |
| `SwitchSupervisor` | sender bindings, batch, last tick | `bind`, `inspect`, `tick`, `publish` | a cached port id, a batch that fills between ticks | a storm is cut off and stays cut off |
| `ControlService` | event sequence, revision, the running benchmark | one handler per command | commands against a stale revision | each event numbered once |
| `ControlServer`, `ControlClient` | connections, buffers, pending requests | `poll`, `broadcast`, `reconnect`, `resync` | slow clients, lost connections | a client sees a gapless sequence or resyncs |
| `BenchmarkRun` | frames left, counters | `create`, `advance`, `result` | runs in slices between ticks, stopped at any time | one result per run |
| `MetalStreamParser` | ring of slots, ready queue | `submit`, `try_collect`, `collect`, `drain` | the GPU finishes or fails in any order | results in submission order, no busy slot refilled |
| `VPort`, vport program | two forwarding threads, `running_`, two descriptors | `start`, `stop` from a signal handler | reads without a time limit at stop | Ctrl-C ends the program |
| `Session` | lab, selection, traffic, report, and the rows the window reads | edits, faults, policies, traffic and report commands; traffic step, report step | long sequences of commands, timers between them, exceptions half way | views agree with the lab, changes are marked, frames are accounted for, reports and leases end |
| `wirelab_ffi`, GPUI window | the handle's error and bits, two timers | guard and drain around every call, `settle`, timer steps | who clears and who raises a bit | nothing shown is stale |
| `Topology` | none | `create` | order of the checks | first error reported |
| control protocol | parser flags | `parse_*`, `to_json`, `validate` | members in any order, widths, escapes | accepts exactly its schema, reads what it wrote |
| `PacketAnalyzer` | learned source addresses | `analyze` | state that survives a batch | batch split leaves no trace |
| pcap, pcapng, `wirelab_pcap` | position in the file, stream buffer | read, `write_packet`, replay loop | byte orders, resolutions, a file that ends anywhere | exports read back, cuts are noticed |
| YAML, kernels, traffic generator, drawing | none of their own | conversions | byte formats | equal to a reference |

The switch runs on one thread: `VSwitch::start` waits for a frame, hands it to
`SwitchSupervisor::inspect`, and ticks the supervisor after each frame and each
idle wait. A tick polls the control server, whose commands change the topology
and its faults, then runs the batch through detector, policies and enforcer. The
enforcer writes into the fault table the next frame is judged by. The desktop
window drives the same pipeline, through the C interface and `Session`, from a
timer of its own; `wirelab_pcap` drives detector and policies from a file. Besides that thread there
are only `stop()`, the GPU, the VPort threads and remote control clients.

## Modules

| Module | Models | Uses |
|---|---|---|
| `Selection` | stable selection by a set, as an operator | |
| `SequenceProofs` | lemmas about sequences and finite images the proofs share | `Selection` |
| `Enforcement` | port faults, leases, the analysis tick, the operator, reloads | |
| `AnomalyDetector` | window, seven detectors, edge triggering, clamped clock | `Selection` |
| `AnomalyDetectorProofs` | its theorems | `AnomalyDetector`, `SequenceProofs` |
| `Supervision` | `SwitchSupervisor`: composes the two above with live senders | `Enforcement`, `AnomalyDetector` |
| `SupervisionProofs` | theorems of `Enforcement` and of the composition | `Supervision`, `SequenceProofs` |
| `VSwitch` | receive loop, MAC table, fault evaluation, deferred copies, `stop` | `Selection` |
| `VSwitchProofs` | its theorems | `VSwitch`, `SequenceProofs` |
| `BatchQueue` | abstract: the FIFO `MetalStreamParser` promises | |
| `BatchQueueProofs` | the FIFO keeps order | `BatchQueue` |
| `StreamRing` | `MetalStreamParser` and the GPU | `BatchQueue` |
| `StreamRingProofs` | the ring implements the FIFO | `StreamRing`, `BatchQueueProofs` |
| `BenchmarkRun` | a benchmark run and its slices, as operators | |
| `ControlServer` | `ControlServer` and `ControlService`: poll, commands, events | `BenchmarkRun`, `Selection` |
| `ControlChannel` | the server composed with `ControlClient`s: reconnect, resync | `ControlServer` |
| `ControlChannelProofs` | its theorems | `ControlChannel`, `SequenceProofs` |
| `JsonScanner` | strings, numbers and Booleans of the protocol, both ways | |
| `ControlProtocol` | both parsers, the writers, `validate` | `JsonScanner` |
| `Topology` | `Topology::create` as an operator | `Selection` |
| `Session` | `session*.cpp`: every command, both steps, rows and dirty bits | `Topology`, `BenchmarkRun` |
| `Desktop` | `wirelab_ffi.cpp` and the window's loop around the session | `Session` |
| `DesktopProofs` | its theorems | `Desktop`, `SequenceProofs` |
| `PacketAnalyzer` | frame parsing and the aggregator, as operators | |
| `Pcap` | capture reader and pcapng writer, as operators | |
| `PcapReplay` | the `wirelab_pcap` program | `AnomalyDetector`, `PacketAnalyzer`, `Pcap` |
| `VPort` | the vport program | |
| `MC*` | bounded instances | |

How state and actions correspond to the code is said at each definition; names
follow the source where they can. Definitions marked *Mutant* are plausible bugs:
each is put in the place of the real definition to see a property fail.

**Enforcement.** Faults are `FaultEngine::states_` restricted to ports, leases are
`leases_`, and `intent` remembers what the operator last asked for. Latency,
jitter, loss and duplication are one opaque profile, since the enforcer copies
them unread. A batch is worked off one decision per step (`Enforce`, `Decline`)
and excludes every other action meanwhile, as in the single-threaded code.
Specifications differ in who acts: `Spec` is every step either program can take,
`SessionSpec` the desktop; `Careful…` means an operator who leaves contained ports
alone; under `QuietingSpec` anomalies stop in time for the last lease to end.

**Supervision.** `stage` says where the thread is: waiting, in a tick, applying, or
judging a frame. `Record` and `Judge` are the two halves of `inspect`, between
which a full batch is analysed. A frame blocked by a fault is dropped, everything
else counts as forwarded. A decision carries its rule's rate (`RuleRate`), and the frame
size the enforcer assumes, since the events here carry no bytes.

**VSwitch.** One action per call that another thread can interleave with: drain,
each `sendto`, wait, handle a frame, tick. All frames have one size, so a cap is
one transmission time. The supervisor's tick is any fault change.

**StreamRing.** Host calls are atomic between waits (one host thread); `drain` is
a loop and takes several steps. The GPU finishes or fails committed commands in
any order.

**ControlServer, ControlChannel.** A connection is two FIFO buffers; a message is
the unit of every byte limit, so partial lines do not occur. One `poll` is several
steps (`stage`): the benchmark slice, `Watch` (drop the congested, poll, accept),
then `Serve`, the handler of each request and `FinishClient` for one client after
the other. Events of one handler leave one by one (`Broadcast`), since a client can
read, send or hang up between two of them. The hang-up flag of a socket is part of
its being readable. A client's own buffer is left in the socket: a message is
taken or not yet taken. `history` is auxiliary: what was asked, answered and heard.
A topology is the set of its fault targets, ports and links alike. A program
without topology or supervisor, which refuses most commands, and bytes the kernel
discards on a reset are not modelled. `reconnect` may fail to connect and then leaves
the client without a connection. `send` stamps every request 0, which stands for all
ids other than those of resync's queries, so also for the empty one under which a request that
does not parse is refused (`control_service.cpp:31`). Two specifications differ in one point:
under `CarefulSpec` a client reconnects after a resync that failed, under
`ChannelSpec` it may call resync again on the same connection.

**ControlProtocol.** A document is a stream of tokens, a member with its literal at a
time; it is either free, so that every token is a choice, or what a writer of this
code produces. `fields` is what the parser has so far, whose domain stands for the
`seen_` flags. `written`, `count` and `syntax` are history, from which the reference
`MeetsSchema` is stated without an order. Widths are parameters; a string is its
bytes, with one number for the four digits of a `\u` escape. The schema fixes a number by
its value, so that leading zeros are in it, as in the code. What a writer sends is a
message in nanoseconds, of which the wire has whole milliseconds (`Milliseconds`,
`OnTheWire`). Fault percentages are flags, and white space between tokens is left out.

**Session, Desktop.** One action per command, which does everything its function does
up to the last `mark`: a commit resets traffic, drops leases, rebuilds every row. The
dataplane is abstract: a fault is lossy or not, contained or not, a lease counts down
traffic steps, and the detector may report any host that delivered a frame. `rows` is
what the frontend reads and `dirty` the bits since the last drain. `Desktop` adds the
handle (`guard`, `last_error`, `extra_dirty`), the window's thread (`pc`: idle, to
settle, to drain after a timer) and the two timers. An analyzer may throw in any traffic
step or report slice, in every one if it is broken; such a traffic step has counted its
frames on the ports and looked at no lease (`Thrown`).

**PcapReplay.** A file is a sequence of four-byte words, so that lengths, byte order and
cut-offs are real while a frame's contents are named. `stream` is what was given to the
`ofstream` and `disk` a prefix of it, cut at any byte when the program dies or the
disk is full. Numbers are scaled: a word is below `WordSize`, a second has
10^`NanoDigits` nanoseconds, and the product of a binary resolution wraps at the square
of `WordSize`.

**VPort.** Main, its signal handler (which runs on top of it, so main stands still), and
two forwarders. What `close` does to a reader that is already blocked belongs to the
kernel and is the constant `CloseWakes`.

## Runs

| Run | Result | Shows |
|---|---|---|
| `enforcement` | pass | leases never weaken, revive or outlive one lease; only valid faults; once anomalies stop every port comes back; both programs together |
| `enforcement_session` | pass | containment is the operator's fault with the lease laid over it, and exactly undone |
| `supervision` | pass | bounded leak before containment, none during it |
| `supervision_sustained` | violation | a storm that outlasts its lease is never contained again |
| `vswitch` | pass | copies accounted for, blocked ports silent, caps space copies, `stop` ends the loop, deferred copies leave |
| `stream_ring` | pass | refinement of the FIFO, cursors, order; every batch returns until a kernel fails |
| `control` | pass | gapless event streams, revisions that never go back, one answer per request, one result per run; no slow client stalls the others or a benchmark |
| `control_resync` | pass | a resync that succeeds is fresh and took its own answers, while the supervisor publishes |
| `protocol` | pass | exactly the schema is accepted, what was written is read back with durations cut to whole milliseconds, a missing field is really missing |
| `desktop` | pass | what the window shows agrees with the session and every change is marked; frames are accounted for; reports end, and leases go once a step does not throw |
| `replay` | pass | deque = window and active = justified under clocks that jump; batches leave no trace; an export reads back, and one cut anywhere is noticed |
| `vport_stop` | violation | Ctrl-C while a forwarder is blocked: the handler joins a thread that waits for a frame nobody owes it |

The two violations are what the code does against what the repository says; each is
quoted under "findings". `StopReturns` holds with `CloseWakes = TRUE`, so the finding
rests on the kernel alone.

Some properties are checked for callers, devices or files that behave, and fail for
others. To see it, give the run the other specification, property or input:

* `enforcement_session` with `SessionSpec` (`Contained`, `Reversible`): a fault the operator sets on
  a contained port is undone when the lease ends, since the lease captured what it
  restores when it began (`policy_enforcer.cpp:193`; README.md:312 says the operator's
  configuration comes back).
* `supervision` with `ReloadedSpec` and the topologies `TwoTopologies`
  (`QuarantineStopsForwarding`): after a reload that renumbers ports, a sender is
  judged by the port id cached at its first frame and blamed by its index, so the
  wrong port is contained (`switch_supervisor.cpp:41`, against `.hpp:37`).
* `control_resync` with `ChannelSpec` (`QueryGetsItsAnswer`): a second resync on one
  connection takes the late reply of the first (`control_server.cpp:723`, `809`).
* `desktop` with the property `LeasesEnd` (four commands are enough): a device that throws
  at every traffic step keeps an expired lease for as long as traffic runs, since a step
  that throws (`session_traffic.cpp:201`) never reaches the release and the window ticks on
  (`app.rs:237`); `policy_enforcer.hpp:62` says the configuration is "restored when the
  lease expires". `ExpiredLeasesGo` excuses just that.
* `replay` with the captures `BinaryCaptures` and the invariant `TimesAreNanoseconds`: a
  power-of-two resolution multiplies before it divides, and the product wraps in 64 bits
  (`pcap.cpp:84`), for present-day times from 2^-4 seconds on; `pcap.hpp:37` says
  "normalised to nanoseconds". `ExportRereads` holds for those whose product fits.

Smaller disagreements met while modelling are in the models as the code has them:

* switch: a broadcast comes back to a sender behind which a second address was learned
  (`get_all_endpoints_except` excludes an address; `vswitch_main.cpp:92` says "except
  source"); once the oldest GPU command has failed, `try_collect` returns nothing for
  ever (`metal_packet_parser.hpp:132`: "the oldest is still running");
* session: a lab with fewer than two hosts makes the traffic generator throw
  (`traffic_generator.cpp:287`), while `session_traffic.cpp:131` asks for "at least one
  host"; a reset empties the contained ports without the Policies bit and leaves the
  rules' rows with the hits from before it; a manual release leaves the port's row
  marked as contained; a traffic step that throws has counted its frames on the ports
  and not in the totals; a device that throws in a report slice leaves the report
  running with its progress under-counted;
* interface: `guard` forgets the last error without raising Status; a failing CSV leaves
  the JSON behind though `wirelab_ffi.h:19` says false means nothing was written; the
  "default policy set" of `wirelab_ffi.cpp:349` is not seeded there;
* protocol: without `port_id`, `set_port_fault` is refused as an invalid field and
  `clear_port_fault` as a missing one; milliseconds wrap when they become nanoseconds
  (`control_protocol.cpp:410`); `packets` may be left out, but its default 0 is then
  refused by `validate`; a number may have leading zeros (`control_protocol.cpp:183`), which
  JSON forbids; the writer cuts a latency or jitter to whole milliseconds
  (`control_protocol.cpp:928`) and writes a negative one, which no parser takes;
* captures: a simple packet block is cut at the largest snap length of all interfaces,
  though the comment at `pcap.cpp:383` speaks of interface zero; which anomalies are reported depends on how the capture is cut into batches.

**Bounds.** Enforcement: two ports and two topologies, one of which lacks a port
and renumbers the other; batches of two decisions, so that one batch can hit a
port twice; time long enough for the longest lease to start late and end.
Supervision: two senders on one or two ports, batches of two,
threshold one, a lease that outlasts the window. VSwitch: two endpoints, two
frames, one of the senders with two addresses, two fault changes (one that defers,
one that blocks), faults that block, defer, lose, duplicate and cap.
StreamRing: three slots (the default depth) and five batches, so both cursors
wrap. Control: two clients on one connection each with a socket that holds one
message and an outbox that holds two, so that both fall behind and get dropped; two
commands, a benchmark of two batches, the second shorter, with a budget below one
batch; only streaming analyzers, whose outcomes include those of a blocking one.
Resync: one client on up to three connections, of which the server takes two, one
reload, two resyncs and one publication; the third connection can find both places taken by
connections already given up, and is closed. Protocol: free documents have any number of
members until the first error, with one or two keys of each group of parameters that
the schema treats alike and literals at, below and one beyond each width (25, 127 and
255 stand for the ends of 32 and 64 bits), with and without a zero before them; writers
send durations that are whole, broken and negative numbers of milliseconds, every command
and every string of up to two of seven characters. Desktop: a switch and two hosts, any
five commands with timers between them (enough for: build or open a lab, run, contain, pause or
replace it, run again), two traffic steps of two frames between resets, leases of one
step, any number of steps that throw, of which the first counts its frames (`MaxFailures`;
more would let the port counters grow without end), reports of three packets in batches of
two on the CPU and a device. Replay: up to three frames of five shapes in batches of 1 or 2, times inside, at the edge of and
outside a window of 60, every capture format and byte order, resolutions of seconds, of
the default, of nanoseconds and finer, and powers of two whose product fits (halves, quarters
and one beyond the reader's range; those that do not fit are above), six files it
refuses; a word holds numbers below 16, so that times cross the split into two words.
VPort: one frame waiting per side, which is enough because a forwarder takes one at a
time. Constants named `Max…` that the code does not have are bounds of the model.

**Deadlock** is checked except where the program ends: the switch's loop, the replay,
vport, a document that was read, and the desktop, which is at rest once the bound on
commands is used up and no timer is held.

**Fairness.** `enforcement`: the receive loop wakes at least once per tick
interval and a due tick evaluates even an empty batch, so empty evaluations are
weakly fair; time passes whatever handlers do, so the clock is strongly fair; no
anomaly or command is owed. `vswitch`: the loop's thread and the stopping
thread are scheduled (weak), time passes (strong because handlers interrupt the
only state it passes in). `stream_ring`: the GPU finishes what it was given,
the live loop collects every tick, a drain runs on. `control`: the receive loop keeps
polling (weak); no client owes a read, a request or a hang-up. `desktop`: the executor
runs what is queued on the window's thread (weak), and a timer that is due is not
passed over for ever in favour of commands or of the other timer (strong); the user
owes nothing, and a device no step that does not throw, which is why `ExpiredLeasesGo`
excuses a lease once a step has thrown after it ran out. `vport_stop`: every thread that can run runs (weak); nobody owes a
frame.

## Proofs

TLAPS proves the following for every value of the constants, from the assumptions
named in the modules (types of constants, positive leases, a ring depth of 1 to
16, sentinels outside the sets they extend, configurations that have the fields of
their structures).

* `SupervisionProofs`, first part: `Enforcement`. Type correctness is inductive. `BoundedContainment` needs
  only types, since a lease is set from the present and the clock moves forward.
  `LeaseNeverWeakens` and `DeadLeaseStaysDead` are action properties; the second
  needs the strengthening that, while a batch is applied, every live lease
  expires after now: release ran first. `Reversible` and `Contained` are
  proved together for a careful operator, because each is what the other
  needs: a live lease's `restore` equals the operator's intent, and leases name
  loaded ports with valid restores, so that putting one back cannot be refused.
  `LeasesOnLoadedPorts` by itself needs no careful operator: it holds in every session.
* `SequenceProofs`. What `Select` keeps, what it leaves out and in which order, that a
  selection and its complement share out the length, and what `FlattenSeq` and `SetToSeq`
  return: each by induction over the set of lengths for which it holds (`SetInduction`).
  Also what a sequence is told apart by (`SeqFacts`), and that images are finite.
* `VSwitchProofs`. The inductive invariant `SwitchInv` is typing with three strengthenings.
  `CopiesAccountedFor` needs that a handler starts with nothing left to hand over
  (`HandoverPoints`), and that `drain_due` shares the deferred copies out without losing
  one. `BlockedPortsAreSilent` needs that nothing is dated after the clock, so that a
  fault installed now is later than all there is. `CapSpacesCopies` needs that the
  shaper's `next_transmit_time` is past every copy scheduled under the present cap.
* `AnomalyDetectorProofs`. `expire` looks at the front of the deque only. The clamped
  clock keeps what was seen in order of time, so what is too old is a prefix and the
  deque is the rest (`DequeIsWindow`); each detector keeps exactly the anomalies that the
  window justifies (`ActiveIsJustified`). For any batches, times and resets.
* `SupervisionProofs`, second part: `Supervision`. `QuarantineStopsForwarding` for a fixed topology: every live lease
  that is no rate limit has a blocking fault installed (`LeasesBlock`), the decisions
  waiting for `apply` came from a rule, and the n-th sender is bound to the n-th host.
  Nothing has to be known of what the detector reports.
* `ControlChannelProofs`. Everything is said of what is on the way to one connection:
  socket, then outbox, then the events still to be broadcast (`Way`). `StepFacts` shows that any step appends
  replies of the present revision and then numbered events to live connections, or cuts
  the end off one that is given up, or lets one client take the head or start anew; it
  carries typing and shape (`ShapeInv`) along. `GaplessStreams`, `RevisionsNeverGoBack`
  and `ResultEndsRun` then each have an invariant of their own on that sequence: events
  are numbered without a gap up to the last one published, revisions rise and stay below
  the present one, and the events of one run rise, the result last. Proved for
  `ChannelSpec` and `CarefulSpec`, any clients, connections and limits.

  Requests are followed the same way, as what is owed to a client (`Owed`): the replies
  on the way, then the requests being handled, then those in the socket. A step of the
  switch puts a reply with the same id and the present revision in the place of the first
  request, or loses the end of a connection it gives up (`Carried`); a client takes the
  first item or adds one at the end (`Acts`, `Starts`). `BalanceInv` says that answered and
  owed requests are at most those asked, and all of them while the switch serves the
  connection: that is `AnsweredOnce`, for `ChannelSpec` and `CarefulSpec`. `QueryInv` says
  where the answer to resync's query is: last of what is owed, the only item with an id
  other than 0. By the balance it is therefore the only request left when it is taken, which is
  `QueryGetsItsAnswer`, and no older than the call, which is `ResyncIsFresh`. Both are
  theorems of `CarefulSpec` only: a client that does not reconnect may take a late reply of
  the resync that failed (see `control_resync` with `ChannelSpec` above).
* `DesktopProofs`. `ViewsAgree` is not inductive on its own: a traffic step rebuilds the rows of
  faults and policies only when leases were released or a rule decided, so one has to know
  that otherwise faults, leases and hits are what they were, which depends on their shape.
  `DesktopInv` adds the shape of rows, lab, selection and traffic to `ViewsAgree`, and the
  commands are proved one by one with what each rebuilds (`WindowShowsTheSession`). From it follows, again by command, that every category a step
  changes has its bit raised (`ChangesAreMarked`), the exception being the one
  `CategoriesMarked` names. `CountersBalance` compares sums over hosts with totals: the
  community module's `SumFunction` is unfolded once, then induction over the size of a
  finite set shows that sums add and that the frames of a tick, counted host by host, are
  all its frames (`SumAdds`, `SumParts`). `CountersInv` adds that traffic runs only with a
  host to charge frames to, without which a frame would be charged to no port. That a file
  holds a `TopologyConfiguration` is what the YAML reader returns; validity is not assumed.
* `BatchQueueProofs`. `InSubmissionOrder` is inductive for the abstract FIFO.
* `StreamRingProofs`. The inductive invariant is typing with `CursorsBoundBusySlots`;
  from it, each step of the ring maps to accept, return or stutter on the queue
  `ready \o InFlight`. `DeliveredInOrder` is then inherited from the abstract FIFO.

Only model-checked:

* liveness, since fairness is out of the prover's reach;
* `StormIsCutOff`, which needs the detector's threshold, the batch and the clock in one
  count of forwarded frames;
* VPort, which is small and whose property is liveness;
* the properties of protocol and replay that speak of a whole document or file
  (`DequeIsWindow` and `ActiveIsJustified`, which replay also checks, are proved for the
  detector). They compute with recursive functions and folds over documents and files:
  what those return for every input needs induction over data. The library's induction
  theorems take an operator, which no prover here can instantiate. Induction over a set
  of numbers works (`SetInduction`) and carries `SequenceProofs` and the sums of
  `DesktopProofs`; `SelectSeq` takes an operator too, which is why the models use `Select`.

## Not modelled

* The YAML reader: text to a configuration, without state; a file here either holds a
  configuration or is refused by `Topology`.
* GPU kernels and the traffic generator: data-parallel copies of the CPU parser, and a
  pure function of seed and sequence number. Their property is bit equality.
* Drawing, forms, wording, coordinates, rates and provenance of reports.
* Random draws of the fault engine, which are nondeterminism here. The desktop offers
  no duplication, which would count one frame as forwarded twice.
* Overflow of 64-bit counters and of `transmission_time`: the values that reach it are
  centuries of nanoseconds.
* A second, different signal while vport's handler runs; move operations and set-up.

## Plan

1. Done: containment (`Enforcement`), the Metal ring, the switch loop, the detector,
   their composition (`Supervision`), the control plane and its protocol, the desktop,
   the capture replay, vport, first theorems.
2. Done: theorems about the switch loop, the detector, the supervisor, the control
   channel and the desktop.
3. Proof left: `StormIsCutOff` of Supervision.
4. The supervisor's tick composed with the server it polls.
