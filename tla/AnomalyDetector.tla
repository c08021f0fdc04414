--------------------------- MODULE AnomalyDetector ---------------------------
(***************************************************************************)
(* AnomalyDetector: a sliding window of observed packets, seven detectors  *)
(* over it, and edge triggering: an anomaly is reported when it appears    *)
(* and again only after it was gone.  The clock is the one                 *)
(* AnalysisPipeline::evaluate hands over, which it clamps so that it never *)
(* runs backwards.                                                         *)
(*                                                                         *)
(* An anomaly is identified by its type, its source (a MAC or an IPv4      *)
(* address) and the port it was last seen on.  Packet and byte counts are  *)
(* evidence only and left out.                                             *)
(***************************************************************************)
EXTENDS Integers, Sequences, FiniteSets, FiniteSetsExt, SequencesExt, Selection

CONSTANTS
  Window,       \* window_duration_ns
  Threshold,    \* the threshold of each AnomalyType, 0 when disabled
  NoSource      \* the source of an anomaly that only names a port

AnomalyType ==
  {"BroadcastStorm", "MacFlap", "UnknownUnicastFlood", "UdpFlood", "PortScan",
   "HotTalker", "MalformedFrame"}

\* The constructor refuses a window of no length.
ASSUME WindowAssumption == Window \in Nat \ {0}
ASSUME ThresholdAssumption == Threshold \in [AnomalyType -> Nat]

VARIABLES
  observations,       \* observations_
  active_anomalies,   \* active_anomalies_
  clock,              \* last_timestamp_ns_ of the pipeline and of the detector
  events,             \* what the last evaluate returned
  seen                \* history: every packet since the last reset, with its time

dvars == <<observations, active_anomalies, clock, events, seen>>

-----------------------------------------------------------------------------
(* The detectors.                                                          *)

\* add_candidate: a threshold of 0 disables a detector.
Exceeds(type, n) == Threshold[type] # 0 /\ n > Threshold[type]

Anomaly(type, source, ingress) == [type |-> type, source |-> source, ingress |-> ingress]

\* Which observations a detector counts.
IsBroadcast(o) == o.classification = "Broadcast"
IsUnknown(o) == o.classification = "UnknownUnicast"
IsUdp(o) == o.valid /\ o.protocol = "udp"
IsTransport(o) == o.valid /\ o.protocol \in {"udp", "tcp"}
IsFramed(o) == o.classification # "Malformed"

\* Rate detectors: more than a threshold of the counted observations from one
\* source, blamed on the port that source was last seen on.
RateAnomalies(obs, type, counted, source) ==
  LET From(s) == {i \in counted : source[i] = s}
  IN  {Anomaly(type, s, obs[Max(From(s))].ingress) :
         s \in {s \in {source[i] : i \in counted} : Exceeds(type, Cardinality(From(s)))}}

\* Distinct destination ports per source address.
PortScans(obs) ==
  LET counted == {i \in 1..Len(obs) : IsTransport(obs[i])}
      From(s) == {i \in counted : obs[i].ip = s}
      sources == {obs[i].ip : i \in counted}
  IN  {Anomaly("PortScan", s, obs[Max(From(s))].ingress) :
         s \in {s \in sources :
                  Exceeds("PortScan", Cardinality({obs[i].port : i \in From(s)}))}}

\* Changes of ingress port per source address.
MacFlaps(obs) ==
  LET Path(mac) == Select(obs, {o \in Range(obs) : IsFramed(o) /\ o.mac = mac})
      Transitions(mac) ==
        {k \in 2..Len(Path(mac)) : Path(mac)[k].ingress # Path(mac)[k - 1].ingress}
  IN  {Anomaly("MacFlap", mac, Last(Path(mac)).ingress) :
         mac \in {mac \in {obs[i].mac : i \in {i \in 1..Len(obs) : IsFramed(obs[i])}} :
                    Exceeds("MacFlap", Cardinality(Transitions(mac)))}}

\* Packets that do not parse, per ingress port.
MalformedFrames(obs) ==
  LET malformed == {i \in 1..Len(obs) : ~obs[i].valid}
      On(p) == {i \in malformed : obs[i].ingress = p}
  IN  {Anomaly("MalformedFrame", NoSource, p) :
         p \in {p \in {obs[i].ingress : i \in malformed} :
                  Exceeds("MalformedFrame", Cardinality(On(p)))}}

Candidates(obs) ==
  LET all == 1..Len(obs)
      mac == [i \in all |-> obs[i].mac]
      ip == [i \in all |-> obs[i].ip]
  IN  RateAnomalies(obs, "BroadcastStorm", {i \in all : IsBroadcast(obs[i])}, mac)
      \cup RateAnomalies(obs, "UnknownUnicastFlood", {i \in all : IsUnknown(obs[i])}, mac)
      \cup RateAnomalies(obs, "UdpFlood", {i \in all : IsUdp(obs[i])}, ip)
      \cup RateAnomalies(obs, "HotTalker", {i \in all : obs[i].valid}, mac)
      \cup PortScans(obs)
      \cup MacFlaps(obs)
      \cup MalformedFrames(obs)

-----------------------------------------------------------------------------
(* Operations.                                                             *)

cutoff(t) == IF t > Window THEN t - Window ELSE 0

\* Mutant: an observation exactly one window old is popped as well.
ExpiredCountInclusive(obs, t) ==
  Max({n \in 0..Len(obs) : \A i \in 1..n : obs[i].at <= cutoff(t)})

\* How many observations expire pops: it stops at the first one still inside.
ExpiredCount(obs, t) ==
  Max({n \in 0..Len(obs) : \A i \in 1..n : obs[i].at < cutoff(t)})

expire(obs, t) == SubSeq(obs, ExpiredCount(obs, t) + 1, Len(obs))

\* AnalysisPipeline::evaluate clamps its clock forward.
ClampedClock(t) == Max({clock, t})

\* An observation is the packet and when it was seen.
Observe(batch, t) ==
  [i \in 1..Len(batch) |->
     [at |-> t, mac |-> batch[i].mac, ip |-> batch[i].ip, port |-> batch[i].port,
      ingress |-> batch[i].ingress, protocol |-> batch[i].protocol,
      classification |-> batch[i].classification, valid |-> batch[i].valid]]

\* Mutant: anomalies stay active once reported.
StickyAnomalies(current) == active_anomalies \cup current

\* Anomalies that are gone are forgotten, so that they can be reported again.
NextActive(current) == current

Detect(batch, timestamp) ==
  LET t == ClampedClock(timestamp)
      obs == expire(observations \o Observe(batch, t), t)
      current == Candidates(obs)
  IN  /\ clock' = t
      /\ observations' = obs
      /\ events' = current \ active_anomalies
      /\ active_anomalies' = NextActive(current)

Evaluate(batch, timestamp) ==
  /\ Detect(batch, timestamp)
  /\ seen' = seen \o Observe(batch, ClampedClock(timestamp))

DInit ==
  /\ observations = <<>>
  /\ active_anomalies = {}
  /\ clock = 0
  /\ events = {}
  /\ seen = <<>>

\* AnalysisPipeline::reset.
Reset ==
  /\ observations' = <<>>
  /\ active_anomalies' = {}
  /\ clock' = 0
  /\ events' = {}
  /\ seen' = <<>>

\* The detector of a pipeline that evaluates any batches at any times, and is reset
\* at any point.
DNext(packets) == Reset \/ \E batch \in Seq(packets), t \in Nat : Evaluate(batch, t)

DSpec(packets) == DInit /\ [][DNext(packets)]_dvars

-----------------------------------------------------------------------------
(* Properties.                                                             *)

\* The packets seen within the window.
WindowOf(packets) == Select(packets, {o \in Range(packets) : clock <= Window \/ o.at >= clock - Window})

\* The deque holds exactly the packets seen within the window, although evaluate
\* only ever pops its front and callers' clocks jump backwards: no observation
\* outlives the window behind a younger one, and none is popped early.
DequeIsWindow == observations = WindowOf(seen)

\* What is active is what the window justifies: an anomaly stops being active
\* as soon as its packets leave the window, so the next crossing is reported.
ActiveIsJustified == active_anomalies = Candidates(WindowOf(seen))

=============================================================================
