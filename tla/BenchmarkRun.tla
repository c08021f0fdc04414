---------------------------- MODULE BenchmarkRun -----------------------------
(***************************************************************************)
(* A benchmark driven in slices (benchmark.cpp).  A run analyses           *)
(* PacketCount packets in whole batches; each call of advance takes as     *)
(* many batches as cover its budget.  With a streaming analyzer batches    *)
(* are handed to the device and their results come back later, in order,   *)
(* so what was accounted (received) trails what was submitted (completed). *)
(***************************************************************************)
EXTENDS Naturals, FiniteSetsExt

CONSTANTS
  PacketCount,      \* BenchmarkConfig::packet_count
  BatchSize,        \* BenchmarkConfig::batch_size
  NoRun

ASSUME BenchmarkConfig ==
  /\ PacketCount \in Nat \ {0}
  /\ BatchSize \in Nat \ {0}

Run ==
  [operation: Nat \ {0},          \* benchmark_operation_id_
   streaming: BOOLEAN,
   completed: 0..PacketCount,     \* completed_packets
   received: 0..PacketCount]      \* received_packets

create(operation, streaming) ==
  [operation |-> operation, streaming |-> streaming, completed |-> 0, received |-> 0]

finished(r) == r.completed >= PacketCount

AfterBatches(r, n) ==
  IF r.completed + n * BatchSize < PacketCount THEN r.completed + n * BatchSize ELSE PacketCount

\* Mutant: a slice smaller than a batch analyses nothing.
OnlyWithinBudget(r, max_packets) ==
  IF finished(r) THEN r.completed ELSE AfterBatches(r, max_packets \div BatchSize)

\* The do-while loop of advance: at least one batch, then more until the budget
\* is covered or the run is finished.
AfterSlice(r, max_packets) ==
  IF max_packets = 0 \/ finished(r) THEN r.completed
  ELSE AfterBatches(r, Min({n \in 1..max_packets :
                              n * BatchSize >= max_packets \/ AfterBatches(r, n) = PacketCount}))

\* Mutant: the last batches are left on the device.
LeftOnDevice(r, completed) ==
  {p \in r.received..completed : r.streaming \/ p = completed}

\* What may have been accounted by the time advance returns.  A streaming
\* device has answered for some of the batches it was given, for all of them
\* once the run is finished (drain); otherwise every batch was analysed here.
Accounted(r, completed) ==
  {p \in r.received..completed :
     \/ p = completed
     \/ r.streaming /\ completed < PacketCount /\ p % BatchSize = 0}

\* The runs that advance(max_packets) can leave behind.
advance(r, max_packets) ==
  LET completed == AfterSlice(r, max_packets)
  IN  {[r EXCEPT !.completed = completed, !.received = p] : p \in Accounted(r, completed)}

=============================================================================
