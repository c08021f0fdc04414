----------------------------- MODULE StreamRing ------------------------------
(***************************************************************************)
(* MetalStreamParser: a ring of slots, each holding one batch that a GPU   *)
(* command works on, with the results of harvested batches queued in       *)
(* ready.  The host thread submits and collects; the GPU finishes or fails *)
(* committed commands at any time and in any order.                        *)
(*                                                                         *)
(* Buffers, kernels and timings are abstracted to the payload a slot       *)
(* holds.  A host call that waits for the GPU is enabled once its wait is  *)
(* over.  drain is a loop, so it is the only call that takes several       *)
(* steps, and the host does nothing else meanwhile.                        *)
(***************************************************************************)
EXTENDS Integers, Sequences

CONSTANTS
  Depth,        \* pipeline_depth
  Payloads,     \* batch contents
  Empty,        \* the payload with no packets
  MaxBatches,   \* bound: batches ever submitted
  KernelFails,  \* may a command end in an error?
  AllocFails    \* may a Metal buffer allocation fail?

\* The constructor refuses a depth of zero or above MAX_PIPELINE_DEPTH.
ASSUME DepthAssumption == Depth \in 1..16
ASSUME PayloadAssumption == Empty \in Payloads
ASSUME BoundAssumption == MaxBatches \in Nat /\ KernelFails \in BOOLEAN /\ AllocFails \in BOOLEAN

VARIABLES
  slots,            \* Impl::slots
  next_slot,        \* where submit fills
  oldest_slot,      \* where harvest_oldest empties
  busy_count,
  next_sequence,
  ready,            \* Impl::ready
  host,             \* "free", or inside "drain"
  returned,         \* what the last try_collect gave its caller
  delivered         \* history: batches handed to the caller

vars == <<slots, next_slot, oldest_slot, busy_count, next_sequence, ready,
          host, returned, delivered>>

ring == <<slots, next_slot, oldest_slot, busy_count, next_sequence>>

Slots == 0..(Depth - 1)

\* command: nil, or the state of the slot's MTLCommandBuffer.
Slot == [command: {"nil", "running", "completed", "error"},
         sequence: Nat, payload: Payloads, busy: BOOLEAN]

Batch == [sequence: Nat, payload: Payloads]

Successor(slot) == (slot + 1) % Depth

-----------------------------------------------------------------------------
(* harvest_oldest.                                                         *)

Oldest == slots[oldest_slot]

\* The oldest slot can be harvested: an empty batch holds its place without a
\* command and is finished by definition.
Harvestable == busy_count # 0 /\ Oldest.command \in {"nil", "completed"}

\* Waiting for the oldest command ends in an exception.
Broken == busy_count # 0 /\ Oldest.command = "error"

Harvested == [sequence |-> Oldest.sequence, payload |-> Oldest.payload]

\* Mutant: the harvested slot stays marked busy.
StillBusy == [slots EXCEPT ![oldest_slot].command = "nil"]

\* The slots after harvest_oldest.
Freed == [slots EXCEPT ![oldest_slot] = [@ EXCEPT !.command = "nil", !.busy = FALSE]]

-----------------------------------------------------------------------------
(* The GPU.                                                                *)

Finish(i) ==
  /\ slots[i].command = "running"
  /\ slots' = [slots EXCEPT ![i].command = "completed"]
  /\ UNCHANGED <<next_slot, oldest_slot, busy_count, next_sequence, ready,
                 host, returned, delivered>>

Fail(i) ==
  /\ KernelFails
  /\ slots[i].command = "running"
  /\ slots' = [slots EXCEPT ![i].command = "error"]
  /\ UNCHANGED <<next_slot, oldest_slot, busy_count, next_sequence, ready,
                 host, returned, delivered>>

-----------------------------------------------------------------------------
(* The host.                                                               *)

Full == busy_count = Depth

\* commit_slot into next_slot of the slots s: a batch without packets takes a
\* slot without a command.
Committed(s, payload) ==
  [s EXCEPT ![next_slot] =
     [command  |-> IF payload = Empty THEN "nil" ELSE "running",
      sequence |-> next_sequence,
      payload  |-> payload,
      busy     |-> TRUE]]

\* submit with a free slot.
SubmitFree(payload) ==
  /\ host = "free"
  /\ ~Full
  /\ next_sequence < MaxBatches
  /\ slots' = Committed(slots, payload)
  /\ next_slot' = Successor(next_slot)
  /\ busy_count' = busy_count + 1
  /\ next_sequence' = next_sequence + 1
  /\ UNCHANGED <<oldest_slot, ready, host, returned, delivered>>

\* submit with every slot in flight: claim_slot harvests the oldest first.
SubmitFull(payload) ==
  /\ host = "free"
  /\ Full
  /\ Harvestable
  /\ next_sequence < MaxBatches
  /\ slots' = Committed(Freed, payload)
  /\ oldest_slot' = Successor(oldest_slot)
  /\ next_slot' = Successor(next_slot)
  /\ ready' = Append(ready, Harvested)
  /\ next_sequence' = next_sequence + 1
  /\ UNCHANGED <<busy_count, host, returned, delivered>>

\* submit harvested the oldest and then failed to grow a buffer of the claimed
\* slot: ensure_capacity throws before anything is committed.
SubmitThrows ==
  /\ AllocFails
  /\ Payloads # {Empty}
  /\ host = "free"
  /\ Full
  /\ Harvestable
  /\ slots' = Freed
  /\ oldest_slot' = Successor(oldest_slot)
  /\ busy_count' = busy_count - 1
  /\ ready' = Append(ready, Harvested)
  /\ UNCHANGED <<next_slot, next_sequence, host, returned, delivered>>

\* try_collect and collect return a batch that is already in ready.
CollectReady ==
  /\ host = "free"
  /\ ready # <<>>
  /\ delivered' = Append(delivered, Head(ready))
  /\ ready' = Tail(ready)
  /\ returned' = "batch"
  /\ UNCHANGED <<ring, host>>

\* Mutant: collect looks at the ring before it looks at ready.
CollectRingFirst ==
  /\ host = "free"
  /\ Harvestable
  /\ slots' = Freed
  /\ oldest_slot' = Successor(oldest_slot)
  /\ busy_count' = busy_count - 1
  /\ delivered' = Append(delivered, Harvested)
  /\ returned' = "batch"
  /\ UNCHANGED <<next_slot, next_sequence, ready, host>>

\* Mutant: results are harvested only when a slot is needed.
CollectWhenFull ==
  /\ host = "free"
  /\ ready = <<>>
  /\ Full
  /\ Harvestable
  /\ slots' = Freed
  /\ oldest_slot' = Successor(oldest_slot)
  /\ busy_count' = busy_count - 1
  /\ delivered' = Append(delivered, Harvested)
  /\ returned' = "batch"
  /\ UNCHANGED <<next_slot, next_sequence, ready, host>>

\* try_collect and collect harvest the oldest batch and return it.
CollectHarvested ==
  /\ host = "free"
  /\ ready = <<>>
  /\ Harvestable
  /\ slots' = Freed
  /\ oldest_slot' = Successor(oldest_slot)
  /\ busy_count' = busy_count - 1
  /\ delivered' = Append(delivered, Harvested)
  /\ returned' = "batch"
  /\ UNCHANGED <<next_slot, next_sequence, ready, host>>

\* try_collect does not wait: it returns nothing unless the oldest command has
\* the status Completed.
TryCollectNothing ==
  /\ host = "free"
  /\ ready = <<>>
  /\ ~Harvestable
  /\ returned' = "nothing"
  /\ UNCHANGED <<ring, ready, host, delivered>>

\* Mutant: drain starts from an empty result and forgets ready.
StartDrainAfresh ==
  /\ host = "free"
  /\ host' = "drain"
  /\ ready' = <<>>
  /\ UNCHANGED <<ring, returned, delivered>>

StartDrain ==
  /\ host = "free"
  /\ host' = "drain"
  /\ UNCHANGED <<ring, ready, returned, delivered>>

DrainHarvest ==
  /\ host = "drain"
  /\ Harvestable
  /\ slots' = Freed
  /\ oldest_slot' = Successor(oldest_slot)
  /\ busy_count' = busy_count - 1
  /\ ready' = Append(ready, Harvested)
  /\ UNCHANGED <<next_slot, next_sequence, host, returned, delivered>>

\* A failed kernel ends drain with an exception: what it had harvested stays in
\* ready and the failed slot stays busy.
DrainThrows ==
  /\ host = "drain"
  /\ Broken
  /\ host' = "free"
  /\ UNCHANGED <<ring, ready, returned, delivered>>

FinishDrain ==
  /\ host = "drain"
  /\ busy_count = 0
  /\ delivered' = delivered \o ready
  /\ ready' = <<>>
  /\ host' = "free"
  /\ UNCHANGED <<ring, returned>>

-----------------------------------------------------------------------------
Init ==
  /\ slots = [i \in Slots |->
               [command |-> "nil", sequence |-> 0, payload |-> Empty, busy |-> FALSE]]
  /\ next_slot = 0
  /\ oldest_slot = 0
  /\ busy_count = 0
  /\ next_sequence = 0
  /\ ready = <<>>
  /\ host = "free"
  /\ returned = "batch"
  /\ delivered = <<>>

Submit == \E payload \in Payloads : SubmitFree(payload) \/ SubmitFull(payload)
Collect == CollectReady \/ CollectHarvested
Drain == DrainHarvest \/ DrainThrows \/ FinishDrain
GPU == \E i \in Slots : Finish(i) \/ Fail(i)

Next == GPU \/ Submit \/ SubmitThrows \/ Collect \/ TryCollectNothing \/ StartDrain \/ Drain

Spec == Init /\ [][Next]_vars

\* The GPU finishes what it was given, the caller keeps collecting (the live
\* loop calls try_collect every tick) and a drain that began runs on.
FairSpec ==
  /\ Spec
  /\ \A i \in Slots : WF_vars(Finish(i))
  /\ WF_vars(Collect)
  /\ WF_vars(Drain)

-----------------------------------------------------------------------------
(* Properties.                                                             *)

TypeOK ==
  /\ slots \in [Slots -> Slot]
  /\ next_slot \in Slots
  /\ oldest_slot \in Slots
  /\ busy_count \in 0..Depth
  /\ next_sequence \in Nat
  /\ ready \in Seq(Batch)
  /\ host \in {"free", "drain"}
  /\ returned \in {"batch", "nothing"}
  /\ delivered \in Seq(Batch)

\* The slot k places after slot i.
SlotAfter(i, k) == IF i + k < Depth THEN i + k ELSE i + k - Depth

\* The batches in the first n of the slots s from slot i on.
BatchesFrom(s, i, n) ==
  [k \in 1..n |-> [sequence |-> s[SlotAfter(i, k - 1)].sequence,
                   payload  |-> s[SlotAfter(i, k - 1)].payload]]

\* The batches in flight, oldest first.
InFlight == BatchesFrom(slots, oldest_slot, busy_count)

\* The ring with its ready queue is the FIFO the caller was promised, whatever
\* the GPU does and wherever a submit or a drain throws.
Queue == INSTANCE BatchQueue WITH
           queue <- ready \o InFlight, accepted <- next_sequence

ImplementsQueue == Queue!QSpec

\* A slot is busy exactly while it lies between the two cursors, so submit never
\* refills the buffers of a command that still runs on them.
CursorsBoundBusySlots ==
  /\ \A k \in Slots : k < busy_count => slots[SlotAfter(oldest_slot, k)].busy = TRUE
  /\ \A k \in Slots : k >= busy_count => slots[SlotAfter(oldest_slot, k)].busy = FALSE
  /\ next_slot = SlotAfter(oldest_slot, busy_count)
  /\ \A i \in Slots : slots[i].command # "nil" => slots[i].busy = TRUE

\* Every accepted batch is returned exactly once and in submission order: the
\* n-th result the caller sees carries sequence n - 1.
DeliveredInOrder ==
  /\ \A n \in 1..Len(delivered) : delivered[n].sequence = n - 1
  /\ Len(delivered) + Len(ready) + busy_count = next_sequence

\* Every batch submitted is eventually returned, empty ones and submits that
\* throw included, unless a kernel fails first.
EveryBatchReturns ==
  \A n \in 1..MaxBatches :
    next_sequence >= n ~> \/ Len(delivered) >= n
                          \/ \E i \in Slots : slots[i].command = "error"

=============================================================================
