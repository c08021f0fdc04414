-------------------------- MODULE StreamRingProofs ---------------------------
(***************************************************************************)
(* Proofs about StreamRing for every depth, payload set and bound: the     *)
(* cursors bound the busy slots, results come back in submission order,    *)
(* and the ring implements the FIFO of BatchQueue.                         *)
(***************************************************************************)
EXTENDS StreamRing, SequenceTheorems, TLAPS

-----------------------------------------------------------------------------
(* Arithmetic of the cursors.                                              *)

\* The cursors advance by one and wrap at the depth.
LEMMA SuccessorFacts ==
  ASSUME NEW i \in Slots
  PROVE  /\ Successor(i) = IF i + 1 = Depth THEN 0 ELSE i + 1
         /\ Successor(i) \in Slots
<1>1. Depth \in 1..16 /\ i \in 0..(Depth - 1)
  BY DepthAssumption DEF Slots
<1>2. CASE i + 1 = Depth
  <2>1. Depth % Depth = 0
    BY <1>1
  <2>2. QED
    BY <1>1, <1>2, <2>1 DEF Successor, Slots
<1>3. CASE i + 1 # Depth
  <2>1. i + 1 \in 0..(Depth - 1)
    BY <1>1, <1>3
  <2>2. (i + 1) % Depth = i + 1
    BY <1>1, <2>1
  <2>3. QED
    BY <1>1, <1>3, <2>1, <2>2 DEF Successor, Slots
<1>4. QED
  BY <1>2, <1>3

\* SlotAfter walks round the ring and meets every slot once.
LEMMA SlotAfterFacts ==
  ASSUME NEW i \in Slots
  PROVE  /\ \A k \in 0..Depth : SlotAfter(i, k) \in Slots
         /\ \A j, k \in Slots : SlotAfter(i, j) = SlotAfter(i, k) => j = k
         /\ SlotAfter(i, 0) = i
         /\ SlotAfter(i, Depth) = i
         /\ \A k \in Slots : Successor(SlotAfter(i, k)) = SlotAfter(i, k + 1)
         /\ \A k \in Slots : SlotAfter(Successor(i), k) = SlotAfter(i, k + 1)
<1>1. Depth \in Nat /\ Depth >= 1 /\ i \in 0..(Depth - 1)
  BY DepthAssumption DEF Slots
<1>2. \A k \in 0..Depth : SlotAfter(i, k) \in Slots
  BY <1>1 DEF SlotAfter, Slots
<1>3. \A j, k \in Slots : SlotAfter(i, j) = SlotAfter(i, k) => j = k
  BY <1>1 DEF SlotAfter, Slots
<1>4. SlotAfter(i, 0) = i /\ SlotAfter(i, Depth) = i
  BY <1>1 DEF SlotAfter
<1>5. ASSUME NEW k \in Slots
      PROVE  Successor(SlotAfter(i, k)) = SlotAfter(i, k + 1)
  <2>1. SlotAfter(i, k) \in Slots /\ k \in 0..(Depth - 1)
    BY <1>1, <1>2 DEF Slots
  <2>2. Successor(SlotAfter(i, k)) =
          IF SlotAfter(i, k) + 1 = Depth THEN 0 ELSE SlotAfter(i, k) + 1
    BY <2>1, SuccessorFacts
  <2>3. QED
    BY <1>1, <2>1, <2>2 DEF SlotAfter
<1>6. ASSUME NEW k \in Slots
      PROVE  SlotAfter(Successor(i), k) = SlotAfter(i, k + 1)
  <2>1. Successor(i) = IF i + 1 = Depth THEN 0 ELSE i + 1
    BY SuccessorFacts
  <2>2. QED
    BY <1>1, <2>1 DEF SlotAfter, Slots
<1>7. QED
  BY <1>2, <1>3, <1>4, <1>5, <1>6

-----------------------------------------------------------------------------
(* The invariant of the ring.                                              *)

RingInv == TypeOK /\ CursorsBoundBusySlots

\* What a host step that harvests finds: the oldest slot is busy and its batch
\* heads the batches in flight.
LEMMA HarvestFacts ==
  ASSUME TypeOK
  PROVE  /\ Depth \in Nat /\ Depth >= 1
         /\ Oldest \in Slot
         /\ Harvested \in Batch
         /\ Freed \in [Slots -> Slot]
         /\ Freed[oldest_slot].command = "nil"
         /\ Freed[oldest_slot].busy = FALSE
         /\ \A i \in Slots :
              /\ Freed[i].sequence = slots[i].sequence
              /\ Freed[i].payload = slots[i].payload
              /\ i # oldest_slot => Freed[i] = slots[i]
<1>1. Depth \in Nat /\ Depth >= 1
  BY DepthAssumption
<1>2. oldest_slot \in Slots /\ slots \in [Slots -> Slot] /\ Oldest \in Slot
  BY DEF TypeOK, Oldest
<1>3. Harvested \in Batch
  BY <1>2 DEF Slot, Harvested, Batch
<1> DEFINE freed == [Oldest EXCEPT !.command = "nil", !.busy = FALSE]
<1>4. /\ freed \in Slot /\ freed.command = "nil" /\ freed.busy = FALSE
      /\ freed.sequence = Oldest.sequence /\ freed.payload = Oldest.payload
  BY <1>2 DEF Slot
<1>5. Freed = [slots EXCEPT ![oldest_slot] = freed]
  BY <1>2 DEF Freed, Oldest
<1> HIDE DEF freed
<1>6. QED
  BY <1>1, <1>2, <1>3, <1>4, <1>5 DEF Oldest

\* Filling next_slot changes that slot only.
LEMMA CommitFacts ==
  ASSUME TypeOK, NEW payload \in Payloads, NEW s \in [Slots -> Slot]
  PROVE  /\ Committed(s, payload) \in [Slots -> Slot]
         /\ Committed(s, payload)[next_slot].busy = TRUE
         /\ Committed(s, payload)[next_slot].sequence = next_sequence
         /\ Committed(s, payload)[next_slot].payload = payload
         /\ \A i \in Slots : i # next_slot => Committed(s, payload)[i] = s[i]
  BY DEF TypeOK, Slot, Committed

\* Every step keeps the types.
LEMMA TypeStep == TypeOK /\ [Next]_vars => TypeOK'
<1> SUFFICES ASSUME TypeOK, [Next]_vars
             PROVE  TypeOK'
  OBVIOUS
<1>1. ASSUME NEW i \in Slots, Finish(i) \/ Fail(i)
      PROVE  TypeOK'
  BY <1>1, ZenonT(60) DEF TypeOK, Finish, Fail, Slot
<1>d. Depth \in Nat /\ Depth >= 1
  BY DepthAssumption
<1>2. ASSUME NEW payload \in Payloads, SubmitFree(payload)
      PROVE  TypeOK'
  <2>1. slots' \in [Slots -> Slot]
    BY <1>2, CommitFacts DEF SubmitFree, TypeOK
  <2>2. next_slot' \in Slots
    BY <1>2, SuccessorFacts DEF SubmitFree, TypeOK
  <2>3. busy_count' \in 0..Depth
    BY <1>2, <1>d DEF SubmitFree, TypeOK, Full
  <2>4. QED
    BY <1>2, <2>1, <2>2, <2>3 DEF SubmitFree, TypeOK
<1>3. ASSUME NEW payload \in Payloads, SubmitFull(payload)
      PROVE  TypeOK'
  <2>1. slots' \in [Slots -> Slot] /\ Harvested \in Batch
    BY <1>3, CommitFacts, HarvestFacts DEF SubmitFull
  <2>2. next_slot' \in Slots /\ oldest_slot' \in Slots
    BY <1>3, SuccessorFacts DEF SubmitFull, TypeOK
  <2>3. ready' \in Seq(Batch)
    BY <1>3, <2>1 DEF SubmitFull, TypeOK
  <2>4. QED
    BY <1>3, <2>1, <2>2, <2>3 DEF SubmitFull, TypeOK
<1>4. CASE SubmitThrows \/ CollectHarvested \/ DrainHarvest
  <2>1. oldest_slot' \in Slots
    BY <1>4, SuccessorFacts DEF SubmitThrows, CollectHarvested, DrainHarvest, TypeOK
  <2>2. busy_count' \in 0..Depth
    BY <1>4, <1>d
    DEF SubmitThrows, CollectHarvested, DrainHarvest, TypeOK, Harvestable
  <2>3. Harvested \in Batch /\ Freed \in [Slots -> Slot]
    BY HarvestFacts
  <2>4. ready' \in Seq(Batch) /\ delivered' \in Seq(Batch)
    <3>1. Append(ready, Harvested) \in Seq(Batch) /\ Append(delivered, Harvested) \in Seq(Batch)
      BY <2>3 DEF TypeOK
    <3>2. QED
      BY <1>4, <3>1 DEF SubmitThrows, CollectHarvested, DrainHarvest, TypeOK
  <2>5. QED
    BY <1>4, <2>1, <2>2, <2>3, <2>4
    DEF SubmitThrows, CollectHarvested, DrainHarvest, TypeOK
<1>5. CASE CollectReady
  BY <1>5 DEF CollectReady, TypeOK, ring
<1>6. CASE TryCollectNothing \/ StartDrain \/ DrainThrows \/ FinishDrain
  <2>1. delivered' \in Seq(Batch) /\ ready' \in Seq(Batch)
    <3>1. delivered \o ready \in Seq(Batch) /\ <<>> \in Seq(Batch)
      BY DEF TypeOK
    <3>2. QED
      BY <1>6, <3>1 DEF TryCollectNothing, StartDrain, DrainThrows, FinishDrain, TypeOK
  <2>2. QED
    BY <1>6, <2>1
    DEF TryCollectNothing, StartDrain, DrainThrows, FinishDrain, TypeOK, ring
<1>7. CASE UNCHANGED vars
  BY <1>7 DEF TypeOK, vars
<1>8. QED
  BY <1>1, <1>2, <1>3, <1>4, <1>5, <1>6, <1>7
  DEF Next, GPU, Submit, Collect, Drain

-----------------------------------------------------------------------------
(* The cursors.                                                            *)

\* A harvest leaves the cursors right.
LEMMA HarvestKeepsCursors ==
  ASSUME TypeOK, CursorsBoundBusySlots, Harvestable,
         slots' = Freed, next_slot' = next_slot,
         oldest_slot' = Successor(oldest_slot), busy_count' = busy_count - 1
  PROVE  CursorsBoundBusySlots'
<1>1. /\ Depth \in Nat /\ Depth >= 1 /\ Slots = 0..(Depth - 1)
      /\ oldest_slot \in Slots /\ busy_count \in 1..Depth
  BY DepthAssumption DEF TypeOK, Harvestable, Slots
<1>2. /\ \A k \in Slots : k < busy_count => slots[SlotAfter(oldest_slot, k)].busy = TRUE
      /\ \A k \in Slots : k >= busy_count => slots[SlotAfter(oldest_slot, k)].busy = FALSE
      /\ next_slot = SlotAfter(oldest_slot, busy_count)
      /\ \A i \in Slots : slots[i].command # "nil" => slots[i].busy = TRUE
  BY DEF CursorsBoundBusySlots
<1>3. /\ slots'[oldest_slot].command = "nil" /\ slots'[oldest_slot].busy = FALSE
      /\ \A i \in Slots : i # oldest_slot => slots'[i] = slots[i]
  BY HarvestFacts
<1>4. \A k \in Slots : SlotAfter(oldest_slot', k) = SlotAfter(oldest_slot, k + 1)
  BY <1>1, SlotAfterFacts
<1>5. ASSUME NEW k \in Slots, k + 1 # Depth
      PROVE  /\ k + 1 \in Slots
             /\ SlotAfter(oldest_slot, k + 1) \in Slots
             /\ SlotAfter(oldest_slot, k + 1) # oldest_slot
  BY <1>1, <1>5 DEF SlotAfter
<1>6. ASSUME NEW k \in Slots, k < busy_count'
      PROVE  slots'[SlotAfter(oldest_slot', k)].busy = TRUE
  <2>1. k + 1 # Depth /\ k + 1 < busy_count
    BY <1>1, <1>6
  <2>2. slots'[SlotAfter(oldest_slot, k + 1)] = slots[SlotAfter(oldest_slot, k + 1)]
    BY <1>3, <1>5, <2>1
  <2>3. slots[SlotAfter(oldest_slot, k + 1)].busy = TRUE
    BY <1>2, <1>5, <2>1
  <2>4. QED
    BY <1>4, <2>2, <2>3
<1>7. ASSUME NEW k \in Slots, k >= busy_count'
      PROVE  slots'[SlotAfter(oldest_slot', k)].busy = FALSE
  <2>1. CASE k + 1 = Depth
    <3>1. SlotAfter(oldest_slot, k + 1) = oldest_slot
      BY <1>1, <2>1 DEF SlotAfter
    <3>2. QED
      BY <1>3, <1>4, <3>1
  <2>2. CASE k + 1 # Depth
    <3>1. k + 1 >= busy_count
      BY <1>1, <1>7
    <3>2. slots'[SlotAfter(oldest_slot, k + 1)] = slots[SlotAfter(oldest_slot, k + 1)]
      BY <1>3, <1>5, <2>2
    <3>3. slots[SlotAfter(oldest_slot, k + 1)].busy = FALSE
      BY <1>2, <1>5, <2>2, <3>1
    <3>4. QED
      BY <1>4, <3>2, <3>3
  <2>3. QED
    BY <2>1, <2>2
<1>8. next_slot' = SlotAfter(oldest_slot', busy_count')
  <2>1. busy_count - 1 \in Slots /\ (busy_count - 1) + 1 = busy_count
    BY <1>1
  <2>2. QED
    BY <1>2, <1>4, <2>1
<1>9. \A i \in Slots : slots'[i].command # "nil" => slots'[i].busy = TRUE
  BY <1>1, <1>2, <1>3
<1>10. QED
  BY <1>6, <1>7, <1>8, <1>9 DEF CursorsBoundBusySlots

\* Filling the free slot at next_slot leaves the cursors right.
LEMMA CommitKeepsCursors ==
  ASSUME TypeOK, CursorsBoundBusySlots, ~Full, NEW payload \in Payloads,
         slots' = Committed(slots, payload), next_slot' = Successor(next_slot),
         oldest_slot' = oldest_slot, busy_count' = busy_count + 1
  PROVE  CursorsBoundBusySlots'
<1>1. /\ Depth \in Nat /\ Depth >= 1 /\ Slots = 0..(Depth - 1)
      /\ oldest_slot \in Slots /\ busy_count \in Slots
      /\ slots \in [Slots -> Slot]
  BY DepthAssumption DEF TypeOK, Full, Slots
<1>2. /\ \A k \in Slots : k < busy_count => slots[SlotAfter(oldest_slot, k)].busy = TRUE
      /\ \A k \in Slots : k >= busy_count => slots[SlotAfter(oldest_slot, k)].busy = FALSE
      /\ next_slot = SlotAfter(oldest_slot, busy_count)
      /\ \A i \in Slots : slots[i].command # "nil" => slots[i].busy = TRUE
  BY DEF CursorsBoundBusySlots
<1>3. /\ slots'[next_slot].busy = TRUE
      /\ \A i \in Slots : i # next_slot => slots'[i] = slots[i]
  <2>1. /\ Committed(slots, payload)[next_slot].busy = TRUE
        /\ \A i \in Slots : i # next_slot => Committed(slots, payload)[i] = slots[i]
    BY ONLY <1>1, TypeOK, payload \in Payloads, CommitFacts, ZenonT(60)
  <2>2. QED
    BY <2>1
<1>4. /\ \A k \in Slots : SlotAfter(oldest_slot, k) \in Slots
      /\ \A k \in Slots : k # busy_count => SlotAfter(oldest_slot, k) # next_slot
  BY <1>1, <1>2 DEF SlotAfter
<1>5. ASSUME NEW k \in Slots, k < busy_count'
      PROVE  slots'[SlotAfter(oldest_slot', k)].busy = TRUE
  <2>1. CASE k = busy_count
    BY <1>2, <1>3, <2>1
  <2>2. CASE k # busy_count
    <3>1. k < busy_count
      BY <1>1, <1>5, <2>2
    <3>2. slots'[SlotAfter(oldest_slot, k)] = slots[SlotAfter(oldest_slot, k)]
      BY <1>3, <1>4, <2>2
    <3>3. QED
      BY <1>2, <3>1, <3>2
  <2>3. QED
    BY <2>1, <2>2
<1>6. ASSUME NEW k \in Slots, k >= busy_count'
      PROVE  slots'[SlotAfter(oldest_slot', k)].busy = FALSE
  <2>1. k # busy_count /\ k >= busy_count
    BY <1>1, <1>6
  <2>2. slots'[SlotAfter(oldest_slot, k)] = slots[SlotAfter(oldest_slot, k)]
    BY <1>3, <1>4, <2>1
  <2>3. QED
    BY <1>2, <2>1, <2>2
<1>7. next_slot' = SlotAfter(oldest_slot', busy_count')
  BY <1>1, <1>2, SlotAfterFacts
<1>8. \A i \in Slots : slots'[i].command # "nil" => slots'[i].busy = TRUE
  BY <1>1, <1>2, <1>3
<1>9. QED
  BY <1>5, <1>6, <1>7, <1>8 DEF CursorsBoundBusySlots

\* With every slot in flight the two cursors meet, and submit harvests and
\* refills the same slot.
LEMMA FullRing ==
  ASSUME TypeOK, CursorsBoundBusySlots, Full
  PROVE  next_slot = oldest_slot
  BY DepthAssumption DEF TypeOK, CursorsBoundBusySlots, Full, SlotAfter, Slots

\* Submitting to a full ring, which frees the oldest slot for the new batch, keeps the cursors right.
LEMMA RefillKeepsCursors ==
  ASSUME TypeOK, CursorsBoundBusySlots, Full, NEW payload \in Payloads,
         slots' = Committed(Freed, payload), next_slot' = Successor(next_slot),
         oldest_slot' = Successor(oldest_slot), busy_count' = busy_count
  PROVE  CursorsBoundBusySlots'
<1>1. /\ Depth \in Nat /\ Depth >= 1 /\ Slots = 0..(Depth - 1)
      /\ oldest_slot \in Slots /\ busy_count = Depth
      /\ next_slot = oldest_slot
  BY DepthAssumption, FullRing DEF TypeOK, Full, Slots
<1>2. /\ \A k \in Slots : k < busy_count => slots[SlotAfter(oldest_slot, k)].busy = TRUE
      /\ \A i \in Slots : slots[i].command # "nil" => slots[i].busy = TRUE
  BY DEF CursorsBoundBusySlots
<1>3. slots'[oldest_slot].busy = TRUE /\ \A i \in Slots : i # oldest_slot => slots'[i] = slots[i]
  <2>1. /\ Freed \in [Slots -> Slot]
        /\ \A i \in Slots : i # oldest_slot => Freed[i] = slots[i]
    BY HarvestFacts
  <2>2. /\ Committed(Freed, payload)[next_slot].busy = TRUE
        /\ \A i \in Slots : i # next_slot => Committed(Freed, payload)[i] = Freed[i]
    BY ONLY <2>1, TypeOK, payload \in Payloads, CommitFacts
  <2>3. QED
    BY <1>1, <2>1, <2>2
<1>4. \A i \in Slots : slots'[i].busy = TRUE
  <2>1. ASSUME NEW i \in Slots, i # oldest_slot
        PROVE  slots[i].busy = TRUE
    <3>1. \E k \in Slots : i = SlotAfter(oldest_slot, k)
      <4>1. CASE i >= oldest_slot
        <5>1. i - oldest_slot \in Slots /\ SlotAfter(oldest_slot, i - oldest_slot) = i
          BY <1>1, <4>1 DEF SlotAfter
        <5>2. QED
          BY <5>1
      <4>2. CASE i < oldest_slot
        <5>1. /\ i - oldest_slot + Depth \in Slots
              /\ SlotAfter(oldest_slot, i - oldest_slot + Depth) = i
          BY <1>1, <4>2 DEF SlotAfter
        <5>2. QED
          BY <5>1
      <4>3. QED
        BY <1>1, <4>1, <4>2
    <3>2. QED
      BY <1>1, <1>2, <3>1
  <2>2. QED
    BY <1>3, <2>1
<1>5. oldest_slot' \in Slots
  BY <1>1, SuccessorFacts
<1>6. \A k \in Slots : SlotAfter(oldest_slot', k) \in Slots /\ ~(k >= busy_count')
  BY <1>1, <1>5 DEF SlotAfter
<1>7. next_slot' = SlotAfter(oldest_slot', busy_count')
  BY <1>1, <1>5 DEF SlotAfter
<1>8. /\ \A k \in Slots : k < busy_count' => slots'[SlotAfter(oldest_slot', k)].busy = TRUE
      /\ \A k \in Slots : k >= busy_count' => slots'[SlotAfter(oldest_slot', k)].busy = FALSE
  BY <1>4, <1>6
<1>9. \A i \in Slots : slots'[i].command # "nil" => slots'[i].busy = TRUE
  BY <1>4
<1>10. QED
  BY <1>7, <1>8, <1>9 DEF CursorsBoundBusySlots

\* The GPU changes the state of a running command and nothing else.
LEMMA GPUFacts ==
  ASSUME TypeOK, CursorsBoundBusySlots, NEW i \in Slots, Finish(i) \/ Fail(i)
  PROVE  /\ UNCHANGED <<next_slot, oldest_slot, busy_count, next_sequence, ready, delivered>>
         /\ \A j \in Slots :
              /\ slots'[j].sequence = slots[j].sequence
              /\ slots'[j].payload = slots[j].payload
              /\ slots'[j].busy = slots[j].busy
              /\ slots'[j].command # "nil" => slots[j].command # "nil"
<1>1. PICK c \in {"completed", "error"} : slots' = [slots EXCEPT ![i].command = c]
  BY DEF Finish, Fail
<1>2. slots[i].command # "nil"
  BY DEF Finish, Fail
<1>3. UNCHANGED <<next_slot, oldest_slot, busy_count, next_sequence, ready, delivered>>
  BY DEF Finish, Fail
<1>4. QED
  BY <1>1, <1>2, <1>3 DEF TypeOK, Slot

\* Every step keeps the cursors right.
LEMMA CursorStep == RingInv /\ [Next]_vars => CursorsBoundBusySlots'
<1> SUFFICES ASSUME TypeOK, CursorsBoundBusySlots, [Next]_vars
             PROVE  CursorsBoundBusySlots'
  BY DEF RingInv
<1>1. ASSUME NEW i \in Slots, Finish(i) \/ Fail(i)
      PROVE  CursorsBoundBusySlots'
  <2>1. /\ UNCHANGED <<next_slot, oldest_slot, busy_count>>
        /\ \A j \in Slots :
             /\ slots'[j].busy = slots[j].busy
             /\ slots'[j].command # "nil" => slots[j].command # "nil"
    BY <1>1, GPUFacts
  <2>2. \A k \in Slots : SlotAfter(oldest_slot, k) \in Slots
    BY DepthAssumption DEF TypeOK, SlotAfter, Slots
  <2>3. QED
    BY <2>1, <2>2 DEF CursorsBoundBusySlots
<1>2. ASSUME NEW payload \in Payloads, SubmitFree(payload)
      PROVE  CursorsBoundBusySlots'
  BY <1>2, CommitKeepsCursors DEF SubmitFree
<1>3. ASSUME NEW payload \in Payloads, SubmitFull(payload)
      PROVE  CursorsBoundBusySlots'
  BY <1>3, RefillKeepsCursors DEF SubmitFull
<1>4. CASE SubmitThrows \/ CollectHarvested \/ DrainHarvest
  BY <1>4, HarvestKeepsCursors DEF SubmitThrows, CollectHarvested, DrainHarvest
<1>5. CASE \/ CollectReady \/ TryCollectNothing \/ StartDrain \/ DrainThrows
           \/ FinishDrain \/ UNCHANGED vars
  BY <1>5
  DEF CollectReady, TryCollectNothing, StartDrain, DrainThrows, FinishDrain,
      vars, ring, CursorsBoundBusySlots
<1>6. QED
  BY <1>1, <1>2, <1>3, <1>4, <1>5 DEF Next, GPU, Submit, Collect, Drain

\* The ring invariant holds in every state.
LEMMA RingInvCorrect == Spec => []RingInv
<1>1. Init => RingInv
  <2> SUFFICES ASSUME Init PROVE RingInv
    OBVIOUS
  <2>1. /\ Depth \in Nat /\ Depth >= 1 /\ Slots = 0..(Depth - 1) /\ 0 \in Slots
        /\ \A k \in Slots : SlotAfter(0, k) = k
        /\ SlotAfter(0, 0) = 0
    BY DepthAssumption DEF Slots, SlotAfter
  <2>2. slots \in [Slots -> Slot]
    BY PayloadAssumption DEF Init, Slot
  <2>3. TypeOK
    <3>1. <<>> \in Seq(Batch) /\ 0 \in 0..Depth /\ 0 \in Nat
      BY <2>1
    <3>2. /\ next_slot = 0 /\ oldest_slot = 0 /\ busy_count = 0 /\ next_sequence = 0
          /\ ready = <<>> /\ delivered = <<>> /\ host = "free" /\ returned = "batch"
      BY DEF Init
    <3>3. QED
      BY <2>1, <2>2, <3>1, <3>2 DEF TypeOK
  <2>4. CursorsBoundBusySlots
    <3>1. /\ oldest_slot = 0 /\ next_slot = 0 /\ busy_count = 0
          /\ \A i \in Slots : slots[i].busy = FALSE /\ slots[i].command = "nil"
      BY DEF Init
    <3>2. \A k \in Slots : ~(k < 0)
      BY <2>1
    <3>3. QED
      BY <2>1, <3>1, <3>2 DEF CursorsBoundBusySlots
  <2>5. QED
    BY <2>3, <2>4 DEF RingInv
<1>2. RingInv /\ [Next]_vars => RingInv'
  BY TypeStep, CursorStep DEF RingInv
<1>3. QED
  BY <1>1, <1>2, PTL DEF Spec

\* Every variable of the ring keeps its type, for every depth the constructor
\* accepts: no cursor leaves the slots and busy_count never exceeds the depth.
THEOREM TypeCorrect == Spec => []TypeOK
<1>1. RingInv => TypeOK
  BY DEF RingInv
<1>2. QED
  BY <1>1, RingInvCorrect, PTL

\* Exactly the slots from oldest_slot up to next_slot are busy, so submit never
\* reuses the buffers of a batch whose command may still be running.
THEOREM CursorsAreRight == Spec => []CursorsBoundBusySlots
<1>1. RingInv => CursorsBoundBusySlots
  BY DEF RingInv
<1>2. QED
  BY <1>1, RingInvCorrect, PTL

-----------------------------------------------------------------------------
(* The ring implements the FIFO.                                           *)

\* What concatenation does at its seam.
LEMMA SeamFacts ==
  ASSUME NEW S, NEW s \in Seq(S), NEW t \in Seq(S), NEW e \in S
  PROVE  /\ s \o Append(t, e) = Append(s \o t, e)
         /\ <<>> \o t = t
         /\ s # <<>> => Head(s \o t) = Head(s) /\ Tail(s \o t) = Tail(s) \o t
         /\ t # <<>> => Append(s, Head(t)) \o Tail(t) = s \o t
         /\ s # <<>> => s \o t # <<>>
<1>1. s \o Append(t, e) = Append(s \o t, e)
  OBVIOUS
<1>2. <<>> \o t = t
  OBVIOUS
<1>3. s # <<>> => Head(s \o t) = Head(s) /\ Tail(s \o t) = Tail(s) \o t
  OBVIOUS
<1>4. t # <<>> => Append(s, Head(t)) \o Tail(t) = s \o t
  OBVIOUS
<1>5. s # <<>> => s \o t # <<>>
  OBVIOUS
<1>6. QED
  BY <1>1, <1>2, <1>3, <1>4, <1>5

\* The batches in flight are a sequence of batches, one for each busy slot.
LEMMA BatchesFromFacts ==
  ASSUME NEW s \in [Slots -> Slot], NEW i \in Slots, NEW n \in 0..Depth
  PROVE  /\ BatchesFrom(s, i, n) \in Seq(Batch)
         /\ Len(BatchesFrom(s, i, n)) = n
         /\ \A k \in 1..n :
              BatchesFrom(s, i, n)[k] = [sequence |-> s[SlotAfter(i, k - 1)].sequence,
                                         payload  |-> s[SlotAfter(i, k - 1)].payload]
<1>1. n \in Nat
  BY DepthAssumption
<1>2. ASSUME NEW k \in 1..n
      PROVE  [sequence |-> s[SlotAfter(i, k - 1)].sequence,
              payload  |-> s[SlotAfter(i, k - 1)].payload] \in Batch
  <2>1. SlotAfter(i, k - 1) \in Slots
    BY DepthAssumption DEF Slots, SlotAfter
  <2>2. s[SlotAfter(i, k - 1)] \in Slot
    BY <2>1
  <2>3. QED
    BY <2>2 DEF Slot, Batch
<1>3. QED
  BY <1>1, <1>2 DEF BatchesFrom

\* A harvest takes the head of the batches in flight and leaves the rest.
LEMMA HarvestInFlight ==
  ASSUME TypeOK, TypeOK', Harvestable, slots' = Freed,
         oldest_slot' = Successor(oldest_slot), busy_count' = busy_count - 1
  PROVE  InFlight # <<>> /\ Head(InFlight) = Harvested /\ Tail(InFlight) = InFlight'
<1>1. /\ Depth \in Nat /\ Depth >= 1 /\ Slots = 0..(Depth - 1)
      /\ oldest_slot \in Slots /\ busy_count \in 1..Depth
  BY DepthAssumption DEF TypeOK, Harvestable, Slots
<1>2. /\ InFlight \in Seq(Batch) /\ Len(InFlight) = busy_count
      /\ \A k \in 1..busy_count :
           InFlight[k] = [sequence |-> slots[SlotAfter(oldest_slot, k - 1)].sequence,
                          payload  |-> slots[SlotAfter(oldest_slot, k - 1)].payload]
  BY BatchesFromFacts, ZenonT(60) DEF TypeOK, InFlight
<1>3. /\ InFlight' \in Seq(Batch) /\ Len(InFlight') = busy_count'
      /\ \A k \in 1..busy_count' :
           InFlight'[k] = [sequence |-> slots'[SlotAfter(oldest_slot', k - 1)].sequence,
                           payload  |-> slots'[SlotAfter(oldest_slot', k - 1)].payload]
  BY BatchesFromFacts, ZenonT(60) DEF TypeOK, InFlight
<1>4. InFlight # <<>> /\ Head(InFlight) = Harvested
  <2>1. SlotAfter(oldest_slot, 1 - 1) = oldest_slot
    BY <1>1 DEF SlotAfter
  <2>2. InFlight[1] = Harvested
    BY <1>1, <1>2, <2>1 DEF Harvested, Oldest
  <2>3. QED
    BY <1>1, <1>2, <2>2
<1>5. ASSUME NEW k \in 1..(busy_count - 1)
      PROVE  InFlight[k + 1] = InFlight'[k]
  <2>1. SlotAfter(oldest_slot', k - 1) = SlotAfter(oldest_slot, (k + 1) - 1)
    <3>1. k - 1 \in Slots /\ (k - 1) + 1 = (k + 1) - 1
      BY <1>1
    <3>2. QED
      BY <1>1, <3>1, SlotAfterFacts
  <2>2. SlotAfter(oldest_slot, (k + 1) - 1) \in Slots
    BY <1>1 DEF SlotAfter
  <2>3. /\ slots'[SlotAfter(oldest_slot', k - 1)].sequence
             = slots[SlotAfter(oldest_slot, (k + 1) - 1)].sequence
        /\ slots'[SlotAfter(oldest_slot', k - 1)].payload
             = slots[SlotAfter(oldest_slot, (k + 1) - 1)].payload
    BY <2>1, <2>2, HarvestFacts
  <2>4. k + 1 \in 1..busy_count /\ k \in 1..busy_count'
    BY <1>1
  <2>5. QED
    BY <1>2, <1>3, <2>3, <2>4
<1>6. QED
  BY <1>1, <1>2, <1>3, <1>4, <1>5, SMTT(40)

\* A commit into the free slot at next_slot appends a batch to those in flight.
LEMMA CommitInFlight ==
  ASSUME TypeOK, TypeOK', CursorsBoundBusySlots, ~Full, NEW payload \in Payloads,
         slots' = Committed(slots, payload),
         oldest_slot' = oldest_slot, busy_count' = busy_count + 1
  PROVE  InFlight' = Append(InFlight, [sequence |-> next_sequence, payload |-> payload])
<1>1. /\ Depth \in Nat /\ Depth >= 1 /\ Slots = 0..(Depth - 1)
      /\ oldest_slot \in Slots /\ busy_count \in Slots
      /\ slots \in [Slots -> Slot]
      /\ next_slot = SlotAfter(oldest_slot, busy_count)
  BY DepthAssumption DEF TypeOK, Full, Slots, CursorsBoundBusySlots
<1>2. /\ InFlight \in Seq(Batch) /\ Len(InFlight) = busy_count
      /\ \A k \in 1..busy_count :
           InFlight[k] = [sequence |-> slots[SlotAfter(oldest_slot, k - 1)].sequence,
                          payload  |-> slots[SlotAfter(oldest_slot, k - 1)].payload]
  BY BatchesFromFacts DEF TypeOK, InFlight
<1>3. /\ InFlight' \in Seq(Batch) /\ Len(InFlight') = busy_count'
      /\ \A k \in 1..busy_count' :
           InFlight'[k] = [sequence |-> slots'[SlotAfter(oldest_slot', k - 1)].sequence,
                           payload  |-> slots'[SlotAfter(oldest_slot', k - 1)].payload]
  BY BatchesFromFacts, ZenonT(60) DEF TypeOK, InFlight
<1>4. /\ slots'[next_slot].sequence = next_sequence
      /\ slots'[next_slot].payload = payload
      /\ \A i \in Slots : i # next_slot => slots'[i] = slots[i]
  <2>1. /\ Committed(slots, payload)[next_slot].sequence = next_sequence
        /\ Committed(slots, payload)[next_slot].payload = payload
        /\ \A i \in Slots : i # next_slot => Committed(slots, payload)[i] = slots[i]
    BY ONLY <1>1, TypeOK DEF TypeOK, Committed
  <2>2. QED
    BY <2>1
<1>5. ASSUME NEW k \in 1..busy_count
      PROVE  InFlight'[k] = InFlight[k]
  <2>1. SlotAfter(oldest_slot, k - 1) \in Slots /\ SlotAfter(oldest_slot, k - 1) # next_slot
    BY <1>1 DEF SlotAfter
  <2>2. k \in 1..busy_count'
    BY <1>1
  <2>3. QED
    BY <1>2, <1>3, <1>4, <2>1, <2>2
<1>6. InFlight'[busy_count + 1] = [sequence |-> next_sequence, payload |-> payload]
  <2>1. (busy_count + 1) - 1 = busy_count /\ busy_count + 1 \in 1..busy_count'
    BY <1>1
  <2>2. QED
    BY <1>1, <1>3, <1>4, <2>1
<1>7. [sequence |-> next_sequence, payload |-> payload] \in Batch
  BY DEF TypeOK, Batch
<1>8. QED
  BY <1>1, <1>2, <1>3, <1>5, <1>6, <1>7

\* A submit into a full ring drops the head of the batches in flight and appends
\* the new one.
LEMMA RefillInFlight ==
  ASSUME TypeOK, TypeOK', CursorsBoundBusySlots, Full, NEW payload \in Payloads,
         slots' = Committed(Freed, payload),
         oldest_slot' = Successor(oldest_slot), busy_count' = busy_count
  PROVE  /\ InFlight # <<>> /\ Head(InFlight) = Harvested
         /\ InFlight' = Append(Tail(InFlight),
                               [sequence |-> next_sequence, payload |-> payload])
<1>1. /\ Depth \in Nat /\ Depth >= 1 /\ Slots = 0..(Depth - 1)
      /\ oldest_slot \in Slots /\ busy_count = Depth
      /\ next_slot = oldest_slot
  BY DepthAssumption, FullRing DEF TypeOK, Full, Slots
<1>2. /\ InFlight \in Seq(Batch) /\ Len(InFlight) = busy_count
      /\ \A k \in 1..busy_count :
           InFlight[k] = [sequence |-> slots[SlotAfter(oldest_slot, k - 1)].sequence,
                          payload  |-> slots[SlotAfter(oldest_slot, k - 1)].payload]
  BY BatchesFromFacts DEF TypeOK, InFlight
<1>3. /\ InFlight' \in Seq(Batch) /\ Len(InFlight') = busy_count'
      /\ \A k \in 1..busy_count' :
           InFlight'[k] = [sequence |-> slots'[SlotAfter(oldest_slot', k - 1)].sequence,
                           payload  |-> slots'[SlotAfter(oldest_slot', k - 1)].payload]
  BY BatchesFromFacts, SMTT(40) DEF TypeOK, InFlight
<1>4. /\ slots'[oldest_slot].sequence = next_sequence
      /\ slots'[oldest_slot].payload = payload
      /\ \A i \in Slots : i # oldest_slot => slots'[i] = slots[i]
  <2>1. /\ Freed \in [Slots -> Slot]
        /\ \A i \in Slots : i # oldest_slot => Freed[i] = slots[i]
    BY HarvestFacts
  <2>2. /\ Committed(Freed, payload)[next_slot].sequence = next_sequence
        /\ Committed(Freed, payload)[next_slot].payload = payload
        /\ \A i \in Slots : i # next_slot => Committed(Freed, payload)[i] = Freed[i]
    BY ONLY <2>1, TypeOK DEF TypeOK, Committed
  <2>3. QED
    BY <1>1, <2>1, <2>2
<1>5. InFlight # <<>> /\ Head(InFlight) = Harvested
  <2>1. SlotAfter(oldest_slot, 1 - 1) = oldest_slot
    BY <1>1 DEF SlotAfter
  <2>2. InFlight[1] = Harvested
    BY <1>1, <1>2, <2>1 DEF Harvested, Oldest
  <2>3. QED
    BY <1>1, <1>2, <2>2
<1>6. ASSUME NEW k \in 1..Depth
      PROVE  SlotAfter(oldest_slot', k - 1) = SlotAfter(oldest_slot, (k + 1) - 1)
  <2>1. k - 1 \in Slots /\ (k - 1) + 1 = (k + 1) - 1
    BY <1>1
  <2>2. QED
    BY <1>1, <2>1, SlotAfterFacts
<1>7. ASSUME NEW k \in 1..(Depth - 1)
      PROVE  InFlight'[k] = InFlight[k + 1]
  <2>1. /\ SlotAfter(oldest_slot, (k + 1) - 1) \in Slots
        /\ SlotAfter(oldest_slot, (k + 1) - 1) # oldest_slot
    BY <1>1 DEF SlotAfter
  <2>2. k \in 1..Depth /\ k + 1 \in 1..Depth
    BY <1>1
  <2>3. slots'[SlotAfter(oldest_slot', k - 1)] = slots[SlotAfter(oldest_slot, (k + 1) - 1)]
    BY <1>4, <1>6, <2>1, <2>2
  <2>4. QED
    BY <1>1, <1>2, <1>3, <2>2, <2>3, ZenonT(60)
<1>8. InFlight'[Depth] = [sequence |-> next_sequence, payload |-> payload]
  <2>1. SlotAfter(oldest_slot, (Depth + 1) - 1) = oldest_slot /\ Depth \in 1..Depth
    BY <1>1 DEF SlotAfter
  <2>2. QED
    BY <1>1, <1>3, <1>4, <1>6, <2>1
<1>9. [sequence |-> next_sequence, payload |-> payload] \in Batch
  BY DEF TypeOK, Batch
<1>10. QED
  BY <1>1, <1>2, <1>3, <1>5, <1>7, <1>8, <1>9

\* Harvesting moves a batch from the ring to ready and changes nothing for the
\* caller.
LEMMA HarvestIsInvisible ==
  ASSUME TypeOK, TypeOK', Harvestable, slots' = Freed,
         oldest_slot' = Successor(oldest_slot), busy_count' = busy_count - 1,
         ready' = Append(ready, Harvested)
  PROVE  (ready \o InFlight)' = ready \o InFlight
<1>1. ready \in Seq(Batch) /\ InFlight \in Seq(Batch) /\ Harvested \in Batch
  BY HarvestFacts, BatchesFromFacts DEF TypeOK, InFlight
<1>2. Append(ready, Head(InFlight)) \o Tail(InFlight) = ready \o InFlight
  BY <1>1, HarvestInFlight, SeamFacts, ZenonT(60)
<1>3. QED
  BY <1>2, HarvestInFlight

\* Every step of the ring is a step of the FIFO or invisible to the caller.
LEMMA QueueStep ==
  ASSUME RingInv, RingInv', [Next]_vars
  PROVE  [Queue!QNext]_(Queue!absvars)
<1>1. TypeOK /\ TypeOK' /\ CursorsBoundBusySlots
  BY DEF RingInv
<1>2. /\ ready \in Seq(Batch) /\ InFlight \in Seq(Batch) /\ Harvested \in Batch
      /\ ready' \in Seq(Batch) /\ InFlight' \in Seq(Batch)
      /\ delivered \in Seq(Batch)
  BY <1>1, HarvestFacts, BatchesFromFacts DEF TypeOK, InFlight
<1>3. ASSUME NEW payload \in Payloads, SubmitFree(payload) \/ SubmitFull(payload)
      PROVE  Queue!Accept(payload)
  <2> DEFINE new == [sequence |-> next_sequence, payload |-> payload]
  <2>1. new \in Batch
    BY <1>1 DEF TypeOK, Batch
  <2>2. (ready \o InFlight)' = Append(ready \o InFlight, new)
    <3>1. CASE SubmitFree(payload)
      <4>1. InFlight' = Append(InFlight, new)
        BY <1>1, <3>1, CommitInFlight DEF SubmitFree
      <4>2. ready' = ready
        BY <3>1 DEF SubmitFree
      <4>3. QED
        BY <1>2, <2>1, <4>1, <4>2, SeamFacts
    <3>2. CASE SubmitFull(payload)
      <4>1. /\ InFlight # <<>> /\ Head(InFlight) = Harvested
            /\ InFlight' = Append(Tail(InFlight), new)
        BY <1>1, <3>2, RefillInFlight DEF SubmitFull
      <4>2. ready' = Append(ready, Head(InFlight))
        BY <3>2, <4>1 DEF SubmitFull
      <4> HIDE DEF new
      <4>3. Tail(InFlight) \in Seq(Batch)
        BY <1>2, <4>1
      <4>4. ready' \o Append(Tail(InFlight), new) = Append(ready' \o Tail(InFlight), new)
        BY <1>2, <2>1, <4>3, SeamFacts, SMTT(40)
      <4>5. ready' \o Tail(InFlight) = ready \o InFlight
        BY <1>2, <4>1, <4>2, SeamFacts, SMTT(40)
      <4>6. QED
        BY <4>1, <4>4, <4>5
    <3>3. QED
      BY <1>3, <3>1, <3>2
  <2>3. next_sequence' = next_sequence + 1 /\ delivered' = delivered
    BY <1>3 DEF SubmitFree, SubmitFull
  <2>4. QED
    BY <2>2, <2>3 DEF Queue!Accept
<1>4. CASE SubmitThrows \/ DrainHarvest
  <2>1. (ready \o InFlight)' = ready \o InFlight
    BY <1>1, <1>4, HarvestIsInvisible DEF SubmitThrows, DrainHarvest
  <2>2. UNCHANGED <<next_sequence, delivered>>
    BY <1>4 DEF SubmitThrows, DrainHarvest
  <2>3. QED
    BY <2>1, <2>2 DEF Queue!absvars
<1>5. CASE CollectHarvested
  <2>1. InFlight # <<>> /\ Head(InFlight) = Harvested /\ Tail(InFlight) = InFlight'
    BY <1>1, <1>5, HarvestInFlight DEF CollectHarvested
  <2>2. ready = <<>> /\ ready' = <<>> /\ next_sequence' = next_sequence
    BY <1>5 DEF CollectHarvested
  <2>3. ready \o InFlight = InFlight /\ ready' \o InFlight' = InFlight'
    BY <1>2, <2>2
  <2>4. delivered' = Append(delivered, Harvested)
    BY <1>5 DEF CollectHarvested
  <2>5. Queue!ReturnOne
    BY <2>1, <2>2, <2>3, <2>4 DEF Queue!ReturnOne
  <2>6. QED
    BY <2>5 DEF Queue!QNext
<1>6. CASE CollectReady
  <2>1. InFlight' = InFlight
    BY <1>6 DEF CollectReady, ring, InFlight
  <2>2. /\ ready # <<>> /\ ready' = Tail(ready) /\ next_sequence' = next_sequence
        /\ delivered' = Append(delivered, Head(ready))
    BY <1>6 DEF CollectReady, ring
  <2>3. /\ ready \o InFlight # <<>> /\ Head(ready \o InFlight) = Head(ready)
        /\ Tail(ready \o InFlight) = Tail(ready) \o InFlight
    BY <1>2, <2>2, SeamFacts
  <2>4. Queue!ReturnOne
    BY <2>1, <2>2, <2>3 DEF Queue!ReturnOne
  <2>5. QED
    BY <2>4 DEF Queue!QNext
<1>7. CASE FinishDrain
  <2>1. InFlight = <<>> /\ InFlight' = <<>>
    <3>1. busy_count = 0 /\ busy_count' = 0
      BY <1>7 DEF FinishDrain, ring
    <3>2. Len(InFlight) = 0 /\ Len(InFlight') = 0
      BY <1>1, <3>1, BatchesFromFacts DEF TypeOK, InFlight
    <3>3. QED
      BY <1>2, <3>2
  <2>2. /\ ready' = <<>> /\ next_sequence' = next_sequence
        /\ delivered' = delivered \o ready
    BY <1>7 DEF FinishDrain, ring
  <2>3. ready \o InFlight = ready /\ ready' \o InFlight' = <<>>
    BY <1>2, <2>1, <2>2
  <2>4. Queue!ReturnAll
    BY <2>2, <2>3 DEF Queue!ReturnAll
  <2>5. QED
    BY <2>4 DEF Queue!QNext
<1>8. ASSUME NEW i \in Slots, Finish(i) \/ Fail(i)
      PROVE  UNCHANGED Queue!absvars
  <2>1. /\ UNCHANGED <<next_slot, oldest_slot, busy_count, next_sequence, ready, delivered>>
        /\ \A j \in Slots : /\ slots'[j].sequence = slots[j].sequence
                            /\ slots'[j].payload = slots[j].payload
    BY <1>1, <1>8, GPUFacts
  <2>2. \A k \in 1..busy_count : SlotAfter(oldest_slot, k - 1) \in Slots
    BY <1>1, DepthAssumption DEF TypeOK, SlotAfter, Slots
  <2>3. InFlight' = InFlight
    BY <2>1, <2>2 DEF InFlight, BatchesFrom
  <2>4. QED
    BY <2>1, <2>3 DEF Queue!absvars
<1>9. CASE TryCollectNothing \/ StartDrain \/ DrainThrows \/ UNCHANGED vars
  <2>1. UNCHANGED <<slots, oldest_slot, busy_count, next_sequence, ready, delivered>>
    BY <1>9 DEF TryCollectNothing, StartDrain, DrainThrows, vars, ring
  <2>2. QED
    BY <2>1 DEF Queue!absvars, InFlight
<1>10. QED
  BY <1>3, <1>4, <1>5, <1>6, <1>7, <1>8, <1>9
  DEF Next, GPU, Submit, Collect, Drain, Queue!QNext

\* The ring with its ready queue implements the FIFO of BatchQueue.
THEOREM RingImplementsQueue == Spec => ImplementsQueue
<1>1. Init => Queue!QInit
  <2> SUFFICES ASSUME Init PROVE Queue!QInit
    OBVIOUS
  <2>1. /\ ready = <<>> /\ busy_count = 0 /\ next_sequence = 0 /\ delivered = <<>>
    BY DEF Init
  <2>2. InFlight = <<>>
    BY <2>1 DEF InFlight, BatchesFrom
  <2>3. ready \o InFlight = <<>>
    BY <2>1, <2>2
  <2>4. QED
    BY <2>1, <2>3 DEF Queue!QInit
<1>2. RingInv /\ RingInv' /\ [Next]_vars => [Queue!QNext]_(Queue!absvars)
  BY QueueStep
<1>3. QED
  BY <1>1, <1>2, RingInvCorrect, PTL DEF Spec, ImplementsQueue, Queue!QSpec

-----------------------------------------------------------------------------
(* Order.                                                                  *)

FIFO == INSTANCE BatchQueueProofs WITH
          queue <- ready \o InFlight, accepted <- next_sequence

\* What the FIFO says of its queue and its results holds of the ring.
LEMMA FIFOInvCorrect == Spec => []FIFO!QInv
<1>1. Init => FIFO!QInv
  <2> SUFFICES ASSUME Init PROVE FIFO!QInv
    OBVIOUS
  <2>1. ready = <<>> /\ busy_count = 0 /\ next_sequence = 0 /\ delivered = <<>>
    BY DEF Init
  <2>2. InFlight = <<>>
    BY <2>1 DEF InFlight, BatchesFrom
  <2>3. ready \o InFlight = <<>>
    BY <2>1, <2>2
  <2>4. QED
    BY <2>1, <2>3 DEF FIFO!QInv, FIFO!QTypeOK, FIFO!InSubmissionOrder
<1>2. FIFO!QInv /\ RingInv /\ RingInv' /\ [Next]_vars => FIFO!QInv'
  <2> SUFFICES ASSUME FIFO!QInv, RingInv, RingInv', [Next]_vars
               PROVE  FIFO!QInv'
    OBVIOUS
  <2>1. [Queue!QNext]_(Queue!absvars)
    BY QueueStep
  <2>2. [FIFO!QNext]_(FIFO!absvars)
    BY <2>1
    DEF Queue!QNext, Queue!absvars, Queue!Accept, Queue!ReturnOne, Queue!ReturnAll,
        FIFO!QNext, FIFO!absvars, FIFO!Accept, FIFO!ReturnOne, FIFO!ReturnAll
  <2>3. QED
    BY <2>2, FIFO!QStep
<1>3. QED
  BY <1>1, <1>2, RingInvCorrect, PTL DEF Spec

\* Every batch the ring accepted is returned once and in submission order; none
\* is lost between a slot, ready and the caller.
THEOREM ResultsKeepOrder == Spec => []DeliveredInOrder
<1>1. RingInv /\ FIFO!QInv => DeliveredInOrder
  <2> SUFFICES ASSUME RingInv, FIFO!QInv PROVE DeliveredInOrder
    OBVIOUS
  <2>1. /\ Len(delivered) + Len(ready \o InFlight) = next_sequence
        /\ \A n \in 1..Len(delivered) : delivered[n].sequence = n - 1
    BY DEF FIFO!QInv, FIFO!InSubmissionOrder
  <2>2. /\ ready \in Seq(Batch) /\ InFlight \in Seq(Batch) /\ delivered \in Seq(Batch)
        /\ Len(InFlight) = busy_count
    BY BatchesFromFacts DEF RingInv, TypeOK, InFlight
  <2>3. Len(ready \o InFlight) = Len(ready) + busy_count
    BY <2>2, SMTT(40)
  <2>4. QED
    BY <2>1, <2>2, <2>3 DEF DeliveredInOrder
<1>2. QED
  BY <1>1, RingInvCorrect, FIFOInvCorrect, PTL
=============================================================================
