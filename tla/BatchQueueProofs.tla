-------------------------- MODULE BatchQueueProofs ---------------------------
(***************************************************************************)
(* The FIFO of BatchQueue returns every batch once, in submission order.   *)
(***************************************************************************)
EXTENDS BatchQueue, SequenceTheorems, TLAPS

QInv == QTypeOK /\ InSubmissionOrder

\* Every step of the queue keeps its order.
LEMMA QStep == QInv /\ [QNext]_absvars => QInv'
<1> SUFFICES ASSUME QInv, [QNext]_absvars
             PROVE  QInv'
  OBVIOUS
<1> USE DEF QInv, QTypeOK, InSubmissionOrder
<1>1. ASSUME NEW payload \in Payloads, Accept(payload)
      PROVE  QInv'
  <2> DEFINE new == [sequence |-> accepted, payload |-> payload]
  <2>1. new \in Batch
    BY DEF Batch
  <2>2. /\ queue' = Append(queue, new) /\ accepted' = accepted + 1
        /\ delivered' = delivered
    BY <1>1 DEF Accept
  <2>3. /\ queue' \in Seq(Batch) /\ Len(queue') = Len(queue) + 1
        /\ \A n \in 1..Len(queue) : queue'[n] = queue[n]
        /\ queue'[Len(queue) + 1] = new
    BY <2>1, <2>2, AppendProperties
  <2>4. new.sequence = accepted
    OBVIOUS
  <2> HIDE DEF new
  <2>5. ASSUME NEW n \in 1..Len(queue')
        PROVE  queue'[n].sequence = Len(delivered) + n - 1
    <3>1. CASE n \in 1..Len(queue)
      BY <2>3, <3>1
    <3>2. CASE n = Len(queue) + 1
      BY <2>3, <2>4, <3>2
    <3>3. QED
      BY <2>3, <3>1, <3>2
  <2>6. QTypeOK'
    BY <2>2, <2>3
  <2>7. Len(delivered') + Len(queue') = accepted'
    BY <2>2, <2>3
  <2>8. \A n \in 1..Len(delivered') : delivered'[n].sequence = n - 1
    BY <2>2
  <2>9. \A n \in 1..Len(queue') : queue'[n].sequence = Len(delivered') + n - 1
    BY <2>2, <2>5
  <2>10. QED
    BY ONLY <2>6, <2>7, <2>8, <2>9, Zenon DEF QInv, InSubmissionOrder
<1>2. CASE ReturnOne
  <2>1. /\ queue # <<>> /\ accepted' = accepted
        /\ queue' = Tail(queue) /\ delivered' = Append(delivered, Head(queue))
    BY <1>2 DEF ReturnOne
  <2>2. /\ Head(queue) \in Batch /\ queue' \in Seq(Batch)
        /\ Len(queue) > 0 /\ Len(queue') = Len(queue) - 1
        /\ Head(queue) = queue[1]
        /\ \A n \in 1..Len(queue') : queue'[n] = queue[n + 1]
    BY <2>1, HeadTailProperties
  <2>3. /\ delivered' \in Seq(Batch) /\ Len(delivered') = Len(delivered) + 1
        /\ \A n \in 1..Len(delivered) : delivered'[n] = delivered[n]
        /\ delivered'[Len(delivered) + 1] = queue[1]
    BY <2>1, <2>2, AppendProperties
  <2>4. QTypeOK'
    BY <2>1, <2>2, <2>3
  <2>5. Len(delivered') + Len(queue') = accepted'
    BY <2>1, <2>2, <2>3
  <2>6. \A n \in 1..Len(delivered') : delivered'[n].sequence = n - 1
    BY <2>1, <2>2, <2>3
  <2>7. \A n \in 1..Len(queue') : queue'[n].sequence = Len(delivered') + n - 1
    BY <2>1, <2>2, <2>3
  <2>8. QED
    BY ONLY <2>4, <2>5, <2>6, <2>7, Zenon DEF QInv, InSubmissionOrder
<1>3. CASE ReturnAll
  <2>1. /\ delivered' = delivered \o queue /\ queue' = <<>> /\ accepted' = accepted
    BY <1>3 DEF ReturnAll
  <2>2. /\ delivered' \in Seq(Batch) /\ Len(delivered') = Len(delivered) + Len(queue)
        /\ \A n \in 1..Len(delivered) : delivered'[n] = delivered[n]
        /\ \A n \in 1..Len(queue) : delivered'[Len(delivered) + n] = queue[n]
    BY <2>1
  <2>3. ASSUME NEW n \in 1..Len(delivered')
        PROVE  delivered'[n].sequence = n - 1
    <3>1. CASE n \in 1..Len(delivered)
      BY <2>2, <3>1
    <3>2. CASE n \notin 1..Len(delivered)
      <4>1. n - Len(delivered) \in 1..Len(queue)
        BY <2>2, <3>2
      <4>2. delivered'[n] = queue[n - Len(delivered)]
        BY <2>2, <4>1
      <4>3. QED
        BY <4>1, <4>2
    <3>3. QED
      BY <3>1, <3>2
  <2>4. QTypeOK'
    BY <2>1, <2>2
  <2>5. Len(delivered') + Len(queue') = accepted'
    BY <2>1, <2>2
  <2>6. \A n \in 1..Len(queue') : queue'[n].sequence = Len(delivered') + n - 1
    BY <2>1
  <2>7. QED
    BY ONLY <2>3, <2>4, <2>5, <2>6, Zenon DEF QInv, InSubmissionOrder
<1>4. CASE UNCHANGED absvars
  BY <1>4 DEF absvars
<1>5. QED
  BY <1>1, <1>2, <1>3, <1>4 DEF QNext

\* A FIFO of batches returns each exactly once and in the order submitted.
THEOREM QueueKeepsOrder == QSpec => [](QTypeOK /\ InSubmissionOrder)
<1>1. QInit => QInv
  BY DEF QInit, QInv, QTypeOK, InSubmissionOrder
<1>2. QED
  BY <1>1, QStep, PTL DEF QSpec, QInv
=============================================================================
