---------------------------- MODULE VSwitchProofs ----------------------------
(***************************************************************************)
(* Proofs about VSwitch for every set of endpoints, addresses, frames and  *)
(* faults and every bound: no copy of a frame is lost or sent twice, a     *)
(* blocked port is silent, and a capped port keeps its distance.           *)
(*                                                                         *)
(* None of the three is inductive.  Accounting needs that a handler starts *)
(* with nothing left to hand over; silence needs that nothing is dated     *)
(* after the clock, so that a fault installed now is later than all there  *)
(* is; spacing needs that the shaper's next_transmit_time is past every    *)
(* copy scheduled under the present cap.                                   *)
(***************************************************************************)
EXTENDS VSwitch, SequenceProofs

\* Copies are handed to deliver by drain_due and schedule alone.
HandoverPoints == outbox # <<>> => pc \in {"draining", "sending"}

\* Nothing is dated after the clock.
NothingFromTheFuture ==
  /\ \A e \in Endpoints : history.taught[e] <= now /\ history.since[e] <= now
  /\ \A c \in Range(pending \o outbox) : c.arrival <= now

\* The next_transmit_time of a capped port is past every copy scheduled under
\* the cap, and copies are of frames already counted.
NextIsPastCopies ==
  \A c \in Range(pending \o outbox) :
    LET state == port[c.from]
    IN  /\ c.id[1] < metrics.received
        /\ state.fault.cost > 0 /\ c.id[1] >= history.epoch[c.from]
             => c.due + state.fault.cost <= state.next

-----------------------------------------------------------------------------
(* What FaultEngine::evaluate decides.                                     *)

\* Two delivery times one after the other.
LEMMA PairIsConcat ==
  ASSUME NEW a \in Nat, NEW b \in Nat
  PROVE  <<a>> \o <<b>> = <<a, b>>
<1>1. <<a>> \in Seq(Nat) /\ <<b>> \in Seq(Nat) /\ <<a, b>> \in Seq(Nat)
  OBVIOUS
<1>2. Len(<<a>>) = 1 /\ Len(<<b>>) = 1 /\ Len(<<a, b>>) = 2
  OBVIOUS
<1> DEFINE both == <<a>> \o <<b>>
<1>3. both \in Seq(Nat) /\ Len(both) = 2 /\ both[1] = a /\ both[2] = b
  BY <1>1, <1>2, ConcatProperties
<1> HIDE DEF both
<1>4. \A i \in 1..2 : both[i] = <<a, b>>[i]
  BY <1>3
<1>5. both = <<a, b>>
  BY <1>1, <1>2, <1>3, <1>4, SeqEqual
<1>6. QED
  BY <1>5 DEF both

\* A single copy.
LEMMA OneFacts ==
  ASSUME NEW state \in [fault: Fault, next: Nat], NEW earliest \in Nat
  PROVE  \E t, n \in Nat :
           /\ One(state, earliest) = [times |-> <<t>>, next |-> n]
           /\ state.fault.cost > 0 => state.next <= t /\ t + state.fault.cost <= n
           /\ state.fault.cost = 0 => n = state.next
<1> DEFINE cost == state.fault.cost
           t == DeliveryTime(state.fault, earliest, state.next)
           n == NextTransmit(state.fault, t, state.next)
<1>1. cost \in Nat /\ state.next \in Nat
  BY DEF Fault
<1>2. t \in Nat /\ (cost > 0 => state.next <= t)
  BY <1>1, MaxOfTwo DEF DeliveryTime
<1>3. n \in Nat /\ (cost > 0 => t + cost <= n) /\ (cost = 0 => n = state.next)
  <2> HIDE DEF t
  <2> QED BY <1>1, <1>2 DEF NextTransmit
<1>4. One(state, earliest) = [times |-> <<t>>, next |-> n]
  BY DEF One
<1> HIDE DEF t, n
<1>5. QED BY <1>2, <1>3, <1>4

\* A duplicated frame: under a cap the second copy is charged like the first.
LEMMA TwoFacts ==
  ASSUME NEW state \in [fault: Fault, next: Nat], NEW earliest \in Nat
  PROVE  \E t, u, n \in Nat :
           /\ Two(state, earliest) = [times |-> <<t, u>>, next |-> n]
           /\ state.fault.cost > 0 =>
                /\ state.next <= t /\ t + state.fault.cost <= u
                /\ u + state.fault.cost <= n
           /\ state.fault.cost = 0 => n = state.next
<1> DEFINE cost == state.fault.cost
<1>0. cost \in Nat
  BY DEF Fault
<1>1. PICK t \in Nat, m \in Nat :
        /\ One(state, earliest) = [times |-> <<t>>, next |-> m]
        /\ cost > 0 => state.next <= t /\ t + cost <= m
        /\ cost = 0 => m = state.next
  BY OneFacts
<1> DEFINE again == [state EXCEPT !.next = m]
<1>2. again \in [fault: Fault, next: Nat] /\ again.fault = state.fault /\ again.next = m
  OBVIOUS
<1> HIDE DEF again
<1>3. PICK u \in Nat, n \in Nat :
        /\ One(again, earliest) = [times |-> <<u>>, next |-> n]
        /\ cost > 0 => m <= u /\ u + cost <= n
        /\ cost = 0 => n = m
  <2>1. \E u, n \in Nat :
          /\ One(again, earliest) = [times |-> <<u>>, next |-> n]
          /\ again.fault.cost > 0 => again.next <= u /\ u + again.fault.cost <= n
          /\ again.fault.cost = 0 => n = again.next
    BY <1>2, OneFacts, Zenon
  <2>2. QED BY <1>2, <2>1
<1>4. <<t>> \o <<u>> = <<t, u>>
  BY PairIsConcat
<1>5. Two(state, earliest) = [times |-> <<t, u>>, next |-> n]
  <2>1. Two(state, earliest) = [times |-> One(state, earliest).times \o One(again, earliest).times,
                                next |-> One(again, earliest).next]
    BY <1>1 DEF Two, again
  <2>2. QED BY <1>1, <1>3, <1>4, <2>1
<1>6. cost > 0 => state.next <= t /\ t + cost <= u /\ u + cost <= n
  BY <1>0, <1>1, <1>3
<1>7. QED BY <1>1, <1>3, <1>5, <1>6

\* What the invariants need to know of a decision: a frame that goes out was not
\* blocked, at most two copies, and under a cap they follow each other and what
\* was sent before.
Decided(state, d) ==
  LET cost == state.fault.cost
  IN  /\ d.times \in Seq(Nat) /\ Len(d.times) \in 0..2 /\ d.next \in Nat
      /\ d.times # <<>> => ~state.fault.blocked
      /\ cost > 0 =>
           /\ state.next <= d.next
           /\ \A k \in 1..Len(d.times) : /\ state.next <= d.times[k]
                                         /\ d.times[k] + cost <= d.next
           /\ Len(d.times) = 2 => d.times[1] + cost <= d.times[2]

\* evaluate only comes to such decisions.
LEMMA DecisionFacts ==
  ASSUME now \in Nat, NEW state \in [fault: Fault, next: Nat],
         NEW d \in FaultDecisions(state)
  PROVE  Decided(state, d)
<1> DEFINE cost == state.fault.cost
<1>1. state.fault \in Fault /\ state.next \in Nat /\ cost \in Nat
  BY DEF Fault
<1>2. CASE d = [times |-> <<>>, next |-> state.next]
  BY <1>1, <1>2 DEF Decided
<1>3. ASSUME NEW earliest \in Nat, ~state.fault.blocked,
             d = One(state, earliest) \/ d = Two(state, earliest)
      PROVE  Decided(state, d)
  <2>1. CASE d = One(state, earliest)
    <3>1. PICK t \in Nat, n \in Nat :
            /\ d = [times |-> <<t>>, next |-> n]
            /\ cost > 0 => state.next <= t /\ t + cost <= n
      BY <2>1, OneFacts
    <3>2. QED BY <1>1, <1>3, <3>1 DEF Decided
  <2>2. CASE d = Two(state, earliest)
    <3>1. PICK t \in Nat, u \in Nat, n \in Nat :
            /\ d = [times |-> <<t, u>>, next |-> n]
            /\ cost > 0 => state.next <= t /\ t + cost <= u /\ u + cost <= n
      BY <2>2, TwoFacts
    <3>2. d.times = <<t, u>> /\ d.next = n /\ Len(d.times) = 2
          /\ d.times[1] = t /\ d.times[2] = u /\ d.times \in Seq(Nat)
      BY <3>1
    <3>3. cost > 0 => state.next <= n /\ state.next <= u /\ t + cost <= n
      BY <1>1, <3>1
    <3>4. \A k \in 1..2 : k = 1 \/ k = 2
      OBVIOUS
    <3>5. QED BY <1>3, <3>1, <3>2, <3>3, <3>4 DEF Decided
  <2>3. QED BY <1>3, <2>1, <2>2
<1>4. CASE d # [times |-> <<>>, next |-> state.next]
  <2>1. \A j \in 0..state.fault.jitter : now + state.fault.latency + j \in Nat
    BY <1>1 DEF Fault
  <2>2. PICK earliest \in Nat : /\ ~state.fault.blocked
                                /\ d = One(state, earliest) \/ d = Two(state, earliest)
    BY <1>4, <2>1 DEF FaultDecisions
  <2>3. QED BY <2>2, <1>3
<1>5. QED BY <1>2, <1>4

-----------------------------------------------------------------------------
(* What schedule makes of a frame.                                         *)

\* The copies a decision makes of a frame, wherever they are sent.
CopiesOf(f, d) ==
  {[due |-> d.times[k], to |-> e, from |-> f.from, arrival |-> now,
    id |-> <<metrics.received, k>>] : k \in 1..Len(d.times), e \in Endpoints}

\* Frames only go to endpoints in the table.
LEMMA DestinationsTyped ==
  ASSUME TypeOK, NEW f \in Frames
  PROVE  /\ Learned(f) \in [Macs -> Endpoints \cup {NoEndpoint}]
         /\ Destinations(f) \in Seq(Endpoints)
<1> DEFINE t == Learned(f)
<1>1. f.from \in Endpoints /\ f.src \in Macs /\ f.dst \in Macs
  BY ConstantTypes
<1>2. t \in [Macs -> Endpoints \cup {NoEndpoint}]
  BY <1>1 DEF TypeOK, Learned
<1> HIDE DEF t
<1>3. EndpointsExcept(t, f.src) \in Seq(Endpoints)
  <2> DEFINE known == KnownMacs(t) \ {f.src}
             macs == SetToSeq(known)
             ends == [i \in 1..Len(macs) |-> t[macs[i]]]
  <2>1. known \subseteq Macs /\ \A m \in known : t[m] \in Endpoints
    BY <1>2 DEF KnownMacs
  <2>2. IsFiniteSet(known)
    BY <2>1, ConstantTypes, FS_Subset
  <2> HIDE DEF known
  <2>3. macs \in Seq(known)
    BY <2>2, SetToSeqType
  <2>4. Len(macs) \in Nat /\ \A i \in 1..Len(macs) : macs[i] \in known
    BY <2>3, LenProperties, ElementOfSeq
  <2> HIDE DEF macs
  <2>5. \A i \in 1..Len(macs) : t[macs[i]] \in Endpoints
    BY <2>1, <2>4
  <2>6. ends \in Seq(Endpoints)
    BY <2>4, <2>5, IsASeq
  <2>7. QED
    BY <2>6 DEF EndpointsExcept, known, macs
<1>4. Destinations(f) = IF t[f.dst] # NoEndpoint THEN <<t[f.dst]>>
                        ELSE IF f.dst = Broadcast THEN EndpointsExcept(t, f.src) ELSE <<>>
  BY DEF Destinations, t
<1>5. t[f.dst] # NoEndpoint => <<t[f.dst]>> \in Seq(Endpoints)
  BY <1>1, <1>2
<1>6. QED
  BY <1>2, <1>3, <1>4, <1>5, EmptySeq DEF t

\* schedule makes copies of the frame at hand and of no other, and none at all of a
\* frame to an unknown address.
LEMMA CopiesFacts ==
  ASSUME TypeOK, NEW f \in Frames, NEW d, d.times \in Seq(Nat), Len(d.times) \in 0..2
  PROVE  /\ CopiesOf(f, d) \subseteq Copy
         /\ Copies(f, d) \in Seq(CopiesOf(f, d))
         /\ Learned(f)[f.dst] = NoEndpoint /\ f.dst # Broadcast => Copies(f, d) = <<>>
<1> DEFINE dests == Destinations(f)
           times == d.times
           copy(i, k) == [due |-> times[k], to |-> dests[i], from |-> f.from,
                          arrival |-> now, id |-> <<metrics.received, k>>]
           row(i) == [k \in 1..Len(times) |-> copy(i, k)]
           rows == [i \in 1..Len(dests) |-> row(i)]
<1>1. f.from \in Endpoints /\ now \in Nat /\ metrics.received \in Nat
  BY ConstantTypes DEF TypeOK, Metrics
<1>2. dests \in Seq(Endpoints)
  BY DestinationsTyped
<1>3. /\ Len(dests) \in Nat /\ \A i \in 1..Len(dests) : dests[i] \in Endpoints
      /\ Len(times) \in Nat /\ \A k \in 1..Len(times) : times[k] \in Nat /\ k \in {1, 2}
  BY <1>2, LenProperties, ElementOfSeq, SMTT(40)
<1>4. CopiesOf(f, d) \subseteq Copy
  BY <1>1, <1>3, SMTT(40) DEF CopiesOf, Copy
<1>5. Copies(f, d) = FlattenSeq(rows)
  BY DEF Copies
<1>6. Learned(f)[f.dst] = NoEndpoint /\ f.dst # Broadcast => dests = <<>>
  BY DEF Destinations
<1> HIDE DEF dests
<1>7. ASSUME NEW i \in 1..Len(dests) PROVE row(i) \in Seq(CopiesOf(f, d))
  <2>1. \A k \in 1..Len(times) : copy(i, k) \in CopiesOf(f, d)
    BY <1>3, SMTT(40) DEF CopiesOf
  <2> HIDE DEF copy
  <2>2. QED BY <1>3, <2>1, IsASeq
<1>8. rows \in Seq(Seq(CopiesOf(f, d)))
  <2> HIDE DEF row
  <2> QED BY <1>3, <1>7, IsASeq
<1>9. dests = <<>> => FlattenSeq(rows) = <<>>
  <2> HIDE DEF row
  <2>1. SUFFICES ASSUME dests = <<>> PROVE FlattenSeq(rows) = <<>>
    OBVIOUS
  <2>2. rows = <<>>
    BY <2>1
  <2>3. Len(rows) = 0
    BY <2>2
  <2>4. QED
    BY <2>2, <2>3 DEF FlattenSeq
<1>10. QED
  <2> HIDE DEF rows
  <2> QED BY <1>4, <1>5, <1>6, <1>8, <1>9, FlattenType

\* What a frame that goes out adds to the copies: all of them are new, none is
\* lost between those sent at once and those deferred.
LEMMA ForwardFacts ==
  ASSUME TypeOK, NEW f \in Frames, NEW d, d.times \in Seq(Nat), Len(d.times) \in 0..2,
         Forward(f, d)
  PROVE  /\ pending' \in Seq(Copy) /\ outbox' \in Seq(Copy)
         /\ Range(pending' \o outbox') \subseteq Range(pending \o outbox) \cup CopiesOf(f, d)
         /\ Len(Copies(f, d)) \in Nat
         /\ Len(pending') + Len(outbox') = Len(pending) + Len(Copies(f, d))
         /\ pc' = "tick" => outbox' = <<>>
<1> DEFINE copies == Copies(f, d)
           sent == Select(copies, Due(copies))
           kept == Select(copies, Later(copies))
<1>1. /\ CopiesOf(f, d) \subseteq Copy /\ copies \in Seq(CopiesOf(f, d))
      /\ Learned(f)[f.dst] = NoEndpoint /\ f.dst # Broadcast => copies = <<>>
  BY CopiesFacts
<1>2. outbox' = sent /\ pending' = pending \o kept
  BY DEF Forward
<1>3. pc' = "tick" => copies = <<>>
  BY <1>1 DEF Forward
<1> HIDE DEF copies
<1>4. /\ sent \in Seq(CopiesOf(f, d)) /\ Range(sent) \subseteq CopiesOf(f, d)
      /\ kept \in Seq(CopiesOf(f, d)) /\ Range(kept) \subseteq CopiesOf(f, d)
  BY <1>1, SelectFacts, RangeOfSeq
<1>5. Len(sent) + Len(kept) = Len(copies)
  <2>1. copies \in Seq(Range(copies))
    BY <1>1, SeqOfRange
  <2>2. /\ Due(copies) \cap Later(copies) = {}
        /\ Range(copies) \subseteq Due(copies) \cup Later(copies)
    BY DEF Due, Later
  <2>3. QED BY <2>1, <2>2, SelectSplits
<1> HIDE DEF sent, kept
<1>6. sent \in Seq(Copy) /\ kept \in Seq(Copy) /\ pending \in Seq(Copy) /\ outbox \in Seq(Copy)
  BY <1>1, <1>4, SeqMonotonic DEF TypeOK
<1>7. /\ pending' \in Seq(Copy) /\ outbox' \in Seq(Copy)
      /\ Len(pending') = Len(pending) + Len(kept)
      /\ Range(pending') = Range(pending) \cup Range(kept)
  BY <1>2, <1>6, ConcatProperties, RangeConcatenation
<1>8. /\ Range(pending' \o outbox') = Range(pending') \cup Range(outbox')
      /\ Range(pending \o outbox) = Range(pending) \cup Range(outbox)
  BY <1>6, <1>7, RangeConcatenation
<1>9. /\ Len(copies) \in Nat /\ Len(sent) \in Nat /\ Len(kept) \in Nat
      /\ Len(pending) \in Nat
  BY <1>1, <1>6, LenProperties
<1>10. Len(pending') + Len(outbox') = Len(pending) + Len(copies)
  <2>1. ASSUME NEW p \in Nat, NEW k \in Nat, NEW s \in Nat
        PROVE  (p + k) + s = p + (s + k)
    OBVIOUS
  <2>2. (Len(pending) + Len(kept)) + Len(sent) = Len(pending) + (Len(sent) + Len(kept))
    BY <1>9, <2>1, ZenonT(60)
  <2>3. QED BY <1>2, <1>5, <1>7, <2>2, Zenon
<1>11. copies = <<>> => sent = <<>>
  <2>1. SUFFICES ASSUME copies = <<>> PROVE sent = <<>>
    OBVIOUS
  <2>2. Len(copies) = 0
    BY <2>1
  <2>3. Len(sent) = 0
    BY <1>5, <1>9, <2>2
  <2>4. QED BY <1>4, <2>3, EmptySeq
<1>12. QED
  BY <1>2, <1>3, <1>4, <1>7, <1>8, <1>9, <1>10, <1>11 DEF copies

\* drain_due hands over the due copies and keeps the others.
LEMMA DrainFacts ==
  ASSUME TypeOK, DrainDue
  PROVE  /\ pending' \in Seq(Copy) /\ outbox' \in Seq(Copy)
         /\ Range(pending' \o outbox') \subseteq Range(pending \o outbox)
         /\ Len(pending') + Len(outbox') = Len(pending)
<1>1. /\ outbox' = Select(pending, Due(pending))
      /\ pending' = Select(pending, Later(pending))
      /\ pending \in Seq(Copy) /\ outbox \in Seq(Copy)
  BY DEF DrainDue, TypeOK
<1>2. /\ pending' \in Seq(Copy) /\ Range(pending') \subseteq Range(pending)
      /\ outbox' \in Seq(Copy) /\ Range(outbox') \subseteq Range(pending)
  BY <1>1, SelectFacts
<1>3. Len(Select(pending, Later(pending))) + Len(Select(pending, Due(pending))) = Len(pending)
  <2>1. pending \in Seq(Range(pending))
    BY <1>1, SeqOfRange
  <2>2. /\ Later(pending) \cap Due(pending) = {}
        /\ Range(pending) \subseteq Later(pending) \cup Due(pending)
    BY DEF Due, Later
  <2>3. QED BY <2>1, <2>2, SelectSplits
<1>4. /\ Range(pending' \o outbox') = Range(pending') \cup Range(outbox')
      /\ Range(pending \o outbox) = Range(pending) \cup Range(outbox)
  BY <1>1, <1>2, RangeConcatenation
<1>5. QED BY <1>1, <1>2, <1>3, <1>4

-----------------------------------------------------------------------------
(* Type correctness.                                                       *)

\* The fields of history.
LEMMA HistoryFields ==
  ASSUME NEW h \in History
  PROVE  /\ h.copies \in Nat /\ h.failed \in Nat /\ h.discarded \in Nat /\ h.changes \in Nat
         /\ h.taught \in [Endpoints -> Nat] /\ h.since \in [Endpoints -> Nat]
         /\ h.epoch \in [Endpoints -> Nat]
BY DEF History

\* Counting keeps every counter a number, and only counts up.
LEMMA CountFacts ==
  ASSUME metrics \in Metrics, NEW counters, Count(counters)
  PROVE  /\ metrics' \in Metrics
         /\ \A c \in DOMAIN metrics :
              /\ metrics[c] \in Nat
              /\ metrics'[c] = IF c \in counters THEN metrics[c] + 1 ELSE metrics[c]
         /\ DOMAIN metrics = {"received", "malformed", "unknown", "dropped", "forwarded"}
BY DEF Metrics, Count

\* The fields of history can be assigned one at a time.
LEMMA HistoryAssign ==
  ASSUME NEW h \in History, NEW n \in Nat, NEW e \in Endpoints
  PROVE  /\ [h EXCEPT !.copies = n] \in History
         /\ [h EXCEPT !.failed = n] \in History
         /\ [h EXCEPT !.discarded = n] \in History
         /\ [h EXCEPT !.changes = n] \in History
         /\ [h EXCEPT !.taught[e] = n] \in History
         /\ [h EXCEPT !.since[e] = n] \in History
         /\ [h EXCEPT !.epoch[e] = n] \in History
<1>1. [h EXCEPT !.copies = n] \in History BY DEF History
<1>2. [h EXCEPT !.failed = n] \in History BY DEF History
<1>3. [h EXCEPT !.discarded = n] \in History BY DEF History
<1>4. [h EXCEPT !.changes = n] \in History BY DEF History
<1>5. [h EXCEPT !.taught[e] = n] \in History BY DEF History
<1>6. [h EXCEPT !.since[e] = n] \in History BY DEF History
<1>7. [h EXCEPT !.epoch[e] = n] \in History BY DEF History
<1>8. QED BY <1>1, <1>2, <1>3, <1>4, <1>5, <1>6, <1>7

\* A frame that parses was blocked or forwarded by some decision of evaluate.
LEMMA ReceiveFrameFacts ==
  ASSUME TypeOK, NEW f \in Frames, ReceiveFrame(f)
  PROVE  /\ f.from \in Endpoints
         /\ \E d : /\ Decided(port[f.from], d)
                   /\ Block(f, d) \/ Forward(f, d)
                   /\ port' = [port EXCEPT ![f.from].next = d.next]
         /\ Receiving /\ UNCHANGED <<running, socket, stopping, now>>
<1>1. f.from \in Endpoints /\ now \in Nat
  BY ConstantTypes DEF TypeOK
<1>2. port[f.from] \in [fault: Fault, next: Nat]
  BY <1>1 DEF TypeOK
<1>3. PICK d \in FaultDecisions(port[f.from]) :
        /\ Block(f, d) \/ Forward(f, d)
        /\ port' = [port EXCEPT ![f.from].next = d.next]
  BY DEF ReceiveFrame
<1>4. Decided(port[f.from], d)
  BY <1>1, <1>2, DecisionFacts
<1>5. QED BY <1>1, <1>3, <1>4 DEF ReceiveFrame

\* Every step keeps the types.
LEMMA TypeStep == TypeOK /\ [Next]_vars => TypeOK'
<1> SUFFICES ASSUME TypeOK, [Next]_vars PROVE TypeOK'
  OBVIOUS
<1>1. CASE Start BY <1>1 DEF Start, TypeOK
<1>2. CASE DrainDue
  <2>1. pending' \in Seq(Copy) /\ outbox' \in Seq(Copy)
    BY <1>2, DrainFacts
  <2>2. QED BY <1>2, <2>1 DEF DrainDue, TypeOK
<1>3. CASE Leave
  <2>1. Len(pending) \in Nat /\ <<>> \in Seq(Copy)
    BY LenProperties, EmptySeq DEF TypeOK
  <2>2. history' \in History
    <3>1. history \in History /\ history.discarded + Len(pending) \in Nat
      BY <2>1, HistoryFields DEF TypeOK
    <3>2. history' = [history EXCEPT !.discarded = history.discarded + Len(pending)]
      BY <1>3 DEF Leave
    <3>3. QED BY <3>1, <3>2 DEF History
  <2>3. QED BY <1>3, <2>1, <2>2 DEF Leave, TypeOK
<1>4. CASE Deliver
  <2>1. Tail(outbox) \in Seq(Copy)
    BY <1>4, TailRange DEF Deliver, TypeOK
  <2>2. metrics' \in Metrics
    BY <1>4, CountFacts DEF Deliver, TypeOK
  <2>3. history' \in History
    <3>1. history \in History /\ history.failed + 1 \in Nat
      BY HistoryFields DEF TypeOK
    <3>2. history' = history \/ history' = [history EXCEPT !.failed = history.failed + 1]
      BY <1>4 DEF Deliver
    <3>3. QED BY <3>1, <3>2 DEF History
  <2>4. QED BY <1>4, <2>1, <2>2, <2>3 DEF Deliver, TypeOK
<1>5. CASE EnterWait BY <1>5 DEF EnterWait, TypeOK
<1>6. CASE Timeout BY <1>6 DEF Timeout, TypeOK
<1>7. CASE WaitFails
  <2>1. Len(pending) \in Nat /\ <<>> \in Seq(Copy)
    BY LenProperties, EmptySeq DEF TypeOK
  <2>2. history' \in History
    <3>1. history \in History /\ history.discarded + Len(pending) \in Nat
      BY <2>1, HistoryFields DEF TypeOK
    <3>2. history' = [history EXCEPT !.discarded = history.discarded + Len(pending)]
      BY <1>7 DEF WaitFails
    <3>3. QED BY <3>1, <3>2 DEF History
  <2>3. QED BY <1>7, <2>1, <2>2 DEF WaitFails, TypeOK
<1>8. CASE Sent BY <1>8 DEF Sent, TypeOK
<1>9. CASE Tick BY <1>9 DEF Tick, TypeOK
<1>10. CASE ReceiveMalformed
  <2>1. metrics' \in Metrics
    BY <1>10 DEF ReceiveMalformed, TypeOK, Metrics, Count
  <2>2. QED BY <1>10, <2>1 DEF ReceiveMalformed, TypeOK
<1>11. ASSUME NEW f \in Frames, ReceiveFrame(f) PROVE TypeOK'
  <2>1. PICK d : /\ Decided(port[f.from], d)
                 /\ Block(f, d) \/ Forward(f, d)
                 /\ port' = [port EXCEPT ![f.from].next = d.next]
    BY <1>11, ReceiveFrameFacts
  <2>2. /\ d.times \in Seq(Nat) /\ Len(d.times) \in 0..2 /\ d.next \in Nat
        /\ f.from \in Endpoints /\ UNCHANGED <<running, socket, stopping, now>>
    BY <1>11, <2>1, ReceiveFrameFacts DEF Decided
  <2>3. port' \in [Endpoints -> [fault: Fault, next: Nat]]
    BY <2>1, <2>2 DEF TypeOK
  <2>4. CASE Block(f, d)
    <3>1. metrics' \in Metrics
      BY <2>4 DEF Block, TypeOK, Metrics, Count
    <3>2. QED BY <2>2, <2>3, <2>4, <3>1 DEF Block, TypeOK
  <2>5. CASE Forward(f, d)
    <3>1. pending' \in Seq(Copy) /\ outbox' \in Seq(Copy) /\ Len(Copies(f, d)) \in Nat
      BY <2>2, <2>5, ForwardFacts
    <3>2. table' \in [Macs -> Endpoints \cup {NoEndpoint}]
      BY <2>5, DestinationsTyped DEF Forward
    <3>3. metrics' \in Metrics
      BY <2>5, SMTT(40) DEF Forward, TypeOK, Metrics, Count
    <3>4. history' \in History
      <4> DEFINE h == [history EXCEPT !.copies = history.copies + Len(Copies(f, d))]
      <4>1. history \in History /\ history.copies + Len(Copies(f, d)) \in Nat /\ now \in Nat
        BY <3>1, HistoryFields DEF TypeOK
      <4>2. h \in History
        BY <2>2, <4>1, HistoryAssign
      <4>3. history' = [h EXCEPT !.taught[f.from] = now]
        BY <2>5 DEF Forward
      <4> HIDE DEF h
      <4>4. QED BY <2>2, <4>1, <4>2, <4>3, HistoryAssign
    <3>5. pc' \in {"tick", "sending"}
      BY <2>5 DEF Forward
    <3>6. QED BY <2>2, <2>3, <3>1, <3>2, <3>3, <3>4, <3>5 DEF TypeOK
  <2>6. QED BY <2>1, <2>4, <2>5
<1>12. ASSUME NEW e \in Endpoints, NEW fault \in Faults, TickSetsFault(e, fault) PROVE TypeOK'
  <2>1. history' \in History
    <3> DEFINE g == [history EXCEPT !.changes = history.changes + 1]
               h == [g EXCEPT !.since[e] = now]
    <3>1. /\ history \in History /\ history.changes + 1 \in Nat
          /\ now \in Nat /\ metrics.received \in Nat
      BY HistoryFields DEF TypeOK, Metrics
    <3>2. g \in History
      BY <3>1, HistoryAssign
    <3>3. history' = [h EXCEPT !.epoch[e] = metrics.received]
      BY <1>12 DEF TickSetsFault
    <3> HIDE DEF g
    <3>4. h \in History
      BY <3>1, <3>2, HistoryAssign
    <3> HIDE DEF h
    <3>5. QED BY <3>1, <3>3, <3>4, HistoryAssign
  <2>2. fault \in Fault
    BY ConstantTypes
  <2>3. port' \in [Endpoints -> [fault: Fault, next: Nat]]
    BY <1>12, <2>2 DEF TickSetsFault, TypeOK
  <2>4. QED BY <1>12, <2>1, <2>3 DEF TickSetsFault, TypeOK
<1>13. CASE StopExchange BY <1>13 DEF StopExchange, TypeOK
<1>14. CASE StopClose BY <1>14 DEF StopClose, TypeOK
<1>15. CASE Clock BY <1>15 DEF Clock, TypeOK
<1>16. CASE UNCHANGED vars BY <1>16 DEF vars, TypeOK
<1>17. QED
  BY <1>1, <1>2, <1>3, <1>4, <1>5, <1>6, <1>7, <1>8, <1>9, <1>10, <1>11, <1>12, <1>13,
     <1>14, <1>15, <1>16 DEF Next, Loop, Receive, Gate, Stop

\* The types hold when the switch is made.
LEMMA TypeInit == Init => TypeOK
<1> SUFFICES ASSUME Init PROVE TypeOK
  OBVIOUS
<1>1. NoFault \in Fault
  BY DEF NoFault, Fault
<1>2. metrics \in Metrics /\ history \in History
  BY DEF Init, Metrics, History
<1>3. <<>> \in Seq(Copy)
  BY EmptySeq
<1>4. QED
  BY <1>1, <1>2, <1>3 DEF Init, TypeOK

\* Every variable of the switch has its type, whatever frames arrive and faults
\* are installed: deferred copies go to endpoints and have a time.
THEOREM TypeCorrect == Spec => []TypeOK
BY TypeInit, TypeStep, PTL DEF Spec

-----------------------------------------------------------------------------
(* No copy is lost or sent twice.                                          *)

\* Each action moves copies between the places that account for them.
LEMMA AccountingStep ==
  TypeOK /\ HandoverPoints /\ CopiesAccountedFor /\ [Next]_vars
    => HandoverPoints' /\ CopiesAccountedFor'
<1> SUFFICES ASSUME TypeOK, HandoverPoints, CopiesAccountedFor, [Next]_vars
             PROVE  HandoverPoints' /\ CopiesAccountedFor'
  OBVIOUS
<1>1. /\ pending \in Seq(Copy) /\ outbox \in Seq(Copy)
      /\ Len(pending) \in Nat /\ Len(outbox) \in Nat
  BY LenProperties DEF TypeOK
<1>2. /\ history \in History /\ metrics \in Metrics
      /\ metrics.forwarded \in Nat /\ history.failed \in Nat /\ history.discarded \in Nat
      /\ history.copies \in Nat
  BY HistoryFields DEF TypeOK, Metrics
<1>3. history.copies = metrics.forwarded + history.failed + history.discarded
                       + Len(pending) + Len(outbox)
  BY DEF CopiesAccountedFor
<1>4. outbox = <<>> => Len(outbox) = 0
  OBVIOUS
<1>5. ASSUME UNCHANGED <<pending, outbox, history>>, metrics'.forwarded = metrics.forwarded,
             outbox # <<>> => pc' \in {"draining", "sending"}
      PROVE  HandoverPoints' /\ CopiesAccountedFor'
  BY <1>5 DEF HandoverPoints, CopiesAccountedFor
<1>6. CASE Start
  BY <1>5, <1>6 DEF Start, HandoverPoints
<1>7. CASE DrainDue
  <2>1. outbox = <<>> /\ UNCHANGED <<history, metrics>> /\ pc' = "draining"
    BY <1>7 DEF DrainDue, HandoverPoints
  <2>2. /\ pending' \in Seq(Copy) /\ outbox' \in Seq(Copy)
        /\ Len(pending') + Len(outbox') = Len(pending)
    BY <1>7, DrainFacts
  <2>3. Len(pending') \in Nat /\ Len(outbox') \in Nat
    BY <2>2, LenProperties
  <2>4. CopiesAccountedFor'
    <3>1. PICK q \in Nat, r \in Nat : q = Len(pending') /\ r = Len(outbox')
      BY <2>3
    <3>2. PICK g \in Nat, p \in Nat, o \in Nat :
            /\ g = metrics.forwarded + history.failed + history.discarded
            /\ p = Len(pending) /\ o = Len(outbox)
      BY <1>1, <1>2
    <3>3. history.copies = g + p + o /\ o = 0 /\ q + r = p
      BY <1>3, <1>4, <2>1, <2>2, <3>1, <3>2
    <3>4. g + p + o = g + q + r
      BY <3>3
    <3>5. history'.copies = metrics'.forwarded + history'.failed + history'.discarded + q + r
      BY <2>1, <3>2, <3>3, <3>4
    <3>6. QED BY <3>1, <3>5 DEF CopiesAccountedFor
  <2>5. QED BY <2>1, <2>4 DEF HandoverPoints
<1>8. ASSUME pending' = <<>>, UNCHANGED <<outbox, metrics>>, outbox = <<>>,
             history' = [history EXCEPT !.discarded = @ + Len(pending)]
      PROVE  HandoverPoints' /\ CopiesAccountedFor'
  <2>1. /\ history'.copies = history.copies /\ history'.failed = history.failed
        /\ history'.discarded = history.discarded + Len(pending)
    BY <1>2, <1>8 DEF History
  <2>2. Len(pending') = 0
    BY <1>8
  <2>3. CopiesAccountedFor'
    BY <1>1, <1>2, <1>3, <1>4, <1>8, <2>1, <2>2 DEF CopiesAccountedFor
  <2>4. QED BY <1>8, <2>3 DEF HandoverPoints
<1>9. CASE Leave
  BY <1>8, <1>9 DEF Leave, HandoverPoints
<1>10. CASE WaitFails
  BY <1>8, <1>10 DEF WaitFails, HandoverPoints
<1>11. CASE Deliver
  <2>1. /\ Len(outbox') = Len(outbox) - 1
        /\ UNCHANGED <<pc, pending>> /\ pc \in {"draining", "sending"}
    BY <1>1, <1>11, TailRange DEF Deliver, HandoverPoints
  <2>2. \/ UNCHANGED history /\ metrics'.forwarded = metrics.forwarded + 1
        \/ /\ history' = [history EXCEPT !.failed = history.failed + 1]
           /\ metrics'.forwarded = metrics.forwarded
    BY <1>2, <1>11, CountFacts DEF Deliver
  <2>3. \/ /\ UNCHANGED <<history.copies, history.discarded, history.failed>>
           /\ metrics'.forwarded = metrics.forwarded + 1
        \/ /\ UNCHANGED <<history.copies, history.discarded>>
           /\ history'.failed = history.failed + 1
           /\ metrics'.forwarded = metrics.forwarded
    BY <1>2, <2>2 DEF History
  <2>4. CopiesAccountedFor'
    <3>1. PICK a \in Nat, b \in Nat, c \in Nat, p \in Nat, o \in Nat :
            /\ a = metrics.forwarded /\ b = history.failed /\ c = history.discarded
            /\ p = Len(pending) /\ o = Len(outbox)
      BY <1>1, <1>2
    <3>2. /\ a + b + c + p + o = (a + 1) + b + c + p + (o - 1)
          /\ a + b + c + p + o = a + (b + 1) + c + p + (o - 1)
      OBVIOUS
    <3>3. history.copies = a + b + c + p + o
      BY <1>3, <3>1, Zenon
    <3>4. Len(outbox') = o - 1 /\ Len(pending') = p
      BY <2>1, <3>1
    <3>5. QED BY <2>3, <3>1, <3>2, <3>3, <3>4, Zenon DEF CopiesAccountedFor
  <2>5. QED BY <2>1, <2>4 DEF HandoverPoints
<1>12. CASE EnterWait
  BY <1>5, <1>12 DEF EnterWait, HandoverPoints
<1>13. CASE Timeout
  BY <1>5, <1>13 DEF Timeout, HandoverPoints
<1>14. CASE Sent
  BY <1>5, <1>14 DEF Sent, HandoverPoints
<1>15. CASE Tick
  BY <1>5, <1>15 DEF Tick, HandoverPoints
<1>16. CASE ReceiveMalformed
  <2>1. metrics'.forwarded = metrics.forwarded
    BY <1>2, <1>16, CountFacts DEF ReceiveMalformed
  <2>2. QED
    BY <1>5, <1>16, <2>1 DEF ReceiveMalformed, Receiving, HandoverPoints
<1>17. ASSUME NEW f \in Frames, ReceiveFrame(f) PROVE HandoverPoints' /\ CopiesAccountedFor'
  <2>1. PICK d : Decided(port[f.from], d) /\ (Block(f, d) \/ Forward(f, d))
    BY <1>17, ReceiveFrameFacts
  <2>2. d.times \in Seq(Nat) /\ Len(d.times) \in 0..2
    BY <2>1 DEF Decided
  <2>3. outbox = <<>>
    BY <1>17, ReceiveFrameFacts DEF Receiving, HandoverPoints
  <2>4. CASE Block(f, d)
    <3>1. metrics'.forwarded = metrics.forwarded
      BY <1>2, <2>4, CountFacts DEF Block
    <3>2. QED
      BY <1>5, <2>3, <2>4, <3>1 DEF Block
  <2>5. CASE Forward(f, d)
    <3>1. /\ pending' \in Seq(Copy) /\ outbox' \in Seq(Copy)
          /\ Len(Copies(f, d)) \in Nat
          /\ Len(pending') + Len(outbox') = Len(pending) + Len(Copies(f, d))
          /\ pc' = "tick" => outbox' = <<>>
      BY <2>2, <2>5, ForwardFacts
    <3>2. metrics'.forwarded = metrics.forwarded
      <4>1. PICK counters : Count(counters) /\ "forwarded" \notin counters
        BY <2>5 DEF Forward
      <4>2. QED BY <1>2, <4>1, CountFacts
    <3>3. /\ history'.copies = history.copies + Len(Copies(f, d))
          /\ history'.failed = history.failed /\ history'.discarded = history.discarded
      BY <1>2, <2>5 DEF Forward, History
    <3>4. Len(pending') \in Nat /\ Len(outbox') \in Nat
      BY <3>1, LenProperties
    <3>5. CopiesAccountedFor'
      <4>1. PICK q \in Nat, r \in Nat, n \in Nat :
              q = Len(pending') /\ r = Len(outbox') /\ n = Len(Copies(f, d))
        BY <3>1, <3>4
      <4>2. PICK g \in Nat, p \in Nat, o \in Nat :
              /\ g = metrics.forwarded + history.failed + history.discarded
              /\ p = Len(pending) /\ o = Len(outbox)
        BY <1>1, <1>2
      <4>3. history.copies = g + p + o /\ o = 0 /\ q + r = p + n
        BY <1>3, <1>4, <2>3, <3>1, <4>1, <4>2
      <4>4. g + p + o + n = g + q + r
        BY <4>3
      <4>5. history'.copies = metrics'.forwarded + history'.failed + history'.discarded + q + r
        BY <3>2, <3>3, <4>1, <4>2, <4>3, <4>4
      <4>6. QED BY <4>1, <4>5 DEF CopiesAccountedFor
    <3>6. pc' \in {"tick", "sending"}
      BY <2>5 DEF Forward
    <3>7. QED BY <3>1, <3>5, <3>6 DEF HandoverPoints
  <2>6. QED BY <2>1, <2>4, <2>5
<1>18. ASSUME NEW e \in Endpoints, NEW fault \in Faults, TickSetsFault(e, fault)
       PROVE  HandoverPoints' /\ CopiesAccountedFor'
  <2>1. /\ history'.copies = history.copies /\ history'.failed = history.failed
        /\ history'.discarded = history.discarded
    BY <1>2, <1>18 DEF TickSetsFault, History
  <2>2. UNCHANGED <<pending, outbox, metrics>> /\ outbox = <<>>
    BY <1>18 DEF TickSetsFault, HandoverPoints
  <2>3. QED
    BY <2>1, <2>2 DEF HandoverPoints, CopiesAccountedFor
<1>19. CASE StopExchange
  BY <1>5, <1>19 DEF StopExchange, HandoverPoints
<1>20. CASE StopClose
  BY <1>5, <1>20 DEF StopClose, HandoverPoints
<1>21. CASE Clock
  BY <1>5, <1>21 DEF Clock, HandoverPoints
<1>22. CASE UNCHANGED vars
  BY <1>5, <1>22 DEF vars, HandoverPoints
<1>23. QED
  BY <1>6, <1>7, <1>9, <1>10, <1>11, <1>12, <1>13, <1>14, <1>15, <1>16, <1>17, <1>18,
     <1>19, <1>20, <1>21, <1>22 DEF Next, Loop, Receive, Gate, Stop

-----------------------------------------------------------------------------
(* Blocked ports are silent and capped ports keep their distance.          *)

\* What is said of the copies still to be sent.
PoolInv == BlockedPortsAreSilent /\ CapSpacesCopies /\ NothingFromTheFuture /\ NextIsPastCopies

\* The copies still to be sent.
Pool == Range(pending \o outbox)

\* Every copy is one.
LEMMA PoolTyped == TypeOK => Pool \subseteq Copy
<1> SUFFICES ASSUME TypeOK PROVE Pool \subseteq Copy
  OBVIOUS
<1>1. pending \o outbox \in Seq(Copy)
  BY ConcatProperties DEF TypeOK
<1>2. QED
  BY <1>1, RangeOfSeq DEF Pool

\* Steps that schedule nothing and change no fault keep what is said of the pool.
LEMMA PoolShrinks ==
  ASSUME TypeOK, TypeOK', PoolInv, Pool' \subseteq Pool, UNCHANGED port,
         history'.taught = history.taught, history'.since = history.since,
         history'.epoch = history.epoch,
         metrics.received <= metrics'.received, now <= now'
  PROVE  PoolInv'
<1>1. /\ history.taught \in [Endpoints -> Nat] /\ history.since \in [Endpoints -> Nat]
      /\ metrics.received \in Nat /\ metrics'.received \in Nat /\ now \in Nat /\ now' \in Nat
  BY HistoryFields DEF TypeOK, Metrics
<1>2. Pool \subseteq Copy
  BY PoolTyped
<1>3. BlockedPortsAreSilent'
  BY DEF PoolInv, BlockedPortsAreSilent, Pool
<1>4. CapSpacesCopies'
  BY DEF PoolInv, CapSpacesCopies, Pool
<1>5. NothingFromTheFuture'
  <2>1. \A c \in Pool : c.arrival \in Nat
    BY <1>2 DEF Copy
  <2>2. \A c \in Pool : c.arrival <= now'
    BY <1>1, <2>1 DEF PoolInv, NothingFromTheFuture, Pool
  <2>3. \A e \in Endpoints : history.taught[e] <= now' /\ history.since[e] <= now'
    BY <1>1 DEF PoolInv, NothingFromTheFuture
  <2>4. QED BY <2>2, <2>3 DEF NothingFromTheFuture, Pool
<1>6. NextIsPastCopies'
  <2>1. \A c \in Pool : c.id[1] \in Nat
    BY <1>2 DEF Copy
  <2>2. \A c \in Pool : c.id[1] < metrics'.received
    BY <1>1, <2>1 DEF PoolInv, NextIsPastCopies, Pool
  <2>3. QED BY <2>2 DEF PoolInv, NextIsPastCopies, Pool
<1>7. QED BY <1>3, <1>4, <1>5, <1>6 DEF PoolInv

\* A frame that was judged keeps what is said of the pool, whether it was blocked
\* or its copies were scheduled: the sender of new copies is not blocked, and under
\* a cap they come after every copy of the sender in the pool.
LEMMA FrameKeepsPool ==
  ASSUME TypeOK, TypeOK', PoolInv, NEW f \in Frames, NEW d, Decided(port[f.from], d),
         port' = [port EXCEPT ![f.from].next = d.next],
         Pool' \subseteq Pool \cup CopiesOf(f, d),
         history'.since = history.since, history'.epoch = history.epoch,
         \/ history'.taught = history.taught
         \/ /\ d.times # <<>>
            /\ history'.taught = [history.taught EXCEPT ![f.from] = now],
         metrics'.received = metrics.received + 1, now' = now
  PROVE  PoolInv'
<1>1. /\ history.taught \in [Endpoints -> Nat] /\ history.since \in [Endpoints -> Nat]
      /\ history.epoch \in [Endpoints -> Nat]
      /\ metrics.received \in Nat /\ now \in Nat /\ f.from \in Endpoints
      /\ port \in [Endpoints -> [fault: Fault, next: Nat]]
  BY HistoryFields, ConstantTypes DEF TypeOK, Metrics
<1>2. /\ d.times \in Seq(Nat) /\ Len(d.times) \in 0..2 /\ d.next \in Nat
      /\ d.times # <<>> => ~port[f.from].fault.blocked
  BY DEF Decided
<1>3. Pool \subseteq Copy /\ CopiesOf(f, d) \subseteq Copy /\ Pool' \subseteq Copy
  <2>1. Pool \subseteq Copy /\ CopiesOf(f, d) \subseteq Copy
    BY <1>2, PoolTyped, CopiesFacts
  <2>2. QED BY <2>1
<1>4. \A e \in Endpoints : /\ port'[e].fault = port[e].fault
                           /\ e # f.from => port'[e].next = port[e].next
                           /\ e = f.from => port'[e].next = d.next
  BY <1>1, SMTT(40)
<1>5. \A c \in CopiesOf(f, d) :
        /\ d.times # <<>> /\ c.from = f.from /\ c.arrival = now
        /\ \E k \in 1..Len(d.times) : c.due = d.times[k] /\ c.id = <<metrics.received, k>>
  <2>1. SUFFICES ASSUME NEW k \in 1..Len(d.times), NEW e \in Endpoints, NEW c,
                        c = [due |-> d.times[k], to |-> e, from |-> f.from, arrival |-> now,
                             id |-> <<metrics.received, k>>]
                 PROVE  /\ d.times # <<>> /\ c.from = f.from /\ c.arrival = now
                        /\ c.due = d.times[k] /\ c.id = <<metrics.received, k>>
    BY DEF CopiesOf
  <2>2. d.times # <<>>
    BY <1>2
  <2>3. QED BY <2>1, <2>2
<1>6. BlockedPortsAreSilent'
  <2>1. SUFFICES ASSUME NEW e \in Endpoints, port[e].fault.blocked
                 PROVE  /\ history'.taught[e] <= history.since[e]
                        /\ \A c \in Pool' : c.from = e => c.arrival <= history.since[e]
    BY <1>4 DEF BlockedPortsAreSilent, Pool
  <2>2. e # f.from \/ d.times = <<>>
    BY <1>2, <2>1
  <2>3. /\ history.taught[e] <= history.since[e]
        /\ \A c \in Pool : c.from = e => c.arrival <= history.since[e]
    BY <2>1 DEF PoolInv, BlockedPortsAreSilent, Pool
  <2>4. \A c \in CopiesOf(f, d) : c.from # e
    BY <1>5, <2>2
  <2>5. history'.taught[e] = history.taught[e]
    BY <1>1, <2>2
  <2>6. QED BY <2>3, <2>4, <2>5
<1>7. NothingFromTheFuture'
  <2>1. \A c \in Pool' : c.arrival <= now
    BY <1>1, <1>5, SMTT(40) DEF PoolInv, NothingFromTheFuture, Pool
  <2>2. \A e \in Endpoints : history'.taught[e] <= now /\ history.since[e] <= now
    <3>1. \A e \in Endpoints : history.taught[e] <= now /\ history.since[e] <= now
      BY DEF PoolInv, NothingFromTheFuture
    <3>2. \A e \in Endpoints : history'.taught[e] = history.taught[e] \/ history'.taught[e] = now
      BY <1>1
    <3>3. now <= now
      BY <1>1
    <3>4. QED BY <3>1, <3>2, <3>3, Zenon
  <2>3. QED BY <2>1, <2>2 DEF NothingFromTheFuture, Pool
<1>8. NextIsPastCopies'
  <2>1. SUFFICES ASSUME NEW c \in Pool'
                 PROVE  /\ c.id[1] < metrics.received + 1
                        /\ port[c.from].fault.cost > 0 /\ c.id[1] >= history.epoch[c.from]
                             => c.due + port[c.from].fault.cost <= port'[c.from].next
    BY <1>3, <1>4 DEF NextIsPastCopies, Pool, Copy
  <2>2. c.from \in Endpoints /\ c.id[1] \in Nat /\ c.due \in Nat
    BY <1>3 DEF Copy
  <2>3. port[c.from].fault.cost \in Nat /\ port[c.from].next \in Nat
    BY <1>1, <2>2 DEF Fault
  <2>4. CASE c \in Pool
    <3>1. /\ c.id[1] < metrics.received
          /\ port[c.from].fault.cost > 0 /\ c.id[1] >= history.epoch[c.from]
               => c.due + port[c.from].fault.cost <= port[c.from].next
      BY <2>4 DEF PoolInv, NextIsPastCopies, Pool
    <3>2. port[c.from].fault.cost > 0 => port[c.from].next <= port'[c.from].next
      BY <1>4, <2>2, <2>3 DEF Decided
    <3>3. port'[c.from].next \in Nat
      BY <1>2, <1>4, <2>2, <2>3
    <3>4. c.id[1] < metrics.received + 1
      <4>1. \A i, r \in Nat : i < r => i < r + 1
        OBVIOUS
      <4>2. QED BY <1>1, <2>2, <3>1, <4>1, Zenon
    <3>5. ASSUME NEW due \in Nat, NEW cost \in Nat, NEW m \in Nat, NEW n \in Nat,
                 due + cost <= m, m <= n
          PROVE  due + cost <= n
      BY <3>5
    <3>6. QED BY <2>2, <2>3, <3>1, <3>2, <3>3, <3>4, <3>5, ZenonT(60)
  <2>5. CASE c \in CopiesOf(f, d)
    <3>1. PICK k \in 1..Len(d.times) : c.due = d.times[k] /\ c.id = <<metrics.received, k>>
      BY <1>5, <2>5
    <3>2. c.from = f.from
      BY <1>5, <2>5
    <3>3. port[f.from].fault.cost > 0 => d.times[k] + port[f.from].fault.cost <= d.next
      BY DEF Decided
    <3>4. QED BY <1>1, <1>4, <3>1, <3>2, <3>3
  <2>6. QED BY <2>4, <2>5
<1>9. CapSpacesCopies'
  <2>1. SUFFICES ASSUME NEW c \in Pool', NEW b \in Pool', c.from = b.from, c.id # b.id,
                        c.id[1] >= history.epoch[c.from], b.id[1] >= history.epoch[c.from],
                        c.due <= b.due
                 PROVE  b.due - c.due >= port[c.from].fault.cost
    BY <1>3, <1>4 DEF CapSpacesCopies, Pool, Copy
  <2>2. /\ c.from \in Endpoints /\ c.id \in Nat \X {1, 2} /\ c.due \in Nat
        /\ b.from \in Endpoints /\ b.id \in Nat \X {1, 2} /\ b.due \in Nat
    BY <1>3 DEF Copy
  <2> DEFINE cost == port[c.from].fault.cost
             next == port[c.from].next
  <2>3. cost \in Nat /\ next \in Nat
    BY <1>1, <2>2 DEF Fault
  <2>4. CASE cost = 0
    BY <2>1, <2>2, <2>3, <2>4
  <2>5. CASE cost > 0
    <3>1. \A x \in Pool : x.from = c.from /\ x.id[1] >= history.epoch[c.from]
                           => x.due + cost <= next
      BY <2>5 DEF PoolInv, NextIsPastCopies, Pool
    <3>2. \A x \in CopiesOf(f, d) : x.from = c.from => next <= x.due
      <4>1. SUFFICES ASSUME NEW x \in CopiesOf(f, d), x.from = c.from PROVE next <= x.due
        OBVIOUS
      <4>2. PICK k \in 1..Len(d.times) : x.due = d.times[k]
        BY <1>5
      <4>3. f.from = c.from
        BY <1>5, <4>1
      <4>4. QED BY <2>5, <4>2, <4>3 DEF Decided
    <3>3. CASE c \in Pool /\ b \in Pool
      BY <2>1, <3>3 DEF PoolInv, CapSpacesCopies, Pool
    <3>4. CASE c \in Pool /\ b \in CopiesOf(f, d)
      BY <2>1, <2>2, <2>3, <3>1, <3>2, <3>4
    <3>5. CASE c \in CopiesOf(f, d) /\ b \in Pool
      <4>1. b.due + cost <= next /\ next <= c.due
        BY <2>1, <3>1, <3>2, <3>5
      <4>2. FALSE
        BY <2>1, <2>2, <2>3, <2>5, <4>1
      <4>3. QED BY <4>2
    <3>6. CASE c \in CopiesOf(f, d) /\ b \in CopiesOf(f, d)
      <4>1. PICK k \in 1..Len(d.times) : c.due = d.times[k] /\ c.id = <<metrics.received, k>>
        BY <1>5, <3>6
      <4>2. PICK j \in 1..Len(d.times) : b.due = d.times[j] /\ b.id = <<metrics.received, j>>
        BY <1>5, <3>6
      <4>3. k # j /\ f.from = c.from
        BY <1>5, <2>1, <3>6, <4>1, <4>2
      <4>4. Len(d.times) = 2 /\ ((k = 1 /\ j = 2) \/ (k = 2 /\ j = 1))
        <5>1. PICK n \in 0..2 : n = Len(d.times)
          BY <1>2
        <5>2. k \in 1..n /\ j \in 1..n
          BY <5>1
        <5>3. n = 2 /\ ((k = 1 /\ j = 2) \/ (k = 2 /\ j = 1))
          BY <4>3, <5>2
        <5>4. QED BY <5>1, <5>3
      <4>5. d.times[1] + cost <= d.times[2]
        BY <2>5, <4>3, <4>4 DEF Decided
      <4>6. d.times[1] \in Nat /\ d.times[2] \in Nat
        BY <1>2, <4>4, ElementOfSeq
      <4>7. CASE k = 1 /\ j = 2
        BY <2>3, <4>1, <4>2, <4>5, <4>6, <4>7
      <4>8. CASE k = 2 /\ j = 1
        BY <2>1, <2>3, <2>5, <4>1, <4>2, <4>5, <4>6, <4>8
      <4>9. QED BY <4>4, <4>7, <4>8
    <3>7. QED BY <3>3, <3>4, <3>5, <3>6
  <2>6. QED BY <2>3, <2>4, <2>5
<1>10. QED BY <1>6, <1>7, <1>8, <1>9 DEF PoolInv

\* A new fault counts from now: no copy in the pool was scheduled under it.
LEMMA FaultKeepsPool ==
  ASSUME TypeOK, PoolInv, NEW e \in Endpoints, NEW fault \in Faults, TickSetsFault(e, fault)
  PROVE  PoolInv'
<1>1. /\ history \in History
      /\ history.taught \in [Endpoints -> Nat] /\ history.since \in [Endpoints -> Nat]
      /\ history.epoch \in [Endpoints -> Nat]
      /\ metrics.received \in Nat /\ now \in Nat
      /\ port \in [Endpoints -> [fault: Fault, next: Nat]]
  BY HistoryFields DEF TypeOK, Metrics
<1>2. Pool \subseteq Copy
  BY PoolTyped
<1>3. /\ history'.taught = history.taught
      /\ history'.since = [history.since EXCEPT ![e] = now]
      /\ history'.epoch = [history.epoch EXCEPT ![e] = metrics.received]
  BY <1>1 DEF TickSetsFault, History
<1>4. Pool' = Pool /\ now' = now /\ metrics' = metrics
  BY DEF TickSetsFault, Pool
<1>5. \A x \in Endpoints \ {e} : port'[x] = port[x]
  BY DEF TickSetsFault, TypeOK
<1>6. \A c \in Pool : /\ c.from \in Endpoints /\ c.id[1] \in Nat /\ c.arrival <= now
                     /\ c.id[1] < metrics.received
  BY <1>2 DEF PoolInv, NothingFromTheFuture, NextIsPastCopies, Pool, Copy
<1>7. BlockedPortsAreSilent'
  <2>1. SUFFICES ASSUME NEW x \in Endpoints, port'[x].fault.blocked
                 PROVE  /\ history'.taught[x] <= history'.since[x]
                        /\ \A c \in Pool : c.from = x => c.arrival <= history'.since[x]
    BY <1>4 DEF BlockedPortsAreSilent, Pool
  <2>2. CASE x = e
    BY <1>1, <1>3, <1>6, <2>2 DEF PoolInv, NothingFromTheFuture
  <2>3. CASE x # e
    BY <1>1, <1>3, <1>5, <2>1, <2>3 DEF PoolInv, BlockedPortsAreSilent, Pool
  <2>4. QED BY <2>2, <2>3
<1>8. NothingFromTheFuture'
  BY <1>1, <1>3, <1>4 DEF PoolInv, NothingFromTheFuture, Pool
<1>9. \A c \in Pool : c.from = e => ~(c.id[1] >= history'.epoch[c.from])
  BY <1>1, <1>3, <1>6
<1>10. \A c \in Pool : c.from # e => /\ history'.epoch[c.from] = history.epoch[c.from]
                                   /\ port'[c.from] = port[c.from]
  BY <1>1, <1>3, <1>5, <1>6
<1>11. NextIsPastCopies'
  BY <1>4, <1>6, <1>9, <1>10 DEF PoolInv, NextIsPastCopies, Pool
<1>12. CapSpacesCopies'
  BY <1>4, <1>9, <1>10 DEF PoolInv, CapSpacesCopies, Pool
<1>13. QED BY <1>7, <1>8, <1>11, <1>12 DEF PoolInv

\* Every step keeps what is said of the pool.
LEMMA PoolStep == TypeOK /\ TypeOK' /\ PoolInv /\ [Next]_vars => PoolInv'
<1> SUFFICES ASSUME TypeOK, TypeOK', PoolInv, [Next]_vars PROVE PoolInv'
  OBVIOUS
<1>1. /\ history \in History /\ metrics \in Metrics /\ metrics.received \in Nat /\ now \in Nat
      /\ pending \in Seq(Copy) /\ outbox \in Seq(Copy)
  BY DEF TypeOK, Metrics
<1>2. ASSUME Pool' \subseteq Pool, UNCHANGED port,
             \/ UNCHANGED history
             \/ history' = [history EXCEPT !.failed = history.failed + 1]
             \/ history' = [history EXCEPT !.discarded = history.discarded + Len(pending)],
             UNCHANGED metrics \/ \E counters : Count(counters),
             now' = now \/ now' = now + 1
      PROVE  PoolInv'
  <2>1. /\ history'.taught = history.taught /\ history'.since = history.since
        /\ history'.epoch = history.epoch
    BY <1>1, <1>2 DEF History
  <2>2. metrics.received <= metrics'.received
    <3>1. metrics'.received = metrics.received \/ metrics'.received = metrics.received + 1
      BY <1>1, <1>2, CountFacts
    <3>2. QED BY <1>1, <3>1
  <2>3. now <= now'
    BY <1>1, <1>2
  <2>4. QED
    BY <1>2, <2>1, <2>2, <2>3, PoolShrinks
<1>3. Pool = Range(pending) \cup Range(outbox)
  BY <1>1, RangeConcatenation DEF Pool
<1>4. pending' \in Seq(Copy) /\ outbox' \in Seq(Copy)
      => Pool' = Range(pending') \cup Range(outbox')
  BY RangeConcatenation DEF Pool
<1>5. ASSUME UNCHANGED <<pending, outbox, port, metrics, history>>, now' = now \/ now' = now + 1
      PROVE  PoolInv'
  BY <1>2, <1>5 DEF Pool
<1>6. CASE Start
  BY <1>5, <1>6 DEF Start
<1>7. CASE DrainDue
  <2>1. Pool' \subseteq Pool
    BY <1>7, DrainFacts DEF Pool
  <2>2. QED BY <1>2, <1>7, <2>1 DEF DrainDue
<1>8. ASSUME pending' = <<>>, UNCHANGED <<outbox, port, metrics, now>>,
             history' = [history EXCEPT !.discarded = history.discarded + Len(pending)]
      PROVE  PoolInv'
  <2>1. pending' \in Seq(Copy) /\ Range(pending') = {}
    BY <1>8, EmptySeq DEF Range
  <2>2. Pool' \subseteq Pool
    BY <1>1, <1>3, <1>4, <1>8, <2>1
  <2>3. QED BY <1>2, <1>8, <2>2
<1>9. CASE Leave
  BY <1>8, <1>9 DEF Leave
<1>10. CASE WaitFails
  BY <1>8, <1>10 DEF WaitFails
<1>11. CASE Deliver
  <2>1. outbox' \in Seq(Copy) /\ Range(outbox') \subseteq Range(outbox) /\ pending' = pending
    BY <1>1, <1>11, TailRange DEF Deliver
  <2>2. Pool' \subseteq Pool
    BY <1>1, <1>3, <1>4, <2>1
  <2>3. QED BY <1>2, <1>11, <2>2 DEF Deliver
<1>12. CASE EnterWait
  BY <1>5, <1>12 DEF EnterWait
<1>13. CASE Timeout
  BY <1>5, <1>13 DEF Timeout
<1>14. CASE Sent
  BY <1>5, <1>14 DEF Sent
<1>15. CASE Tick
  BY <1>5, <1>15 DEF Tick
<1>16. CASE ReceiveMalformed
  <2>1. Pool' \subseteq Pool
    BY <1>16 DEF ReceiveMalformed, Pool
  <2>2. QED BY <1>2, <1>16, <2>1 DEF ReceiveMalformed
<1>17. ASSUME NEW f \in Frames, ReceiveFrame(f) PROVE PoolInv'
  <2>1. PICK d : /\ Decided(port[f.from], d)
                 /\ Block(f, d) \/ Forward(f, d)
                 /\ port' = [port EXCEPT ![f.from].next = d.next]
    BY <1>17, ReceiveFrameFacts
  <2>2. /\ d.times \in Seq(Nat) /\ Len(d.times) \in 0..2 /\ f.from \in Endpoints
        /\ now' = now
    BY <1>17, <2>1, ReceiveFrameFacts DEF Decided
  <2>3. metrics'.received = metrics.received + 1
    <3>1. PICK counters : Count(counters) /\ "received" \in counters
      BY <2>1 DEF Block, Forward
    <3>2. QED BY <1>1, <3>1, CountFacts
  <2>4. CASE Block(f, d)
    <3>1. Pool' \subseteq Pool \cup CopiesOf(f, d)
      BY <2>4 DEF Block, Pool
    <3>2. UNCHANGED history
      BY <2>4 DEF Block
    <3>3. QED BY <2>1, <2>2, <2>3, <3>1, <3>2, FrameKeepsPool
  <2>5. CASE Forward(f, d)
    <3>1. Pool' \subseteq Pool \cup CopiesOf(f, d)
      BY <2>2, <2>5, ForwardFacts DEF Pool
    <3>2. /\ history'.since = history.since /\ history'.epoch = history.epoch
          /\ history'.taught = [history.taught EXCEPT ![f.from] = now] /\ d.times # <<>>
      BY <1>1, <2>5 DEF Forward, History
    <3>3. QED BY <2>1, <2>2, <2>3, <3>1, <3>2, FrameKeepsPool
  <2>6. QED BY <2>1, <2>4, <2>5
<1>18. ASSUME NEW e \in Endpoints, NEW fault \in Faults, TickSetsFault(e, fault) PROVE PoolInv'
  BY <1>18, FaultKeepsPool
<1>19. CASE StopExchange
  BY <1>5, <1>19 DEF StopExchange
<1>20. CASE StopClose
  BY <1>5, <1>20 DEF StopClose
<1>21. CASE Clock
  BY <1>5, <1>21 DEF Clock
<1>22. CASE UNCHANGED vars
  BY <1>5, <1>22 DEF vars
<1>23. QED
  BY <1>6, <1>7, <1>9, <1>10, <1>11, <1>12, <1>13, <1>14, <1>15, <1>16, <1>17, <1>18,
     <1>19, <1>20, <1>21, <1>22 DEF Next, Loop, Receive, Gate, Stop

\* The inductive invariant.
SwitchInv == TypeOK /\ HandoverPoints /\ CopiesAccountedFor /\ PoolInv

\* The inductive invariant holds in every state.
LEMMA SwitchInvCorrect == Spec => []SwitchInv
<1>1. Init => SwitchInv
  <2> SUFFICES ASSUME Init PROVE SwitchInv
    OBVIOUS
  <2>1. TypeOK
    BY TypeInit
  <2>2. Pool = {}
    <3>1. pending \o outbox = <<>>
      BY EmptySeq, ConcatEmptySeq DEF Init
    <3>2. QED BY <3>1 DEF Pool, Range
  <2>3. \A e \in Endpoints : ~port[e].fault.blocked
    BY DEF Init, NoFault
  <2>4. /\ \A e \in Endpoints : history.taught[e] = 0 /\ history.since[e] = 0
        /\ now = 0
    BY DEF Init
  <2>5. PoolInv
    BY <2>2, <2>3, <2>4 DEF PoolInv, BlockedPortsAreSilent, CapSpacesCopies,
         NothingFromTheFuture, NextIsPastCopies, Pool
  <2>6. HandoverPoints /\ CopiesAccountedFor
    <3>1. Len(pending) = 0 /\ Len(outbox) = 0 /\ outbox = <<>>
      BY DEF Init
    <3>2. /\ history.copies = 0 /\ metrics.forwarded = 0 /\ history.failed = 0
          /\ history.discarded = 0
      BY DEF Init
    <3>3. QED BY <3>1, <3>2 DEF HandoverPoints, CopiesAccountedFor
  <2>7. QED BY <2>1, <2>5, <2>6 DEF SwitchInv
<1>2. SwitchInv /\ [Next]_vars => SwitchInv'
  BY TypeStep, AccountingStep, PoolStep DEF SwitchInv
<1>3. QED
  BY <1>1, <1>2, PTL DEF Spec

\* Every copy schedule made is deferred, about to be sent, counted or discarded, at
\* whatever point stop() closes the socket.
THEOREM NoCopyIsLost == Spec => []CopiesAccountedFor
<1>1. SwitchInv => CopiesAccountedFor
  BY DEF SwitchInv
<1>2. QED BY <1>1, SwitchInvCorrect, PTL

\* Since a port was blocked it has taught the table nothing, and the copies of its
\* frames still to be sent arrived before that.
THEOREM IsolationHolds == Spec => []BlockedPortsAreSilent
<1>1. SwitchInv => BlockedPortsAreSilent
  BY DEF SwitchInv, PoolInv
<1>2. QED BY <1>1, SwitchInvCorrect, PTL

\* Two copies scheduled under a port's present cap are due at least one transmission
\* time apart.
THEOREM CapsAreKept == Spec => []CapSpacesCopies
<1>1. SwitchInv => CapSpacesCopies
  BY DEF SwitchInv, PoolInv
<1>2. QED BY <1>1, SwitchInvCorrect, PTL
=============================================================================
