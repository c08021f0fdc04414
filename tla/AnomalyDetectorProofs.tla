------------------------ MODULE AnomalyDetectorProofs ------------------------
(***************************************************************************)
(* Proofs about AnomalyDetector for every window, every threshold and any  *)
(* sequence of batches, times and resets: the deque is the window, and     *)
(* what is active is what the window justifies.                            *)
(*                                                                         *)
(* expire only looks at the front of the deque.  That this is enough needs *)
(* the order of what was seen: the clamped clock makes times grow, so what *)
(* is too old is a prefix.                                                 *)
(***************************************************************************)
EXTENDS AnomalyDetector, SequenceProofs

\* The observations of s are ordered by time, the last not later than t.
TimeOrdered(s, t) ==
  /\ \A i \in 1..Len(s) : s[i].at \in Nat /\ s[i].at <= t
  /\ \A i, j \in 1..Len(s) : i <= j => s[i].at <= s[j].at

\* What was seen is ordered by time and not later than the clock.
Ordered == clock \in Nat /\ seen \in Seq(Range(seen)) /\ TimeOrdered(seen, clock)

\* The first k of a sequence are older than c, the others are not.
Splits(s, k, c) ==
  /\ k \in 0..Len(s)
  /\ \A i \in 1..k : s[i].at < c
  /\ \A i \in k + 1..Len(s) : s[i].at >= c

\* o is what is left of s without its first k elements.
IsRest(o, s, k) == o \in Seq(Range(s)) /\ Drops(o, s, k)

\* The deque is what was seen without a prefix that is too old.
DetectorInv == Ordered /\ \E k : Splits(seen, k, cutoff(clock)) /\ IsRest(observations, seen, k)

\* What is selected by the window is what is left behind the prefix.
LEMMA WindowIsRest ==
  ASSUME Ordered, NEW k, Splits(seen, k, cutoff(clock))
  PROVE  IsRest(WindowOf(seen), seen, k)
<1> DEFINE T == {o \in Range(seen) : clock <= Window \/ o.at >= clock - Window}
<1>1. WindowOf(seen) = Select(seen, T)
  BY DEF WindowOf
<1>2. /\ seen \in Seq(Range(seen)) /\ clock \in Nat /\ Window \in Nat /\ Len(seen) \in Nat
      /\ k \in 0..Len(seen)
  BY LenProperties, WindowAssumption DEF Ordered, Splits
<1>3. \A i \in 1..Len(seen) : seen[i] \in Range(seen) /\ seen[i].at \in Nat
  BY <1>2, ElementOfSeq DEF Ordered, TimeOrdered
<1>4. ASSUME NEW i \in 1..Len(seen)
      PROVE  seen[i] \in T <=> seen[i].at >= cutoff(clock)
  <2>1. seen[i] \in T <=> clock <= Window \/ seen[i].at >= clock - Window
    BY <1>3
  <2>2. clock <= Window \/ seen[i].at >= clock - Window <=> seen[i].at >= cutoff(clock)
    BY <1>2, <1>3 DEF cutoff
  <2>3. QED BY <2>1, <2>2
<1>5. cutoff(clock) \in Nat
  BY <1>2 DEF cutoff
<1> HIDE DEF T
<1>6. \A i \in 1..k : seen[i] \notin T
  BY <1>2, <1>3, <1>4, <1>5 DEF Splits
<1>7. \A i \in k + 1..Len(seen) : seen[i] \in T
  BY <1>2, <1>4 DEF Splits
<1>8. AllAfter(seen, T, k)
  BY <1>6, <1>7 DEF AllAfter
<1>9. Drops(Select(seen, T), seen, k)
  BY <1>2, <1>8, SelectSuffix
<1>10. Select(seen, T) \in Seq(Range(seen))
  BY <1>2, SelectFacts
<1>11. QED BY <1>1, <1>9, <1>10 DEF IsRest

\* Two sequences that are both what is left behind a prefix are the same.
LEMMA RestIsUnique ==
  ASSUME NEW s, NEW k, NEW o, NEW p, IsRest(o, s, k), IsRest(p, s, k)
  PROVE  o = p
<1>1. /\ o \in Seq(Range(s)) /\ p \in Seq(Range(s)) /\ Len(o) = Len(p)
      /\ \A i \in 1..Len(o) : o[i] = p[i]
  BY DEF IsRest, Drops
<1>2. QED BY <1>1, SeqEqual

\* The inductive invariant says what the deque holds.
LEMMA InvImpliesWindow == DetectorInv => DequeIsWindow
BY WindowIsRest, RestIsUnique DEF DetectorInv, DequeIsWindow

\* expire leaves what is young enough of a deque that is ordered by time.
LEMMA ExpireFacts ==
  ASSUME NEW S, NEW o \in Seq(S), NEW t \in Nat,
         TimeOrdered(o, t)
  PROVE  /\ expire(o, t) \in Seq(S)
         /\ \E e : Splits(o, e, cutoff(t)) /\ Drops(expire(o, t), o, e)
<1> DEFINE c == cutoff(t)
           N == {n \in 0..Len(o) : \A i \in 1..n : o[i].at < c}
           e == Max(N)
<1>1. Len(o) \in Nat /\ \A i \in 1..Len(o) : o[i] \in S
  BY LenProperties, ElementOfSeq
<1>2. c \in Nat
  BY WindowAssumption DEF cutoff
<1>3. N \subseteq 0..Len(o) /\ 0 \in N
  BY <1>1
<1>4. e \in N /\ \A n \in N : e >= n
  <2> HIDE DEF N
  <2> QED BY <1>1, <1>3, MaxFacts
<1>5. e = ExpiredCount(o, t)
  BY DEF ExpiredCount
<1> HIDE DEF e
<1>6. e \in 0..Len(o) /\ \A i \in 1..e : o[i].at < c
  BY <1>4
<1>7. e < Len(o) => o[e + 1].at >= c
  <2>1. SUFFICES ASSUME e < Len(o), o[e + 1].at < c PROVE FALSE
    BY <1>1, <1>2, <1>6 DEF TimeOrdered
  <2>2. \A i \in 1..e + 1 : i \in 1..e \/ i = e + 1
    BY <1>6
  <2>3. \A i \in 1..e + 1 : o[i].at < c
    BY <1>6, <2>1, <2>2
  <2>4. e + 1 \in 0..Len(o)
    BY <1>1, <1>6, <2>1
  <2>5. e >= e + 1
    BY <1>4, <2>3, <2>4
  <2>6. QED BY <1>6, <2>5
<1>8. \A i \in e + 1..Len(o) : o[i].at >= c
  <2>1. SUFFICES ASSUME NEW i \in e + 1..Len(o) PROVE o[i].at >= c
    OBVIOUS
  <2>2. /\ e < Len(o) /\ e + 1 \in 1..Len(o) /\ i \in 1..Len(o) /\ e + 1 <= i
    BY <1>1, <1>6
  <2>3. o[e + 1].at <= o[i].at /\ o[e + 1].at \in Nat /\ o[i].at \in Nat
    BY <2>2 DEF TimeOrdered
  <2>4. QED BY <1>2, <1>7, <2>2, <2>3
<1>9. Splits(o, e, c)
  BY <1>6, <1>8 DEF Splits
<1> HIDE DEF c
<1> DEFINE x == SubSeq(o, e + 1, Len(o))
<1>10. expire(o, t) = x
  BY <1>5 DEF expire
<1>11. e + 1 \in Int /\ Len(o) \in Int /\ \A i \in e + 1..Len(o) : o[i] \in S
  BY <1>1, <1>6
<1>12. /\ x \in Seq(S) /\ Len(x) = IF e + 1 <= Len(o) THEN Len(o) - (e + 1) + 1 ELSE 0
       /\ \A i \in 1..Len(o) - (e + 1) + 1 : x[i] = o[(e + 1) + i - 1]
  BY <1>11, SubSeqProperties
<1> HIDE DEF x
<1>13. Len(x) = Len(o) - e
  BY <1>1, <1>6, <1>12
<1>14. \A i \in 1..Len(o) - e : x[i] = o[e + i]
  <2>1. SUFFICES ASSUME NEW i \in 1..Len(o) - e PROVE x[i] = o[e + i]
    OBVIOUS
  <2>2. i \in 1..Len(o) - (e + 1) + 1 /\ (e + 1) + i - 1 = e + i
    BY <1>1, <1>6
  <2>3. x[i] = o[(e + 1) + i - 1]
    BY <1>12, <2>2
  <2>4. QED BY <2>2, <2>3
<1>15. QED
  BY <1>9, <1>10, <1>12, <1>13, <1>14 DEF c, Drops

\* What an evaluation does to the deque, as a fact about sequences: s was seen, o is
\* its rest behind k, n arrives at u and everything too old is expired.
LEMMA ArriveFacts ==
  ASSUME NEW S, NEW s \in Seq(S), NEW o \in Seq(S), NEW n \in Seq(S), NEW k,
         NEW t \in Nat, NEW u \in Nat, t <= u,
         TimeOrdered(s, t), \A i \in 1..Len(n) : n[i].at = u,
         Splits(s, k, cutoff(t)), IsRest(o, s, k)
  PROVE  /\ TimeOrdered(s \o n, u)
         /\ expire(o \o n, u) \in Seq(S)
         /\ \E j : Splits(s \o n, j, cutoff(u)) /\ Drops(expire(o \o n, u), s \o n, j)
<1> DEFINE w == s \o n
           v == o \o n
<1>1. PICK a \in Nat : a = Len(s)
  BY LenProperties
<1>2. PICK b \in Nat : b = Len(n)
  BY LenProperties
<1>3. k \in 0..a /\ Len(o) = a - k /\ \A i \in 1..a - k : o[i] = s[k + i]
  BY <1>1 DEF Splits, IsRest, Drops
<1>4. /\ w \in Seq(S) /\ Len(w) = a + b
      /\ \A i \in 1..a + b : w[i] = IF i <= a THEN s[i] ELSE n[i - a]
  BY <1>1, <1>2, ConcatProperties
<1>5. /\ v \in Seq(S) /\ Len(v) = (a - k) + b
      /\ \A i \in 1..(a - k) + b : v[i] = IF i <= a - k THEN o[i] ELSE n[i - (a - k)]
  <2>1. /\ v \in Seq(S) /\ Len(v) = Len(o) + Len(n)
        /\ \A i \in 1..Len(o) + Len(n) : v[i] = IF i <= Len(o) THEN o[i] ELSE n[i - Len(o)]
    BY ConcatProperties
  <2> HIDE DEF v
  <2>2. QED BY <1>2, <1>3, <2>1
<1> HIDE DEF w, v
<1>6. ASSUME NEW i \in 1..(a - k) + b PROVE k + i \in 1..a + b /\ v[i] = w[k + i]
  <2>1. k + i \in 1..a + b
    BY <1>3
  <2>2. CASE i <= a - k
    <3>1. i \in 1..a - k /\ k + i <= a
      BY <1>3, <2>2
    <3>2. QED BY <1>3, <1>4, <1>5, <2>1, <2>2, <3>1
  <2>3. CASE ~(i <= a - k)
    <3>1. ~(k + i <= a) /\ (k + i) - a = i - (a - k)
      BY <1>3, <2>3
    <3>2. QED BY <1>4, <1>5, <2>1, <2>3, <3>1
  <2>4. QED BY <2>2, <2>3
<1>7. ASSUME NEW i \in 1..a + b PROVE w[i].at \in Nat /\ w[i].at <= u
  <2>1. CASE i <= a
    <3>1. i \in 1..a
      BY <2>1
    <3>2. s[i].at \in Nat /\ s[i].at <= t
      BY <1>1, <3>1 DEF TimeOrdered
    <3>3. w[i] = s[i]
      BY <1>4, <2>1
    <3>4. s[i].at <= u
      BY <3>2
    <3>5. QED BY <3>2, <3>3, <3>4
  <2>2. CASE ~(i <= a)
    <3>1. i - a \in 1..b
      BY <2>2
    <3>2. QED BY <1>2, <1>4, <2>2, <3>1
  <2>3. QED BY <2>1, <2>2
<1>8. ASSUME NEW i \in 1..a + b, NEW j \in 1..a + b, i <= j PROVE w[i].at <= w[j].at
  <2>1. CASE j <= a
    <3>1. i \in 1..a /\ j \in 1..a /\ i <= a
      BY <1>8, <2>1
    <3>2. s[i].at <= s[j].at
      BY <1>1, <1>8, <3>1 DEF TimeOrdered
    <3>3. QED BY <1>4, <2>1, <3>1, <3>2
  <2>2. CASE ~(j <= a)
    <3>1. j - a \in 1..b
      BY <2>2
    <3>2. w[j].at = u
      BY <1>2, <1>4, <2>2, <3>1
    <3>3. QED BY <1>7, <3>2
  <2>3. QED BY <2>1, <2>2
<1>9. TimeOrdered(w, u)
  BY <1>4, <1>7, <1>8 DEF TimeOrdered
<1>10. \A i \in 1..Len(v) : v[i].at \in Nat /\ v[i].at <= u
  BY <1>5, <1>6, <1>7
<1>11. \A i, j \in 1..Len(v) : i <= j => v[i].at <= v[j].at
  <2>1. SUFFICES ASSUME NEW i \in 1..(a - k) + b, NEW j \in 1..(a - k) + b, i <= j
                 PROVE  v[i].at <= v[j].at
    BY <1>5
  <2>2. k + i <= k + j
    BY <1>3, <2>1
  <2>3. w[k + i].at <= w[k + j].at
    BY <1>6, <1>8, <2>2
  <2>4. QED BY <1>6, <2>3
<1>12. /\ expire(v, u) \in Seq(S)
       /\ \E e : Splits(v, e, cutoff(u)) /\ Drops(expire(v, u), v, e)
  <2>1. v \in Seq(S) /\ TimeOrdered(v, u)
    BY <1>5, <1>10, <1>11 DEF TimeOrdered
  <2>2. QED BY <2>1, ExpireFacts
<1>12a. PICK e : /\ Splits(v, e, cutoff(u))
               /\ Len(expire(v, u)) = Len(v) - e
               /\ \A i \in 1..Len(v) - e : expire(v, u)[i] = v[e + i]
  BY <1>12 DEF Drops
<1>13. e \in 0..(a - k) + b
  BY <1>5, <1>12a DEF Splits
<1>14. PICK j \in Nat : j = k + e
  BY <1>3, <1>13
<1>15. j \in 0..a + b
  BY <1>3, <1>13, <1>14
<1>16. cutoff(t) \in Nat /\ cutoff(u) \in Nat /\ cutoff(t) <= cutoff(u)
  BY WindowAssumption DEF cutoff
<1>17. ASSUME NEW i \in 1..j PROVE w[i].at < cutoff(u)
  <2>1. CASE i <= k
    <3>1. i \in 1..k /\ i \in 1..a + b /\ i <= a
      BY <1>3, <1>15, <2>1
    <3>2. s[i].at < cutoff(t) /\ w[i] = s[i]
      BY <1>4, <3>1 DEF Splits
    <3>3. w[i].at \in Nat
      BY <1>7, <3>1
    <3>4. QED BY <1>16, <3>2, <3>3
  <2>2. CASE ~(i <= k)
    <3>1. i - k \in 1..e /\ i - k \in 1..(a - k) + b /\ k + (i - k) = i
      BY <1>3, <1>13, <1>14, <2>2
    <3>2. v[i - k].at < cutoff(u)
      BY <1>12a, <3>1 DEF Splits
    <3>3. v[i - k] = w[k + (i - k)]
      BY <1>6, <3>1
    <3>4. QED BY <3>1, <3>2, <3>3
  <2>3. QED BY <2>1, <2>2
<1>18. ASSUME NEW i \in j + 1..a + b PROVE w[i].at >= cutoff(u)
  <2>1. i - k \in e + 1..(a - k) + b /\ i - k \in 1..(a - k) + b /\ k + (i - k) = i
    BY <1>3, <1>13, <1>14, <1>15
  <2>2. v[i - k].at >= cutoff(u)
    BY <1>5, <1>12a, <2>1 DEF Splits
  <2>3. v[i - k] = w[k + (i - k)]
    BY <1>6, <2>1
  <2>4. QED BY <2>1, <2>2, <2>3
<1>19. Splits(w, j, cutoff(u))
  BY <1>4, <1>15, <1>17, <1>18 DEF Splits
<1>20. Len(expire(v, u)) = Len(w) - j
  <2>1. ((a - k) + b) - e = (a + b) - j
    BY <1>3, <1>13, <1>14
  <2>2. QED BY <1>4, <1>5, <1>12a, <2>1
<1>21. ASSUME NEW i \in 1..(a + b) - j PROVE expire(v, u)[i] = w[j + i]
  <2>1. /\ i \in 1..((a - k) + b) - e /\ e + i \in 1..(a - k) + b
        /\ k + (e + i) = j + i
    BY <1>3, <1>13, <1>14, <1>15
  <2>2. expire(v, u)[i] = v[e + i]
    BY <1>5, <1>12a, <2>1
  <2>3. v[e + i] = w[k + (e + i)]
    BY <1>6, <2>1
  <2>4. QED BY <2>1, <2>2, <2>3
<1>22. QED
  BY <1>4, <1>9, <1>12, <1>19, <1>20, <1>21 DEF w, v, Drops

\* An observation of a batch that arrives at t carries that time.
LEMMA ObserveFacts ==
  ASSUME NEW S, NEW batch \in Seq(S), NEW t \in Nat
  PROVE  /\ Observe(batch, t) \in Seq(Range(Observe(batch, t)))
         /\ \A i \in 1..Len(Observe(batch, t)) : Observe(batch, t)[i].at = t
<1> DEFINE n == Observe(batch, t)
<1>1. Len(batch) \in Nat /\ DOMAIN n = 1..Len(batch)
  BY LenProperties DEF Observe
<1>2. \A i \in 1..Len(batch) : n[i] \in Range(n)
  BY <1>1 DEF Range
<1>3. n \in [1..Len(batch) -> Range(n)]
  <2>1. n = [i \in 1..Len(batch) |-> n[i]]
    BY DEF Observe
  <2> HIDE DEF n
  <2>2. QED BY <1>2, <2>1
<1>4. n \in Seq(Range(n)) /\ Len(n) = Len(batch)
  <2> HIDE DEF n
  <2>1. n \in Seq(Range(n))
    BY <1>1, <1>3, SeqDef
  <2>2. QED BY <1>1, <2>1, LenProperties
<1>5. \A i \in 1..Len(batch) : n[i].at = t
  BY DEF Observe
<1>6. QED
  BY <1>4, <1>5

\* An evaluation keeps the inductive invariant, and what it leaves active is what the
\* deque justifies.
LEMMA EvaluateStep ==
  ASSUME DetectorInv, NEW packets, NEW batch \in Seq(packets), NEW t \in Nat, Evaluate(batch, t)
  PROVE  DetectorInv' /\ active_anomalies' = Candidates(observations')
<1> DEFINE u == ClampedClock(t)
           n == Observe(batch, u)
           S == Range(seen) \cup Range(n)
           x == expire(observations \o n, u)
<1>1. /\ clock' = u /\ observations' = x /\ seen' = seen \o n
      /\ active_anomalies' = Candidates(x)
  BY DEF Evaluate, Detect, NextActive
<1>2. u \in Nat /\ clock <= u /\ clock \in Nat
  <2>1. clock \in Nat
    BY DEF DetectorInv, Ordered
  <2>2. u \in Nat /\ u >= clock
    BY <2>1, MaxOfTwo DEF ClampedClock
  <2> HIDE DEF u
  <2>3. QED BY <2>1, <2>2
<1> HIDE DEF u
<1>3. n \in Seq(Range(n)) /\ \A i \in 1..Len(n) : n[i].at = u
  BY <1>2, ObserveFacts
<1> HIDE DEF n
<1>4. PICK k : Splits(seen, k, cutoff(clock)) /\ IsRest(observations, seen, k)
  BY DEF DetectorInv
<1>5. /\ seen \in Seq(Range(seen)) /\ TimeOrdered(seen, clock)
      /\ observations \in Seq(Range(seen))
  BY <1>4 DEF DetectorInv, Ordered, IsRest
<1>6. seen \in Seq(S) /\ observations \in Seq(S) /\ n \in Seq(S)
  <2>1. Range(seen) \subseteq S /\ Range(n) \subseteq S
    OBVIOUS
  <2>2. QED BY <1>3, <1>5, <2>1, SeqMonotonic
<1>7. Range(seen \o n) = S /\ seen \o n \in Seq(S)
  BY <1>6, RangeConcatenation, ConcatProperties
<1> HIDE DEF S
<1>8. /\ TimeOrdered(seen \o n, u)
      /\ x \in Seq(S)
      /\ \E j : Splits(seen \o n, j, cutoff(u)) /\ Drops(x, seen \o n, j)
  BY <1>2, <1>3, <1>4, <1>5, <1>6, ArriveFacts, Zenon
<1> HIDE DEF x
<1>9. Ordered'
  BY <1>1, <1>2, <1>7, <1>8 DEF Ordered, TimeOrdered
<1>10. \E j : Splits(seen', j, cutoff(clock')) /\ IsRest(observations', seen', j)
  BY <1>1, <1>7, <1>8 DEF IsRest, Drops
<1>11. DetectorInv'
  <2>1. QED BY <1>9, <1>10 DEF DetectorInv
<1>12. QED BY <1>1, <1>11

\* Nothing has been seen: the deque is empty, and an empty deque justifies nothing.
LEMMA NothingSeen ==
  /\ Candidates(<<>>) = {}
  /\ observations = <<>> /\ clock = 0 /\ seen = <<>> => DetectorInv
<1>1. Len(<<>>) = 0 /\ 1..0 = {} /\ <<>> \in Seq(Range(<<>>))
  BY EmptySeq
<1>2. Candidates(<<>>) = {}
  BY <1>1 DEF Candidates, RateAnomalies, PortScans, MacFlaps, MalformedFrames
<1>3. ASSUME observations = <<>>, clock = 0, seen = <<>> PROVE DetectorInv
  <2>1. cutoff(0) = 0
    BY WindowAssumption DEF cutoff
  <2>2. Splits(<<>>, 0, 0) /\ IsRest(<<>>, <<>>, 0) /\ TimeOrdered(<<>>, 0)
    BY <1>1 DEF Splits, IsRest, Drops, TimeOrdered
  <2>3. QED BY <1>1, <1>3, <2>1, <2>2 DEF DetectorInv, Ordered
<1>4. QED BY <1>2, <1>3

\* The inductive invariant of the detector.
Justified == DetectorInv /\ active_anomalies = Candidates(observations)

\* evaluate and reset keep the active anomalies justified.
LEMMA JustifiedStep ==
  ASSUME NEW packets, Justified, [DNext(packets)]_dvars
  PROVE  Justified'
<1>1. CASE Reset
  <2>1. observations' = <<>> /\ clock' = 0 /\ seen' = <<>> /\ active_anomalies' = {}
    BY <1>1 DEF Reset
  <2>2. (observations = <<>> /\ clock = 0 /\ seen = <<>> => DetectorInv)'
    BY NothingSeen, PTL
  <2>3. QED BY <2>1, <2>2, NothingSeen DEF Justified
<1>2. ASSUME NEW batch \in Seq(packets), NEW t \in Nat, Evaluate(batch, t)
      PROVE  Justified'
  BY <1>2, EvaluateStep DEF Justified
<1>3. CASE UNCHANGED dvars
  BY <1>3 DEF dvars, Justified, DetectorInv, Ordered, TimeOrdered, Splits, IsRest
<1>4. QED
  BY <1>1, <1>2, <1>3 DEF DNext

\* AnomalyDetector::evaluate keeps exactly the packets of the window, whatever the
\* batches and however the callers' clocks jump, although it only ever pops the front
\* of the deque.
THEOREM DequeIsTheWindow ==
  ASSUME NEW packets
  PROVE  DSpec(packets) => []DequeIsWindow
<1>1. DInit => Justified
  BY NothingSeen DEF DInit, Justified
<1>2. Justified /\ [DNext(packets)]_dvars => Justified'
  BY JustifiedStep
<1>3. Justified => DequeIsWindow
  BY InvImpliesWindow DEF Justified
<1>4. QED
  BY <1>1, <1>2, <1>3, PTL DEF DSpec

\* An anomaly is active exactly while the packets of the window justify it: it stops
\* being active when they expire, so the next crossing of the threshold is reported.
THEOREM ActiveIsTheWindows ==
  ASSUME NEW packets
  PROVE  DSpec(packets) => []ActiveIsJustified
<1>1. DInit => Justified
  BY NothingSeen DEF DInit, Justified
<1>2. Justified /\ [DNext(packets)]_dvars => Justified'
  BY JustifiedStep
<1>3. Justified => ActiveIsJustified
  BY InvImpliesWindow DEF Justified, DequeIsWindow, ActiveIsJustified
<1>4. QED
  BY <1>1, <1>2, <1>3, PTL DEF DSpec
=============================================================================
