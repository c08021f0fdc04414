--------------------------- MODULE SequenceProofs ---------------------------
(***************************************************************************)
(* Facts about sequences that the proofs of the components share: what     *)
(* Select, FlattenSeq and SetToSeq return, for every sequence.  Each is    *)
(* defined by a recursive function or a choice, so each fact rests on an   *)
(* induction.  The library's induction theorems take an operator, which no *)
(* prover can instantiate; here the predicate is a set.                    *)
(***************************************************************************)
EXTENDS Selection, SequencesExt, SequenceTheorems, FiniteSetTheorems, TLAPS

-----------------------------------------------------------------------------
(* Induction over a set of naturals.                                       *)

Less == {p \in Nat \X Nat : p[1] < p[2]}

\* The order of the naturals is well founded.
LEMMA LessWellFounded == IsWellFoundedOn(Less, Nat)
  BY NatLessThanWellFounded DEF OpToRel, Less

\* Every nonempty set of naturals has a least element.
LEMMA LeastNatural ==
  ASSUME NEW T, T \subseteq Nat, T # {}
  PROVE  \E x \in T : \A y \in T : x <= y
<1>1. PICK x \in T : \A y \in T : ~(<<y, x>> \in Less)
  BY LessWellFounded, WFMin
<1>2. SUFFICES ASSUME NEW y \in T PROVE x <= y
  OBVIOUS
<1>3. <<y, x>> \in Nat \X Nat
  BY T \subseteq Nat
<1>4. ~(<<y, x>>[1] < <<y, x>>[2])
  BY <1>1, <1>3 DEF Less
<1>5. QED
  BY <1>4

\* A set that holds 0, and with n also n + 1, holds every natural.
LEMMA SetInduction ==
  ASSUME NEW S, 0 \in S, \A n \in Nat : n \in S => n + 1 \in S
  PROVE  Nat \subseteq S
<1>1. SUFFICES ASSUME Nat \ S # {} PROVE FALSE
  OBVIOUS
<1>2. PICK x \in Nat \ S : \A y \in Nat \ S : x <= y
  BY <1>1, LeastNatural
<1>3. x - 1 \in Nat /\ ~(x - 1 \in Nat \ S)
  BY <1>2
<1>4. (x - 1) + 1 = x
  BY <1>2
<1>5. QED
  BY <1>3, <1>4

\* A bounded, nonempty set of naturals has a largest element.
LEMMA MaxFacts ==
  ASSUME NEW n \in Nat, NEW S, S \subseteq 0..n, S # {}
  PROVE  Max(S) \in S /\ \A y \in S : Max(S) >= y
<1> DEFINE T == {n - x : x \in S}
<1>1. T \subseteq Nat /\ T # {}
  <2>1. \A x \in S : n - x \in Nat
    OBVIOUS
  <2>2. PICK x : x \in S
    OBVIOUS
  <2>3. QED BY <2>1, <2>2
<1>2. PICK z \in T : \A y \in T : z <= y
  BY <1>1, LeastNatural
<1>3. PICK x \in S : z = n - x
  BY <1>2
<1>4. ASSUME NEW y \in S PROVE x >= y
  <2>1. n - x <= n - y
    BY <1>2, <1>3
  <2>2. QED BY <2>1
<1>5. QED
  BY <1>4 DEF Max

\* The larger of two numbers.
LEMMA MaxOfTwo ==
  ASSUME NEW a \in Nat, NEW b \in Nat
  PROVE  Max({a, b}) \in Nat /\ Max({a, b}) >= a /\ Max({a, b}) >= b
<1>1. \E x \in {a, b} : \A y \in {a, b} : x >= y
  OBVIOUS
<1>2. Max({a, b}) \in {a, b} /\ \A y \in {a, b} : Max({a, b}) >= y
  BY <1>1 DEF Max
<1>3. QED BY <1>2

-----------------------------------------------------------------------------
(* Select.                                                                 *)

\* One step of the recursion of Select, functions that satisfy it up to n, and the
\* one Select chooses.
Step(s, T, f, i) ==
  IF i = 0 THEN <<>>
  ELSE IF s[i] \in T THEN Append(f[i - 1], s[i]) ELSE f[i - 1]

IsKept(s, T, f, n) == f = [i \in 0..n |-> Step(s, T, f, i)]

Kept(s, T) == CHOOSE f : f = [i \in 0..Len(s) |-> Step(s, T, f, i)]

\* The recursion of Select has a solution of every length.
LEMMA KeptUpTo ==
  ASSUME NEW S, NEW s \in Seq(S), NEW T
  PROVE  \A n \in Nat : \E f : IsKept(s, T, f, n)
<1> DEFINE P == {n \in Nat : \E f : IsKept(s, T, f, n)}
<1>1. 0 \in P
  <2>1. IsKept(s, T, [i \in 0..0 |-> <<>>], 0)
    BY DEF IsKept, Step
  <2>2. QED BY <2>1
<1>2. ASSUME NEW n \in Nat, n \in P PROVE n + 1 \in P
  <2>1. PICK f : IsKept(s, T, f, n)
    BY <1>2
  <2> DEFINE g == [i \in 0..n + 1 |-> IF i <= n THEN f[i] ELSE Step(s, T, f, i)]
  <2>2. ASSUME NEW i \in 0..n + 1 PROVE g[i] = Step(s, T, g, i)
    <3>1. CASE i <= n
      <4>1. g[i] = f[i] /\ f[i] = Step(s, T, f, i)
        BY <3>1, <2>1, SMTT(40) DEF IsKept
      <4>2. i # 0 => g[i - 1] = f[i - 1]
        BY <3>1
      <4>3. QED BY <4>1, <4>2 DEF Step
    <3>2. CASE i = n + 1
      <4>1. g[i] = Step(s, T, f, i)
        BY <3>2
      <4>2. g[i - 1] = f[i - 1]
        BY <3>2
      <4>3. QED BY <4>1, <4>2 DEF Step
    <3>3. QED BY <3>1, <3>2
  <2>3. g = [i \in 0..n + 1 |-> Step(s, T, g, i)]
    BY <2>2
  <2>4. IsKept(s, T, g, n + 1)
    BY <2>3 DEF IsKept
  <2>5. QED BY <2>4
<1>3. Nat \subseteq P
  <2> HIDE DEF P
  <2> QED BY <1>1, <1>2, SetInduction
<1>4. QED BY <1>3

\* Select is the last value of a function that satisfies its recursion.
LEMMA SelectKept ==
  ASSUME NEW S, NEW s \in Seq(S), NEW T
  PROVE  /\ Select(s, T) = Kept(s, T)[Len(s)]
         /\ \A i \in 0..Len(s) : Kept(s, T)[i] = Step(s, T, Kept(s, T), i)
<1>1. Select(s, T) = Kept(s, T)[Len(s)]
  BY DEF Select, Kept, Step
<1>2. PICK f : IsKept(s, T, f, Len(s))
  BY KeptUpTo, LenProperties
<1>3. f = [i \in 0..Len(s) |-> Step(s, T, f, i)]
  BY <1>2 DEF IsKept
<1>4. Kept(s, T) = [i \in 0..Len(s) |-> Step(s, T, Kept(s, T), i)]
  BY <1>3 DEF Kept
<1>5. QED BY <1>1, <1>4

\* What is selected are elements of the sequence that are in the set.
LEMMA SelectType ==
  ASSUME NEW S, NEW s \in Seq(S), NEW T
  PROVE  Select(s, T) \in Seq(S \cap T)
<1> DEFINE K == Kept(s, T)
           Q(n) == n <= Len(s) => K[n] \in Seq(S \cap T)
<1>1. Len(s) \in Nat /\ \A i \in 1..Len(s) : s[i] \in S
  BY LenProperties, ElementOfSeq
<1>2. \A i \in 0..Len(s) : K[i] = Step(s, T, K, i)
  BY SelectKept
<1> HIDE DEF K
<1>3. Q(0)
  <2>1. K[0] = <<>>
    BY <1>1, <1>2 DEF Step
  <2>2. QED BY <2>1, EmptySeq
<1>4. ASSUME NEW n \in Nat, Q(n) PROVE Q(n + 1)
  <2>1. SUFFICES ASSUME n + 1 <= Len(s) PROVE K[n + 1] \in Seq(S \cap T)
    OBVIOUS
  <2>2. K[n] \in Seq(S \cap T)
    BY <1>1, <1>4, <2>1
  <2>3. K[n + 1] = IF s[n + 1] \in T THEN Append(K[n], s[n + 1]) ELSE K[n]
    BY <1>1, <1>2, <2>1 DEF Step
  <2>4. s[n + 1] \in S
    BY <1>1, <2>1
  <2>5. QED
    BY <2>2, <2>3, <2>4, AppendProperties
<1>5. \A n \in Nat : Q(n)
  <2> HIDE DEF Q
  <2> DEFINE P == {n \in Nat : Q(n)}
  <2>1. 0 \in P /\ \A n \in Nat : n \in P => n + 1 \in P
    BY <1>3, <1>4
  <2> HIDE DEF P
  <2>2. Nat \subseteq P BY <2>1, SetInduction
  <2>3. QED BY <2>2 DEF P
<1>6. K[Len(s)] \in Seq(S \cap T)
  BY <1>1, <1>5
<1>7. QED
  BY <1>6, SelectKept DEF K

\* Selecting two halves of a sequence loses nothing and doubles nothing.
LEMMA SelectSplits ==
  ASSUME NEW S, NEW s \in Seq(S), NEW T, NEW U, T \cap U = {}, S \subseteq T \cup U
  PROVE  Len(Select(s, T)) + Len(Select(s, U)) = Len(s)
<1> DEFINE K == Kept(s, T)
           L == Kept(s, U)
           Q(n) == n <= Len(s) => /\ K[n] \in Seq(S) /\ L[n] \in Seq(S)
                                  /\ Len(K[n]) + Len(L[n]) = n
<1>1. Len(s) \in Nat /\ \A i \in 1..Len(s) : s[i] \in S
  BY LenProperties, ElementOfSeq
<1>2. \A i \in 0..Len(s) : K[i] = Step(s, T, K, i) /\ L[i] = Step(s, U, L, i)
  BY SelectKept
<1> HIDE DEF K, L
<1>3. Q(0)
  <2>1. K[0] = <<>> /\ L[0] = <<>>
    BY <1>1, <1>2 DEF Step
  <2>2. QED BY <2>1, EmptySeq
<1>4. ASSUME NEW n \in Nat, Q(n) PROVE Q(n + 1)
  <2>1. SUFFICES ASSUME n + 1 <= Len(s)
                 PROVE  /\ K[n + 1] \in Seq(S) /\ L[n + 1] \in Seq(S)
                        /\ Len(K[n + 1]) + Len(L[n + 1]) = n + 1
    OBVIOUS
  <2>2. K[n] \in Seq(S) /\ L[n] \in Seq(S) /\ Len(K[n]) + Len(L[n]) = n
    <3>1. n <= Len(s) BY <1>1, <2>1
    <3>2. QED BY <1>4, <3>1, Zenon
  <2>3. /\ K[n + 1] = IF s[n + 1] \in T THEN Append(K[n], s[n + 1]) ELSE K[n]
        /\ L[n + 1] = IF s[n + 1] \in U THEN Append(L[n], s[n + 1]) ELSE L[n]
    BY <1>1, <1>2, <2>1 DEF Step
  <2>4. s[n + 1] \in S /\ (s[n + 1] \in U <=> s[n + 1] \notin T)
    BY <1>1, <2>1
  <2>5. CASE s[n + 1] \in T
    <3>1. K[n + 1] = Append(K[n], s[n + 1]) /\ L[n + 1] = L[n]
      BY <2>3, <2>4, <2>5
    <3>2. K[n + 1] \in Seq(S) /\ Len(K[n + 1]) = Len(K[n]) + 1
      BY <2>2, <2>4, <3>1, AppendProperties
    <3>3. Len(K[n]) \in Nat /\ Len(L[n]) \in Nat
      BY <2>2, LenProperties
    <3>4. Len(K[n + 1]) + Len(L[n + 1]) = n + 1
      <4>1. ASSUME NEW k \in Nat, NEW l \in Nat, k + l = n PROVE (k + 1) + l = n + 1
        BY <4>1
      <4>2. (Len(K[n]) + 1) + Len(L[n]) = n + 1
        BY <2>2, <3>3, <4>1, Zenon
      <4>3. QED BY <4>2, <3>1, <3>2, Zenon
    <3>5. QED BY <2>2, <3>1, <3>2, <3>4, Zenon
  <2>6. CASE s[n + 1] \in U
    <3>1. L[n + 1] = Append(L[n], s[n + 1]) /\ K[n + 1] = K[n]
      BY <2>3, <2>4, <2>6
    <3>2. L[n + 1] \in Seq(S) /\ Len(L[n + 1]) = Len(L[n]) + 1
      BY <2>2, <2>4, <3>1, AppendProperties
    <3>3. Len(K[n]) \in Nat /\ Len(L[n]) \in Nat
      BY <2>2, LenProperties
    <3>4. Len(K[n + 1]) + Len(L[n + 1]) = n + 1
      <4>1. ASSUME NEW k \in Nat, NEW l \in Nat, k + l = n PROVE k + (l + 1) = n + 1
        BY <4>1
      <4>2. Len(K[n]) + (Len(L[n]) + 1) = n + 1
        BY <2>2, <3>3, <4>1, Zenon
      <4>3. QED BY <4>2, <3>1, <3>2, Zenon
    <3>5. QED BY <2>2, <3>1, <3>2, <3>4, Zenon
  <2>7. QED BY <2>4, <2>5, <2>6
<1>5. \A n \in Nat : Q(n)
  <2> HIDE DEF Q
  <2> DEFINE P == {n \in Nat : Q(n)}
  <2>1. 0 \in P /\ \A n \in Nat : n \in P => n + 1 \in P
    BY <1>3, <1>4
  <2> HIDE DEF P
  <2>2. Nat \subseteq P BY <2>1, SetInduction
  <2>3. QED BY <2>2 DEF P
<1>6. Len(K[Len(s)]) + Len(L[Len(s)]) = Len(s)
  <2>1. Len(s) <= Len(s)
    BY <1>1
  <2>2. QED BY <1>1, <1>5, <2>1, Zenon
<1>7. QED
  BY <1>6, SelectKept DEF K, L

\* The elements of s in T are those after the first k.
AllAfter(s, T, k) ==
  /\ \A i \in 1..k : s[i] \notin T
  /\ \A i \in k + 1..Len(s) : s[i] \in T

\* o is what is left of s without its first k elements.
Drops(o, s, k) ==
  /\ Len(o) = Len(s) - k
  /\ \A i \in 1..Len(s) - k : o[i] = s[k + i]

\* Selecting what comes after the first k elements drops exactly those k.
LEMMA SelectSuffix ==
  ASSUME NEW S, NEW s \in Seq(S), NEW T, NEW k \in 0..Len(s), AllAfter(s, T, k)
  PROVE  Drops(Select(s, T), s, k)
<1>0. (\A i \in 1..k : s[i] \notin T) /\ (\A i \in k + 1..Len(s) : s[i] \in T)
  BY DEF AllAfter
<1> DEFINE K == Kept(s, T)
           Has(f, n) == \A i \in 1..n : f[i] = s[k + i]
           Q(n) == n <= Len(s) => /\ K[n] \in Seq(S)
                                  /\ n <= k => Len(K[n]) = 0
                                  /\ k <= n => Len(K[n]) = n - k /\ Has(K[n], n - k)
<1>1. Len(s) \in Nat /\ k \in Nat /\ k <= Len(s) /\ \A i \in 1..Len(s) : s[i] \in S
  BY LenProperties, ElementOfSeq
<1>2. \A i \in 0..Len(s) : K[i] = Step(s, T, K, i)
  BY SelectKept
<1> HIDE DEF K
<1>3. Q(0)
  <2>1. K[0] = <<>>
    BY <1>1, <1>2 DEF Step
  <2>2. K[0] \in Seq(S) /\ Len(K[0]) = 0
    BY <2>1, EmptySeq
  <2>3. ASSUME k <= 0 PROVE Len(K[0]) = 0 - k /\ Has(K[0], 0 - k)
    BY <1>1, <2>2, <2>3
  <2>4. QED BY <2>2, <2>3
<1>4. ASSUME NEW n \in Nat, Q(n) PROVE Q(n + 1)
  <2>1. SUFFICES ASSUME n + 1 <= Len(s)
                 PROVE  /\ K[n + 1] \in Seq(S)
                        /\ n + 1 <= k => Len(K[n + 1]) = 0
                        /\ k <= n + 1 => /\ Len(K[n + 1]) = (n + 1) - k
                                         /\ Has(K[n + 1], (n + 1) - k)
    OBVIOUS
  <2>2. /\ K[n] \in Seq(S)
        /\ n <= k => Len(K[n]) = 0
        /\ k <= n => Len(K[n]) = n - k /\ Has(K[n], n - k)
    <3>1. n <= Len(s) BY <1>1, <2>1
    <3>2. QED BY <1>4, <3>1, Zenon
  <2>3. K[n + 1] = IF s[n + 1] \in T THEN Append(K[n], s[n + 1]) ELSE K[n]
    BY <1>1, <1>2, <2>1 DEF Step
  <2>4. CASE n + 1 <= k
    <3>1. s[n + 1] \notin T /\ n <= k
      BY <1>0, <1>1, <2>4
    <3>2. K[n + 1] = K[n]
      BY <2>3, <3>1
    <3>3. K[n + 1] \in Seq(S) /\ Len(K[n + 1]) = 0
      BY <2>2, <3>1, <3>2
    <3>4. k <= n + 1 => (n + 1) - k = 0
      BY <1>1, <2>4
    <3>5. QED BY <3>3, <3>4
  <2>5. CASE k < n + 1
    <3>1. s[n + 1] \in T /\ s[n + 1] \in S /\ k <= n /\ n - k \in Nat
      BY <1>0, <1>1, <2>1, <2>5
    <3>2. K[n + 1] = Append(K[n], s[n + 1])
      BY <2>3, <3>1
    <3>3. Len(K[n]) = n - k /\ Has(K[n], n - k)
      BY <2>2, <3>1
    <3>4. /\ K[n + 1] \in Seq(S) /\ Len(K[n + 1]) = (n - k) + 1
          /\ \A i \in 1..n - k : K[n + 1][i] = K[n][i]
          /\ K[n + 1][(n - k) + 1] = s[n + 1]
      <4>1. PICK t \in Seq(S) : t = K[n]
        BY <2>2
      <4>2. PICK x \in S : x = s[n + 1]
        BY <3>1
      <4>3. PICK m \in Nat : m = n - k
        BY <3>1
      <4>4. /\ Append(t, x) \in Seq(S) /\ Len(Append(t, x)) = Len(t) + 1
            /\ \A i \in 1..Len(t) : Append(t, x)[i] = t[i]
            /\ Append(t, x)[Len(t) + 1] = x
        BY <4>1, <4>2, AppendProperties
      <4>5. Len(t) = m /\ K[n + 1] = Append(t, x)
        BY <3>2, <3>3, <4>1, <4>2, <4>3
      <4>6. QED BY <4>1, <4>2, <4>3, <4>4, <4>5
    <3>5. (n - k) + 1 = (n + 1) - k /\ k + ((n - k) + 1) = n + 1
      BY <1>1
    <3>6. Has(K[n + 1], (n + 1) - k)
      <4>1. SUFFICES ASSUME NEW i \in 1..(n - k) + 1 PROVE K[n + 1][i] = s[k + i]
        BY <3>5
      <4>2. CASE i \in 1..n - k
        BY <3>3, <3>4, <4>2
      <4>3. CASE i = (n - k) + 1
        BY <3>4, <3>5, <4>3
      <4>4. QED BY <3>1, <4>2, <4>3
    <3>7. ~(n + 1 <= k)
      BY <1>1, <2>5
    <3>8. QED BY <3>4, <3>5, <3>6, <3>7
  <2>6. QED BY <1>1, <2>4, <2>5
<1>5. \A n \in Nat : Q(n)
  <2> HIDE DEF Q
  <2> DEFINE P == {n \in Nat : Q(n)}
  <2>1. 0 \in P /\ \A n \in Nat : n \in P => n + 1 \in P
    BY <1>3, <1>4
  <2> HIDE DEF P
  <2>2. Nat \subseteq P BY <2>1, SetInduction
  <2>3. QED BY <2>2 DEF P
<1>6. Len(K[Len(s)]) = Len(s) - k /\ Has(K[Len(s)], Len(s) - k)
  <2>1. Len(s) <= Len(s) BY <1>1
  <2>2. QED BY <1>1, <1>5, <2>1, Zenon
<1>7. QED
  BY <1>6, SelectKept DEF K, Drops

-----------------------------------------------------------------------------
(* FlattenSeq, SetToSeq and Tail.                                          *)

\* The same for FlattenSeq.
FlatStep(seqs, f, i) == IF i = 1 THEN seqs[i] ELSE f[i - 1] \o seqs[i]

IsFlat(seqs, f, n) == f = [i \in 1..n |-> FlatStep(seqs, f, i)]

Flat(seqs) == CHOOSE f : f = [i \in 1..Len(seqs) |-> FlatStep(seqs, f, i)]

\* The recursion of FlattenSeq has a solution of every length.
LEMMA FlatUpTo ==
  ASSUME NEW seqs
  PROVE  \A n \in Nat : \E f : IsFlat(seqs, f, n)
<1> DEFINE P == {n \in Nat : \E f : IsFlat(seqs, f, n)}
<1>1. 0 \in P
  <2>1. IsFlat(seqs, [i \in 1..0 |-> <<>>], 0)
    BY DEF IsFlat
  <2>2. QED BY <2>1
<1>2. ASSUME NEW n \in Nat, n \in P PROVE n + 1 \in P
  <2>1. PICK f : IsFlat(seqs, f, n)
    BY <1>2
  <2> DEFINE g == [i \in 1..n + 1 |-> IF i <= n THEN f[i] ELSE FlatStep(seqs, f, i)]
  <2>2. ASSUME NEW i \in 1..n + 1 PROVE g[i] = FlatStep(seqs, g, i)
    <3>1. CASE i <= n
      <4>1. g[i] = f[i] /\ f[i] = FlatStep(seqs, f, i)
        BY <3>1, <2>1 DEF IsFlat
      <4>2. i # 1 => g[i - 1] = f[i - 1]
        BY <3>1
      <4>3. QED BY <4>1, <4>2 DEF FlatStep
    <3>2. CASE i = n + 1
      <4>1. g[i] = FlatStep(seqs, f, i)
        BY <3>2
      <4>2. i # 1 => g[i - 1] = f[i - 1]
        BY <3>2
      <4>3. QED BY <4>1, <4>2 DEF FlatStep
    <3>3. QED BY <3>1, <3>2
  <2>3. g = [i \in 1..n + 1 |-> FlatStep(seqs, g, i)]
    BY <2>2
  <2>4. IsFlat(seqs, g, n + 1)
    BY <2>3 DEF IsFlat
  <2>5. QED BY <2>4
<1>3. Nat \subseteq P
  <2> HIDE DEF P
  <2> QED BY <1>1, <1>2, SetInduction
<1>4. QED BY <1>3

\* Flattening sequences over a set gives a sequence over that set.
LEMMA FlattenType ==
  ASSUME NEW S, NEW seqs \in Seq(Seq(S))
  PROVE  FlattenSeq(seqs) \in Seq(S)
<1> DEFINE F == Flat(seqs)
           Q(n) == n + 1 <= Len(seqs) => F[n + 1] \in Seq(S)
<1>1. Len(seqs) \in Nat /\ \A i \in 1..Len(seqs) : seqs[i] \in Seq(S)
  BY LenProperties, ElementOfSeq
<1>2. \A i \in 1..Len(seqs) : F[i] = FlatStep(seqs, F, i)
  <2>1. PICK f : IsFlat(seqs, f, Len(seqs))
    BY FlatUpTo, LenProperties
  <2>2. f = [i \in 1..Len(seqs) |-> FlatStep(seqs, f, i)]
    BY <2>1 DEF IsFlat
  <2>3. F = [i \in 1..Len(seqs) |-> FlatStep(seqs, F, i)]
    BY <2>2 DEF Flat
  <2>4. QED BY <2>3
<1>3. CASE Len(seqs) = 0
  <2>1. seqs = <<>>
    BY <1>3, EmptySeq
  <2>2. QED BY <1>3, <2>1 DEF FlattenSeq
<1>4. CASE Len(seqs) # 0
  <2>1. FlattenSeq(seqs) = F[Len(seqs)]
    BY <1>4 DEF FlattenSeq, Flat, FlatStep
  <2> HIDE DEF F
  <2>2. Q(0)
    BY <1>1, <1>2 DEF FlatStep
  <2>3. ASSUME NEW n \in Nat, Q(n) PROVE Q(n + 1)
    <3>1. SUFFICES ASSUME n + 2 <= Len(seqs) PROVE F[n + 2] \in Seq(S)
      OBVIOUS
    <3>2. F[n + 1] \in Seq(S)
      BY <1>1, <2>3, <3>1
    <3>3. F[n + 2] = F[n + 1] \o seqs[n + 2]
      <4>1. n + 2 \in 1..Len(seqs) /\ n + 2 # 1 /\ (n + 2) - 1 = n + 1
        BY <1>1, <3>1
      <4>2. F[n + 2] = F[(n + 2) - 1] \o seqs[n + 2]
        BY <1>2, <4>1, Zenon DEF FlatStep
      <4>3. QED BY <4>1, <4>2, Zenon
    <3>4. seqs[n + 2] \in Seq(S)
      BY <1>1, <3>1
    <3>5. QED BY <3>2, <3>3, <3>4, ConcatProperties
  <2>4. \A n \in Nat : Q(n)
    <3> HIDE DEF Q
    <3> DEFINE P == {n \in Nat : Q(n)}
    <3>1. 0 \in P /\ \A n \in Nat : n \in P => n + 1 \in P
      BY <2>2, <2>3
    <3> HIDE DEF P
    <3>2. Nat \subseteq P BY <3>1, SetInduction
    <3>3. QED BY <3>2 DEF P
  <2>5. Len(seqs) - 1 \in Nat /\ (Len(seqs) - 1) + 1 = Len(seqs)
    BY <1>1, <1>4
  <2>6. F[Len(seqs)] \in Seq(S)
    <3>1. (Len(seqs) - 1) + 1 <= Len(seqs)
      BY <1>1
    <3>2. F[(Len(seqs) - 1) + 1] \in Seq(S)
      BY <2>4, <2>5, <3>1, Zenon
    <3>3. QED BY <2>5, <3>2, Zenon
  <2>7. QED BY <2>1, <2>6
<1>5. QED BY <1>3, <1>4

\* A finite set can be listed.
LEMMA SetToSeqType ==
  ASSUME NEW S, IsFiniteSet(S)
  PROVE  SetToSeq(S) \in Seq(S)
<1>1. Cardinality(S) \in Nat /\ ExistsBijection(1..Cardinality(S), S)
  BY FS_CardinalityType
<1>2. \E f \in [1..Cardinality(S) -> S] : IsInjective(f)
  BY <1>1 DEF ExistsBijection, Bijection, Injection
<1>3. SetToSeq(S) \in [1..Cardinality(S) -> S]
  BY <1>2 DEF SetToSeq
<1>4. QED
  BY <1>1, <1>3, SeqDef

\* Selecting keeps the type of a sequence and adds no element.
LEMMA SelectFacts ==
  ASSUME NEW S, NEW s \in Seq(S), NEW T
  PROVE  /\ Select(s, T) \in Seq(S)
         /\ Range(Select(s, T)) \subseteq Range(s)
<1>1. s \in Seq(Range(s)) /\ Range(s) \subseteq S
  BY SeqOfRange, RangeOfSeq
<1>2. Select(s, T) \in Seq(Range(s) \cap T)
  BY <1>1, SelectType
<1>3. QED
  BY <1>1, <1>2, RangeOfSeq, SeqMonotonic

\* Tail drops one element and adds none.
LEMMA TailRange ==
  ASSUME NEW S, NEW s \in Seq(S), s # <<>>
  PROVE  /\ Tail(s) \in Seq(S)
         /\ Len(Tail(s)) = Len(s) - 1
         /\ Range(Tail(s)) \subseteq Range(s)
<1>1. s \in Seq(Range(s))
  BY SeqOfRange
<1>2. Tail(s) \in Seq(Range(s))
  BY <1>1, HeadTailProperties
<1>3. QED
  BY <1>2, HeadTailProperties, RangeOfSeq

\* A sequence, of whatever.
IsSeq(s) == s \in Seq(Range(s))

\* A typed sequence is a sequence of its own elements, and so are its extensions.
LEMMA SeqFacts ==
  /\ IsSeq(<<>>)
  /\ \A S : \A s \in Seq(S) : IsSeq(s)
  /\ \A s, e : IsSeq(s) => /\ IsSeq(Append(s, e))
                           /\ Len(Append(s, e)) = Len(s) + 1
                           /\ \A i \in 1..Len(s) : Append(s, e)[i] = s[i]
                           /\ Append(s, e)[Len(s) + 1] = e
                           /\ Len(s) \in Nat
<1>1. \A S : \A s \in Seq(S) : IsSeq(s)
  BY SeqOfRange DEF IsSeq
<1>2. IsSeq(<<>>)
  BY <1>1, EmptySeq
<1>3. ASSUME NEW s, NEW e, IsSeq(s)
      PROVE  /\ IsSeq(Append(s, e))
             /\ Len(Append(s, e)) = Len(s) + 1
             /\ \A i \in 1..Len(s) : Append(s, e)[i] = s[i]
             /\ Append(s, e)[Len(s) + 1] = e
             /\ Len(s) \in Nat
  <2> DEFINE S == Range(s) \cup {e}
  <2>1. s \in Seq(S)
    <3>1. Range(s) \subseteq S
      OBVIOUS
    <3>2. QED BY <1>3, <3>1, SeqMonotonic DEF IsSeq
  <2>2. e \in S
    OBVIOUS
  <2> HIDE DEF S
  <2>3. /\ Append(s, e) \in Seq(S) /\ Len(Append(s, e)) = Len(s) + 1
        /\ \A i \in 1..Len(s) : Append(s, e)[i] = s[i]
        /\ Append(s, e)[Len(s) + 1] = e
    BY <2>1, <2>2, AppendProperties
  <2>4. IsSeq(Append(s, e)) /\ Len(s) \in Nat
    BY <1>1, <2>1, <2>3, LenProperties
  <2>5. QED BY <2>3, <2>4
<1>4. QED BY <1>1, <1>2, <1>3

\* The values a function takes on a finite set are finitely many.
LEMMA ImageFinite ==
  ASSUME NEW S, IsFiniteSet(S), NEW f
  PROVE  IsFiniteSet({f[x] : x \in S})
<1> DEFINE T == {f[x] : x \in S}
           g == [x \in S |-> f[x]]
<1>1. g \in Surjection(S, T)
  BY DEF Surjection
<1>2. QED BY <1>1, FS_Surjection

-----------------------------------------------------------------------------
(* Sequences put together and taken apart.                                 *)

\* A sequence is its first n elements followed by the others.
LEMMA SplitAt ==
  ASSUME NEW S, NEW s \in Seq(S), NEW n \in 0..Len(s)
  PROVE  /\ SubSeq(s, 1, n) \in Seq(S) /\ SubSeq(s, n + 1, Len(s)) \in Seq(S)
         /\ Len(SubSeq(s, 1, n)) = n /\ Len(SubSeq(s, n + 1, Len(s))) = Len(s) - n
         /\ s = SubSeq(s, 1, n) \o SubSeq(s, n + 1, Len(s))
<1>1. Len(s) \in Nat /\ \A i \in 1..Len(s) : s[i] \in S
  BY LenProperties, ElementOfSeq
<1>2. /\ SubSeq(s, 1, n) \in Seq(S)
      /\ Len(SubSeq(s, 1, n)) = IF 1 <= n THEN n - 1 + 1 ELSE 0
  <2>1. 1 \in Int /\ n \in Int /\ \A i \in 1..n : s[i] \in S
    BY <1>1
  <2>2. QED BY <2>1, SubSeqProperties
<1>3. /\ SubSeq(s, n + 1, Len(s)) \in Seq(S)
      /\ Len(SubSeq(s, n + 1, Len(s))) = IF n + 1 <= Len(s) THEN Len(s) - (n + 1) + 1 ELSE 0
  <2>1. n + 1 \in Int /\ Len(s) \in Int /\ \A i \in n + 1..Len(s) : s[i] \in S
    BY <1>1
  <2>2. QED BY <2>1, SubSeqProperties
<1>4. (IF 1 <= n THEN n - 1 + 1 ELSE 0) = n
  BY <1>1
<1>5. (IF n + 1 <= Len(s) THEN Len(s) - (n + 1) + 1 ELSE 0) = Len(s) - n
  BY <1>1
<1>6. SubSeq(s, 1, n) \o SubSeq(s, n + 1, Len(s)) = SubSeq(s, 1, Len(s))
  <2>1. 1 \in 1..Len(s) + 1 /\ n \in 1 - 1..Len(s) /\ Len(s) \in n..Len(s)
    BY <1>1
  <2>2. QED BY <2>1, ConcatAdjacentSubSeq
<1>7. SubSeq(s, 1, Len(s)) = s
  BY SubSeqFull
<1>8. Len(SubSeq(s, 1, n)) = n /\ Len(SubSeq(s, n + 1, Len(s))) = Len(s) - n
  <2>1. Len(SubSeq(s, 1, n)) = n
    BY <1>2, <1>4
  <2>2. Len(SubSeq(s, n + 1, Len(s))) = Len(s) - n
    BY <1>3, <1>5
  <2>3. QED BY <2>1, <2>2
<1>9. s = SubSeq(s, 1, n) \o SubSeq(s, n + 1, Len(s))
  BY <1>6, <1>7, Zenon
<1>10. QED
  BY <1>2, <1>3, <1>8, <1>9, Zenon

\* A sequence of one element.
LEMMA Singleton ==
  ASSUME NEW S, NEW e \in S
  PROVE  <<e>> \in Seq(S) /\ Len(<<e>>) = 1 /\ <<e>>[1] = e
  OBVIOUS

\* A sequence that is not empty is its head followed by its tail.
LEMMA HeadFirst ==
  ASSUME NEW S, NEW s \in Seq(S), s # <<>>
  PROVE  Head(s) \in S /\ Tail(s) \in Seq(S) /\ s = <<Head(s)>> \o Tail(s)
<1>1. /\ Head(s) \in S /\ Tail(s) \in Seq(S) /\ Len(Tail(s)) = Len(s) - 1
      /\ \A i \in 1..Len(Tail(s)) : Tail(s)[i] = s[i + 1]
  BY HeadTailProperties
<1>2. Len(s) \in Nat \ {0} /\ Head(s) = s[1]
  BY LenProperties, EmptySeq
<1>3. /\ <<Head(s)>> \in Seq(S) /\ Len(<<Head(s)>>) = 1 /\ <<Head(s)>>[1] = Head(s)
  BY <1>1, Singleton
<1> DEFINE x == <<Head(s)>>
           y == Tail(s)
<1>4. /\ x \o y \in Seq(S) /\ Len(x \o y) = 1 + Len(y)
      /\ \A i \in 1..1 + Len(y) : (x \o y)[i] = IF i <= 1 THEN x[i] ELSE y[i - 1]
  BY <1>1, <1>3, ConcatProperties
<1> HIDE DEF x, y
<1>5. PICK n \in Nat : n = Len(s)
  BY <1>2
<1>6. Len(x \o y) = n /\ 1 + Len(y) = n /\ Len(y) = n - 1
  BY <1>1, <1>2, <1>4, <1>5 DEF y
<1>7. ASSUME NEW i \in 1..n PROVE (x \o y)[i] = s[i]
  <2>1. CASE i = 1
    BY <1>2, <1>3, <1>4, <1>6, <2>1 DEF x
  <2>2. CASE i # 1
    <3>1. i - 1 \in 1..n - 1 /\ (i - 1) + 1 = i /\ ~(i <= 1)
      BY <2>2
    <3>2. y[i - 1] = s[i]
      BY <1>1, <1>6, <3>1 DEF y
    <3>3. QED BY <1>4, <1>6, <3>1, <3>2
  <2>3. QED BY <2>1, <2>2
<1>8. x \o y = s
  BY <1>4, <1>5, <1>6, <1>7, SeqEqual
<1>9. QED BY <1>1, <1>8 DEF x, y

\* Selecting everything, and selecting nothing.
LEMMA SelectAllOrNone ==
  ASSUME NEW S, NEW s \in Seq(S), NEW T
  PROVE  /\ S \subseteq T => Select(s, T) = s
         /\ S \cap T = {} => Select(s, T) = <<>>
<1>1. PICK n \in Nat : n = Len(s)
  BY LenProperties
<1>2. \A i \in 1..n : s[i] \in S
  BY <1>1, ElementOfSeq
<1>3. Select(s, T) \in Seq(S)
  BY SelectFacts
<1>4. ASSUME S \subseteq T PROVE Select(s, T) = s
  <2>1. AllAfter(s, T, 0) /\ 0 \in 0..Len(s)
    BY <1>1, <1>2, <1>4 DEF AllAfter
  <2>2. Drops(Select(s, T), s, 0)
    BY <2>1, SelectSuffix
  <2>3. Len(Select(s, T)) = Len(s) /\ \A i \in 1..Len(s) : Select(s, T)[i] = s[i]
    BY <1>1, <2>2 DEF Drops
  <2>4. QED BY <1>3, <2>3, SeqEqual
<1>5. ASSUME S \cap T = {} PROVE Select(s, T) = <<>>
  <2>1. AllAfter(s, T, n) /\ n \in 0..Len(s)
    BY <1>1, <1>2, <1>5 DEF AllAfter
  <2>2. Drops(Select(s, T), s, n)
    BY <2>1, SelectSuffix
  <2>3. Len(Select(s, T)) = 0
    BY <1>1, <2>2 DEF Drops
  <2>4. QED BY <1>3, <2>3, EmptySeq
<1>6. QED BY <1>4, <1>5

\* Selecting from a concatenation.
LEMMA SelectConcat ==
  ASSUME NEW S, NEW a \in Seq(S), NEW b \in Seq(S), NEW T
  PROVE  Select(a \o b, T) = Select(a, T) \o Select(b, T)
<1> DEFINE w == a \o b
<1>0. ASSUME NEW x \in Seq(S), NEW y \in Seq(S), NEW e \in S
      PROVE  Append(x \o y, e) = x \o Append(y, e)
  <2>1. x \o y \in Seq(S) /\ <<e>> \in Seq(S)
    BY ConcatProperties
  <2>2. Append(x \o y, e) = (x \o y) \o <<e>> /\ Append(y, e) = y \o <<e>>
    BY <2>1, AppendIsConcat
  <2>3. \A u \in Seq(S) : (x \o y) \o u = x \o (y \o u)
    BY ConcatAssociative, SMTT(40)
  <2>4. (x \o y) \o <<e>> = x \o (y \o <<e>>)
    BY <2>1, <2>3
  <2>5. QED BY <2>2, <2>4
<1>1. PICK m \in Nat : m = Len(a)
  BY LenProperties
<1>2. PICK n \in Nat : n = Len(b)
  BY LenProperties
<1>3. /\ w \in Seq(S) /\ Len(w) = m + n
      /\ \A i \in 1..m + n : w[i] = IF i <= m THEN a[i] ELSE b[i - m]
  BY <1>1, <1>2, ConcatProperties
<1> HIDE DEF w
<1> DEFINE K == Kept(w, T)
           A == Kept(a, T)
           B == Kept(b, T)
<1>4. /\ \A i \in 0..m + n : K[i] = Step(w, T, K, i)
      /\ \A i \in 0..m : A[i] = Step(a, T, A, i)
      /\ \A i \in 0..n : B[i] = Step(b, T, B, i)
      /\ Select(w, T) = K[m + n] /\ Select(a, T) = A[m] /\ Select(b, T) = B[n]
  <2>1. Select(w, T) = K[Len(w)] /\ \A i \in 0..Len(w) : K[i] = Step(w, T, K, i)
    BY <1>3, SelectKept, Zenon
  <2>2. Select(a, T) = A[Len(a)] /\ \A i \in 0..Len(a) : A[i] = Step(a, T, A, i)
    BY SelectKept, Zenon
  <2>3. Select(b, T) = B[Len(b)] /\ \A i \in 0..Len(b) : B[i] = Step(b, T, B, i)
    BY SelectKept, Zenon
  <2> HIDE DEF K, A, B
  <2>4. QED BY <1>1, <1>2, <1>3, <2>1, <2>2, <2>3
<1>5. A[m] \in Seq(S) /\ \A i \in 1..n : b[i] \in S
  BY <1>2, <1>4, SelectFacts, ElementOfSeq
<1> HIDE DEF K, A, B
<1> DEFINE Q(i) == i <= m => K[i] = A[i]
           R(i) == i <= n => B[i] \in Seq(S) /\ K[m + i] = A[m] \o B[i]
<1>6. \A i \in Nat : Q(i)
  <2>1. Q(0)
    BY <1>4 DEF Step
  <2>2. ASSUME NEW i \in Nat, Q(i) PROVE Q(i + 1)
    <3>1. SUFFICES ASSUME i + 1 <= m PROVE K[i + 1] = A[i + 1]
      OBVIOUS
    <3>2. /\ i <= m /\ i + 1 \in 0..m /\ i + 1 \in 0..m + n /\ i + 1 \in 1..m + n
          /\ i + 1 # 0 /\ (i + 1) - 1 = i
      BY <3>1
    <3>3. K[i] = A[i] /\ w[i + 1] = a[i + 1]
      BY <1>3, <2>2, <3>1, <3>2
    <3>4. /\ K[i + 1] = IF w[i + 1] \in T THEN Append(K[i], w[i + 1]) ELSE K[i]
          /\ A[i + 1] = IF a[i + 1] \in T THEN Append(A[i], a[i + 1]) ELSE A[i]
      BY <1>4, <3>2 DEF Step
    <3>5. QED BY <3>3, <3>4
  <2> HIDE DEF Q
  <2> DEFINE P == {i \in Nat : Q(i)}
  <2>3. 0 \in P /\ \A i \in Nat : i \in P => i + 1 \in P
    BY <2>1, <2>2
  <2> HIDE DEF P
  <2>4. Nat \subseteq P BY <2>3, SetInduction
  <2>5. QED BY <2>4 DEF P
<1>7. K[m] = A[m]
  BY <1>6
<1>8. \A i \in Nat : R(i)
  <2>1. R(0)
    <3>1. B[0] = <<>> /\ m + 0 = m
      BY <1>4 DEF Step
    <3>2. A[m] \o <<>> = A[m] /\ <<>> \in Seq(S)
      BY <1>5, ConcatEmptySeq, EmptySeq
    <3>3. QED BY <1>7, <3>1, <3>2
  <2>2. ASSUME NEW i \in Nat, R(i) PROVE R(i + 1)
    <3>1. SUFFICES ASSUME i + 1 <= n
                   PROVE  B[i + 1] \in Seq(S) /\ K[m + (i + 1)] = A[m] \o B[i + 1]
      OBVIOUS
    <3>2. /\ i <= n /\ i + 1 \in 1..n /\ i + 1 \in 0..n /\ m + (i + 1) \in 0..m + n
          /\ m + (i + 1) \in 1..m + n /\ ~(m + (i + 1) <= m) /\ (m + (i + 1)) - m = i + 1
          /\ (m + (i + 1)) - 1 = m + i /\ m + (i + 1) # 0 /\ i + 1 # 0 /\ (i + 1) - 1 = i
      BY <3>1
    <3>3. B[i] \in Seq(S) /\ K[m + i] = A[m] \o B[i] /\ w[m + (i + 1)] = b[i + 1]
      BY <1>3, <2>2, <3>2
    <3>4. K[m + (i + 1)] = IF w[m + (i + 1)] \in T THEN Append(K[m + i], w[m + (i + 1)]) ELSE K[m + i]
      BY <1>4, <3>2 DEF Step
    <3>5. B[i + 1] = IF b[i + 1] \in T THEN Append(B[i], b[i + 1]) ELSE B[i]
      BY <1>4, <3>2 DEF Step
    <3>6. b[i + 1] \in S
      BY <1>5, <3>2
    <3>7. Append(A[m] \o B[i], b[i + 1]) = A[m] \o Append(B[i], b[i + 1])
      BY <1>0, <1>5, <3>3, <3>6, Zenon
    <3>8. B[i + 1] \in Seq(S)
      BY <3>3, <3>5, <3>6, AppendProperties
    <3>9. QED BY <3>3, <3>4, <3>5, <3>7, <3>8
  <2> HIDE DEF R
  <2> DEFINE P == {i \in Nat : R(i)}
  <2>3. 0 \in P /\ \A i \in Nat : i \in P => i + 1 \in P
    BY <2>1, <2>2
  <2> HIDE DEF P
  <2>4. Nat \subseteq P BY <2>3, SetInduction
  <2>5. QED BY <2>4 DEF P
<1>9. K[m + n] = A[m] \o B[n]
  <2>1. n <= n
    OBVIOUS
  <2>2. QED BY <1>8, <2>1, Zenon
<1>10. QED BY <1>4, <1>9 DEF w

-----------------------------------------------------------------------------
(* Relations along a sequence.                                             *)

\* Every element is related to all that follow it; R is a set of pairs.
Chain(s, R) == \A i, j \in 1..Len(s) : i < j => <<s[i], s[j]>> \in R

\* A chain of two parts is two chains, the first before the second.
LEMMA ChainParts ==
  ASSUME NEW S, NEW a \in Seq(S), NEW b \in Seq(S), NEW R
  PROVE  Chain(a \o b, R) <=> /\ Chain(a, R) /\ Chain(b, R)
                              /\ \A x \in Range(a), y \in Range(b) : <<x, y>> \in R
<1>1. PICK m \in Nat : m = Len(a)
  BY LenProperties
<1>2. PICK n \in Nat : n = Len(b)
  BY LenProperties
<1> DEFINE w == a \o b
<1>3. /\ w \in Seq(S) /\ w = a \o b /\ Len(w) = m + n
      /\ \A i \in 1..m + n : w[i] = IF i <= m THEN a[i] ELSE b[i - m]
  BY <1>1, <1>2, ConcatProperties
<1> HIDE DEF w
<1>4. DOMAIN a = 1..m /\ DOMAIN b = 1..n
  BY <1>1, <1>2, LenProperties
<1>5. /\ \A i \in 1..m : w[i] = a[i] /\ i \in 1..m + n
      /\ \A j \in 1..n : w[m + j] = b[j] /\ m + j \in 1..m + n
  BY <1>3
<1>6. ASSUME Chain(w, R)
      PROVE  Chain(a, R) /\ Chain(b, R) /\ \A x \in Range(a), y \in Range(b) : <<x, y>> \in R
  <2>1. Chain(a, R)
    BY <1>1, <1>3, <1>5, <1>6 DEF Chain
  <2>2. Chain(b, R)
    <3>1. SUFFICES ASSUME NEW i \in 1..n, NEW j \in 1..n, i < j PROVE <<b[i], b[j]>> \in R
      BY <1>2 DEF Chain
    <3>2. m + i \in 1..m + n /\ m + j \in 1..m + n /\ m + i < m + j
      BY <3>1
    <3>3. <<w[m + i], w[m + j]>> \in R
      BY <1>3, <1>6, <3>2 DEF Chain
    <3>4. QED BY <1>5, <3>3
  <2>3. ASSUME NEW i \in 1..m, NEW j \in 1..n PROVE <<a[i], b[j]>> \in R
    <3>1. i \in 1..m + n /\ m + j \in 1..m + n /\ i < m + j
      OBVIOUS
    <3>2. <<w[i], w[m + j]>> \in R
      BY <1>3, <1>6, <3>1 DEF Chain
    <3>3. QED BY <1>5, <3>2
  <2>4. QED BY <1>4, <2>1, <2>2, <2>3 DEF Range
<1>7. ASSUME Chain(a, R), Chain(b, R), \A x \in Range(a), y \in Range(b) : <<x, y>> \in R
      PROVE  Chain(w, R)
  <2>1. SUFFICES ASSUME NEW i \in 1..m + n, NEW j \in 1..m + n, i < j PROVE <<w[i], w[j]>> \in R
    BY <1>3 DEF Chain
  <2>2. \A x \in 1..m, y \in 1..n : <<a[x], b[y]>> \in R
    BY <1>4, <1>7 DEF Range
  <2>3. CASE j <= m
    BY <1>1, <1>3, <1>7, <2>1, <2>3 DEF Chain
  <2>4. CASE i <= m /\ ~(j <= m)
    <3>1. w[i] = a[i] /\ w[j] = b[j - m] /\ i \in 1..m /\ j - m \in 1..n
      BY <1>3, <2>4
    <3>2. QED BY <2>2, <3>1
  <2>5. CASE ~(i <= m)
    <3>1. w[i] = b[i - m] /\ w[j] = b[j - m] /\ i - m \in 1..n /\ j - m \in 1..n /\ i - m < j - m
      BY <1>3, <2>1, <2>5
    <3>2. QED BY <1>2, <1>7, <3>1 DEF Chain
  <2>6. QED BY <2>3, <2>4, <2>5
<1>8. QED BY <1>3, <1>6, <1>7

\* What is selected from a chain is one.
LEMMA SelectChain ==
  ASSUME NEW S, NEW s \in Seq(S), NEW T, NEW R, Chain(s, R)
  PROVE  Chain(Select(s, T), R)
<1>1. PICK n \in Nat : n = Len(s)
  BY LenProperties
<1>2. \A i \in 1..n : s[i] \in S
  BY <1>1, ElementOfSeq
<1> DEFINE K == Kept(s, T)
           Q(i) == i <= n => /\ K[i] \in Seq(S) /\ Chain(K[i], R)
                             /\ \A x \in 1..Len(K[i]) : \E j \in 1..i : K[i][x] = s[j]
<1>3. (\A i \in 0..n : K[i] = Step(s, T, K, i)) /\ Select(s, T) = K[n]
  BY <1>1, SelectKept, Zenon
<1> HIDE DEF K
<1>4. Q(0)
  <2>1. K[0] = <<>>
    BY <1>3 DEF Step
  <2>2. <<>> \in Seq(S) /\ Len(<<>>) = 0
    BY EmptySeq
  <2>3. QED BY <2>1, <2>2 DEF Chain
<1>5. ASSUME NEW i \in Nat, Q(i) PROVE Q(i + 1)
  <2>1. SUFFICES ASSUME i + 1 <= n
                 PROVE  /\ K[i + 1] \in Seq(S) /\ Chain(K[i + 1], R)
                        /\ \A x \in 1..Len(K[i + 1]) : \E j \in 1..i + 1 : K[i + 1][x] = s[j]
    OBVIOUS
  <2>2. /\ K[i] \in Seq(S) /\ Chain(K[i], R)
        /\ \A x \in 1..Len(K[i]) : \E j \in 1..i : K[i][x] = s[j]
    BY <1>5, <2>1
  <2>3. i + 1 \in 0..n /\ i + 1 \in 1..n /\ i + 1 # 0 /\ (i + 1) - 1 = i
    BY <2>1
  <2>4. K[i + 1] = IF s[i + 1] \in T THEN Append(K[i], s[i + 1]) ELSE K[i]
    BY <1>3, <2>3 DEF Step
  <2>5. PICK k \in Seq(S) : k = K[i]
    BY <2>2
  <2>6. CASE s[i + 1] \notin T
    BY <2>2, <2>4, <2>6
  <2>7. CASE s[i + 1] \in T
    <3>1. PICK l \in Nat : l = Len(k)
      BY LenProperties
    <3>2. PICK a \in Seq(S) : a = Append(k, s[i + 1])
      BY <1>2, <2>3, AppendProperties
    <3>3. Len(a) = l + 1 /\ a[l + 1] = s[i + 1] /\ \A x \in 1..l : a[x] = k[x]
      BY <1>2, <2>3, <3>1, <3>2, AppendProperties
    <3>4. \A x \in 1..l : \E j \in 1..i : a[x] = s[j]
      BY <2>2, <2>5, <3>1, <3>3, ZenonT(60)
    <3>5. \A x \in 1..l + 1 : \E j \in 1..i + 1 : a[x] = s[j]
      <4>1. SUFFICES ASSUME NEW x \in 1..l + 1 PROVE \E j \in 1..i + 1 : a[x] = s[j]
        OBVIOUS
      <4>2. CASE x = l + 1
        BY <3>3, <4>2
      <4>3. CASE x # l + 1
        <5>1. PICK j \in 1..i : a[x] = s[j]
          BY <3>4, <4>3
        <5>2. j \in 1..i + 1
          OBVIOUS
        <5>3. QED BY <5>1, <5>2
      <4>4. QED BY <4>2, <4>3
    <3>6. \A x, y \in 1..l : x < y => <<a[x], a[y]>> \in R
      BY <2>2, <2>5, <3>1, <3>3 DEF Chain
    <3>7. \A x \in 1..l : <<a[x], a[l + 1]>> \in R
      <4>1. SUFFICES ASSUME NEW x \in 1..l PROVE <<a[x], a[l + 1]>> \in R
        OBVIOUS
      <4>2. PICK j \in 1..i : a[x] = s[j]
        BY <3>4
      <4>3. j \in 1..n /\ j < i + 1
        BY <2>3
      <4>4. <<s[j], s[i + 1]>> \in R
        BY <1>1, <2>3, <4>3 DEF Chain
      <4>5. QED BY <3>3, <4>2, <4>4
    <3>8. Chain(a, R)
      <4>1. SUFFICES ASSUME NEW x \in 1..l + 1, NEW y \in 1..l + 1, x < y PROVE <<a[x], a[y]>> \in R
        BY <3>3 DEF Chain
      <4>2. CASE y = l + 1
        BY <3>7, <4>1, <4>2
      <4>3. CASE y # l + 1
        BY <3>6, <4>1, <4>3
      <4>4. QED BY <4>2, <4>3
    <3>9. K[i + 1] = a
      BY <2>4, <2>5, <2>7, <3>2
    <3>10. QED BY <3>3, <3>5, <3>8, <3>9
  <2>8. QED BY <2>6, <2>7
<1> HIDE DEF Q
<1> DEFINE P == {i \in Nat : Q(i)}
<1>6. 0 \in P /\ \A i \in Nat : i \in P => i + 1 \in P
  BY <1>4, <1>5
<1> HIDE DEF P
<1>7. Nat \subseteq P
  BY <1>6, SetInduction
<1>8. Q(n)
  BY <1>7 DEF P
<1>9. QED BY <1>3, <1>8 DEF Q

\* Each element is the successor of the one before it.
Consecutive(s) == \A i \in 1..Len(s) - 1 : s[i + 1] = s[i] + 1

\* Consecutive numbers in two parts.
LEMMA ConsecutiveParts ==
  ASSUME NEW a \in Seq(Nat), NEW b \in Seq(Nat)
  PROVE  Consecutive(a \o b) <=> /\ Consecutive(a) /\ Consecutive(b)
                                 /\ a # <<>> /\ b # <<>> => b[1] = a[Len(a)] + 1
<1>1. PICK m \in Nat : m = Len(a)
  BY LenProperties
<1>2. PICK n \in Nat : n = Len(b)
  BY LenProperties
<1> DEFINE w == a \o b
<1>3. /\ w \in Seq(Nat) /\ w = a \o b /\ Len(w) = m + n
      /\ \A i \in 1..m + n : w[i] = IF i <= m THEN a[i] ELSE b[i - m]
  BY <1>1, <1>2, ConcatProperties
<1> HIDE DEF w
<1>4. (a # <<>> <=> m # 0) /\ (b # <<>> <=> n # 0)
  BY <1>1, <1>2, EmptySeq
<1>5. /\ \A i \in 1..m : w[i] = a[i] /\ i \in 1..m + n
      /\ \A j \in 1..n : w[m + j] = b[j] /\ m + j \in 1..m + n
  BY <1>3, SMTT(40)
<1>6. ASSUME Consecutive(w)
      PROVE  Consecutive(a) /\ Consecutive(b) /\ (a # <<>> /\ b # <<>> => b[1] = a[Len(a)] + 1)
  <2>0. \A i \in 1..m + n - 1 : w[i + 1] = w[i] + 1
    BY <1>3, <1>6, SMTT(40) DEF Consecutive
  <2>1. Consecutive(a)
    <3>1. SUFFICES ASSUME NEW i \in 1..m - 1 PROVE a[i + 1] = a[i] + 1
      BY <1>1 DEF Consecutive
    <3>2. i \in 1..m + n - 1 /\ i \in 1..m /\ i + 1 \in 1..m
      OBVIOUS
    <3>3. QED BY <1>5, <2>0, <3>2
  <2>2. Consecutive(b)
    <3>1. SUFFICES ASSUME NEW i \in 1..n - 1 PROVE b[i + 1] = b[i] + 1
      BY <1>2 DEF Consecutive
    <3>2. m + i \in 1..m + n - 1 /\ i \in 1..n /\ i + 1 \in 1..n /\ (m + i) + 1 = m + (i + 1)
      OBVIOUS
    <3>3. w[m + (i + 1)] = w[m + i] + 1
      BY <2>0, <3>2
    <3>4. QED BY <1>5, <3>2, <3>3
  <2>3. ASSUME m # 0, n # 0 PROVE b[1] = a[m] + 1
    <3>1. m \in 1..m + n - 1 /\ m \in 1..m /\ 1 \in 1..n
      BY <2>3
    <3>2. QED BY <1>5, <2>0, <3>1
  <2>4. QED BY <1>1, <1>4, <2>1, <2>2, <2>3
<1>7. ASSUME Consecutive(a), Consecutive(b), a # <<>> /\ b # <<>> => b[1] = a[Len(a)] + 1
      PROVE  Consecutive(w)
  <2>1. SUFFICES ASSUME NEW i \in 1..m + n - 1 PROVE w[i + 1] = w[i] + 1
    BY <1>3, SMTT(40) DEF Consecutive
  <2>2. CASE i < m
    <3>1. i \in 1..m - 1 /\ i \in 1..m /\ i + 1 \in 1..m
      BY <2>2
    <3>2. a[i + 1] = a[i] + 1
      BY <1>1, <1>7, <3>1 DEF Consecutive
    <3>3. QED BY <1>5, <3>1, <3>2
  <2>3. CASE i = m
    <3>1. m # 0 /\ n # 0 /\ m \in 1..m /\ 1 \in 1..n
      BY <2>3
    <3>2. b[1] = a[m] + 1
      BY <1>1, <1>4, <1>7, <3>1
    <3>3. QED BY <1>5, <2>3, <3>1, <3>2
  <2>4. CASE i > m
    <3>1. i - m \in 1..n - 1 /\ i - m \in 1..n /\ (i - m) + 1 \in 1..n
          /\ m + (i - m) = i /\ m + ((i - m) + 1) = i + 1
      BY <2>4
    <3>2. b[(i - m) + 1] = b[i - m] + 1
      BY <1>2, <1>7, <3>1 DEF Consecutive
    <3>3. w[m + ((i - m) + 1)] = b[(i - m) + 1] /\ w[m + (i - m)] = b[i - m]
      BY <1>5, <3>1
    <3>4. QED BY <3>1, <3>2, <3>3
  <2>5. QED BY <2>2, <2>3, <2>4
<1>8. QED BY <1>3, <1>6, <1>7

\* RemoveAt leaves the other elements, in their order.
LEMMA RemoveAtFacts ==
  ASSUME NEW S, NEW s \in Seq(S), NEW k \in 1..Len(s)
  PROVE  /\ RemoveAt(s, k) \in Seq(S)
         /\ Len(RemoveAt(s, k)) = Len(s) - 1
         /\ \A i \in 1..Len(s) - 1 : RemoveAt(s, k)[i] = IF i < k THEN s[i] ELSE s[i + 1]
<1>1. PICK n \in Nat : n = Len(s)
  BY LenProperties
<1>2. \A i \in 1..n : s[i] \in S
  BY <1>1, ElementOfSeq
<1>3. k \in 1..n
  BY <1>1
<1> DEFINE a == SubSeq(s, 1, k - 1)
           b == SubSeq(s, k + 1, n)
           w == a \o b
<1>4. a \in Seq(S) /\ Len(a) = k - 1 /\ \A i \in 1..k - 1 : a[i] = s[i]
  <2>1. \A i \in 1..k - 1 : s[i] \in S
    BY <1>2, <1>3
  <2>2. /\ a \in Seq(S)
        /\ Len(a) = IF 1 <= k - 1 THEN (k - 1) - 1 + 1 ELSE 0
        /\ \A i \in 1..(k - 1) - 1 + 1 : a[i] = s[1 + i - 1]
    BY <1>3, <2>1, SubSeqProperties
  <2> HIDE DEF a
  <2>3. QED BY <1>3, <2>2
<1>5. b \in Seq(S) /\ Len(b) = n - k /\ \A i \in 1..n - k : b[i] = s[k + i]
  <2>1. \A i \in k + 1..n : s[i] \in S
    BY <1>2, <1>3
  <2>2. /\ b \in Seq(S)
        /\ Len(b) = IF k + 1 <= n THEN n - (k + 1) + 1 ELSE 0
        /\ \A i \in 1..n - (k + 1) + 1 : b[i] = s[(k + 1) + i - 1]
    BY <1>3, <2>1, SubSeqProperties
  <2> HIDE DEF b
  <2>3. QED BY <1>3, <2>2
<1>6. RemoveAt(s, k) = w
  BY <1>1 DEF RemoveAt
<1> HIDE DEF a, b
<1>7. /\ w \in Seq(S) /\ Len(w) = n - 1
      /\ \A i \in 1..n - 1 : w[i] = IF i <= k - 1 THEN a[i] ELSE b[i - (k - 1)]
  <2>1. /\ w \in Seq(S) /\ Len(w) = Len(a) + Len(b)
        /\ \A i \in 1..Len(a) + Len(b) : w[i] = IF i <= Len(a) THEN a[i] ELSE b[i - Len(a)]
    BY <1>4, <1>5, ConcatProperties
  <2> HIDE DEF w
  <2>2. Len(a) + Len(b) = n - 1
    BY <1>3, <1>4, <1>5
  <2>3. QED BY <1>4, <2>1, <2>2
<1> HIDE DEF w
<1>8. \A i \in 1..n - 1 : w[i] = IF i < k THEN s[i] ELSE s[i + 1]
  <2>1. SUFFICES ASSUME NEW i \in 1..n - 1 PROVE w[i] = IF i < k THEN s[i] ELSE s[i + 1]
    OBVIOUS
  <2>2. CASE i < k
    BY <1>3, <1>4, <1>7, <2>2
  <2>3. CASE ~(i < k)
    <3>1. i - (k - 1) \in 1..n - k /\ ~(i <= k - 1) /\ k + (i - (k - 1)) = i + 1
      BY <1>3, <2>3
    <3>2. QED BY <1>5, <1>7, <2>3, <3>1
  <2>4. QED BY <2>2, <2>3
<1>9. QED BY <1>1, <1>6, <1>7, <1>8

=============================================================================
