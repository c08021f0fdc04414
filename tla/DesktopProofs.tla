---------------------------- MODULE DesktopProofs ----------------------------
(***************************************************************************)
(* Proofs about Desktop for any files, node ids, rules, backends and       *)
(* bounds: the rows the window reads agree with the session after every    *)
(* command, step and tick, and a step that changes rows raises their bit.  *)
(***************************************************************************)
EXTENDS Desktop, SequenceProofs

-----------------------------------------------------------------------------
(* Sums over a finite set, by induction on its size.                       *)

\* One step of the recursion of SumFunction.
SumStep(f, sums, T) == IF T = {} THEN 0 ELSE LET x == CHOOSE y \in T : TRUE IN f[x] + sums[T \ {x}]

\* What the recursion defines: the sum over every subset of S.
Sums(f, S) == CHOOSE sums : sums = [T \in SUBSET S |-> SumStep(f, sums, T)]

\* SumFunction is the value of that recursion for the whole domain.
LEMMA SumIs ==
  ASSUME NEW f
  PROVE  SumFunction(f) = Sums(f, DOMAIN f)[DOMAIN f]
  BY DEF SumFunction, SumFunctionOnSet, FoldFunctionOnSet, MapThenFoldSet, Sums, SumStep

\* Whether sums solves the recursion for the sets of at most n elements.
SolvesSums(f, S, sums, n) ==
  sums = [T \in {U \in SUBSET S : Cardinality(U) <= n} |-> SumStep(f, sums, T)]

\* A finite set and what is left of it without the element that is chosen.
LEMMA Unchosen ==
  ASSUME NEW S, IsFiniteSet(S), NEW T \in SUBSET S, T # {}, NEW x, x = CHOOSE y \in T : TRUE
  PROVE  /\ x \in T /\ x \in S
         /\ T \ {x} \in SUBSET S /\ IsFiniteSet(T) /\ IsFiniteSet(T \ {x})
         /\ Cardinality(T) \in Nat /\ Cardinality(T \ {x}) = Cardinality(T) - 1 
<1>1. x \in T
  OBVIOUS
<1>2. IsFiniteSet(T)
  BY FS_Subset
<1>3. QED BY <1>1, <1>2, FS_RemoveElement, FS_CardinalityType

\* The recursion has a solution for the sets of every size.
LEMMA SumsUpTo ==
  ASSUME NEW S, IsFiniteSet(S), NEW f
  PROVE  \A n \in Nat : \E sums : SolvesSums(f, S, sums, n)
<1> DEFINE P == {n \in Nat : \E sums : SolvesSums(f, S, sums, n)}
           Small(n) == {U \in SUBSET S : Cardinality(U) <= n}
<1>0. \A T \in SUBSET S : IsFiniteSet(T) /\ Cardinality(T) \in Nat
  BY FS_Subset, FS_CardinalityType
<1>1. 0 \in P
  <2> DEFINE g == [T \in Small(0) |-> 0]
  <2>1. ASSUME NEW T \in Small(0) PROVE SumStep(f, g, T) = 0
    <3>1. T = {}
      BY <1>0, FS_EmptySet
    <3>2. QED BY <3>1 DEF SumStep
  <2>2. g = [T \in Small(0) |-> SumStep(f, g, T)]
    BY <2>1
  <2>3. QED BY <2>2 DEF SolvesSums
<1>2. ASSUME NEW n \in Nat, n \in P PROVE n + 1 \in P
  <2>1. PICK g : SolvesSums(f, S, g, n)
    BY <1>2
  <2> DEFINE h == [T \in Small(n + 1) |-> IF Cardinality(T) <= n THEN g[T] ELSE SumStep(f, g, T)]
  <2>2. ASSUME NEW T \in Small(n + 1) PROVE h[T] = SumStep(f, h, T)
    <3>1. h[T] = SumStep(f, g, T)
      BY <2>1 DEF SolvesSums
    <3>2. CASE T = {}
      BY <3>1, <3>2 DEF SumStep
    <3>3. CASE T # {}
      <4>1. PICK x : x = CHOOSE y \in T : TRUE
        OBVIOUS
      <4>2. PICK rest : rest = T \ {x}
        OBVIOUS
      <4>3. T \in SUBSET S /\ Cardinality(T) <= n + 1
        OBVIOUS
      <4>4. rest \in SUBSET S /\ Cardinality(rest) = Cardinality(T) - 1 /\ Cardinality(T) \in Nat
        BY <3>3, <4>1, <4>2, <4>3, Unchosen
      <4>5. rest \in Small(n + 1) /\ Cardinality(rest) <= n
        BY <4>3, <4>4
      <4>6. h[rest] = g[rest]
        BY <4>5
      <4>7. QED BY <3>1, <3>3, <4>1, <4>2, <4>6 DEF SumStep
    <3>4. QED BY <3>2, <3>3
  <2>3. h = [T \in Small(n + 1) |-> SumStep(f, h, T)]
    BY <2>2
  <2>4. SolvesSums(f, S, h, n + 1)
    BY <2>3 DEF SolvesSums
  <2>5. QED BY <2>4
<1>3. Nat \subseteq P
  <2> HIDE DEF P
  <2> QED BY <1>1, <1>2, SetInduction
<1>4. QED BY <1>3

\* So it has one for all the subsets of a finite set.
LEMMA SumsFacts ==
  ASSUME NEW S, IsFiniteSet(S), NEW f
  PROVE  \A T \in SUBSET S : Sums(f, S)[T] = SumStep(f, Sums(f, S), T)
<1>1. Cardinality(S) \in Nat /\ \A T \in SUBSET S : Cardinality(T) <= Cardinality(S)
  BY FS_Subset, FS_CardinalityType
<1>2. PICK g : SolvesSums(f, S, g, Cardinality(S))
  BY <1>1, SumsUpTo
<1>3. {U \in SUBSET S : Cardinality(U) <= Cardinality(S)} = SUBSET S
  BY <1>1
<1>4. g = [T \in SUBSET S |-> SumStep(f, g, T)]
  BY <1>2, <1>3 DEF SolvesSums
<1>5. Sums(f, S) = [T \in SUBSET S |-> SumStep(f, Sums(f, S), T)]
  BY <1>4 DEF Sums
<1>6. QED BY <1>5

\* The sum of naturals is a natural.
LEMMA SumType ==
  ASSUME NEW f, IsFiniteSet(DOMAIN f), \A x \in DOMAIN f : f[x] \in Nat
  PROVE  SumFunction(f) \in Nat
<1> DEFINE S == DOMAIN f
           sums == Sums(f, S)
           P == {n \in Nat : \A T \in SUBSET S : Cardinality(T) = n => sums[T] \in Nat}
<1>0. \A T \in SUBSET S : /\ IsFiniteSet(T) /\ Cardinality(T) \in Nat
                          /\ sums[T] = SumStep(f, sums, T)
  BY FS_Subset, FS_CardinalityType, SumsFacts
<1> HIDE DEF sums
<1>1. 0 \in P
  <2>1. ASSUME NEW T \in SUBSET S, Cardinality(T) = 0 PROVE sums[T] \in Nat
    <3>1. T = {}
      BY <1>0, <2>1, FS_EmptySet
    <3>2. sums[T] = 0
      BY <1>0, <3>1 DEF SumStep
    <3>3. QED BY <3>2
  <2>2. QED BY <2>1
<1>2. ASSUME NEW n \in Nat, n \in P PROVE n + 1 \in P
  <2>1. ASSUME NEW T \in SUBSET S, Cardinality(T) = n + 1 PROVE sums[T] \in Nat
    <3>0. Cardinality({}) = 0 /\ n + 1 # 0
      BY FS_EmptySet
    <3>1. T # {}
      BY <2>1, <3>0, Zenon
    <3>2. PICK x : x = CHOOSE y \in T : TRUE
      OBVIOUS
    <3>3. PICK rest : rest = T \ {x}
      OBVIOUS
    <3>4. rest \in SUBSET S /\ Cardinality(rest) = Cardinality(T) - 1 /\ x \in S
      BY <3>1, <3>2, <3>3, Unchosen
    <3>5. sums[rest] \in Nat
      BY <1>2, <2>1, <3>4
    <3>6. sums[T] = f[x] + sums[rest]
      BY <1>0, <3>1, <3>2, <3>3 DEF SumStep
    <3>7. QED BY <3>4, <3>5, <3>6
  <2>2. QED BY <2>1
<1>3. Nat \subseteq P
  <2> HIDE DEF P
  <2> QED BY <1>1, <1>2, SetInduction
<1>4. S \in SUBSET S /\ Cardinality(S) \in Nat
  BY FS_CardinalityType
<1>5. sums[S] \in Nat
  BY <1>3, <1>4
<1>6. QED BY <1>5, SumIs DEF sums

\* The sum of the sums of two functions is the sum of their values.
LEMMA SumAdds ==
  ASSUME NEW f, NEW g, NEW h, IsFiniteSet(DOMAIN f), DOMAIN g = DOMAIN f, DOMAIN h = DOMAIN f,
         \A x \in DOMAIN f : f[x] \in Nat /\ g[x] \in Nat /\ h[x] = f[x] + g[x]
  PROVE  SumFunction(h) = SumFunction(f) + SumFunction(g)
<1> DEFINE S == DOMAIN f
           F == Sums(f, S)
           G == Sums(g, S)
           H == Sums(h, S)
           P == {n \in Nat : \A T \in SUBSET S :
                   Cardinality(T) = n => F[T] \in Nat /\ G[T] \in Nat /\ H[T] = F[T] + G[T]}
<1>0. \A T \in SUBSET S : /\ IsFiniteSet(T) /\ Cardinality(T) \in Nat
                          /\ F[T] = SumStep(f, F, T) /\ G[T] = SumStep(g, G, T) /\ H[T] = SumStep(h, H, T)
  BY FS_Subset, FS_CardinalityType, SumsFacts
<1> HIDE DEF F, G, H
<1>1. 0 \in P
  <2>1. ASSUME NEW T \in SUBSET S, Cardinality(T) = 0 PROVE F[T] \in Nat /\ G[T] \in Nat /\ H[T] = F[T] + G[T]
    <3>1. T = {}
      BY <1>0, <2>1, FS_EmptySet
    <3>2. F[T] = 0 /\ G[T] = 0 /\ H[T] = 0
      BY <1>0, <3>1 DEF SumStep
    <3>3. QED BY <3>2
  <2>2. QED BY <2>1
<1>2. ASSUME NEW n \in Nat, n \in P PROVE n + 1 \in P
  <2>1. ASSUME NEW T \in SUBSET S, Cardinality(T) = n + 1 PROVE F[T] \in Nat /\ G[T] \in Nat /\ H[T] = F[T] + G[T]
    <3>0. Cardinality({}) = 0 /\ n + 1 # 0
      BY FS_EmptySet
    <3>1. T # {}
      BY <2>1, <3>0, Zenon
    <3>2. PICK x : x = CHOOSE y \in T : TRUE
      OBVIOUS
    <3>3. PICK rest : rest = T \ {x}
      OBVIOUS
    <3>4. rest \in SUBSET S /\ Cardinality(rest) = Cardinality(T) - 1 /\ x \in S
      BY <3>1, <3>2, <3>3, Unchosen
    <3>5. F[rest] \in Nat /\ G[rest] \in Nat /\ H[rest] = F[rest] + G[rest]
      BY <1>2, <2>1, <3>4
    <3>6. F[T] = f[x] + F[rest] /\ G[T] = g[x] + G[rest] /\ H[T] = h[x] + H[rest]
      BY <1>0, <3>1, <3>2, <3>3, ZenonT(60) DEF SumStep
    <3>7. f[x] \in Nat /\ g[x] \in Nat /\ h[x] = f[x] + g[x]
      BY <3>4
    <3>8. QED BY <3>5, <3>6, <3>7
  <2>2. QED BY <2>1
<1>3. Nat \subseteq P
  <2> HIDE DEF P
  <2> QED BY <1>1, <1>2, SetInduction
<1>4. S \in SUBSET S /\ Cardinality(S) \in Nat
  BY FS_CardinalityType
<1>5. H[S] = F[S] + G[S]
  BY <1>3, <1>4
<1>6. SumFunction(f) = F[S] /\ SumFunction(g) = G[S] /\ SumFunction(h) = H[S]
  BY SumIs DEF F, G, H
<1>7. QED BY <1>5, <1>6

\* Items counted by where they belong are counted once each.
LEMMA SumParts ==
  ASSUME NEW I, IsFiniteSet(I), NEW f, IsFiniteSet(DOMAIN f), NEW at, \A i \in I : at[i] \in DOMAIN f,
         \A x \in DOMAIN f : f[x] = Cardinality({i \in I : at[i] = x})
  PROVE  SumFunction(f) = Cardinality(I)
<1> DEFINE S == DOMAIN f
           F == Sums(f, S)
           In(T) == {i \in I : at[i] \in T}
           P == {n \in Nat : \A T \in SUBSET S : Cardinality(T) = n => F[T] = Cardinality(In(T))}
<1>0. \A T \in SUBSET S : /\ IsFiniteSet(T) /\ Cardinality(T) \in Nat
                          /\ F[T] = SumStep(f, F, T)
  BY FS_Subset, FS_CardinalityType, SumsFacts
<1>f. \A J : J \subseteq I => IsFiniteSet(J) /\ Cardinality(J) \in Nat
  BY FS_Subset, FS_CardinalityType
<1> HIDE DEF F
<1>1. 0 \in P
  <2>1. ASSUME NEW T \in SUBSET S, Cardinality(T) = 0 PROVE F[T] = Cardinality(In(T))
    <3>1. T = {}
      BY <1>0, <2>1, FS_EmptySet
    <3>2. F[T] = 0 /\ In(T) = {}
      BY <1>0, <3>1 DEF SumStep
    <3>3. QED BY <3>2, FS_EmptySet
  <2>2. QED BY <2>1
<1>2. ASSUME NEW n \in Nat, n \in P PROVE n + 1 \in P
  <2>1. ASSUME NEW T \in SUBSET S, Cardinality(T) = n + 1 PROVE F[T] = Cardinality(In(T))
    <3>0. Cardinality({}) = 0 /\ n + 1 # 0
      BY FS_EmptySet
    <3>1. T # {}
      BY <2>1, <3>0, Zenon
    <3>2. PICK x : x = CHOOSE y \in T : TRUE
      OBVIOUS
    <3>3. PICK rest : rest = T \ {x}
      OBVIOUS
    <3>4. rest \in SUBSET S /\ Cardinality(rest) = Cardinality(T) - 1 /\ x \in S /\ x \in T
      BY <3>1, <3>2, <3>3, Unchosen
    <3>5. F[rest] = Cardinality(In(rest))
      BY <1>2, <2>1, <3>4
    <3>6. F[T] = f[x] + F[rest]
      BY <1>0, <3>1, <3>2, <3>3 DEF SumStep
    <3>7. PICK here : here = {i \in I : at[i] = x}
      OBVIOUS
    <3>8. PICK there : there = In(rest)
      OBVIOUS
    <3>9. In(T) = here \cup there /\ here \cap there = {} /\ here \subseteq I /\ there \subseteq I
      BY <3>3, <3>4, <3>7, <3>8
    <3>10. IsFiniteSet(here) /\ IsFiniteSet(there) /\ Cardinality(here) \in Nat /\ Cardinality(there) \in Nat
      BY <1>f, <3>9
    <3>11. Cardinality(here \cup there) = Cardinality(here) + Cardinality(there)
      <4>1. Cardinality(here \cap there) = 0
        BY <3>9, <3>0
      <4>2. Cardinality(here \cup there) = Cardinality(here) + Cardinality(there) - Cardinality(here \cap there)
        BY <3>10, FS_Union
      <4>3. QED BY <3>10, <4>1, <4>2
    <3>12. f[x] = Cardinality(here)
      BY <3>4, <3>7
    <3>13. QED BY <3>5, <3>6, <3>8, <3>9, <3>11, <3>12
  <2>2. QED BY <2>1
<1>3. Nat \subseteq P
  <2> HIDE DEF P
  <2> QED BY <1>1, <1>2, SetInduction
<1>4. S \in SUBSET S /\ Cardinality(S) \in Nat
  BY FS_CardinalityType
<1>5. F[S] = Cardinality(In(S))
  BY <1>3, <1>4
<1>6. In(S) = I
  OBVIOUS
<1>7. QED BY <1>5, <1>6, SumIs DEF F

-----------------------------------------------------------------------------
(* The invariant.                                                          *)

\* A record that is updated has the fields it had.
Rows == {"topology", "faults", "rules", "enforced", "ports"}
Traffic == {"running", "analyzer", "ticks", "packets", "dropped"}

Rule == [name: RuleNames, contains: BOOLEAN, enabled: BOOLEAN]

RowsInv ==
  /\ DOMAIN rows = Rows
  /\ DOMAIN rows.rules = DOMAIN rules
  /\ \A i \in DOMAIN rules : rows.rules[i].hits \in Nat

\* A lab of some nodes and some links.
Shaped(c) == DOMAIN c = {"name", "nodes", "links"} /\ IsSeq(c.nodes) /\ IsSeq(c.links)

LabInv ==
  /\ Shaped(configuration)
  /\ faults = [t \in DOMAIN faults |-> faults[t]]
  /\ rules \in Seq(Rule)
  /\ \A name \in DOMAIN hits : hits[name] \in Nat

TrafficInv ==
  /\ DOMAIN traffic = Traffic /\ traffic.running \in BOOLEAN
  /\ IsFiniteSet(DOMAIN counters)

\* Nothing, a node or the two ends of a link.
SelectionInv ==
  \/ selection = <<>>
  \/ \E a : selection = <<a>>
  \/ \E a, b : selection = <<a, b>>

DesktopInv == RowsInv /\ LabInv /\ TrafficInv /\ SelectionInv /\ ViewsAgree

-----------------------------------------------------------------------------
(* Commands that leave the views alone.                                    *)

\* What the views are of.
views == <<lab, selection, rows>>

\* Nothing the views are of changes.
LEMMA ViewsStay ==
  ASSUME DesktopInv, UNCHANGED views, DOMAIN counters' = DOMAIN counters,
         DOMAIN traffic' = Traffic, traffic'.running \in BOOLEAN
  PROVE  DesktopInv'
<1>1. UNCHANGED <<configuration, topology, faults, leases, rules, hits, selection, rows>>
  BY DEF views, lab
<1>2. RowsInv'
  BY <1>1 DEF DesktopInv, RowsInv
<1>3. LabInv'
  BY <1>1 DEF DesktopInv, LabInv
<1>4. TrafficInv' /\ SelectionInv'
  BY <1>1 DEF DesktopInv, TrafficInv, SelectionInv
<1>5. ViewsAgree'
  BY <1>1 DEF DesktopInv, ViewsAgree, has_topology, EnforcedPorts, HitCount, NodeIds
<1>6. QED BY <1>2, <1>3, <1>4, <1>5 DEF DesktopInv

\* A command that only reports something, or does nothing.
LEMMA NothingChanges ==
  ASSUME DesktopInv, set_status \/ Ignored \/ UNCHANGED sessionvars
  PROVE  DesktopInv'
<1>1. UNCHANGED views /\ UNCHANGED <<counters, traffic>>
  BY DEF set_status, Ignored, sessionvars, views
<1>2. DOMAIN traffic' = Traffic /\ traffic'.running \in BOOLEAN
  BY <1>1 DEF DesktopInv, TrafficInv
<1>3. QED BY <1>1, <1>2, ViewsStay

\* The report is changed.
LEMMA ReportChanges ==
  ASSUME DesktopInv, UNCHANGED <<lab, selection, traffic, counters, rows>>
  PROVE  DesktopInv'
<1>1. UNCHANGED views /\ UNCHANGED <<counters, traffic>>
  BY DEF views
<1>2. DOMAIN traffic' = Traffic /\ traffic'.running \in BOOLEAN
  BY <1>1 DEF DesktopInv, TrafficInv
<1>3. QED BY <1>1, <1>2, ViewsStay

-----------------------------------------------------------------------------
(* Topology.                                                               *)

\* A configuration has finitely many hosts.
LEMMA HostsFacts ==
  ASSUME NEW c, Shaped(c)
  PROVE  /\ IsFiniteSet(ToSet(Hosts(c))) /\ Len(Hosts(c)) \in Nat
         /\ \A i \in 1..Len(Hosts(c)) : Hosts(c)[i] \in ToSet(Hosts(c))
<1>1. c.nodes \in Seq(Range(c.nodes))
  BY DEF Shaped, IsSeq
<1>2. PICK T : T = [id: STRING, type: {"host"}]
  OBVIOUS
<1>3. PICK hosts \in Seq(Range(c.nodes)) : hosts = Select(c.nodes, T)
  <2>1. Select(c.nodes, T) \in Seq(Range(c.nodes))
    BY <1>1, SelectFacts
  <2>2. QED BY <2>1
<1>4. PICK n \in Nat : DOMAIN hosts = 1..n
  BY LenProperties
<1>5. Hosts(c) = [i \in 1..n |-> hosts[i].id]
  BY <1>2, <1>3, <1>4 DEF Hosts
<1>6. IsFiniteSet(1..n)
  BY FS_Interval
<1>7. PICK ids : ids = [i \in 1..n |-> hosts[i].id]
  OBVIOUS
<1>8. IsFiniteSet({ids[i] : i \in 1..n})
  BY <1>6, ImageFinite
<1>9. ToSet(Hosts(c)) = {ids[i] : i \in 1..n}
  BY <1>5, <1>7 DEF ToSet
<1>10. Len(Hosts(c)) = n
  BY <1>5
<1>11. \A i \in 1..n : Hosts(c)[i] \in ToSet(Hosts(c))
  BY <1>5 DEF ToSet
<1>12. QED BY <1>8, <1>9, <1>10, <1>11

\* A topology is committed, or refused.
LEMMA Commits ==
  ASSUME DesktopInv, NEW edited, Shaped(edited), commit_topology(edited)
  PROVE  DesktopInv'
<1>1. CASE ValidationError(edited) # "none"
  <2>1. set_status
    BY <1>1 DEF commit_topology
  <2>2. QED BY <2>1, NothingChanges
<1>2. CASE ValidationError(edited) = "none"
  <2>1. /\ configuration' = edited /\ topology' = edited
        /\ faults' = <<>> /\ leases' = <<>> /\ hits' = <<>> /\ selection' = <<>>
        /\ traffic' = NoTraffic
        /\ counters' = [h \in ToSet(Hosts(edited)) |-> ZeroCounters]
        /\ rows' = rebuild_fault_rows(rebuild_topology_rows(ResetRows, edited), <<>>)
        /\ rules' = rules
    BY <1>2 DEF commit_topology, ResetTraffic
  <2>2. DOMAIN <<>> = {} /\ Len(<<>>) = 0 /\ <<>> = [t \in {} |-> <<>>[t]]
    OBVIOUS
  <2>3. /\ DOMAIN rows' = Rows /\ rows'.topology = edited /\ rows'.faults = <<>>
        /\ rows'.enforced = {} /\ rows'.rules = rows.rules
    BY <2>1 DEF rebuild_fault_rows, rebuild_topology_rows, ResetRows, DesktopInv, RowsInv, Rows
  <2>4. RowsInv'
    BY <2>1, <2>3 DEF DesktopInv, RowsInv
  <2>5. LabInv'
    BY <2>1, <2>2 DEF DesktopInv, LabInv
  <2>6. TrafficInv' /\ SelectionInv'
    <3>1. IsFiniteSet(DOMAIN counters')
      BY <2>1, HostsFacts
    <3>2. QED BY <2>1, <2>2, <3>1 DEF NoTraffic, Traffic, TrafficInv, SelectionInv
  <2>7. ASSUME NEW i \in DOMAIN rules' PROVE rows'.rules[i].hits >= HitCount(hits', rules'[i].name)
    <3>1. HitCount(hits', rules'[i].name) = 0
      BY <2>1, <2>2 DEF HitCount
    <3>2. rows'.rules[i].hits \in Nat
      BY <2>1, <2>3 DEF DesktopInv, RowsInv
    <3>3. QED BY <3>1, <3>2
  <2>8. [i \in DOMAIN rows'.rules |-> rows'.rules[i].rule] = rules'
    BY <2>1, <2>3 DEF DesktopInv, ViewsAgree
  <2>9. ViewsAgree'
    BY <2>1, <2>2, <2>3, <2>7, <2>8 DEF ViewsAgree, has_topology, EnforcedPorts
  <2>10. QED BY <2>4, <2>5, <2>6, <2>9 DEF DesktopInv
<1>3. QED BY <1>1, <1>2

\* A lab keeps its shape when its name, its nodes or its links are replaced.
LEMMA Reshaped ==
  ASSUME NEW c, Shaped(c), NEW name, NEW nodes, IsSeq(nodes), NEW links, IsSeq(links)
  PROVE  /\ Shaped([c EXCEPT !.name = name, !.nodes = nodes])
         /\ Shaped([c EXCEPT !.nodes = nodes, !.links = links])
         /\ Shaped([c EXCEPT !.links = links])
<1>1. Shaped([c EXCEPT !.name = name, !.nodes = nodes])
  BY DEF Shaped
<1>2. Shaped([c EXCEPT !.nodes = nodes, !.links = links])
  BY DEF Shaped
<1>3. Shaped([c EXCEPT !.links = links])
  BY DEF Shaped
<1>4. QED BY <1>1, <1>2, <1>3

\* A topology file is opened, or a node or a link is added.
LEMMA EditsCommit ==
  ASSUME DesktopInv, open_topology \/ add_node \/ add_link
  PROVE  set_status \/ Ignored \/ \E c : Shaped(c) /\ commit_topology(c)
<1>1. CASE open_topology
  <2>1. CASE set_status
    BY <2>1
  <2>2. ASSUME NEW c \in Files, commit_topology(c) PROVE Shaped(c)
    <3>1. c \in [name: STRING, nodes: Seq(TopologyNode), links: Seq(TopologyLink)]
      BY SessionConfig DEF TopologyConfiguration
    <3>2. IsSeq(c.nodes) /\ IsSeq(c.links)
      BY <3>1, SeqFacts
    <3>3. Shaped(c)
      BY <3>1, <3>2 DEF Shaped
    <3>4. QED BY <3>3
  <2>3. QED BY <1>1, <2>1, <2>2 DEF open_topology
<1>2. Shaped(configuration)
  BY DEF DesktopInv, LabInv
<1>3. \A e : IsSeq(Append(configuration.nodes, e)) /\ IsSeq(Append(configuration.links, e))
  BY <1>2, SeqFacts DEF Shaped
<1>4. CASE add_node
  <2>1. PICK id \in Ids \cup {""}, type \in {"host", "switch"} :
          commit_topology([configuration EXCEPT
            !.name = IF @ = "" THEN "untitled-lab" ELSE @, !.nodes = Append(@, Node(id, type))])
    BY <1>4 DEF add_node
  <2>2. Shaped([configuration EXCEPT
            !.name = IF @ = "" THEN "untitled-lab" ELSE @, !.nodes = Append(@, Node(id, type))])
    <3>1. PICK name : name = IF configuration.name = "" THEN "untitled-lab" ELSE configuration.name
      OBVIOUS
    <3>2. PICK nodes : nodes = Append(configuration.nodes, Node(id, type))
      OBVIOUS
    <3>3. Shaped([configuration EXCEPT !.name = name, !.nodes = nodes])
      BY <1>2, <1>3, <3>2, Reshaped, IsSeq(configuration.links) DEF Shaped
    <3>4. QED BY <3>1, <3>2, <3>3
  <2>3. QED BY <2>1, <2>2, ZenonT(60)
<1>5. CASE add_link
  <2>1. PICK from \in Ids, to \in Ids, latency \in {-1, 1} :
          commit_topology([configuration EXCEPT !.links = Append(@, Link(from, to, latency))])
    BY <1>5 DEF add_link
  <2>2. Shaped([configuration EXCEPT !.links = Append(@, Link(from, to, latency))])
    <3>1. PICK links : links = Append(configuration.links, Link(from, to, latency))
      OBVIOUS
    <3>2. Shaped([configuration EXCEPT !.links = links])
      BY <1>2, <1>3, <3>1, Reshaped
    <3>3. QED BY <3>1, <3>2
  <2>3. QED BY <2>1, <2>2
<1>6. QED BY <1>1, <1>4, <1>5

\* The selected node, with its links, or the selected link is removed.
LEMMA RemovalsCommit ==
  ASSUME DesktopInv, remove_selected
  PROVE  set_status \/ Ignored \/ \E c : Shaped(c) /\ commit_topology(c)
<1>1. Shaped(configuration)
  BY DEF DesktopInv, LabInv
<1>2. \A T : IsSeq(Select(configuration.nodes, T)) /\ IsSeq(Select(configuration.links, T))
  <2>1. TAKE T
  <2>2. /\ Select(configuration.nodes, T) \in Seq(Range(configuration.nodes))
        /\ Select(configuration.links, T) \in Seq(Range(configuration.links))
    BY <1>1, SelectFacts DEF Shaped, IsSeq
  <2>3. QED BY <2>2, SeqFacts
<1>3. CASE selection = <<>>
  BY <1>3 DEF remove_selected
<1>4. ASSUME NEW a, selection = <<a>> PROVE \E c : Shaped(c) /\ commit_topology(c)
  <2>1. selection # <<>> /\ Len(selection) = 1
    BY <1>4
  <2>2. commit_topology([configuration EXCEPT
           !.nodes = Select(@, {n \in ToSet(@) : n.id # selection[1]}),
           !.links = Select(@, {l \in ToSet(@) : selection[1] \notin {l.from, l.to}})])
    BY <2>1 DEF remove_selected
  <2>3. PICK nodes : nodes = Select(configuration.nodes, {n \in ToSet(configuration.nodes) : n.id # selection[1]})
    OBVIOUS
  <2>4. PICK links : links = Select(configuration.links,
                                    {l \in ToSet(configuration.links) : selection[1] \notin {l.from, l.to}})
    OBVIOUS
  <2>5. Shaped([configuration EXCEPT !.nodes = nodes, !.links = links])
    BY <1>1, <1>2, <2>3, <2>4, Reshaped
  <2>6. commit_topology([configuration EXCEPT !.nodes = nodes, !.links = links])
    BY <2>2, <2>3, <2>4
  <2>7. QED BY <2>5, <2>6
<1>5. ASSUME NEW a, NEW b, selection = <<a, b>> PROVE \E c : Shaped(c) /\ commit_topology(c)
  <2>1. selection # <<>> /\ Len(selection) = 2
    BY <1>5
  <2>2. commit_topology([configuration EXCEPT
           !.links = Select(@, {l \in ToSet(@) : ~Joins(l, selection[1], selection[2])})])
    BY <2>1 DEF remove_selected
  <2>3. PICK links : links = Select(configuration.links,
                                    {l \in ToSet(configuration.links) : ~Joins(l, selection[1], selection[2])})
    OBVIOUS
  <2>4. Shaped([configuration EXCEPT !.links = links])
    BY <1>1, <1>2, <2>3, Reshaped
  <2>5. commit_topology([configuration EXCEPT !.links = links])
    BY <2>2, <2>3
  <2>6. QED BY <2>4, <2>5
<1>6. QED BY <1>3, <1>4, <1>5 DEF DesktopInv, SelectionInv

\* The commands that edit the topology.
LEMMA Edits ==
  ASSUME DesktopInv, open_topology \/ add_node \/ add_link \/ remove_selected
  PROVE  DesktopInv'
<1>1. set_status \/ Ignored \/ \E c : Shaped(c) /\ commit_topology(c)
  BY EditsCommit, RemovalsCommit
<1>2. QED BY <1>1, NothingChanges, Commits

\* A node or a link of the configuration is selected, or nothing is.
LEMMA Selections ==
  ASSUME DesktopInv, select_node \/ select_link \/ clear_selection
  PROVE  DesktopInv'
<1>1. ASSUME NEW endpoints, SetSelection(endpoints),
             \/ endpoints = <<>>
             \/ \E id \in NodeIds(configuration) : endpoints = <<id>>
             \/ \E l \in ToSet(configuration.links) : endpoints = <<l.from, l.to>>
      PROVE  DesktopInv'
  <2>1. /\ selection' = endpoints
        /\ UNCHANGED <<configuration, topology, faults, leases, rules, hits, traffic, counters, rows>>
    BY <1>1 DEF SetSelection, lab
  <2>2. RowsInv' /\ LabInv' /\ TrafficInv'
    BY <2>1 DEF DesktopInv, RowsInv, LabInv, TrafficInv
  <2>3. SelectionInv'
    BY <1>1, <2>1 DEF SelectionInv
  <2>4. (CASE Len(selection') = 0 -> TRUE
          [] Len(selection') = 1 -> selection'[1] \in NodeIds(configuration')
          [] Len(selection') = 2 -> \E l \in ToSet(configuration'.links) : <<l.from, l.to>> = selection')
    <3>1. CASE endpoints = <<>>
      BY <2>1, <3>1
    <3>2. ASSUME NEW id \in NodeIds(configuration), endpoints = <<id>>
          PROVE  /\ Len(selection') = 1 /\ selection'[1] \in NodeIds(configuration')
      BY <2>1, <3>2
    <3>3. ASSUME NEW l \in ToSet(configuration.links), endpoints = <<l.from, l.to>>
          PROVE  /\ Len(selection') = 2
                 /\ \E k \in ToSet(configuration'.links) : <<k.from, k.to>> = selection'
      BY <2>1, <3>3
    <3>4. \/ Len(selection') = 0
          \/ Len(selection') = 1 /\ selection'[1] \in NodeIds(configuration')
          \/ Len(selection') = 2 /\ \E k \in ToSet(configuration'.links) : <<k.from, k.to>> = selection'
      BY <1>1, <2>1, <3>2, <3>3
    <3>5. CASE Len(selection') = 0
      BY <3>5
    <3>6. CASE Len(selection') = 1 /\ selection'[1] \in NodeIds(configuration')
      BY <3>6
    <3>7. CASE Len(selection') = 2 /\ \E k \in ToSet(configuration'.links) : <<k.from, k.to>> = selection'
      BY <3>7
    <3>8. QED BY <3>4, <3>5, <3>6, <3>7
  <2>5. ViewsAgree'
    BY <2>1, <2>4 DEF DesktopInv, ViewsAgree, has_topology, EnforcedPorts, HitCount, NodeIds
  <2>6. QED BY <2>2, <2>3, <2>5 DEF DesktopInv
<1>2. CASE select_node
  BY <1>1, <1>2, NothingChanges DEF select_node
<1>3. CASE select_link
  <2>1. PICK a \in Ids, b \in Ids :
          LET found == {l \in ToSet(configuration.links) : Joins(l, a, b)}
          IN IF found = {} THEN Ignored ELSE \E l \in found : SetSelection(<<l.from, l.to>>)
    BY <1>3 DEF select_link
  <2>2. QED BY <1>1, <2>1, NothingChanges
<1>4. CASE clear_selection
  BY <1>1, <1>4 DEF clear_selection
<1>5. QED BY <1>2, <1>3, <1>4

-----------------------------------------------------------------------------
(* Faults and policies.                                                    *)

\* The faults change, and their rows with them.
LEMMA FaultsChange ==
  ASSUME DesktopInv, NEW f, f = [t \in DOMAIN f |-> f[t]], faults' = f, rows' = rebuild_fault_rows(rows, f),
         UNCHANGED <<configuration, topology, leases, rules, hits, selection, traffic, counters>>
  PROVE  DesktopInv'
<1>1. /\ DOMAIN rows' = Rows /\ rows'.faults = f /\ rows'.topology = rows.topology
      /\ rows'.rules = rows.rules /\ rows'.enforced = rows.enforced
  BY DEF DesktopInv, RowsInv, Rows, rebuild_fault_rows
<1>2. RowsInv' /\ LabInv' /\ TrafficInv' /\ SelectionInv'
  BY <1>1 DEF DesktopInv, RowsInv, LabInv, TrafficInv, SelectionInv
<1>3. ViewsAgree'
  BY <1>1 DEF DesktopInv, ViewsAgree, has_topology, EnforcedPorts, HitCount, NodeIds
<1>4. QED BY <1>2, <1>3 DEF DesktopInv

\* A function with one more argument, or one fewer.
LEMMA Functional ==
  ASSUME NEW f, NEW key, NEW v
  PROVE  /\ With(f, key, v) = [k \in DOMAIN With(f, key, v) |-> With(f, key, v)[k]]
         /\ Without(f, key) = [k \in DOMAIN Without(f, key) |-> Without(f, key)[k]]
         /\ \A k \in DOMAIN With(f, key, v) : With(f, key, v)[k] = v \/ (k \in DOMAIN f /\ With(f, key, v)[k] = f[k])
         /\ \A k \in DOMAIN Without(f, key) : k \in DOMAIN f /\ Without(f, key)[k] = f[k]
<1>1. With(f, key, v) = [k \in DOMAIN f \cup {key} |-> IF k = key THEN v ELSE f[k]]
  BY DEF With
<1>2. /\ With(f, key, v) = [k \in DOMAIN With(f, key, v) |-> With(f, key, v)[k]]
      /\ \A k \in DOMAIN With(f, key, v) : With(f, key, v)[k] = v \/ (k \in DOMAIN f /\ With(f, key, v)[k] = f[k])
  BY <1>1
<1>3. Without(f, key) = [k \in DOMAIN f \ {key} |-> f[k]]
  BY DEF Without
<1>4. QED BY <1>2, <1>3

\* The operator sets or clears a fault.
LEMMA OperatorFaults ==
  ASSUME DesktopInv, apply_selected_fault \/ clear_fault
  PROVE  DesktopInv'
<1>0. faults = [t \in DOMAIN faults |-> faults[t]]
  BY DEF DesktopInv, LabInv
<1>1. CASE apply_selected_fault
  <2>1. CASE selection = <<>>
    <3>1. set_status
      BY <1>1, <2>1 DEF apply_selected_fault
    <3>2. QED BY <3>1, NothingChanges
  <2>2. CASE selection # <<>>
    <3>1. PICK accepted \in BOOLEAN :
            /\ faults' = IF accepted THEN With(faults, ToSet(selection), {"lossy"}) ELSE faults
            /\ rows' = rebuild_fault_rows(rows, faults')
            /\ UNCHANGED <<configuration, topology, leases, rules, hits, selection, traffic, counters>>
      BY <1>1, <2>2 DEF apply_selected_fault
    <3>2. faults' = [t \in DOMAIN faults' |-> faults'[t]]
      <4>1. CASE accepted
        BY <3>1, <4>1, Functional
      <4>2. CASE ~accepted
        BY <1>0, <3>1, <4>2
      <4>3. QED BY <4>1, <4>2
    <3>3. QED BY <3>1, <3>2, FaultsChange
  <2>3. QED BY <2>1, <2>2
<1>2. CASE clear_fault
  <2>1. PICK target :
          /\ faults' = Without(faults, target)
          /\ rows' = rebuild_fault_rows(rows, faults')
          /\ UNCHANGED <<configuration, topology, leases, rules, hits, selection, traffic, counters>>
    BY <1>2 DEF clear_fault
  <2>2. faults' = [t \in DOMAIN faults' |-> faults'[t]]
    BY <2>1, Functional
  <2>3. QED BY <2>1, <2>2, FaultsChange
<1>3. QED BY <1>1, <1>2

\* The rows of the rules are those of the rules, with their hits.
LEMMA PolicyRows ==
  ASSUME NEW r, DOMAIN r = Rows, NEW rs, IsSeq(rs), NEW h, \A name \in DOMAIN h : h[name] \in Nat,
         NEW ports, NEW new, new = rebuild_policy_rows(r, rs, h, ports)
  PROVE  /\ DOMAIN new = Rows /\ new.enforced = ports
         /\ new.topology = r.topology /\ new.faults = r.faults /\ new.ports = r.ports
         /\ DOMAIN new.rules = DOMAIN rs
         /\ \A i \in DOMAIN rs : new.rules[i].hits \in Nat /\ new.rules[i].hits >= HitCount(h, rs[i].name)
         /\ [i \in DOMAIN new.rules |-> new.rules[i].rule] = rs
<1>1. PICK rr : rr = [i \in DOMAIN rs |-> [rule |-> rs[i], hits |-> HitCount(h, rs[i].name)]]
  OBVIOUS
<1>2. new = [r EXCEPT !.rules = rr, !.enforced = ports]
  BY <1>1 DEF rebuild_policy_rows
<1>3. /\ DOMAIN new = Rows /\ new.enforced = ports /\ new.rules = rr
      /\ new.topology = r.topology /\ new.faults = r.faults /\ new.ports = r.ports
  BY <1>2 DEF Rows
<1>4. \A i \in DOMAIN rs : HitCount(h, rs[i].name) \in Nat
  BY DEF HitCount
<1>5. /\ DOMAIN rr = DOMAIN rs
      /\ \A i \in DOMAIN rs : rr[i].rule = rs[i] /\ rr[i].hits = HitCount(h, rs[i].name)
  BY <1>1
<1>6. rs = [i \in DOMAIN rs |-> rs[i]]
  BY DEF IsSeq
<1>7. [i \in DOMAIN rr |-> rr[i].rule] = rs
  BY <1>5, <1>6
<1>8. \A i \in DOMAIN rs : rr[i].hits \in Nat /\ rr[i].hits >= HitCount(h, rs[i].name)
  BY <1>4, <1>5
<1>9. QED BY <1>3, <1>5, <1>7, <1>8

\* The rules change, and their rows with them.
LEMMA RulesChange ==
  ASSUME DesktopInv, NEW rs \in Seq(Rule), NEW h, \A name \in DOMAIN h : h[name] \in Nat, ChangeRules(rs, h)
  PROVE  DesktopInv'
<1>1. /\ rules' = rs /\ hits' = h /\ rows' = rebuild_policy_rows(rows, rs, h, EnforcedPorts)
      /\ UNCHANGED <<configuration, topology, faults, leases, selection, traffic, counters>>
  BY DEF ChangeRules
<1>2. IsSeq(rs)
  BY SeqFacts
<1>3. /\ DOMAIN rows' = Rows /\ rows'.enforced = EnforcedPorts
      /\ rows'.topology = rows.topology /\ rows'.faults = rows.faults
      /\ DOMAIN rows'.rules = DOMAIN rs
      /\ \A i \in DOMAIN rs : rows'.rules[i].hits \in Nat /\ rows'.rules[i].hits >= HitCount(h, rs[i].name)
      /\ [i \in DOMAIN rows'.rules |-> rows'.rules[i].rule] = rs
  BY <1>1, <1>2, PolicyRows DEF DesktopInv, RowsInv
<1>4. RowsInv' /\ LabInv' /\ TrafficInv' /\ SelectionInv'
  BY <1>1, <1>3 DEF DesktopInv, RowsInv, LabInv, TrafficInv, SelectionInv
<1>5. ViewsAgree'
  BY <1>1, <1>3 DEF DesktopInv, ViewsAgree, has_topology, EnforcedPorts, NodeIds
<1>6. QED BY <1>4, <1>5 DEF DesktopInv

\* A rule is added, removed, enabled or disabled.
LEMMA Policies ==
  ASSUME DesktopInv, add_policy \/ remove_policy \/ set_policy_enabled
  PROVE  DesktopInv'
<1>0. rules \in Seq(Rule) /\ \A name \in DOMAIN hits : hits[name] \in Nat
  BY DEF DesktopInv, LabInv
<1>1. CASE add_policy
  <2>1. PICK name \in RuleNames \cup {""}, contains \in BOOLEAN :
          IF name = "" \/ \E r \in ToSet(rules) : r.name = name THEN set_status
          ELSE ChangeRules(Append(rules, [name |-> name, contains |-> contains, enabled |-> TRUE]), hits)
    BY <1>1 DEF add_policy
  <2>2. CASE set_status
    BY <2>2, NothingChanges
  <2>3. CASE /\ name # ""
             /\ ChangeRules(Append(rules, [name |-> name, contains |-> contains, enabled |-> TRUE]), hits)
    <3>1. [name |-> name, contains |-> contains, enabled |-> TRUE] \in Rule
      BY <2>3 DEF Rule
    <3>2. Append(rules, [name |-> name, contains |-> contains, enabled |-> TRUE]) \in Seq(Rule)
      BY <1>0, <3>1, AppendProperties
    <3>3. QED BY <1>0, <2>3, <3>2, RulesChange
  <2>4. QED BY <2>1, <2>2, <2>3
<1>2. CASE remove_policy
  <2>1. PICK name \in RuleNames :
          \/ set_status
          \/ ChangeRules(Select(rules, {r \in ToSet(rules) : r.name # name}), Without(hits, name))
    BY <1>2 DEF remove_policy
  <2>2. CASE set_status
    BY <2>2, NothingChanges
  <2>3. CASE ChangeRules(Select(rules, {r \in ToSet(rules) : r.name # name}), Without(hits, name))
    <3>1. Select(rules, {r \in ToSet(rules) : r.name # name}) \in Seq(Rule)
      BY <1>0, SelectFacts
    <3>2. \A k \in DOMAIN Without(hits, name) : Without(hits, name)[k] \in Nat
      BY <1>0 DEF Without
    <3>3. QED BY <2>3, <3>1, <3>2, RulesChange
  <2>4. QED BY <2>1, <2>2, <2>3
<1>3. CASE set_policy_enabled
  <2>1. PICK name \in RuleNames, enabled \in BOOLEAN :
          \/ set_status
          \/ ChangeRules([i \in DOMAIN rules |-> IF rules[i].name = name
                                                THEN [rules[i] EXCEPT !.enabled = enabled]
                                                ELSE rules[i]], hits)
    BY <1>3 DEF set_policy_enabled
  <2>2. CASE set_status
    BY <2>2, NothingChanges
  <2> DEFINE rs == [i \in DOMAIN rules |-> IF rules[i].name = name
                                          THEN [rules[i] EXCEPT !.enabled = enabled]
                                          ELSE rules[i]]
  <2>3. CASE ChangeRules(rs, hits)
    <3>1. Len(rules) \in Nat /\ DOMAIN rules = 1..Len(rules) /\ \A i \in 1..Len(rules) : rules[i] \in Rule
      BY <1>0, LenProperties, ElementOfSeq
    <3>2. \A i \in 1..Len(rules) : rs[i] \in Rule
      BY <3>1 DEF Rule
    <3>3. rs \in [1..Len(rules) -> Rule]
      BY <3>1, <3>2
    <3>4. rs \in Seq(Rule)
      BY <3>1, <3>3, SeqDef
    <3> HIDE DEF rs
    <3>5. QED BY <1>0, <2>3, <3>4, RulesChange
  <2>4. QED BY <2>1, <2>2, <2>3
<1>4. QED BY <1>1, <1>2, <1>3

\* The operator releases a lease.
LEMMA Releases ==
  ASSUME DesktopInv, release_enforcement
  PROVE  DesktopInv'
<1>1. PICK p \in Ids :
        IF p \notin EnforcedPorts THEN set_status
        ELSE /\ faults' = Restored({p}) /\ leases' = Without(leases, p)
             /\ rows' = rebuild_fault_rows(rebuild_policy_rows(rows, rules, hits, EnforcedPorts \ {p}), faults')
             /\ UNCHANGED <<configuration, topology, rules, hits, selection, traffic, counters>>
  BY DEF release_enforcement
<1>2. CASE set_status
  BY <1>2, NothingChanges
<1>3. CASE p \in EnforcedPorts
  <2>1. /\ faults' = Restored({p}) /\ leases' = Without(leases, p)
        /\ rows' = rebuild_fault_rows(rebuild_policy_rows(rows, rules, hits, EnforcedPorts \ {p}), faults')
        /\ UNCHANGED <<configuration, topology, rules, hits, selection, traffic, counters>>
    BY <1>1, <1>3
  <2>2. DOMAIN leases' = EnforcedPorts \ {p}
    BY <2>1 DEF Without, EnforcedPorts
  <2>3. faults' = [t \in DOMAIN faults' |-> faults'[t]]
    BY <2>1 DEF Restored
  <2>4. PICK mid : mid = rebuild_policy_rows(rows, rules, hits, EnforcedPorts \ {p})
    OBVIOUS
  <2>5. IsSeq(rules) /\ DOMAIN rows = Rows /\ \A name \in DOMAIN hits : hits[name] \in Nat
    BY SeqFacts DEF DesktopInv, LabInv, RowsInv
  <2>6. /\ DOMAIN mid = Rows /\ mid.enforced = EnforcedPorts \ {p}
        /\ mid.topology = rows.topology /\ DOMAIN mid.rules = DOMAIN rules
        /\ \A i \in DOMAIN rules : mid.rules[i].hits \in Nat /\ mid.rules[i].hits >= HitCount(hits, rules[i].name)
        /\ [i \in DOMAIN mid.rules |-> mid.rules[i].rule] = rules
    BY <2>4, <2>5, PolicyRows
  <2>7. /\ DOMAIN rows' = Rows /\ rows'.faults = faults' /\ rows'.topology = mid.topology
        /\ rows'.rules = mid.rules /\ rows'.enforced = mid.enforced
    BY <2>1, <2>4, <2>6 DEF rebuild_fault_rows, Rows
  <2>8. RowsInv' /\ LabInv' /\ TrafficInv' /\ SelectionInv'
    BY <2>1, <2>3, <2>6, <2>7 DEF DesktopInv, RowsInv, LabInv, TrafficInv, SelectionInv
  <2>9. ViewsAgree'
    BY <2>1, <2>2, <2>6, <2>7 DEF DesktopInv, ViewsAgree, has_topology, EnforcedPorts, NodeIds, HitCount
  <2>10. QED BY <2>8, <2>9 DEF DesktopInv
<1>4. QED BY <1>1, <1>2, <1>3

-----------------------------------------------------------------------------
(* Traffic.                                                                *)

\* Traffic is started or stopped.
LEMMA StartsAndStops ==
  ASSUME DesktopInv, (\E throws \in BOOLEAN : start_traffic(throws)) \/ stop_traffic
  PROVE  DesktopInv'
<1>1. ASSUME NEW analyzer, NEW running \in BOOLEAN,
             traffic' = [traffic EXCEPT !.analyzer = analyzer, !.running = running],
             UNCHANGED <<lab, selection, counters, rows>>
      PROVE  DesktopInv'
  <2>1. DOMAIN traffic' = Traffic /\ traffic'.running \in BOOLEAN
    BY <1>1 DEF DesktopInv, TrafficInv, Traffic
  <2>2. UNCHANGED views /\ DOMAIN counters' = DOMAIN counters
    BY <1>1 DEF views
  <2>3. QED BY <2>1, <2>2, ViewsStay
<1>2. ASSUME NEW throws \in BOOLEAN, start_traffic(throws) PROVE DesktopInv'
  <2>1. CASE set_status
    BY <2>1, NothingChanges
  <2>2. CASE ~set_status
    <3>1. PICK backend \in ToSet(Backends) \cup {"absent"}, valid \in BOOLEAN :
            LET hosts == Len(Hosts(configuration))
            IN /\ traffic' = [traffic EXCEPT !.analyzer = CASE hosts < 2 -> @
                                                            [] hosts >= 2 /\ throws -> "CPU"
                                                            [] OTHER -> backend,
                                             !.running = @ \/ ~throws]
               /\ UNCHANGED <<lab, selection, counters, report, rows, failures>>
      BY <1>2, <2>2 DEF start_traffic
    <3>2. PICK analyzer : analyzer = LET hosts == Len(Hosts(configuration))
                                     IN CASE hosts < 2 -> traffic.analyzer
                                          [] hosts >= 2 /\ throws -> "CPU"
                                          [] OTHER -> backend
      OBVIOUS
    <3>3. PICK running \in BOOLEAN : running = (traffic.running \/ ~throws)
      OBVIOUS
    <3>4. traffic' = [traffic EXCEPT !.analyzer = analyzer, !.running = running]
      BY <3>1, <3>2, <3>3
    <3>5. QED BY <1>1, <3>1, <3>4
  <2>3. QED BY <2>1, <2>2
<1>3. CASE stop_traffic
  <2>1. CASE Ignored
    BY <2>1, NothingChanges
  <2>2. CASE ~Ignored
    <3>1. traffic' = [traffic EXCEPT !.running = FALSE] /\ UNCHANGED <<lab, selection, counters, rows>>
      BY <1>3, <2>2 DEF stop_traffic
    <3>2. DOMAIN traffic' = Traffic /\ traffic'.running \in BOOLEAN
      BY <3>1 DEF DesktopInv, TrafficInv, Traffic
    <3>3. UNCHANGED views /\ DOMAIN counters' = DOMAIN counters
      BY <3>1 DEF views
    <3>4. QED BY <3>2, <3>3, ViewsStay
  <2>3. QED BY <2>1, <2>2
<1>4. QED BY <1>2, <1>3

\* An evaluation leaves a fault table and hit counts, and touches neither them nor
\* the set of contained ports when no lease ends and no rule is hit.
LEMMA EvaluateFacts ==
  ASSUME DesktopInv, NEW hosts, IsFiniteSet(hosts), NEW released, NEW f, NEW ls, NEW h,
         Evaluate(hosts, released, f, ls, h)
  PROVE  /\ f = [t \in DOMAIN f |-> f[t]]
         /\ \A name \in DOMAIN h : h[name] \in Nat
         /\ released = {} /\ (hosts = {} \/ FirstEnabled = <<>>) =>
              f = faults /\ DOMAIN ls = DOMAIN leases /\ h = hits
<1> DEFINE rule == FirstEnabled
           restored == Restored(released)
           kept == [p \in EnforcedPorts \ released |-> leases[p]]
           contained == IF rule = <<>> \/ ~Head(rule).contains THEN {} ELSE hosts
           Base(p) == IF p \in DOMAIN kept THEN kept[p].restore ELSE Fault(restored, {p})
<1>1. /\ h = IF rule = <<>> \/ hosts = {} THEN hits
             ELSE With(hits, Head(rule).name, HitCount(hits, Head(rule).name) + Cardinality(hosts))
      /\ ls = [p \in DOMAIN kept \cup contained |->
                IF p \in contained THEN [restore |-> Base(p), left |-> LeaseTime] ELSE kept[p]]
      /\ f = [t \in DOMAIN restored \cup {{p} : p \in contained} |->
                IF \E p \in contained : t = {p}
                THEN Base(CHOOSE p \in contained : t = {p}) \cup {"contained"} ELSE restored[t]]
  BY DEF Evaluate
<1>2. faults = [t \in DOMAIN faults |-> faults[t]] /\ \A name \in DOMAIN hits : hits[name] \in Nat
  BY SMTT(40) DEF DesktopInv, LabInv
<1>3. f = [t \in DOMAIN f |-> f[t]]
  BY <1>1
<1>4. \A name \in DOMAIN h : h[name] \in Nat
  <2>1. CASE h = hits
    BY <1>2, <2>1
  <2>2. CASE h = With(hits, Head(rule).name, HitCount(hits, Head(rule).name) + Cardinality(hosts))
    <3>1. PICK name : name = Head(rule).name
      OBVIOUS
    <3>2. PICK n : n = HitCount(hits, name) + Cardinality(hosts)
      OBVIOUS
    <3>3. Cardinality(hosts) \in Nat /\ HitCount(hits, name) \in Nat
      BY <1>2, FS_CardinalityType DEF HitCount
    <3>4. n \in Nat
      BY <3>2, <3>3
    <3>5. h = With(hits, name, n)
      BY <2>2, <3>1, <3>2
    <3>6. QED BY <1>2, <3>4, <3>5 DEF With
  <2>3. QED BY <1>1, <2>1, <2>2
<1>5. ASSUME released = {}, hosts = {} \/ FirstEnabled = <<>>
      PROVE  f = faults /\ DOMAIN ls = DOMAIN leases /\ h = hits
  <2>1. contained = {} /\ h = hits
    BY <1>1, <1>5
  <2>2. restored = faults
    BY <1>2, <1>5 DEF Restored
  <2>3. DOMAIN kept = DOMAIN leases
    BY <1>5 DEF EnforcedPorts
  <2>4. DOMAIN ls = DOMAIN leases
    BY <1>1, <2>1, <2>3
  <2> HIDE DEF restored, contained
  <2>5. f = [t \in DOMAIN restored |-> restored[t]]
    BY <1>1, <2>1
  <2>6. QED BY <1>2, <2>1, <2>2, <2>4, <2>5
<1>6. QED BY <1>3, <1>4, <1>5

\* The rows of the rules after an evaluation.
LEMMA RuleRows ==
  ASSUME DesktopInv, \A name \in DOMAIN hits' : hits'[name] \in Nat,
         NEW new, new = rebuild_policy_rows(rows, rules, hits', DOMAIN leases')
  PROVE  /\ DOMAIN new = Rows /\ new.enforced = DOMAIN leases'
         /\ new.topology = rows.topology /\ DOMAIN new.rules = DOMAIN rules
         /\ \A i \in DOMAIN rules : new.rules[i].hits \in Nat /\ new.rules[i].hits >= HitCount(hits', rules[i].name)
         /\ [i \in DOMAIN new.rules |-> new.rules[i].rule] = rules
<1>1. PICK h, ports : h = hits' /\ ports = DOMAIN leases'
  OBVIOUS
<1>2. \A name \in DOMAIN h : h[name] \in Nat
  BY <1>1
<1>3. new = rebuild_policy_rows(rows, rules, h, ports)
  BY <1>1
<1>4. IsSeq(rules) /\ DOMAIN rows = Rows
  BY SeqFacts DEF DesktopInv, LabInv, RowsInv
<1>5. /\ DOMAIN new = Rows /\ new.enforced = ports
      /\ new.topology = rows.topology /\ DOMAIN new.rules = DOMAIN rules
      /\ \A i \in DOMAIN rules : new.rules[i].hits \in Nat /\ new.rules[i].hits >= HitCount(h, rules[i].name)
      /\ [i \in DOMAIN new.rules |-> new.rules[i].rule] = rules
  BY <1>2, <1>3, <1>4, PolicyRows
<1>6. QED BY <1>1, <1>5

\* What the traffic step that does not throw does, put in one place.
LEMMA TrafficStepFacts ==
  ASSUME DesktopInv, traffic.running, run_traffic_step(FALSE)
  PROVE  /\ faults' = [t \in DOMAIN faults' |-> faults'[t]]
         /\ \A name \in DOMAIN hits' : hits'[name] \in Nat
         /\ DOMAIN rows' = Rows /\ rows'.topology = rows.topology
         /\ rows'.faults = faults' /\ rows'.enforced = DOMAIN leases'
         /\ DOMAIN rows'.rules = DOMAIN rules
         /\ \A i \in DOMAIN rules :
              rows'.rules[i].hits \in Nat /\ rows'.rules[i].hits >= HitCount(hits', rules[i].name)
         /\ [i \in DOMAIN rows'.rules |-> rows'.rules[i].rule] = rules
         /\ "Telemetry" \in dirty'
         /\ rows'.faults # rows.faults => "Faults" \in dirty'
<1>1. PICK host \in {HostOf}, delivered \in [Frames -> 0 .. 1] :
        /\ counters' = Counted(host, delivered)
        /\ \E anomalous \in SUBSET {h \in DOMAIN counters : counters'[h].forwarded > 0} :
             LET released == ReleasedBy
                 rebuilt == released # {} \/ (anomalous # {} /\ FirstEnabled # <<>>)
             IN /\ Evaluate(anomalous, released, faults', leases', hits')
                /\ rows' = rebuild_telemetry_rows(
                     IF rebuilt
                     THEN rebuild_fault_rows(rebuild_policy_rows(rows, rules, hits', DOMAIN leases'), faults')
                     ELSE rows,
                     DOMAIN leases', counters')
                /\ Mark({"Telemetry"} \cup IF rebuilt THEN {"Faults", "Policies"} ELSE {})
  BY ZenonT(60) DEF run_traffic_step
<1>2. PICK anomalous \in SUBSET {h \in DOMAIN counters : counters'[h].forwarded > 0} :
         LET released == ReleasedBy
             rebuilt == released # {} \/ (anomalous # {} /\ FirstEnabled # <<>>)
         IN /\ Evaluate(anomalous, released, faults', leases', hits')
            /\ rows' = rebuild_telemetry_rows(
                 IF rebuilt
                 THEN rebuild_fault_rows(rebuild_policy_rows(rows, rules, hits', DOMAIN leases'), faults')
                 ELSE rows,
                 DOMAIN leases', counters')
            /\ Mark({"Telemetry"} \cup IF rebuilt THEN {"Faults", "Policies"} ELSE {})
  BY <1>1
<1>3. PICK released : released = ReleasedBy
  OBVIOUS
<1>4. PICK rebuilt \in BOOLEAN : rebuilt = (released # {} \/ (anomalous # {} /\ FirstEnabled # <<>>))
  OBVIOUS
<1>5. PICK base : base = IF rebuilt
                         THEN rebuild_fault_rows(rebuild_policy_rows(rows, rules, hits', DOMAIN leases'), faults')
                         ELSE rows
  OBVIOUS
<1>6. /\ Evaluate(anomalous, released, faults', leases', hits')
      /\ rows' = rebuild_telemetry_rows(base, DOMAIN leases', counters')
      /\ dirty' = dirty \cup ({"Telemetry"} \cup IF rebuilt THEN {"Faults", "Policies"} ELSE {})
  BY <1>2, <1>3, <1>4, <1>5 DEF Mark
<1>7. IsFiniteSet(anomalous)
  BY <1>2, FS_Subset DEF DesktopInv, TrafficInv
<1>8. /\ faults' = [t \in DOMAIN faults' |-> faults'[t]]
      /\ \A name \in DOMAIN hits' : hits'[name] \in Nat
      /\ ~rebuilt => faults' = faults /\ DOMAIN leases' = DOMAIN leases /\ hits' = hits
  <2>1. PICK f, ls, h : f = faults' /\ ls = leases' /\ h = hits'
    OBVIOUS
  <2>2. Evaluate(anomalous, released, f, ls, h)
    BY <1>6, <2>1
  <2>3. /\ f = [t \in DOMAIN f |-> f[t]]
        /\ \A name \in DOMAIN h : h[name] \in Nat
        /\ released = {} /\ (anomalous = {} \/ FirstEnabled = <<>>) =>
             f = faults /\ DOMAIN ls = DOMAIN leases /\ h = hits
    BY <1>7, <2>2, EvaluateFacts
  <2>4. ~rebuilt => released = {} /\ (anomalous = {} \/ FirstEnabled = <<>>)
    BY <1>4
  <2>5. QED BY <2>1, <2>3, <2>4
<1>9. /\ DOMAIN rows = Rows /\ IsSeq(rules) /\ rows.faults = faults /\ rows.enforced = DOMAIN leases
      /\ DOMAIN rows.rules = DOMAIN rules
      /\ \A i \in DOMAIN rules : rows.rules[i].hits \in Nat /\ rows.rules[i].hits >= HitCount(hits, rules[i].name)
      /\ [i \in DOMAIN rows.rules |-> rows.rules[i].rule] = rules
  BY SeqFacts DEF DesktopInv, RowsInv, LabInv, ViewsAgree, EnforcedPorts
<1>10. /\ DOMAIN base = Rows /\ base.topology = rows.topology
       /\ base.faults = faults' /\ base.enforced = DOMAIN leases'
       /\ DOMAIN base.rules = DOMAIN rules
       /\ \A i \in DOMAIN rules : base.rules[i].hits \in Nat /\ base.rules[i].hits >= HitCount(hits', rules[i].name)
       /\ [i \in DOMAIN base.rules |-> base.rules[i].rule] = rules
  <2>1. CASE rebuilt
    <3>1. PICK mid : mid = rebuild_policy_rows(rows, rules, hits', DOMAIN leases')
      OBVIOUS
    <3>2. base = rebuild_fault_rows(mid, faults')
      BY <1>5, <2>1, <3>1
    <3>3. /\ DOMAIN mid = Rows /\ mid.enforced = DOMAIN leases'
          /\ mid.topology = rows.topology /\ DOMAIN mid.rules = DOMAIN rules
          /\ \A i \in DOMAIN rules : mid.rules[i].hits \in Nat /\ mid.rules[i].hits >= HitCount(hits', rules[i].name)
          /\ [i \in DOMAIN mid.rules |-> mid.rules[i].rule] = rules
      BY <1>8, <3>1, RuleRows
    <3>4. /\ DOMAIN base = Rows /\ base.faults = faults' /\ base.topology = mid.topology
          /\ base.rules = mid.rules /\ base.enforced = mid.enforced
      BY <3>2, <3>3 DEF rebuild_fault_rows, Rows
    <3>5. QED BY <3>3, <3>4
  <2>2. CASE ~rebuilt
    BY <1>5, <1>8, <1>9, <2>2
  <2>3. QED BY <2>1, <2>2
<1>11. /\ DOMAIN rows' = Rows /\ rows'.topology = base.topology /\ rows'.faults = base.faults
       /\ rows'.rules = base.rules /\ rows'.enforced = base.enforced
  <2>1. PICK ports : rows' = [base EXCEPT !.ports = ports]
    BY <1>6 DEF rebuild_telemetry_rows
  <2>2. QED BY <1>10, <2>1 DEF Rows
<1>12. "Telemetry" \in dirty' /\ (rows'.faults # rows.faults => "Faults" \in dirty')
  <2>1. CASE rebuilt
    BY <1>6, <2>1
  <2>2. CASE ~rebuilt
    <3>1. rows'.faults = rows.faults
      BY <1>8, <1>9, <1>10, <1>11, <2>2
    <3>2. QED BY <1>6, <3>1
  <2>3. QED BY <2>1, <2>2
<1>13. QED BY <1>8, <1>10, <1>11, <1>12

\* A tick of the traffic is simulated and evaluated.
LEMMA TrafficSteps ==
  ASSUME DesktopInv, NEW throws \in BOOLEAN, run_traffic_step(throws)
  PROVE  DesktopInv'
<1>1. CASE ~traffic.running
  <2>1. Ignored
    BY <1>1 DEF run_traffic_step
  <2>2. QED BY <2>1, NothingChanges
<1>2. CASE traffic.running /\ throws
  <2>1. /\ \/ \E host \in {HostOf}, delivered \in [Frames -> 0 .. 1] : counters' = Counted(host, delivered)
           \/ counters' = counters
        /\ UNCHANGED <<lab, selection, traffic, rows>>
    BY <1>2 DEF run_traffic_step, Thrown
  <2>2. DOMAIN counters' = DOMAIN counters
    BY <2>1 DEF Counted
  <2>3. QED BY <2>1, <2>2, ViewsStay DEF views, DesktopInv, TrafficInv
<1>3. CASE traffic.running /\ ~throws
  <2>0. run_traffic_step(FALSE)
    BY <1>3
  <2>1. /\ \E host \in {HostOf}, delivered \in [Frames -> 0 .. 1] :
             /\ counters' = Counted(host, delivered)
             /\ traffic' = [traffic EXCEPT !.ticks = @ + 1, !.packets = @ + PacketsPerTick,
                                !.dropped = @ + Cardinality({i \in Frames : delivered[i] = 0})]
        /\ UNCHANGED <<configuration, topology, rules, selection>>
    BY <1>3, <2>0 DEF run_traffic_step
  <2>2. DOMAIN counters' = DOMAIN counters /\ DOMAIN traffic' = Traffic /\ traffic'.running = traffic.running
    BY <2>1 DEF Counted, DesktopInv, TrafficInv, Traffic
  <2>3. /\ faults' = [t \in DOMAIN faults' |-> faults'[t]]
        /\ \A name \in DOMAIN hits' : hits'[name] \in Nat
        /\ DOMAIN rows' = Rows /\ rows'.topology = rows.topology
        /\ rows'.faults = faults' /\ rows'.enforced = DOMAIN leases'
        /\ DOMAIN rows'.rules = DOMAIN rules
        /\ \A i \in DOMAIN rules :
             rows'.rules[i].hits \in Nat /\ rows'.rules[i].hits >= HitCount(hits', rules[i].name)
        /\ [i \in DOMAIN rows'.rules |-> rows'.rules[i].rule] = rules
    BY <1>3, <2>0, TrafficStepFacts
  <2>4. RowsInv' /\ LabInv' /\ TrafficInv' /\ SelectionInv'
    BY <2>1, <2>2, <2>3 DEF DesktopInv, RowsInv, LabInv, TrafficInv, SelectionInv
  <2>5. ViewsAgree'
    BY <2>1, <2>3 DEF DesktopInv, ViewsAgree, has_topology, EnforcedPorts, NodeIds
  <2>6. QED BY <2>4, <2>5 DEF DesktopInv
<1>4. QED BY <1>1, <1>2, <1>3

\* Time goes by for the leases.
LEMMA LeasesRunDown ==
  ASSUME DesktopInv, Elapse
  PROVE  DesktopInv'
<1>1. DOMAIN leases' = DOMAIN leases
  BY DEF Elapse, EnforcedPorts
<1>2. UNCHANGED <<configuration, topology, faults, rules, hits, selection, traffic, counters, rows>>
  BY DEF Elapse
<1>3. RowsInv' /\ LabInv' /\ TrafficInv' /\ SelectionInv'
  BY <1>2 DEF DesktopInv, RowsInv, LabInv, TrafficInv, SelectionInv
<1>4. ViewsAgree'
  BY <1>1, <1>2 DEF DesktopInv, ViewsAgree, has_topology, EnforcedPorts, NodeIds, HitCount
<1>5. QED BY <1>3, <1>4 DEF DesktopInv

-----------------------------------------------------------------------------
(* The window.                                                             *)

\* A session that was just opened.
LEMMA DesktopInit ==
  ASSUME Init
  PROVE  DesktopInv
<1>1. /\ configuration = [name |-> "", nodes |-> <<>>, links |-> <<>>] /\ topology = NoTopology
      /\ faults = <<>> /\ leases = <<>> /\ rules = <<>> /\ hits = <<>>
      /\ selection = <<>> /\ traffic = NoTraffic /\ counters = <<>>
      /\ rows = [topology |-> configuration, faults |-> <<>>, rules |-> <<>>, enforced |-> {}, ports |-> <<>>]
  BY DEF Init, SessionInit, EmptyConfiguration, Configuration
<1>2. DOMAIN <<>> = {} /\ Len(<<>>) = 0 /\ <<>> = [t \in {} |-> <<>>[t]]
  OBVIOUS
<1>3. IsSeq(<<>>) /\ <<>> \in Seq(Rule) /\ IsFiniteSet({})
  BY SeqFacts, EmptySeq, FS_EmptySet
<1>4. RowsInv
  BY <1>1, <1>2 DEF RowsInv, Rows
<1>5. LabInv
  BY <1>1, <1>2, <1>3 DEF LabInv, Shaped
<1>6. TrafficInv /\ SelectionInv
  BY <1>1, <1>2, <1>3 DEF TrafficInv, SelectionInv, NoTraffic, Traffic
<1>7. ViewsAgree
  <2>1. rows.topology = configuration /\ rows.faults = faults /\ rows.rules = <<>> /\ rows.enforced = {}
    BY <1>1
  <2>2. [i \in DOMAIN rows.rules |-> rows.rules[i].rule] = rules
    BY <1>1, <1>2, <2>1
  <2>3. \A i \in DOMAIN rules : rows.rules[i].hits >= HitCount(hits, rules[i].name)
    BY <1>1, <1>2
  <2>4. (CASE Len(selection) = 0 -> TRUE
          [] Len(selection) = 1 -> selection[1] \in NodeIds(configuration)
          [] Len(selection) = 2 -> \E l \in ToSet(configuration.links) : <<l.from, l.to>> = selection)
    <3>1. Len(selection) = 0
      BY <1>1, <1>2
    <3>2. QED BY <3>1
  <2>5. QED BY <1>1, <1>2, <2>1, <2>2, <2>3, <2>4 DEF ViewsAgree, has_topology, EnforcedPorts
<1>8. QED BY <1>4, <1>5, <1>6, <1>7 DEF DesktopInv

\* Every step of the window keeps the invariant.
LEMMA DesktopStep ==
  ASSUME DesktopInv, [Next]_vars
  PROVE  DesktopInv'
<1>1. CASE OpenTopology \/ AddNode \/ AddLink
  BY <1>1, Edits DEF OpenTopology, AddNode, AddLink
<1>2. CASE RemoveSelected
  BY <1>2, Edits DEF RemoveSelected
<1>3. CASE SelectNode \/ SelectLink \/ ClearSelection
  BY <1>3, Selections DEF SelectNode, SelectLink, ClearSelection
<1>4. CASE ApplySelectedFault \/ ClearFault
  BY <1>4, OperatorFaults DEF ApplySelectedFault, ClearFault
<1>5. CASE AddPolicy \/ RemovePolicy \/ SetPolicyEnabled
  BY <1>5, Policies DEF AddPolicy, RemovePolicy, SetPolicyEnabled
<1>6. CASE ReleaseEnforcement
  BY <1>6, Releases DEF ReleaseEnforcement
<1>7. CASE StartTraffic \/ StopTraffic
  BY <1>7, StartsAndStops DEF StartTraffic, StopTraffic
<1>8. CASE SaveTopology
  BY <1>8, NothingChanges DEF SaveTopology, save_topology
<1>9. CASE RunBenchmarkReport
  <2>1. set_status \/ UNCHANGED <<lab, selection, traffic, counters, rows>>
    BY <1>9 DEF RunBenchmarkReport, run_benchmark_report, ChangeReport
  <2>2. QED BY <2>1, NothingChanges, ReportChanges
<1>10. CASE ExportReport
  <2>1. UNCHANGED <<lab, selection, traffic, counters, rows>>
    BY <1>10 DEF ExportReport, export_report, ChangeReport
  <2>2. QED BY <2>1, ReportChanges
<1>11. CASE settle \/ TickDrain
  <2>1. UNCHANGED <<lab, selection, traffic, counters, rows>>
    BY <1>11 DEF settle, TickDrain, Unstepped
  <2>2. QED BY <2>1, ReportChanges
<1>12. CASE TrafficTick
  <2>1. \/ \E throws \in BOOLEAN : run_traffic_step(throws)
        \/ UNCHANGED sessionvars
    BY <1>12 DEF TrafficTick
  <2>2. QED BY <2>1, TrafficSteps, NothingChanges
<1>13. CASE ReportTick
  <2>1. \/ \E throws \in BOOLEAN : run_report_step(throws)
        \/ UNCHANGED sessionvars
    BY <1>13 DEF ReportTick
  <2>2. ASSUME NEW throws \in BOOLEAN, run_report_step(throws) PROVE DesktopInv'
    <3>1. Ignored \/ UNCHANGED <<lab, selection, traffic, counters, rows>>
      BY <2>2 DEF run_report_step, ChangeReport
    <3>2. QED BY <3>1, NothingChanges, ReportChanges
  <2>3. QED BY <2>1, <2>2, NothingChanges
<1>14. CASE TimePasses
  BY <1>14, LeasesRunDown DEF TimePasses
<1>15. CASE UNCHANGED vars
  <2>1. UNCHANGED sessionvars
    BY <1>15 DEF vars
  <2>2. QED BY <2>1, NothingChanges
<1>16. QED
  BY <1>1, <1>2, <1>3, <1>4, <1>5, <1>6, <1>7, <1>8, <1>9, <1>10, <1>11, <1>12, <1>13, <1>14, <1>15 DEF Next

\* The rows the window shows agree with the session they stand for after every
\* command, timer and traffic step, for any files, ids, rules, lease time and number
\* of packets, and the selection never names what is not there.
THEOREM WindowShowsTheSession == Spec => []ViewsAgree
<1>1. Init => DesktopInv
  BY DesktopInit
<1>2. DesktopInv /\ [Next]_vars => DesktopInv'
  BY DesktopStep
<1>3. DesktopInv => ViewsAgree
  BY DEF DesktopInv
<1>4. QED BY <1>1, <1>2, <1>3, PTL DEF Spec

-----------------------------------------------------------------------------
(* The bits that are raised.                                               *)

\* What CategoriesMarked says of a step.
Marks ==
  LET raised == dirty' \cup extra_dirty'
  IN /\ rows'.topology # rows.topology => "Topology" \in raised
     /\ rows'.faults # rows.faults => "Faults" \in raised
     /\ rows'.ports # rows.ports => "Telemetry" \in raised
     /\ selection' # selection => "Selection" \in raised
     /\ traffic'.running # traffic.running => "TrafficState" \in raised
     /\ ReportView(report') # ReportView(report) =>
          "Report" \in raised \/ (last_error' /\ "Status" \in raised)

\* A step that changes nothing the window shows owes no bit.
LEMMA NothingToMark ==
  ASSUME UNCHANGED <<rows, selection, traffic, report>>
  PROVE  Marks
  BY DEF Marks, ReportView

\* A command that only reports something.
LEMMA StatusMarks ==
  ASSUME set_status \/ Ignored \/ UNCHANGED sessionvars
  PROVE  Marks
<1>1. UNCHANGED <<rows, selection, traffic, report>>
  BY DEF set_status, Ignored, sessionvars
<1>2. QED BY <1>1, NothingToMark

\* A topology that is committed raises the bits of all it resets.
LEMMA CommitMarks ==
  ASSUME DesktopInv, NEW edited, commit_topology(edited)
  PROVE  Marks
<1>1. CASE ValidationError(edited) # "none"
  BY <1>1, StatusMarks DEF commit_topology
<1>2. CASE ValidationError(edited) = "none"
  <2>1. /\ {"Topology", "Selection", "Telemetry", "Faults"} \subseteq dirty'
        /\ traffic.running => "TrafficState" \in dirty'
        /\ traffic' = NoTraffic /\ report' = report
    BY <1>2 DEF commit_topology, Mark, ResetTraffic
  <2>2. traffic'.running = FALSE /\ traffic.running \in BOOLEAN
    BY <2>1 DEF NoTraffic, DesktopInv, TrafficInv
  <2>3. traffic'.running # traffic.running => "TrafficState" \in dirty'
    BY <2>1, <2>2
  <2>4. QED BY <2>1, <2>3 DEF Marks, ReportView
<1>3. QED BY <1>1, <1>2

\* The commands that edit the topology or the selection.
LEMMA EditMarks ==
  ASSUME DesktopInv,
         \/ open_topology \/ add_node \/ add_link \/ remove_selected
         \/ select_node \/ select_link \/ clear_selection
  PROVE  Marks
<1>1. CASE open_topology \/ add_node \/ add_link \/ remove_selected
  <2>1. set_status \/ Ignored \/ \E c : Shaped(c) /\ commit_topology(c)
    BY <1>1, EditsCommit, RemovalsCommit
  <2>2. QED BY <2>1, StatusMarks, CommitMarks
<1>5. ASSUME NEW endpoints, SetSelection(endpoints) PROVE Marks
  <2>1. "Selection" \in dirty' /\ UNCHANGED <<rows, traffic, report>>
    BY <1>5 DEF SetSelection, Mark
  <2>2. QED BY <2>1 DEF Marks, ReportView
<1>6. CASE select_node
  BY <1>5, <1>6, StatusMarks DEF select_node
<1>7. CASE select_link
  <2>1. Ignored \/ \E endpoints : SetSelection(endpoints)
    BY <1>7 DEF select_link
  <2>2. QED BY <1>5, <2>1, StatusMarks
<1>8. CASE clear_selection
  BY <1>5, <1>8 DEF clear_selection
<1>9. QED BY <1>1, <1>6, <1>7, <1>8

\* The commands about faults and policies.
LEMMA PolicyMarks ==
  ASSUME DesktopInv,
         \/ apply_selected_fault \/ clear_fault \/ release_enforcement
         \/ add_policy \/ remove_policy \/ set_policy_enabled
  PROVE  Marks
<1>0. DOMAIN rows = Rows
  BY DEF DesktopInv, RowsInv
<1>1. ASSUME NEW f, rows' = rebuild_fault_rows(rows, f), "Faults" \in dirty', UNCHANGED <<selection, traffic, report>>
      PROVE  Marks
  <2>1. rows'.topology = rows.topology /\ rows'.ports = rows.ports
    BY <1>0, <1>1 DEF rebuild_fault_rows, Rows
  <2>2. QED BY <1>1, <2>1 DEF Marks, ReportView
<1>2. CASE apply_selected_fault
  <2>1. \/ set_status
        \/ /\ rows' = rebuild_fault_rows(rows, faults') /\ "Faults" \in dirty'
           /\ UNCHANGED <<selection, traffic, report>>
    BY <1>2 DEF apply_selected_fault, Mark
  <2>2. QED BY <1>1, <2>1, StatusMarks
<1>3. CASE clear_fault
  <2>1. /\ rows' = rebuild_fault_rows(rows, faults') /\ "Faults" \in dirty'
        /\ UNCHANGED <<selection, traffic, report>>
    BY <1>3 DEF clear_fault, Mark
  <2>2. QED BY <1>1, <2>1
<1>4. CASE release_enforcement
  <2>1. \/ set_status
        \/ \E ports : /\ rows' = rebuild_fault_rows(rebuild_policy_rows(rows, rules, hits, ports), faults')
                      /\ "Faults" \in dirty' /\ UNCHANGED <<selection, traffic, report>>
    BY <1>4 DEF release_enforcement, Mark
  <2>2. ASSUME NEW ports, rows' = rebuild_fault_rows(rebuild_policy_rows(rows, rules, hits, ports), faults'),
               "Faults" \in dirty', UNCHANGED <<selection, traffic, report>>
        PROVE  Marks
    <3>1. PICK rr : rebuild_policy_rows(rows, rules, hits, ports) = [rows EXCEPT !.rules = rr, !.enforced = ports]
      BY DEF rebuild_policy_rows
    <3>2. rows' = [[rows EXCEPT !.rules = rr, !.enforced = ports] EXCEPT !.faults = faults']
      BY <2>2, <3>1 DEF rebuild_fault_rows
    <3>3. rows'.topology = rows.topology /\ rows'.ports = rows.ports
      BY <1>0, <3>2 DEF Rows
    <3>4. QED BY <2>2, <3>3 DEF Marks, ReportView
  <2>3. QED BY <2>1, <2>2, StatusMarks
<1>5. ASSUME NEW rs, NEW h, ChangeRules(rs, h) PROVE Marks
  <2>1. rows' = rebuild_policy_rows(rows, rs, h, EnforcedPorts) /\ UNCHANGED <<selection, traffic, report>>
    BY <1>5 DEF ChangeRules
  <2>2. PICK rr : rows' = [rows EXCEPT !.rules = rr, !.enforced = EnforcedPorts]
    BY <2>1 DEF rebuild_policy_rows
  <2>3. rows'.topology = rows.topology /\ rows'.ports = rows.ports /\ rows'.faults = rows.faults
    BY <1>0, <2>2 DEF Rows
  <2>4. QED BY <2>1, <2>3 DEF Marks, ReportView
<1>6. CASE add_policy
  <2>1. set_status \/ \E rs, h : ChangeRules(rs, h)
    BY <1>6 DEF add_policy
  <2>2. QED BY <1>5, <2>1, StatusMarks
<1>7. CASE remove_policy
  <2>1. set_status \/ \E rs, h : ChangeRules(rs, h)
    BY <1>7 DEF remove_policy
  <2>2. QED BY <1>5, <2>1, StatusMarks
<1>8. CASE set_policy_enabled
  <2>1. set_status \/ \E rs, h : ChangeRules(rs, h)
    BY <1>8 DEF set_policy_enabled
  <2>2. QED BY <1>5, <2>1, StatusMarks
<1>9. QED BY <1>2, <1>3, <1>4, <1>6, <1>7, <1>8

\* Starting, stopping and stepping the traffic.
LEMMA TrafficMarks ==
  ASSUME DesktopInv,
         \/ \E throws \in BOOLEAN : start_traffic(throws) \/ run_traffic_step(throws)
         \/ stop_traffic
  PROVE  Marks
<1>0. traffic.running \in BOOLEAN /\ DOMAIN traffic = Traffic
  BY DEF DesktopInv, TrafficInv
<1>1. ASSUME NEW throws \in BOOLEAN, start_traffic(throws) PROVE Marks
  <2>1. CASE set_status
    BY <2>1, StatusMarks
  <2>2. CASE ~set_status
    <3>1. PICK analyzer :
            /\ traffic' = [traffic EXCEPT !.analyzer = analyzer, !.running = @ \/ ~throws]
            /\ ~throws => "TrafficState" \in dirty'
            /\ UNCHANGED <<selection, rows, report>>
      BY <1>1, <2>2 DEF start_traffic, Mark
    <3>2. traffic'.running = (traffic.running \/ ~throws)
      BY <1>0, <3>1 DEF Traffic
    <3>3. throws => traffic'.running = traffic.running
      BY <1>0, <3>2
    <3>4. QED BY <3>1, <3>3 DEF Marks, ReportView
  <2>3. QED BY <2>1, <2>2
<1>2. CASE stop_traffic
  <2>1. Ignored \/ ("TrafficState" \in dirty' /\ UNCHANGED <<selection, rows, report>>)
    BY <1>2 DEF stop_traffic, Mark
  <2>2. CASE "TrafficState" \in dirty' /\ UNCHANGED <<selection, rows, report>>
    BY <2>2 DEF Marks, ReportView
  <2>3. QED BY <2>1, <2>2, StatusMarks
<1>3. ASSUME NEW throws \in BOOLEAN, run_traffic_step(throws) PROVE Marks
  <2>1. CASE ~traffic.running
    BY <1>3, <2>1, StatusMarks DEF run_traffic_step
  <2>2. CASE traffic.running /\ throws
    <3>1. UNCHANGED <<rows, selection, traffic, report>>
      BY <1>3, <2>2 DEF run_traffic_step, Thrown
    <3>2. QED BY <3>1, NothingToMark
  <2>3. CASE traffic.running /\ ~throws
    <3>1. run_traffic_step(FALSE)
      BY <1>3, <2>3
    <3>2. /\ \E n, k, d : traffic' = [traffic EXCEPT !.ticks = n, !.packets = k, !.dropped = d]
          /\ UNCHANGED <<selection, report>>
      BY <2>3, <3>1 DEF run_traffic_step
    <3>3. traffic'.running = traffic.running
      BY <1>0, <3>2 DEF Traffic
    <3>4. /\ rows'.topology = rows.topology /\ "Telemetry" \in dirty'
          /\ rows'.faults # rows.faults => "Faults" \in dirty'
      BY <2>3, <3>1, TrafficStepFacts
    <3>5. QED BY <3>2, <3>3, <3>4 DEF Marks, ReportView
  <2>4. QED BY <2>1, <2>2, <2>3
<1>4. QED BY <1>1, <1>2, <1>3

\* Every step of the window raises the bits it owes.
LEMMA EveryStepMarks ==
  ASSUME DesktopInv, Next
  PROVE  Marks
<1>1. CASE OpenTopology \/ AddNode \/ AddLink \/ RemoveSelected \/ SelectNode \/ SelectLink \/ ClearSelection
  BY <1>1, EditMarks DEF OpenTopology, AddNode, AddLink, RemoveSelected, SelectNode, SelectLink, ClearSelection
<1>2. CASE ApplySelectedFault \/ ClearFault \/ ReleaseEnforcement \/ AddPolicy \/ RemovePolicy \/ SetPolicyEnabled
  BY <1>2, PolicyMarks
     DEF ApplySelectedFault, ClearFault, ReleaseEnforcement, AddPolicy, RemovePolicy, SetPolicyEnabled
<1>3. CASE StartTraffic \/ StopTraffic
  BY <1>3, TrafficMarks DEF StartTraffic, StopTraffic
<1>4. CASE SaveTopology
  BY <1>4, StatusMarks DEF SaveTopology, save_topology
<1>5. ASSUME "Report" \in dirty', UNCHANGED <<rows, selection, traffic>> PROVE Marks
  BY <1>5 DEF Marks
<1>6. CASE RunBenchmarkReport \/ ExportReport
  <2>1. set_status \/ ("Report" \in dirty' /\ UNCHANGED <<rows, selection, traffic>>)
    BY <1>6 DEF RunBenchmarkReport, run_benchmark_report, ExportReport, export_report, ChangeReport, Mark
  <2>2. QED BY <1>5, <2>1, StatusMarks
<1>7. CASE settle \/ TickDrain
  <2>1. UNCHANGED <<rows, selection, traffic, report>>
    BY <1>7 DEF settle, TickDrain, Unstepped
  <2>2. QED BY <2>1, NothingToMark
<1>8. CASE TrafficTick
  <2>1. \/ \E throws \in BOOLEAN : run_traffic_step(throws)
        \/ UNCHANGED sessionvars
    BY <1>8 DEF TrafficTick
  <2>2. QED BY <2>1, TrafficMarks, StatusMarks
<1>9. CASE ReportTick
  <2>1. \/ \E throws \in BOOLEAN : run_report_step(throws) /\ guard(throws)
        \/ UNCHANGED sessionvars
    BY <1>9 DEF ReportTick
  <2>2. ASSUME NEW throws \in BOOLEAN, run_report_step(throws), guard(throws) PROVE Marks
    <3>1. \/ Ignored
          \/ throws /\ UNCHANGED <<rows, selection, traffic>>
          \/ "Report" \in dirty' /\ UNCHANGED <<rows, selection, traffic>>
      BY <2>2 DEF run_report_step, ChangeReport, Mark
    <3>2. CASE throws /\ UNCHANGED <<rows, selection, traffic>>
      <4>1. last_error' /\ "Status" \in extra_dirty'
        BY <2>2, <3>2 DEF guard
      <4>2. QED BY <3>2, <4>1 DEF Marks
    <3>3. QED BY <1>5, <3>1, <3>2, StatusMarks
  <2>3. QED BY <2>1, <2>2, StatusMarks
<1>10. CASE TimePasses
  <2>1. UNCHANGED <<rows, selection, traffic, report>>
    BY <1>10 DEF TimePasses, Elapse
  <2>2. QED BY <2>1, NothingToMark
<1>11. QED
  BY <1>1, <1>2, <1>3, <1>4, <1>6, <1>7, <1>8, <1>9, <1>10 DEF Next

\* wirelab_ffi.h: "One bit per category of change".  Every step that changes the
\* topology, the faults, the telemetry, the selection, the state of the traffic or the
\* report raises that category's bit in the session or in the handle, so that the drain
\* that follows repaints.
THEOREM ChangesAreMarked == Spec => CategoriesMarked
<1>1. Init => DesktopInv
  BY DesktopInit
<1>2. DesktopInv /\ [Next]_vars => DesktopInv'
  BY DesktopStep
<1>3. DesktopInv /\ [Next]_vars => [Marks]_vars
  BY EveryStepMarks
<1>4. [][Marks]_vars => CategoriesMarked
  BY DEF Marks, CategoriesMarked
<1>5. QED BY <1>1, <1>2, <1>3, <1>4, PTL DEF Spec

-----------------------------------------------------------------------------
(* The counters.                                                           *)

Counter == [received: Nat, forwarded: Nat, dropped: Nat]

\* There is a counter for every host, and a host to charge when traffic runs.
CountersInv ==
  /\ DOMAIN counters = ToSet(Hosts(configuration))
  /\ \A h \in DOMAIN counters : counters[h] \in Counter
  /\ traffic.ticks \in Nat /\ traffic.packets \in Nat /\ traffic.dropped \in Nat
  /\ traffic.running => Len(Hosts(configuration)) # 0
  /\ failures \in Nat
  /\ CountersBalance

\* Steps that count nothing.
LEMMA CountersStay ==
  ASSUME CountersInv, UNCHANGED <<configuration, counters, failures>>,
         traffic'.ticks = traffic.ticks, traffic'.packets = traffic.packets, traffic'.dropped = traffic.dropped,
         traffic'.running => Len(Hosts(configuration)) # 0
  PROVE  CountersInv'
<1>1. Received' = Received /\ Dropped' = Dropped
  BY DEF Received, Dropped
<1>2. CountersBalance'
  BY <1>1 DEF CountersInv, CountersBalance
<1>3. QED BY <1>2 DEF CountersInv

\* Steps that touch neither the lab's hosts nor the traffic.
LEMMA CountersAlone ==
  ASSUME CountersInv, UNCHANGED <<configuration, counters, traffic, failures>>
  PROVE  CountersInv'
<1>1. /\ traffic'.ticks = traffic.ticks /\ traffic'.packets = traffic.packets
      /\ traffic'.dropped = traffic.dropped /\ (traffic'.running => Len(Hosts(configuration)) # 0)
  BY DEF CountersInv
<1>2. QED BY <1>1, CountersStay

\* A committed topology starts from zero.
LEMMA CommitCounts ==
  ASSUME CountersInv, NEW edited, Shaped(edited), commit_topology(edited)
  PROVE  CountersInv'
<1>1. CASE ValidationError(edited) # "none"
  <2>1. UNCHANGED <<configuration, counters, traffic, failures>>
    BY <1>1 DEF commit_topology, set_status, lab
  <2>2. QED BY <2>1, CountersAlone
<1>2. CASE ValidationError(edited) = "none"
  <2>1. /\ configuration' = edited /\ traffic' = NoTraffic /\ failures' = 0
        /\ counters' = [h \in ToSet(Hosts(edited)) |-> ZeroCounters]
    BY <1>2 DEF commit_topology, ResetTraffic
  <2>2. PICK S : S = ToSet(Hosts(edited))
    OBVIOUS
  <2>3. IsFiniteSet(S)
    BY <2>2, HostsFacts
  <2>4. PICK zero : zero = [h \in S |-> 0]
    OBVIOUS
  <2>5. SumFunction(zero) = 0
    <3>1. IsFiniteSet({}) /\ Cardinality({}) = 0
      BY FS_EmptySet
    <3>2. \A x \in S : {i \in {} : zero[i] = x} = {}
      OBVIOUS
    <3>3. DOMAIN zero = S /\ \A x \in S : zero[x] = Cardinality({i \in {} : zero[i] = x})
      BY <2>4, <3>1, <3>2
    <3>4. QED BY <2>3, <3>1, <3>3, SumParts
  <2>6. /\ DOMAIN counters' = S
        /\ \A h \in S : counters'[h] = [received |-> 0, forwarded |-> 0, dropped |-> 0]
    BY <2>1, <2>2 DEF ZeroCounters
  <2>7. [h \in DOMAIN counters' |-> counters'[h].received] = zero /\ [h \in DOMAIN counters' |-> counters'[h].dropped] = zero
    BY <2>4, <2>6
  <2>8. Received' = 0 /\ Dropped' = 0
    BY <2>5, <2>7 DEF Received, Dropped
  <2>9. traffic'.ticks = 0 /\ traffic'.packets = 0 /\ traffic'.dropped = 0 /\ ~traffic'.running
    BY <2>1 DEF NoTraffic
  <2>10. CountersBalance'
    BY <2>1, <2>6, <2>8, <2>9 DEF CountersBalance
  <2>11. \A h \in DOMAIN counters' : counters'[h] \in Counter
    BY <2>6 DEF Counter
  <2>12. DOMAIN counters' = ToSet(Hosts(configuration')) /\ failures' \in Nat
    BY <2>1
  <2>13. QED BY <2>9, <2>10, <2>11, <2>12 DEF CountersInv
<1>3. QED BY <1>1, <1>2

\* The frames of a tick are each charged to a host there is.
LEMMA HostOfFacts ==
  ASSUME DesktopInv, CountersInv, traffic.running
  PROVE  \A i \in Frames : HostOf[i] \in DOMAIN counters
<1>1. PICK n \in Nat : n = Len(Hosts(configuration)) /\ n # 0
  BY HostsFacts DEF DesktopInv, LabInv, CountersInv
<1>2. SUFFICES ASSUME NEW i \in Frames PROVE HostOf[i] \in DOMAIN counters
  OBVIOUS
<1>3. PICK k : k = traffic.ticks * PacketsPerTick + i
  OBVIOUS
<1>4. k \in Nat
  <2>1. traffic.ticks \in Nat /\ PacketsPerTick \in Nat /\ i \in Nat
    BY SessionConfig DEF CountersInv, Frames
  <2>2. traffic.ticks * PacketsPerTick \in Nat
    BY <2>1
  <2>3. QED BY <1>3, <2>1, <2>2
<1>5. 1 + (k % n) \in 1..n
  BY <1>1, <1>4
<1>6. HostOf[i] = Hosts(configuration)[1 + (k % n)]
  BY <1>1, <1>3 DEF HostOf
<1>7. Hosts(configuration)[1 + (k % n)] \in ToSet(Hosts(configuration))
  BY <1>1, <1>5, HostsFacts DEF DesktopInv, LabInv
<1>8. QED BY <1>6, <1>7 DEF CountersInv

\* Counting the frames of a tick: each is received once, and forwarded or dropped.
LEMMA CountedOnce ==
  ASSUME DesktopInv, CountersInv, traffic.running, NEW delivered \in [Frames -> 0 .. 1],
         NEW new, new = Counted(HostOf, delivered)
  PROVE  /\ DOMAIN new = DOMAIN counters
         /\ \A h \in DOMAIN new : new[h] \in Counter /\ new[h].received = new[h].forwarded + new[h].dropped
         /\ SumFunction([h \in DOMAIN new |-> new[h].received]) = Received + PacketsPerTick
         /\ SumFunction([h \in DOMAIN new |-> new[h].dropped]) =
              Dropped + Cardinality({i \in Frames : delivered[i] = 0})
         /\ Received \in Nat /\ Dropped \in Nat
         /\ Cardinality({i \in Frames : delivered[i] = 0}) \in Nat
<1> DEFINE S == DOMAIN counters
           host == HostOf
           lost == {i \in Frames : delivered[i] = 0}
           Sent(h) == {i \in Frames : host[i] = h}
           Passed(h) == {i \in Sent(h) : delivered[i] > 0}
<1>1. IsFiniteSet(S) /\ \A h \in S : counters[h] \in Counter
  BY DEF DesktopInv, TrafficInv, CountersInv
<1>2. PacketsPerTick \in Nat \ {0}
  BY SessionConfig
<1>3. IsFiniteSet(Frames) /\ Cardinality(Frames) = PacketsPerTick
  <2>1. /\ IsFiniteSet(0 .. PacketsPerTick - 1)
        /\ Cardinality(0 .. PacketsPerTick - 1) =
             IF 0 > PacketsPerTick - 1 THEN 0 ELSE (PacketsPerTick - 1) - 0 + 1
    BY <1>2, FS_Interval
  <2>2. QED BY <1>2, <2>1 DEF Frames
<1>4. \A J : J \subseteq Frames => IsFiniteSet(J) /\ Cardinality(J) \in Nat
  BY <1>3, FS_Subset, FS_CardinalityType
<1>5. \A i \in Frames : host[i] \in S
  BY HostOfFacts
<1>6. /\ DOMAIN new = S
      /\ \A h \in S : new[h] = [received |-> counters[h].received + Cardinality(Sent(h)),
                                forwarded |-> counters[h].forwarded + Cardinality(Passed(h)),
                                dropped |-> counters[h].dropped + Cardinality(Sent(h) \ Passed(h))]
  BY DEF Counted
<1> HIDE DEF host
<1>7. \A h \in S : /\ Cardinality(Sent(h)) \in Nat /\ Cardinality(Passed(h)) \in Nat
                   /\ Cardinality(Sent(h) \ Passed(h)) \in Nat
  <2>1. SUFFICES ASSUME NEW h \in S
                 PROVE  /\ Cardinality(Sent(h)) \in Nat /\ Cardinality(Passed(h)) \in Nat
                        /\ Cardinality(Sent(h) \ Passed(h)) \in Nat
    OBVIOUS
  <2>2. Sent(h) \subseteq Frames /\ Passed(h) \subseteq Frames /\ Sent(h) \ Passed(h) \subseteq Frames
    OBVIOUS
  <2> HIDE DEF Sent, Passed
  <2>3. QED BY <1>4, <2>2
<1>8. ASSUME NEW h \in S
      PROVE  Cardinality(Sent(h)) = Cardinality(Passed(h)) + Cardinality(Sent(h) \ Passed(h))
  <2>1. PICK a, b : a = Passed(h) /\ b = Sent(h) \ Passed(h)
    OBVIOUS
  <2>2. a \cup b = Sent(h) /\ a \cap b = {} /\ a \subseteq Frames /\ b \subseteq Frames
    BY <2>1
  <2>3. IsFiniteSet(a) /\ IsFiniteSet(b) /\ Cardinality(a) \in Nat /\ Cardinality(b) \in Nat
    BY <1>4, <2>2
  <2>4. Cardinality(a \cap b) = 0
    BY <2>2, FS_EmptySet
  <2>5. Cardinality(a \cup b) = Cardinality(a) + Cardinality(b) - Cardinality(a \cap b)
    BY <2>3, FS_Union
  <2>6. Cardinality(a \cup b) = Cardinality(a) + Cardinality(b)
    BY <2>3, <2>4, <2>5
  <2>7. QED BY <2>1, <2>2, <2>6
<1>9. ASSUME NEW h \in S PROVE {i \in lost : host[i] = h} = Sent(h) \ Passed(h)
  <2>1. \A i \in Frames : delivered[i] \in 0 .. 1
    OBVIOUS
  <2>2. \A i \in Frames : delivered[i] = 0 <=> ~(delivered[i] > 0)
    BY <2>1
  <2>3. QED BY <2>2
<1>10. lost \subseteq Frames
  OBVIOUS
<1>11. IsFiniteSet(lost) /\ Cardinality(lost) \in Nat
  BY <1>4, <1>10
<1> DEFINE received == [h \in S |-> counters[h].received]
           dropped == [h \in S |-> counters[h].dropped]
           sent == [h \in S |-> Cardinality(Sent(h))]
           missed == [h \in S |-> Cardinality(Sent(h) \ Passed(h))]
           received_after == [h \in S |-> new[h].received]
           dropped_after == [h \in S |-> new[h].dropped]
<1>12. SumFunction(sent) = Cardinality(Frames)
  <2>1. DOMAIN sent = S /\ \A h \in S : sent[h] = Cardinality({i \in Frames : host[i] = h})
    OBVIOUS
  <2> HIDE DEF sent, S
  <2>2. QED BY <1>1, <1>3, <1>5, <2>1, SumParts
<1>13. SumFunction(missed) = Cardinality(lost)
  <2>1. DOMAIN missed = S /\ \A h \in S : missed[h] = Cardinality(Sent(h) \ Passed(h))
    OBVIOUS
  <2>2. \A h \in S : missed[h] = Cardinality({i \in lost : host[i] = h})
    BY <1>9, <2>1
  <2>3. \A i \in lost : host[i] \in S
    BY <1>5, <1>10
  <2> HIDE DEF missed, S, lost
  <2>4. QED BY <1>1, <1>11, <2>1, <2>2, <2>3, SumParts
<1>14. \A h \in S : /\ counters[h].received \in Nat /\ counters[h].dropped \in Nat /\ counters[h].forwarded \in Nat
  BY <1>1 DEF Counter
<1>15. /\ DOMAIN received = S /\ DOMAIN sent = S /\ DOMAIN received_after = S
       /\ \A h \in S : /\ received[h] \in Nat /\ sent[h] \in Nat
                        /\ received_after[h] = received[h] + sent[h]
  <2> HIDE DEF Sent, Passed
  <2>1. ASSUME NEW h \in S PROVE new[h].received = counters[h].received + Cardinality(Sent(h))
    <3>1. PICK x, y, z : new[h] = [received |-> x, forwarded |-> y, dropped |-> z]
                         /\ x = counters[h].received + Cardinality(Sent(h))
      BY <1>6
    <3>2. QED BY <3>1
  <2>2. QED BY <1>7, <1>14, <2>1
<1>16. /\ DOMAIN dropped = S /\ DOMAIN missed = S /\ DOMAIN dropped_after = S
       /\ \A h \in S : /\ dropped[h] \in Nat /\ missed[h] \in Nat
                        /\ dropped_after[h] = dropped[h] + missed[h]
  <2> HIDE DEF Sent, Passed
  <2>1. \A h \in S : new[h].dropped = counters[h].dropped + Cardinality(Sent(h) \ Passed(h))
    BY <1>6
  <2>2. QED BY <1>7, <1>14, <2>1
<1>17. Received = SumFunction(received) /\ Dropped = SumFunction(dropped)
  BY DEF Received, Dropped
<1>18. /\ SumFunction([h \in DOMAIN new |-> new[h].received]) = SumFunction(received_after)
       /\ SumFunction([h \in DOMAIN new |-> new[h].dropped]) = SumFunction(dropped_after)
  BY <1>6
<1>19. \A h \in DOMAIN new : new[h] \in Counter /\ new[h].received = new[h].forwarded + new[h].dropped
  <2>1. SUFFICES ASSUME NEW h \in S
                 PROVE  new[h] \in Counter /\ new[h].received = new[h].forwarded + new[h].dropped
    BY <1>6
  <2>2. counters[h].received = counters[h].forwarded + counters[h].dropped
    BY DEF CountersInv, CountersBalance
  <2>3. PICK x \in Nat, y \in Nat, z \in Nat :
          x = Cardinality(Sent(h)) /\ y = Cardinality(Passed(h)) /\ z = Cardinality(Sent(h) \ Passed(h))
    <3> HIDE DEF Sent, Passed
    <3>1. QED BY <1>7
  <2>4. new[h] = [received |-> counters[h].received + x, forwarded |-> counters[h].forwarded + y,
                  dropped |-> counters[h].dropped + z] /\ x = y + z
    <3> HIDE DEF Sent, Passed
    <3>1. QED BY <1>6, <1>8, <2>3
  <2> HIDE DEF Sent, Passed
  <2>5. counters[h].received + x = (counters[h].forwarded + y) + (counters[h].dropped + z)
    BY <1>14, <2>2, <2>4
  <2>6. QED BY <1>14, <2>4, <2>5 DEF Counter
<1> HIDE DEF S, received, dropped, sent, missed, received_after, dropped_after, lost
<1>20. SumFunction(received_after) = SumFunction(received) + SumFunction(sent)
  BY <1>1, <1>15, SumAdds
<1>21. SumFunction(dropped_after) = SumFunction(dropped) + SumFunction(missed)
  BY <1>1, <1>16, SumAdds
<1>22. SumFunction(received) \in Nat /\ SumFunction(dropped) \in Nat
  BY <1>1, <1>15, <1>16, SumType
<1>23. QED
  BY <1>3, <1>6, <1>11, <1>12, <1>13, <1>17, <1>18, <1>19, <1>20, <1>21, <1>22 DEF S, lost

\* A tick of the traffic is counted on the ports, and in the totals unless it throws.
LEMMA TrafficCounts ==
  ASSUME DesktopInv, CountersInv, NEW throws \in BOOLEAN, run_traffic_step(throws)
  PROVE  CountersInv'
<1>1. CASE ~traffic.running
  <2>1. UNCHANGED <<configuration, counters, traffic, failures>>
    BY <1>1 DEF run_traffic_step, Ignored, sessionvars, lab
  <2>2. QED BY <2>1, CountersAlone
<1>2. CASE traffic.running
  <2>0. CASE UNCHANGED <<configuration, counters, traffic, failures>>
    BY <2>0, CountersAlone
  <2>1. PICK delivered \in [Frames -> 0 .. 1] :
          IF throws
          THEN /\ \/ counters' = Counted(HostOf, delivered) /\ failures' = failures + 1
                  \/ UNCHANGED <<counters, failures>>
               /\ UNCHANGED <<lab, traffic>>
          ELSE /\ counters' = Counted(HostOf, delivered)
               /\ traffic' = [traffic EXCEPT !.ticks = @ + 1, !.packets = @ + PacketsPerTick,
                                 !.dropped = @ + Cardinality({i \in Frames : delivered[i] = 0})]
               /\ UNCHANGED <<configuration, failures>>
    BY <1>2, ZenonT(60) DEF run_traffic_step, Thrown
  <2> SUFFICES ASSUME counters' = Counted(HostOf, delivered)
      PROVE  CountersInv'
    BY <2>0, <2>1 DEF lab
  <2>2. PICK n : n = Cardinality({i \in Frames : delivered[i] = 0})
    OBVIOUS
  <2>3. /\ DOMAIN counters' = DOMAIN counters
        /\ \A h \in DOMAIN counters' :
             counters'[h] \in Counter /\ counters'[h].received = counters'[h].forwarded + counters'[h].dropped
        /\ Received' = Received + PacketsPerTick /\ Dropped' = Dropped + n
        /\ Received \in Nat /\ Dropped \in Nat /\ n \in Nat
    <3>1. PICK new : new = counters'
      OBVIOUS
    <3>2. new = Counted(HostOf, delivered)
      BY <2>1, <3>1
    <3>3. /\ DOMAIN new = DOMAIN counters
          /\ \A h \in DOMAIN new : new[h] \in Counter /\ new[h].received = new[h].forwarded + new[h].dropped
          /\ SumFunction([h \in DOMAIN new |-> new[h].received]) = Received + PacketsPerTick
          /\ SumFunction([h \in DOMAIN new |-> new[h].dropped]) = Dropped + n
          /\ Received \in Nat /\ Dropped \in Nat /\ n \in Nat
      BY <1>2, <2>2, <3>2, CountedOnce
    <3>4. /\ Received' = SumFunction([h \in DOMAIN new |-> new[h].received])
          /\ Dropped' = SumFunction([h \in DOMAIN new |-> new[h].dropped])
      BY <3>1 DEF Received, Dropped
    <3>5. QED BY <3>1, <3>3, <3>4
  <2>4. PacketsPerTick \in Nat \ {0}
    BY SessionConfig
  <2>5. /\ traffic.ticks \in Nat /\ traffic.packets \in Nat /\ traffic.dropped \in Nat
        /\ failures \in Nat /\ Len(Hosts(configuration)) # 0
        /\ DOMAIN counters = ToSet(Hosts(configuration))
        /\ IF failures > 0 THEN Received > traffic.packets /\ Dropped >= traffic.dropped
           ELSE Received = traffic.packets /\ Dropped = traffic.dropped
    BY <1>2 DEF CountersInv, CountersBalance
  <2>6. CASE throws /\ failures' = failures + 1
    <3>1. failures' \in Nat /\ failures' > 0 /\ configuration' = configuration /\ traffic' = traffic
      BY <2>1, <2>5, <2>6 DEF lab
    <3>2. Received' > traffic'.packets /\ Dropped' >= traffic'.dropped
      BY <2>3, <2>4, <2>5, <3>1
    <3>3. CountersBalance'
      BY <2>3, <3>1, <3>2 DEF CountersBalance
    <3>4. QED BY <2>3, <2>5, <3>1, <3>3 DEF CountersInv
  <2>7. CASE ~throws
    <3>1. /\ traffic' = [traffic EXCEPT !.ticks = @ + 1, !.packets = @ + PacketsPerTick, !.dropped = @ + n]
          /\ configuration' = configuration /\ failures' = failures
      BY <2>1, <2>2, <2>7
    <3>2. /\ traffic'.ticks = traffic.ticks + 1 /\ traffic'.packets = traffic.packets + PacketsPerTick
          /\ traffic'.dropped = traffic.dropped + n
      BY <3>1 DEF DesktopInv, TrafficInv, Traffic
    <3>3. IF failures > 0 THEN Received' > traffic'.packets /\ Dropped' >= traffic'.dropped
          ELSE Received' = traffic'.packets /\ Dropped' = traffic'.dropped
      BY <2>3, <2>4, <2>5, <3>2, SMTT(40)
    <3>4. CountersBalance'
      BY <2>3, <3>1, <3>3 DEF CountersBalance
    <3>5. traffic'.ticks \in Nat /\ traffic'.packets \in Nat /\ traffic'.dropped \in Nat
      BY <2>3, <2>4, <2>5, <3>2, SMTT(40)
    <3>6. QED BY <2>3, <2>5, <3>1, <3>4, <3>5 DEF CountersInv
  <2>8. QED BY <2>0, <2>1, <2>6, <2>7 DEF lab
<1>3. QED BY <1>1, <1>2

\* Every step of the window keeps the counters in balance.
LEMMA CountersStep ==
  ASSUME DesktopInv, CountersInv, [Next]_vars
  PROVE  CountersInv'
<1>1. CASE OpenTopology \/ AddNode \/ AddLink \/ RemoveSelected
  <2>1. set_status \/ Ignored \/ \E c : Shaped(c) /\ commit_topology(c)
    BY <1>1, EditsCommit, RemovalsCommit DEF OpenTopology, AddNode, AddLink, RemoveSelected
  <2>2. CASE set_status \/ Ignored
    <3>1. UNCHANGED <<configuration, counters, traffic, failures>>
      BY <2>2 DEF set_status, Ignored, sessionvars, lab
    <3>2. QED BY <3>1, CountersAlone
  <2>3. QED BY <2>1, <2>2, CommitCounts
<1>2. CASE StartTraffic \/ StopTraffic
  <2>1. CASE StartTraffic
    <3>1. PICK throws \in BOOLEAN : start_traffic(throws)
      BY <2>1 DEF StartTraffic
    <3>2. CASE set_status
      <4>1. UNCHANGED <<configuration, counters, traffic, failures>>
        BY <3>2 DEF set_status, lab
      <4>2. QED BY <4>1, CountersAlone
    <3>3. CASE ~set_status
      <4>1. /\ \E analyzer : traffic' = [traffic EXCEPT !.analyzer = analyzer, !.running = @ \/ ~throws]
            /\ Len(Hosts(configuration)) < 2 => throws
            /\ UNCHANGED <<lab, counters, failures>>
        BY <3>1, <3>3 DEF start_traffic
      <4>2. /\ traffic'.ticks = traffic.ticks /\ traffic'.packets = traffic.packets
            /\ traffic'.dropped = traffic.dropped /\ traffic'.running = (traffic.running \/ ~throws)
        BY <4>1 DEF DesktopInv, TrafficInv, Traffic
      <4>3. traffic'.running => Len(Hosts(configuration)) # 0
        <5>1. SUFFICES ASSUME traffic'.running, Len(Hosts(configuration)) = 0 PROVE FALSE
          OBVIOUS
        <5>2. throws
          BY <4>1, <5>1
        <5>3. traffic.running
          BY <4>2, <5>1, <5>2
        <5>4. QED BY <5>1, <5>3 DEF CountersInv
      <4>4. UNCHANGED <<configuration, counters, failures>>
        BY <4>1 DEF lab
      <4>5. QED BY <4>2, <4>3, <4>4, CountersStay
    <3>4. QED BY <3>2, <3>3
  <2>2. CASE StopTraffic
    <3>1. CASE Ignored
      <4>1. UNCHANGED <<configuration, counters, traffic, failures>>
        BY <3>1 DEF Ignored, sessionvars, lab
      <4>2. QED BY <4>1, CountersAlone
    <3>2. CASE ~Ignored
      <4>1. traffic' = [traffic EXCEPT !.running = FALSE] /\ UNCHANGED <<configuration, counters, failures>>
        BY <2>2, <3>2 DEF StopTraffic, stop_traffic, lab
      <4>2. /\ traffic'.ticks = traffic.ticks /\ traffic'.packets = traffic.packets
            /\ traffic'.dropped = traffic.dropped /\ traffic'.running = FALSE
        BY <4>1 DEF DesktopInv, TrafficInv, Traffic
      <4>3. QED BY <4>1, <4>2, CountersStay
    <3>3. QED BY <3>1, <3>2
  <2>3. QED BY <1>2, <2>1, <2>2
<1>3. CASE TrafficTick
  <2>1. \/ \E throws \in BOOLEAN : run_traffic_step(throws)
        \/ UNCHANGED <<configuration, counters, traffic, failures>>
    BY <1>3 DEF TrafficTick, sessionvars, lab
  <2>2. QED BY <2>1, TrafficCounts, CountersAlone
<1>4. CASE SelectNode \/ SelectLink \/ ClearSelection \/ SaveTopology
  <2>1. UNCHANGED <<configuration, counters, traffic, failures>>
    BY <1>4 DEF SelectNode, select_node, SelectLink, select_link, ClearSelection, clear_selection,
       SaveTopology, save_topology, SetSelection, Ignored, set_status, sessionvars, lab
  <2>2. QED BY <2>1, CountersAlone
<1>5. CASE ApplySelectedFault \/ ClearFault \/ ReleaseEnforcement
  <2>1. UNCHANGED <<configuration, counters, traffic, failures>>
    BY <1>5 DEF ApplySelectedFault, apply_selected_fault, ClearFault, clear_fault,
       ReleaseEnforcement, release_enforcement, set_status, lab
  <2>2. QED BY <2>1, CountersAlone
<1>6. CASE AddPolicy \/ RemovePolicy \/ SetPolicyEnabled
  <2>1. UNCHANGED <<configuration, counters, traffic, failures>>
    BY <1>6 DEF AddPolicy, add_policy, RemovePolicy, remove_policy, SetPolicyEnabled, set_policy_enabled,
       ChangeRules, set_status, lab
  <2>2. QED BY <2>1, CountersAlone
<1>7. CASE RunBenchmarkReport \/ ExportReport \/ ReportTick
  <2>1. UNCHANGED <<configuration, counters, traffic, failures>>
    BY <1>7 DEF RunBenchmarkReport, run_benchmark_report, ExportReport, export_report, ReportTick,
       run_report_step, ChangeReport, Ignored, set_status, sessionvars, lab
  <2>2. QED BY <2>1, CountersAlone
<1>8. CASE settle \/ TickDrain \/ TimePasses \/ UNCHANGED vars
  <2>1. UNCHANGED <<configuration, counters, traffic, failures>>
    BY <1>8 DEF settle, TickDrain, Unstepped, TimePasses, Elapse, vars, sessionvars, lab
  <2>2. QED BY <2>1, CountersAlone
<1>9. QED BY <1>1, <1>2, <1>3, <1>4, <1>5, <1>6, <1>7, <1>8 DEF Next

\* Every frame a port was given is accounted for: it was forwarded or dropped, and the
\* ports' counters sum to the totals of the run, for any number of hosts, frames per
\* tick and ticks.  Only a step whose analyzer threw leaves frames on the ports that the
\* totals never saw, and a reset forgets both together.
THEOREM FramesAreAccountedFor == Spec => []CountersBalance
<1>1. Init => DesktopInv
  BY DesktopInit
<1>2. DesktopInv /\ [Next]_vars => DesktopInv'
  BY DesktopStep
<1>3. Init => CountersInv
  <2>1. SUFFICES ASSUME Init PROVE CountersInv
    OBVIOUS
  <2>2. /\ configuration = [name |-> "", nodes |-> <<>>, links |-> <<>>]
        /\ traffic = NoTraffic /\ counters = <<>> /\ failures = 0
    BY <2>1 DEF Init, SessionInit, EmptyConfiguration, Configuration
  <2>3. DOMAIN <<>> = {} /\ Len(<<>>) = 0 /\ IsSeq(<<>>)
    BY SeqFacts
  <2>4. ToSet(Hosts(configuration)) = {}
    <3>1. configuration.nodes = <<>> /\ <<>> \in Seq({})
      BY <2>2, EmptySeq
    <3>2. \A T : Select(<<>>, T) \in Seq({})
      BY <3>1, SelectFacts
    <3>3. PICK hosts \in Seq({}) : hosts = Select(<<>>, [id: STRING, type: {"host"}])
      BY <3>2
    <3>4. hosts = <<>>
      BY EmptySeq, ElementOfSeq, LenProperties
    <3>5. Hosts(configuration) = [i \in {} |-> <<>>[i].id]
      BY <2>3, <3>1, <3>3, <3>4 DEF Hosts
    <3>6. QED BY <3>5 DEF ToSet
  <2>5. Received = 0 /\ Dropped = 0
    <3>1. PICK zero : zero = [h \in {} |-> 0]
      OBVIOUS
    <3>2. IsFiniteSet({}) /\ Cardinality({}) = 0
      BY FS_EmptySet
    <3>3. SumFunction(zero) = 0
      <4>1. DOMAIN zero = {}
        BY <3>1
      <4>2. QED BY <3>2, <4>1, SumParts
    <3>4. Received = SumFunction(zero) /\ Dropped = SumFunction(zero)
      <4>1. /\ [h \in DOMAIN counters |-> counters[h].received] = zero
            /\ [h \in DOMAIN counters |-> counters[h].dropped] = zero
        BY <2>2, <2>3, <3>1
      <4>2. QED BY <4>1 DEF Received, Dropped
    <3>5. QED BY <3>3, <3>4
  <2>6. CountersBalance
    <3>1. traffic.packets = 0 /\ traffic.dropped = 0 /\ failures = 0
      BY <2>2 DEF NoTraffic
    <3>2. \A h \in DOMAIN counters : counters[h].received = counters[h].forwarded + counters[h].dropped
      BY <2>2, <2>3
    <3>3. QED BY <2>5, <3>1, <3>2 DEF CountersBalance
  <2>7. QED BY <2>2, <2>3, <2>4, <2>6 DEF CountersInv, NoTraffic
<1>4. DesktopInv /\ CountersInv /\ [Next]_vars => CountersInv'
  BY CountersStep
<1>5. CountersInv => CountersBalance
  BY DEF CountersInv
<1>6. QED BY <1>1, <1>2, <1>3, <1>4, <1>5, PTL DEF Spec
=============================================================================
