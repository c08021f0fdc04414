------------------------------ MODULE Selection ------------------------------
(***************************************************************************)
(* Stable selection from a sequence.  SelectSeq takes a predicate, which   *)
(* no proof can look inside; Select takes the set of the elements to keep. *)
(***************************************************************************)
EXTENDS Integers, Sequences

\* The elements of s that are in T, in the order they have in s.
Select(s, T) ==
  LET kept[i \in 0..Len(s)] ==
        IF i = 0 THEN <<>>
        ELSE IF s[i] \in T THEN Append(kept[i - 1], s[i]) ELSE kept[i - 1]
  IN  kept[Len(s)]
=============================================================================
