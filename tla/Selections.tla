----------------------------- MODULE Selections -----------------------------
(***************************************************************************)
(* What a loop over a list keeps and in which order, by positions: a       *)
(* comprehension with a condition, a dictionary that keeps the first entry *)
(* of every key, a stable sort.                                            *)
(***************************************************************************)
EXTENDS Naturals, Sequences, FiniteSets

\* The positions in I from the first to the last, and what s has there.
InOrder(I) == [k \in 1..Cardinality(I) |-> CHOOSE i \in I : Cardinality({j \in I : j < i}) = k - 1]
Those(s, I) == LET order == InOrder(I) IN [k \in DOMAIN order |-> s[order[k]]]

\* What of s is in E, in order.
Kept(s, E) ==
  LET kept[i \in 0..Len(s)] ==
        IF i = 0 THEN <<>> ELSE IF s[i] \in E THEN Append(kept[i - 1], s[i]) ELSE kept[i - 1]
  IN  kept[Len(s)]

\* The first entry of every key, in order.
FirstOfEach(s, key) == Those(s, {i \in DOMAIN s : \A j \in 1 .. i - 1 : key[j] # key[i]})

\* A stable sort by rank.
Sorted(s, rank) ==
  LET before(i) == {j \in DOMAIN s : rank[j] < rank[i] \/ (rank[j] = rank[i] /\ j < i)}
  IN [n \in DOMAIN s |-> s[CHOOSE i \in DOMAIN s : Cardinality(before(i)) = n - 1]]

AtMost(s, n) == SubSeq(s, 1, IF Len(s) < n THEN Len(s) ELSE n)
=============================================================================
