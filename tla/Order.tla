---------------------------------- MODULE Order ----------------------------------
(***************************************************************************)
(* Sequences read off sets: what a filter, a sort, a join and the removal  *)
(* of duplicates give, by the places of the items they keep.  Nothing here *)
(* is recursive, so what these operators return can be proved; SelectSeq,  *)
(* FlattenSeq and SortSeq of the library are defined by recursion.         *)
(***************************************************************************)
EXTENDS Integers, Sequences, FiniteSets

\* The members of a finite set in the order R, a set of pairs.
Enumeration(S, R) ==
  [k \in 1..Cardinality(S) |->
     CHOOSE x \in S : Cardinality({y \in S : <<y, x>> \in R}) = k - 1]

Ascending(P) == {p \in P \X P : p[1] < p[2]}

\* The items of s at the places P, in their order.
At(s, P) ==
  LET place == Enumeration(P, Ascending(P)) IN [k \in 1..Cardinality(P) |-> s[place[k]]]

\* The first of those that have the same key.
Firsts(s, key) == At(s, {i \in DOMAIN s : \A j \in DOMAIN s : j < i => key[j] # key[i]})

\* A stable sort, by keys that are numbers.
ByKey(P, key) == {p \in P \X P : key[p[1]] < key[p[2]] \/ (key[p[1]] = key[p[2]] /\ p[1] < p[2])}
Sorted(s, key) ==
  LET place == Enumeration(DOMAIN s, ByKey(DOMAIN s, key))
  IN  [k \in 1..Cardinality(DOMAIN s) |-> s[place[k]]]

\* The items of the sequences ss, one sequence after the other.
Places(ss) == UNION {{i} \X DOMAIN ss[i] : i \in DOMAIN ss}
InTurn(P) == {p \in P \X P : p[1][1] < p[2][1] \/ (p[1][1] = p[2][1] /\ p[1][2] < p[2][2])}
Joined(ss) ==
  LET place == Enumeration(Places(ss), InTurn(Places(ss)))
  IN  [k \in 1..Cardinality(Places(ss)) |-> ss[place[k][1]][place[k][2]]]

Upto(n, s) == SubSeq(s, 1, IF Len(s) < n THEN Len(s) ELSE n)

\* Sequences of numbers, as sorted() has them, and a set by such keys.
Precedes(a, b) ==
  \/ Len(a) < Len(b) /\ \A i \in DOMAIN a : a[i] = b[i]
  \/ \E i \in DOMAIN a \cap DOMAIN b : a[i] < b[i] /\ \A j \in 1..(i - 1) : a[j] = b[j]
InOrder(S, key) == Enumeration(S, {p \in S \X S : Precedes(key[p[1]], key[p[2]])})
===============================================================================
