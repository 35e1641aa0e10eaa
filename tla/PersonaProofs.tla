------------------------------ MODULE PersonaProofs -----------------------------
(***************************************************************************)
(* Theorems about the persona, and about what it is built from: Order,     *)
(* Lore and Utterance.                                                     *)
(***************************************************************************)
EXTENDS Persona, FiniteSetTheorems, SequenceTheorems, TLAPS

(* Numbers and finite sets *)

\* A set of numbers has a least.
LEMMA Least == ASSUME NEW T, T \subseteq Nat, T # {} PROVE \E n \in T : \A m \in T : n <= m
<1>1. \E x \in T : \A y \in T : ~ (<<y, x>> \in OpToRel(<, Nat))
  BY NatLessThanWellFounded, WFMin
<1>2. PICK x \in T : \A y \in T : ~ (<<y, x>> \in OpToRel(<, Nat))
  BY <1>1
<1>3. ASSUME NEW y \in T PROVE x <= y
  <2>1. x \in Nat /\ y \in Nat
    OBVIOUS
  <2>2. <<y, x>> \in OpToRel(<, Nat) <=> y < x
    BY <2>1 DEF OpToRel
  <2>3. ~(y < x)
    BY <2>2, <1>2
  <2>. QED  BY <2>1, <2>3
<1>. QED  BY <1>3

\* A bounded one has a greatest.
LEMMA Greatest ==
  ASSUME NEW n \in Nat, NEW T, T \subseteq 0..n, T # {}
  PROVE  \E m \in T : \A k \in T : k <= m
<1> DEFINE D == {n - k : k \in T}
<1>1. D \subseteq Nat /\ D # {}
  <2>1. ASSUME NEW k \in T PROVE n - k \in Nat
    <3>1. k \in 0..n
      OBVIOUS
    <3>. QED  BY <3>1
  <2>. QED  BY <2>1
<1>2. PICK d \in D : \A e \in D : d <= e
  BY <1>1, Least
<1>3. PICK m \in T : d = n - m
  BY <1>2
<1>4. ASSUME NEW k \in T PROVE k <= m
  <2>1. n - k \in D
    OBVIOUS
  <2>2. d <= n - k /\ k \in Nat /\ m \in Nat
    BY <2>1, <1>2
  <2>. QED  BY <2>2, <1>3
<1>. QED  BY <1>4

LEMMA MinIs ==
  ASSUME NEW T, T \subseteq Nat, T # {}
  PROVE  Min(T) \in T /\ \A m \in T : Min(T) <= m
BY Least DEF Min

LEMMA MaxIs ==
  ASSUME NEW n \in Nat, NEW T, T \subseteq 0..n, T # {}
  PROVE  Max(T) \in T /\ \A m \in T : m <= Max(T)
<1>1. PICK m \in T : \A k \in T : k <= m
  BY Greatest
<1>2. \A k \in T : m >= k
  BY <1>1
<1>3. Max(T) \in T /\ \A k \in T : Max(T) >= k
  BY <1>2 DEF Max
<1>. QED  BY <1>3

LEMMA Interval == ASSUME NEW n \in Nat PROVE IsFiniteSet(1..n) /\ Cardinality(1..n) = n
<1>1. n \in Int /\ 1 \in Int /\ n - 1 + 1 = n /\ (1 > n => n = 0)
  OBVIOUS
<1>2. IsFiniteSet(1..n) /\ Cardinality(1..n) = IF 1 > n THEN 0 ELSE n - 1 + 1
  BY <1>1, FS_Interval
<1>. QED  BY <1>1, <1>2

\* A function that takes all of a finite set to all of another.
LEMMA ImageFinite ==
  ASSUME NEW S, IsFiniteSet(S), NEW f, DOMAIN f = S
  PROVE  IsFiniteSet({f[x] : x \in S})
<1> DEFINE g == [x \in S |-> f[x]]
<1>1. g \in Surjection(S, {f[x] : x \in S})
  BY DEF Surjection
<1>. QED  BY <1>1, FS_Surjection

-------------------------------------------------------------------------------
(* Order: enumerations *)

\* What an enumeration needs of its order.
StrictTotal(S, R) ==
  /\ \A x \in S : <<x, x>> \notin R
  /\ \A x, y, z \in S : <<x, y>> \in R /\ <<y, z>> \in R => <<x, z>> \in R
  /\ \A x, y \in S : x = y \/ <<x, y>> \in R \/ <<y, x>> \in R

\* The enumeration has every member once, and in the order.
LEMMA Enumerated ==
  ASSUME NEW S, IsFiniteSet(S), NEW R, StrictTotal(S, R)
  PROVE  /\ Enumeration(S, R) \in [1..Cardinality(S) -> S]
         /\ \A x \in S : \E k \in 1..Cardinality(S) : Enumeration(S, R)[k] = x
         /\ \A i, j \in 1..Cardinality(S) :
              i < j <=> <<Enumeration(S, R)[i], Enumeration(S, R)[j]>> \in R
<1> DEFINE N == Cardinality(S)
           below(x) == {y \in S : <<y, x>> \in R}
           rank == [x \in S |-> Cardinality(below(x))]
           pick(k) == CHOOSE x \in S : Cardinality({y \in S : <<y, x>> \in R}) = k - 1
           e == Enumeration(S, R)
<1>1. N \in Nat
  BY FS_CardinalityType
<1>2. ASSUME NEW x \in S PROVE IsFiniteSet(below(x)) /\ rank[x] \in Nat /\ rank[x] < N
  <2>1. below(x) \in SUBSET S /\ x \notin below(x)
    BY DEF StrictTotal
  <2>2. IsFiniteSet(below(x)) /\ Cardinality(below(x)) <= N /\ Cardinality(below(x)) # N
    BY <2>1, FS_Subset
  <2>3. Cardinality(below(x)) \in Nat
    BY <2>2, FS_CardinalityType
  <2>4. Cardinality(below(x)) < N
    BY <1>1, <2>2, <2>3
  <2>. QED  BY <2>2, <2>3, <2>4
<1>3. ASSUME NEW x \in S, NEW y \in S, <<x, y>> \in R PROVE rank[x] < rank[y]
  <2>1. below(x) \in SUBSET below(y) /\ x \in below(y) /\ x \notin below(x)
    BY <1>3 DEF StrictTotal
  <2>2. Cardinality(below(x)) <= Cardinality(below(y)) /\ Cardinality(below(x)) # Cardinality(below(y))
    BY <2>1, <1>2, FS_Subset
  <2>3. rank[x] = Cardinality(below(x)) /\ rank[y] = Cardinality(below(y))
    OBVIOUS
  <2>4. rank[x] \in Nat /\ rank[y] \in Nat
    BY <1>2
  <2>. QED  BY <2>2, <2>3, <2>4
<1>4. ASSUME NEW x \in S, NEW y \in S PROVE rank[x] < rank[y] <=> <<x, y>> \in R
  <2>1. rank[x] \in Nat /\ rank[y] \in Nat
    BY <1>2
  <2>2. CASE x = y
    BY <2>1, <2>2 DEF StrictTotal
  <2>3. CASE <<x, y>> \in R
    BY <2>3, <1>3
  <2>4. CASE <<y, x>> \in R
    <3>1. rank[y] < rank[x]
      BY <2>4, <1>3
    <3>2. ~(rank[x] < rank[y])
      BY <3>1, <2>1
    <3>3. <<x, y>> \notin R
      BY <3>2, <1>3
    <3>. QED  BY <3>2, <3>3
  <2>. QED  BY <2>2, <2>3, <2>4 DEF StrictTotal
<1>5. ASSUME NEW x \in S, NEW y \in S, rank[x] = rank[y] PROVE x = y
  <2>1. ~(rank[x] < rank[y]) /\ ~(rank[y] < rank[x])
    BY <1>5, <1>2
  <2>2. <<x, y>> \notin R /\ <<y, x>> \notin R
    BY <2>1, <1>4
  <2>. QED  BY <2>2 DEF StrictTotal
<1>6. rank \in Injection(S, 0..(N - 1))
  <2>1. ASSUME NEW x \in S PROVE rank[x] \in 0..(N - 1)
    BY <1>1, <1>2
  <2>2. rank \in [S -> 0..(N - 1)]
    BY <2>1
  <2>. QED  BY <2>2, <1>5 DEF Injection, IsInjective
<1>7. IsFiniteSet(0..(N - 1)) /\ Cardinality(0..(N - 1)) = N
  <2>1. 0 \in Int /\ N - 1 \in Int /\ (N - 1) - 0 + 1 = N /\ (0 > N - 1 => N = 0)
    BY <1>1
  <2>2. /\ IsFiniteSet(0..(N - 1))
        /\ Cardinality(0..(N - 1)) = IF 0 > N - 1 THEN 0 ELSE (N - 1) - 0 + 1
    BY ONLY <2>1, FS_Interval
  <2>. QED  BY ONLY <2>1, <2>2
<1>8. rank \in Surjection(S, 0..(N - 1))
  BY <1>6, <1>7, FS_Injection
<1>9. ASSUME NEW k \in 1..N PROVE pick(k) \in S /\ rank[pick(k)] = k - 1
  <2>1. k - 1 \in 0..(N - 1)
    BY <1>1
  <2>2. PICK x \in S : rank[x] = k - 1
    BY <2>1, <1>8 DEF Surjection
  <2>3. Cardinality({y \in S : <<y, x>> \in R}) = k - 1
    BY <2>2
  <2>4. pick(k) \in S /\ Cardinality({y \in S : <<y, pick(k)>> \in R}) = k - 1
    BY <2>3
  <2>. QED  BY <2>4
<1>10. e = [k \in 1..N |-> pick(k)]
  BY DEF Enumeration
<1> HIDE DEF pick
<1>11. e \in [1..N -> S] /\ \A k \in 1..N : e[k] = pick(k)
  BY <1>9, <1>10
<1>12. ASSUME NEW x \in S PROVE \E k \in 1..N : e[k] = x
  <2>1. PICK k \in 1..N : k - 1 = rank[x]
    <3>1. rank[x] \in Nat /\ rank[x] < N
      BY <1>2
    <3>2. rank[x] + 1 \in 1..N /\ (rank[x] + 1) - 1 = rank[x]
      BY <3>1, <1>1
    <3>. QED  BY <3>2
  <2>2. e[k] \in S /\ rank[e[k]] = rank[x]
    BY <2>1, <1>9, <1>11
  <2>3. e[k] = x
    BY <2>2, <1>5
  <2>. QED  BY <2>3
<1>13. ASSUME NEW i \in 1..N, NEW j \in 1..N PROVE i < j <=> <<e[i], e[j]>> \in R
  <2>1. /\ e[i] \in S /\ rank[e[i]] = i - 1
        /\ e[j] \in S /\ rank[e[j]] = j - 1
    BY <1>9, <1>11
  <2>2. rank[e[i]] < rank[e[j]] <=> <<e[i], e[j]>> \in R
    BY <2>1, <1>4
  <2>3. rank[e[i]] < rank[e[j]] <=> i < j
    BY <2>1, <1>1
  <2>. QED  BY <2>2, <2>3
<1>. QED  BY <1>11, <1>12, <1>13

-------------------------------------------------------------------------------
(* Order: the items at some places *)

\* f takes 1..n to the places P, in their order.
Placing(f, P) ==
  /\ P \subseteq Nat \ {0} /\ Cardinality(P) \in Nat
  /\ f \in [1..Cardinality(P) -> P]
  /\ \A p \in P : \E k \in 1..Cardinality(P) : f[k] = p
  /\ \A i, j \in 1..Cardinality(P) : i < j <=> f[i] < f[j]

LEMMA Placed ==
  ASSUME NEW P, P \subseteq Nat \ {0}, IsFiniteSet(P)
  PROVE  Cardinality(P) \in Nat /\ Placing(Enumeration(P, Ascending(P)), P)
<1> DEFINE R == Ascending(P)
           f == Enumeration(P, R)
<1>1. \A x, y \in P : <<x, y>> \in R <=> x < y
  BY DEF Ascending
<1>2. StrictTotal(P, R)
  <2>1. ASSUME NEW x \in P, NEW y \in P, NEW z \in P
        PROVE  /\ ~(x < x) /\ (x < y /\ y < z => x < z)
               /\ x = y \/ x < y \/ y < x
    <3>1. x \in Nat /\ y \in Nat /\ z \in Nat
      OBVIOUS
    <3>. QED  BY <3>1
  <2>. HIDE DEF R
  <2>. QED  BY <2>1, <1>1 DEF StrictTotal
<1>. HIDE DEF R
<1>3. /\ f \in [1..Cardinality(P) -> P]
      /\ \A p \in P : \E k \in 1..Cardinality(P) : f[k] = p
      /\ \A i, j \in 1..Cardinality(P) : i < j <=> <<f[i], f[j]>> \in R
  BY <1>2, Enumerated
<1>. HIDE DEF f
<1>4. ASSUME NEW i \in 1..Cardinality(P), NEW j \in 1..Cardinality(P) PROVE i < j <=> f[i] < f[j]
  <2>1. f[i] \in P /\ f[j] \in P
    BY <1>3
  <2>2. <<f[i], f[j]>> \in R <=> f[i] < f[j]
    BY <2>1, <1>1
  <2>. QED  BY <2>2, <1>3
<1>5. Cardinality(P) \in Nat
  BY FS_CardinalityType
<1>6. Placing(f, P)
  BY <1>3, <1>4, <1>5 DEF Placing
<1>. QED  BY <1>5, <1>6 DEF f, R

\* Places of a sequence are finitely many.
LEMMA PlacesOf ==
  ASSUME NEW S, NEW s \in Seq(S), NEW P \in SUBSET (DOMAIN s)
  PROVE  P \subseteq Nat \ {0} /\ IsFiniteSet(P) /\ Cardinality(P) \in 0..Len(s)
<1>1. DOMAIN s = 1..Len(s) /\ Len(s) \in Nat
  BY LenProperties
<1>2. IsFiniteSet(1..Len(s)) /\ Cardinality(1..Len(s)) = Len(s)
  BY <1>1, Interval
<1>3. IsFiniteSet(P) /\ Cardinality(P) <= Len(s)
  BY <1>1, <1>2, FS_Subset
<1>4. Cardinality(P) \in Nat
  BY <1>3, FS_CardinalityType
<1>5. Cardinality(P) \in 0..Len(s)
  BY <1>1, <1>3, <1>4
<1>. QED  BY <1>1, <1>3, <1>5

\* What a filter returns.
LEMMA AtIs ==
  ASSUME NEW S, NEW s \in Seq(S), NEW P \in SUBSET (DOMAIN s)
  PROVE  /\ At(s, P) \in Seq(S)
         /\ Len(At(s, P)) = Cardinality(P) /\ DOMAIN At(s, P) = 1..Cardinality(P)
         /\ \E f : /\ Placing(f, P)
                   /\ \A k \in 1..Cardinality(P) : f[k] \in DOMAIN s /\ At(s, P)[k] = s[f[k]]
<1> DEFINE n == Cardinality(P)
           f == Enumeration(P, Ascending(P))
<1>1. n \in Nat /\ Placing(f, P)
  BY PlacesOf, Placed
<1>2. At(s, P) = [k \in 1..n |-> s[f[k]]]
  BY DEF At
<1> HIDE DEF f, n
<1>3. ASSUME NEW k \in 1..n PROVE f[k] \in DOMAIN s /\ s[f[k]] \in S
  <2>1. f[k] \in P
    BY <1>1 DEF Placing, n
  <2>2. f[k] \in 1..Len(s)
    BY <2>1, LenProperties
  <2>. QED  BY <2>1, <2>2, ElementOfSeq
<1>4. At(s, P) \in [1..n -> S] /\ \A k \in 1..n : At(s, P)[k] = s[f[k]]
  BY <1>2, <1>3
<1>5. At(s, P) \in Seq(S)
  BY <1>1, <1>4, SeqDef
<1>6. DOMAIN At(s, P) = 1..n /\ Len(At(s, P)) = n
  BY <1>1, <1>4, <1>5, LenProperties
<1>. QED  BY <1>1, <1>3, <1>4, <1>5, <1>6 DEF n

\* It has the items at those places and no other.
LEMMA AtItems ==
  ASSUME NEW S, NEW s \in Seq(S), NEW P \in SUBSET (DOMAIN s)
  PROVE  ToSet(At(s, P)) = {s[p] : p \in P}
<1>1. PICK f : /\ Placing(f, P)
               /\ \A k \in 1..Cardinality(P) : f[k] \in DOMAIN s /\ At(s, P)[k] = s[f[k]]
  BY AtIs
<1>2. DOMAIN At(s, P) = 1..Cardinality(P)
  BY AtIs
<1>3. ASSUME NEW k \in DOMAIN At(s, P) PROVE \E p \in P : At(s, P)[k] = s[p]
  BY <1>1, <1>2 DEF Placing
<1>4. ASSUME NEW p \in P PROVE \E k \in DOMAIN At(s, P) : At(s, P)[k] = s[p]
  BY <1>1, <1>2 DEF Placing
<1>. QED  BY <1>3, <1>4 DEF ToSet

\* The first m places, if all are taken, stay.
LEMMA PlacingPrefix ==
  ASSUME NEW P, NEW f, Placing(f, P)
  PROVE  \A m \in Nat : 1..m \subseteq P => m <= Cardinality(P) /\ \A k \in 1..m : f[k] = k
<1> TAKE m \in Nat
<1> HAVE 1..m \subseteq P
<1> DEFINE n == Cardinality(P)
<1>0. n \in Nat
  BY DEF Placing
<1>1. ASSUME NEW p \in 1..m PROVE \E k \in 1..n : f[k] = p
  BY DEF Placing
<1>2. ASSUME NEW k \in 1..n PROVE f[k] \in Nat \ {0}
  BY DEF Placing
<1>3. ASSUME NEW i \in 1..n, NEW j \in 1..n PROVE i < j <=> f[i] < f[j]
  BY DEF Placing
<1> DEFINE Wrong == {k \in 1..m : k \in 1..n => f[k] # k}
<1>4. Wrong = {}
  <2> SUFFICES ASSUME Wrong # {} PROVE FALSE
    OBVIOUS
  <2>1. Wrong \subseteq Nat
    OBVIOUS
  <2>2. PICK k \in Wrong : \A i \in Wrong : k <= i
    BY <2>1, Least
  <2>3. k \in Nat /\ k \in 1..m
    BY <2>1
  <2>4. ASSUME NEW i \in Nat, 0 < i, i < k PROVE i \in 1..n /\ f[i] = i
    <3>1. i \in 1..m /\ i \notin Wrong
      BY <2>2, <2>3, <2>4
    <3>. QED  BY <3>1
  <2>5. PICK j \in 1..n : f[j] = k
    BY <2>3, <1>1
  <2>6. j >= k
    BY <2>3, <2>4, <2>5
  <2>7. k \in 1..n /\ f[k] # k
    <3>1. k \in 1..n
      BY <2>3, <2>6, <1>0
    <3>2. k \in 1..n => f[k] # k
      BY <2>2
    <3>. QED  BY <3>1, <3>2
  <2>8. j # k
    BY <2>5, <2>7
  <2>9. f[k] < k
    BY <2>5, <2>6, <2>7, <2>8, <2>3, <1>3
  <2>10. f[k] \in 1..n /\ f[f[k]] = f[k]
    BY <2>9, <2>7, <1>2, <2>4
  <2>11. ~(f[k] < k)
    BY <2>10, <2>7, <1>3, <1>2
  <2>. QED  BY <2>9, <2>11
<1>5. ASSUME NEW k \in 1..m PROVE k \in 1..n /\ f[k] = k
  BY <1>4
<1>6. m <= n
  BY <1>5, <1>0
<1>. QED  BY <1>5, <1>6

-------------------------------------------------------------------------------
(* Order: the first of each kind, the first n, several in turn *)

LEMMA UptoIs ==
  ASSUME NEW S, NEW s \in Seq(S), NEW n \in Nat
  PROVE  /\ Upto(n, s) \in Seq(S) /\ Len(Upto(n, s)) <= n /\ Len(Upto(n, s)) <= Len(s)
         /\ Len(Upto(n, s)) \in Nat /\ (Len(Upto(n, s)) = n \/ Upto(n, s) = s)
         /\ DOMAIN Upto(n, s) = 1..Len(Upto(n, s))
         /\ \A i \in DOMAIN Upto(n, s) : i \in DOMAIN s /\ Upto(n, s)[i] = s[i]
<1> DEFINE m == IF Len(s) < n THEN Len(s) ELSE n
<1>1. Len(s) \in Nat /\ DOMAIN s = 1..Len(s)
  BY LenProperties
<1>2. m \in Nat /\ m <= n /\ m <= Len(s) /\ (m = n \/ m = Len(s))
  BY <1>1
<1>3. Upto(n, s) = SubSeq(s, 1, m)
  BY DEF Upto
<1> HIDE DEF m
<1>4. ASSUME NEW i \in 1..m PROVE i \in 1..Len(s)
  <2>1. Len(s) \in Nat /\ m \in Nat /\ m <= Len(s)
    BY <1>1, <1>2
  <2>. QED  BY <2>1
<1>9. \A i \in 1..m : s[i] \in S
  BY <1>4, ElementOfSeq
<1>5. /\ Upto(n, s) \in Seq(S) /\ Len(Upto(n, s)) = m
      /\ \A i \in 1..m : Upto(n, s)[i] = s[i]
  BY <1>2, <1>3, <1>9, SubSeqProperties
<1>6. DOMAIN Upto(n, s) = 1..m
  BY <1>5, LenProperties
<1>7. m = Len(s) => Upto(n, s) = s
  BY <1>3, SubSeqFull
<1>8. \A i \in 1..m : i \in DOMAIN s
  BY <1>1, <1>4
<1>. QED  BY <1>2, <1>5, <1>6, <1>7, <1>8

\* Of each kind one is kept, the first; what is new from the start stays in place.
LEMMA FirstsIs ==
  ASSUME NEW S, NEW s \in Seq(S), NEW key, DOMAIN key = DOMAIN s
  PROVE  /\ Firsts(s, key) \in Seq(S) /\ Len(Firsts(s, key)) <= Len(s)
         /\ ToSet(Firsts(s, key)) \subseteq ToSet(s)
         /\ \A i \in DOMAIN s : \E j \in DOMAIN s :
              j <= i /\ key[j] = key[i] /\ s[j] \in ToSet(Firsts(s, key))
         /\ \A m \in 0..Len(s) :
              (\A i, j \in 1..m : key[i] = key[j] => i = j) =>
                m <= Len(Firsts(s, key)) /\ \A k \in 1..m : Firsts(s, key)[k] = s[k]
<1> DEFINE P == {i \in DOMAIN s : \A j \in DOMAIN s : j < i => key[j] # key[i]}
           t == Firsts(s, key)
<1>1. t = At(s, P) /\ P \in SUBSET (DOMAIN s)
  BY DEF Firsts
<1>2. DOMAIN s = 1..Len(s) /\ Len(s) \in Nat
  BY LenProperties
<1>3. P \subseteq Nat /\ IsFiniteSet(P) /\ Cardinality(P) \in 0..Len(s)
  BY <1>1, PlacesOf
<1>4. t \in Seq(S) /\ Len(t) = Cardinality(P)
  BY <1>1, AtIs
<1>5. ToSet(t) = {s[p] : p \in P}
  BY <1>1, AtItems
<1>6. ASSUME NEW i \in DOMAIN s PROVE \E j \in DOMAIN s : j <= i /\ key[j] = key[i] /\ s[j] \in ToSet(t)
  <2> DEFINE Q == {j \in DOMAIN s : key[j] = key[i]}
  <2>1. Q \subseteq Nat /\ i \in Q
    BY <1>2
  <2>2. PICK j \in Q : \A k \in Q : j <= k
    BY <2>1, Least
  <2>3. j \in DOMAIN s /\ key[j] = key[i] /\ j <= i
    BY <2>1, <2>2
  <2>4. ASSUME NEW k \in DOMAIN s, k < j PROVE key[k] # key[j]
    <3>1. k \notin Q
      BY <2>2, <2>4, <1>2
    <3>. QED  BY <3>1, <2>3
  <2>5. j \in P
    BY <2>3, <2>4
  <2>. QED  BY <2>3, <2>5, <1>5
<1>7. ASSUME NEW m \in 0..Len(s), \A i, j \in 1..m : key[i] = key[j] => i = j
      PROVE  m <= Len(t) /\ \A k \in 1..m : t[k] = s[k]
  <2>1. ASSUME NEW i \in 1..m PROVE i \in P
    <3>1. i \in DOMAIN s
      BY <1>2
    <3>2. ASSUME NEW j \in DOMAIN s, j < i PROVE key[j] # key[i]
      <4>1. j \in 1..m /\ j # i
        BY <3>2, <1>2
      <4>. QED  BY <4>1, <1>7
    <3>. QED  BY <3>1, <3>2
  <2>. HIDE DEF P, t
  <2>2. PICK f : /\ Placing(f, P)
                 /\ \A k \in 1..Cardinality(P) : f[k] \in DOMAIN s /\ t[k] = s[f[k]]
    <3>1. \E f : /\ Placing(f, P)
                 /\ \A k \in 1..Cardinality(P) : f[k] \in DOMAIN s /\ At(s, P)[k] = s[f[k]]
      BY <1>1, AtIs
    <3>. QED  BY <3>1, <1>1
  <2>3. P \subseteq Nat \ {0} /\ Cardinality(P) \in Nat
    BY <1>2, <1>3, <1>1
  <2>4. m \in Nat /\ 1..m \subseteq P
    BY <1>2, <2>1
  <2>5. m <= Cardinality(P) /\ \A k \in 1..m : f[k] = k
    <3>1. \A l \in Nat : 1..l \subseteq P => l <= Cardinality(P) /\ \A k \in 1..l : f[k] = k
      BY ONLY <2>2, PlacingPrefix
    <3>. QED  BY ONLY <3>1, <2>4
  <2>6. \A k \in 1..m : k \in 1..Cardinality(P)
    BY <2>3, <2>4, <2>5
  <2>. QED  BY <2>2, <2>5, <2>6, <1>4
<1>8. ToSet(t) \subseteq ToSet(s)
  BY <1>1, <1>5 DEF ToSet
<1>9. Len(t) <= Len(s)
  BY <1>2, <1>3, <1>4
<1>. QED  BY <1>4, <1>6, <1>7, <1>8, <1>9

\* The places of several sequences, in turn, and what their items are.
LEMMA JoinedIs ==
  ASSUME NEW S, NEW ss \in Seq(Seq(S))
  PROVE  /\ Joined(ss) \in Seq(S)
         /\ ToSet(Joined(ss)) = UNION {ToSet(ss[i]) : i \in DOMAIN ss}
<1> DEFINE P == Places(ss)
           n == Cardinality(P)
           f == Enumeration(P, InTurn(P))
<1>1. DOMAIN ss = 1..Len(ss) /\ Len(ss) \in Nat
  BY LenProperties
<1>2. ASSUME NEW i \in DOMAIN ss
      PROVE  /\ ss[i] \in Seq(S) /\ Len(ss[i]) \in Nat /\ DOMAIN ss[i] = 1..Len(ss[i])
             /\ IsFiniteSet({i} \X DOMAIN ss[i])
  <2>1. ss[i] \in Seq(S)
    BY <1>1, ElementOfSeq
  <2>2. Len(ss[i]) \in Nat /\ DOMAIN ss[i] = 1..Len(ss[i])
    BY <2>1, LenProperties
  <2>3. IsFiniteSet(1..Len(ss[i])) /\ IsFiniteSet({i})
    BY <2>2, Interval, FS_Singleton
  <2>. QED  BY <2>1, <2>2, <2>3, FS_Product
<1>3. IsFiniteSet(P)
  <2> DEFINE block == [i \in DOMAIN ss |-> {i} \X DOMAIN ss[i]]
  <2>1. IsFiniteSet(DOMAIN ss) /\ DOMAIN block = DOMAIN ss
    BY <1>1, Interval
  <2>2. IsFiniteSet({block[i] : i \in DOMAIN ss})
    <3> HIDE DEF block
    <3>. QED  BY <2>1, ImageFinite
  <2>3. \A T \in {block[i] : i \in DOMAIN ss} : IsFiniteSet(T)
    BY <1>2
  <2>4. P = UNION {block[i] : i \in DOMAIN ss}
    BY DEF Places
  <2>. QED  BY <2>2, <2>3, <2>4, FS_UNION
<1>4. ASSUME NEW p \in P
      PROVE  p = <<p[1], p[2]>> /\ p[1] \in DOMAIN ss /\ p[2] \in DOMAIN ss[p[1]]
             /\ p[1] \in Nat /\ p[2] \in Nat
  <2>1. PICK i \in DOMAIN ss : p \in {i} \X DOMAIN ss[i]
    BY DEF Places
  <2>2. p = <<p[1], p[2]>> /\ p[1] = i /\ p[2] \in DOMAIN ss[i]
    BY <2>1
  <2>3. i \in Nat /\ p[2] \in Nat
    BY <2>2, <1>1, <1>2
  <2>. QED  BY <2>2, <2>3
<1>5. ASSUME NEW i \in DOMAIN ss, NEW j \in DOMAIN ss[i] PROVE <<i, j>> \in P
  BY DEF Places
<1> HIDE DEF P
<1>6. StrictTotal(P, InTurn(P))
  <2>1. ASSUME NEW p \in P, NEW q \in P
        PROVE  <<p, q>> \in InTurn(P) <=> p[1] < q[1] \/ (p[1] = q[1] /\ p[2] < q[2])
    BY DEF InTurn
  <2>2. ASSUME NEW p \in P PROVE <<p, p>> \notin InTurn(P)
    <3>1. p[1] \in Nat /\ p[2] \in Nat
      BY <1>4
    <3>2. ~(p[1] < p[1]) /\ ~(p[2] < p[2])
      BY <3>1
    <3>. QED  BY <3>2, <2>1
  <2>3. ASSUME NEW p \in P, NEW q \in P, NEW r \in P, <<p, q>> \in InTurn(P), <<q, r>> \in InTurn(P)
        PROVE  <<p, r>> \in InTurn(P)
    <3>1. /\ p[1] \in Nat /\ p[2] \in Nat /\ q[1] \in Nat /\ q[2] \in Nat /\ r[1] \in Nat /\ r[2] \in Nat
          /\ p[1] < q[1] \/ (p[1] = q[1] /\ p[2] < q[2])
          /\ q[1] < r[1] \/ (q[1] = r[1] /\ q[2] < r[2])
      BY <2>1, <2>3, <1>4
    <3>2. p[1] < r[1] \/ (p[1] = r[1] /\ p[2] < r[2])
      BY <3>1
    <3>. QED  BY <3>2, <2>1
  <2>4. ASSUME NEW p \in P, NEW q \in P PROVE p = q \/ <<p, q>> \in InTurn(P) \/ <<q, p>> \in InTurn(P)
    <3>1. /\ p[1] \in Nat /\ p[2] \in Nat /\ q[1] \in Nat /\ q[2] \in Nat
          /\ p = <<p[1], p[2]>> /\ q = <<q[1], q[2]>>
      BY <1>4
    <3>2. \/ p[1] = q[1] /\ p[2] = q[2]
          \/ p[1] < q[1] \/ (p[1] = q[1] /\ p[2] < q[2])
          \/ q[1] < p[1] \/ (q[1] = p[1] /\ q[2] < p[2])
      BY <3>1
    <3>3. p[1] = q[1] /\ p[2] = q[2] => p = q
      BY <3>1
    <3>. QED  BY <3>2, <3>3, <2>1
  <2>. QED  BY <2>2, <2>3, <2>4 DEF StrictTotal
<1>7. /\ f \in [1..n -> P]
      /\ \A p \in P : \E k \in 1..n : f[k] = p
  BY <1>3, <1>6, Enumerated
<1>8. n \in Nat
  BY <1>3, FS_CardinalityType
<1>9. Joined(ss) = [k \in 1..n |-> ss[f[k][1]][f[k][2]]]
  BY DEF Joined, P
<1> HIDE DEF f, n
<1>10. ASSUME NEW k \in 1..n
       PROVE  /\ f[k][1] \in DOMAIN ss /\ f[k][2] \in DOMAIN ss[f[k][1]]
              /\ ss[f[k][1]][f[k][2]] \in S
  <2>1. f[k] \in P
    BY <1>7
  <2>2. f[k][1] \in DOMAIN ss /\ f[k][2] \in DOMAIN ss[f[k][1]]
    BY <2>1, <1>4
  <2>. QED  BY <2>2, <1>2, ElementOfSeq
<1>11. Joined(ss) \in [1..n -> S]
  BY <1>9, <1>10
<1>12. Joined(ss) \in Seq(S)
  BY <1>8, <1>11, SeqDef
<1>13. ASSUME NEW k \in DOMAIN Joined(ss) PROVE \E i \in DOMAIN ss : Joined(ss)[k] \in ToSet(ss[i])
  <2>1. k \in 1..n /\ Joined(ss)[k] = ss[f[k][1]][f[k][2]]
    BY <1>9
  <2>. QED  BY <2>1, <1>10 DEF ToSet
<1>14. ASSUME NEW i \in DOMAIN ss, NEW j \in DOMAIN ss[i]
       PROVE  \E k \in DOMAIN Joined(ss) : Joined(ss)[k] = ss[i][j]
  <2>1. PICK k \in 1..n : f[k] = <<i, j>>
    BY <1>5, <1>7
  <2>2. Joined(ss)[k] = ss[f[k][1]][f[k][2]] /\ k \in DOMAIN Joined(ss)
    BY <1>9
  <2>. QED  BY <2>1, <2>2
<1>. QED  BY <1>12, <1>13, <1>14 DEF ToSet

-------------------------------------------------------------------------------
(* Order: sequences of numbers *)

LEMMA PrecedesTotal ==
  ASSUME NEW a \in Seq(Nat), NEW b \in Seq(Nat)
  PROVE  a = b \/ Precedes(a, b) \/ Precedes(b, a)
<1>1. /\ DOMAIN a = 1..Len(a) /\ Len(a) \in Nat /\ \A i \in 1..Len(a) : a[i] \in Nat
      /\ DOMAIN b = 1..Len(b) /\ Len(b) \in Nat /\ \A i \in 1..Len(b) : b[i] \in Nat
  BY LenProperties, ElementOfSeq
<1> DEFINE D == {i \in DOMAIN a \cap DOMAIN b : a[i] # b[i]}
<1>2. CASE D = {}
  <2>1. ASSUME NEW i \in DOMAIN a \cap DOMAIN b PROVE a[i] = b[i]
    BY <1>2
  <2>2. CASE Len(a) = Len(b)
    <3>1. \A i \in 1..Len(a) : a[i] = b[i]
      BY <2>1, <2>2, <1>1
    <3>. QED  BY <3>1, <2>2, SeqEqual
  <2>3. CASE Len(a) < Len(b)
    <3>1. \A i \in DOMAIN a : a[i] = b[i]
      BY <2>1, <2>3, <1>1
    <3>. QED  BY <3>1, <2>3 DEF Precedes
  <2>4. CASE Len(b) < Len(a)
    <3>1. \A i \in DOMAIN b : b[i] = a[i]
      BY <2>1, <2>4, <1>1
    <3>. QED  BY <3>1, <2>4 DEF Precedes
  <2>5. Len(a) = Len(b) \/ Len(a) < Len(b) \/ Len(b) < Len(a)
    <3>1. Len(a) \in Nat /\ Len(b) \in Nat
      BY LenProperties
    <3>. QED  BY ONLY <3>1
  <2>. QED  BY <2>2, <2>3, <2>4, <2>5
<1>3. CASE D # {}
  <2>1. D \subseteq Nat
    BY <1>1
  <2>2. PICK i \in D : \A j \in D : i <= j
    BY <1>3, <2>1, Least
  <2>3. i \in DOMAIN a /\ i \in DOMAIN b /\ i \in 1..Len(a) /\ i \in 1..Len(b) /\ a[i] # b[i]
    BY <1>1
  <2>4. ASSUME NEW j \in 1..(i - 1) PROVE a[j] = b[j]
    <3>1. j \in DOMAIN a \cap DOMAIN b /\ ~(i <= j)
      BY <2>3, <1>1
    <3>. QED  BY <3>1, <2>2
  <2>5. a[i] < b[i] \/ b[i] < a[i]
    BY <2>3, <1>1
  <2>6. a[i] < b[i] => Precedes(a, b)
    BY <2>3, <2>4 DEF Precedes
  <2>7. \A j \in 1..(i - 1) : b[j] = a[j]
    BY <2>4
  <2>8. b[i] < a[i] => Precedes(b, a)
    BY <2>3, <2>7 DEF Precedes
  <2>. QED  BY <2>5, <2>6, <2>8
<1>. QED  BY <1>2, <1>3

LEMMA PrecedesStrict ==
  ASSUME NEW a \in Seq(Nat), NEW b \in Seq(Nat), NEW c \in Seq(Nat)
  PROVE  ~Precedes(a, a) /\ (Precedes(a, b) /\ Precedes(b, c) => Precedes(a, c))
<1>1. /\ DOMAIN a = 1..Len(a) /\ Len(a) \in Nat /\ \A i \in 1..Len(a) : a[i] \in Nat
      /\ DOMAIN b = 1..Len(b) /\ Len(b) \in Nat /\ \A i \in 1..Len(b) : b[i] \in Nat
      /\ DOMAIN c = 1..Len(c) /\ Len(c) \in Nat /\ \A i \in 1..Len(c) : c[i] \in Nat
  BY LenProperties, ElementOfSeq
<1>2. ~Precedes(a, a)
  BY <1>1 DEF Precedes
<1> DEFINE Short(x, y) == Len(x) < Len(y) /\ \A i \in DOMAIN x : x[i] = y[i]
           First(x, y, i) == /\ i \in DOMAIN x /\ i \in DOMAIN y /\ x[i] < y[i]
                             /\ \A j \in 1..(i - 1) : x[j] = y[j]
<1>3. ASSUME NEW x, NEW y PROVE Precedes(x, y) <=> Short(x, y) \/ \E i : First(x, y, i)
  BY DEF Precedes
<1>4. ASSUME Short(a, b), Short(b, c) PROVE Short(a, c)
  BY <1>4, <1>1
<1>5. ASSUME NEW i, First(a, b, i), Short(b, c) PROVE First(a, c, i)
  <2>1. i \in 1..Len(a) /\ i \in 1..Len(b) /\ i \in 1..Len(c) /\ c[i] = b[i]
    BY <1>5, <1>1
  <2>2. ASSUME NEW j \in 1..(i - 1) PROVE a[j] = c[j]
    <3>1. j \in 1..Len(b)
      BY <2>1, <1>1
    <3>2. a[j] = b[j] /\ b[j] = c[j]
      BY <3>1, <1>5, <1>1
    <3>. QED  BY <3>2
  <2>. QED  BY <2>1, <2>2, <1>1, <1>5
<1>6. ASSUME NEW i, Short(a, b), First(b, c, i) PROVE Precedes(a, c)
  <2>1. i \in Nat /\ i \in 1..Len(b) /\ i \in 1..Len(c)
    BY <1>6, <1>1
  <2>2. CASE i \in DOMAIN a
    <3>1. First(a, c, i)
      <4>1. a[i] = b[i] /\ a[i] < c[i]
        BY <2>2, <1>6
      <4>2. ASSUME NEW j \in 1..(i - 1) PROVE a[j] = c[j]
        <5>1. j \in DOMAIN a
          BY <2>2, <1>1
        <5>. QED  BY <5>1, <1>6
      <4>. QED  BY <4>1, <4>2, <2>2, <1>6
    <3>. QED  BY <3>1, <1>3
  <2>3. CASE i \notin DOMAIN a
    <3>1. Len(a) < i /\ Len(a) < Len(c)
      BY <2>1, <2>3, <1>1
    <3>2. ASSUME NEW j \in DOMAIN a PROVE a[j] = c[j]
      <4>1. j \in 1..(i - 1)
        BY <3>1, <2>1, <1>1
      <4>. QED  BY <4>1, <1>6
    <3>3. Short(a, c)
      BY <3>1, <3>2
    <3>. QED  BY <3>3, <1>3
  <2>. QED  BY <2>2, <2>3
<1>7. ASSUME NEW i, NEW k, First(a, b, i), First(b, c, k) PROVE \E m : First(a, c, m)
  <2>1. /\ i \in Nat /\ i \in 1..Len(a) /\ i \in 1..Len(b)
        /\ k \in Nat /\ k \in 1..Len(b) /\ k \in 1..Len(c)
    BY <1>7, <1>1
  <2>2. CASE i < k
    <3>1. i \in 1..(k - 1) /\ i \in 1..Len(c)
      BY <2>1, <2>2, <1>1
    <3>2. b[i] = c[i] /\ a[i] < c[i]
      BY <3>1, <1>7
    <3>3. ASSUME NEW j \in 1..(i - 1) PROVE a[j] = c[j]
      <4>1. j \in 1..(k - 1)
        BY <2>1, <2>2
      <4>. QED  BY <4>1, <1>7
    <3>. QED  BY <3>1, <3>2, <3>3, <2>1, <1>1
  <2>3. CASE i = k
    <3>1. a[i] < b[i] /\ b[i] < c[i] /\ a[i] \in Nat /\ b[i] \in Nat /\ c[i] \in Nat
      BY <1>7, <2>1, <2>3, <1>1
    <3>2. a[i] < c[i] /\ i \in DOMAIN a /\ i \in DOMAIN c
      BY <3>1, <2>1, <2>3, <1>1
    <3>3. \A j \in 1..(i - 1) : a[j] = c[j]
      BY <1>7, <2>3
    <3>. QED  BY <3>2, <3>3
  <2>4. CASE k < i
    <3>1. k \in 1..(i - 1) /\ k \in 1..Len(a)
      BY <2>1, <2>4, <1>1
    <3>2. a[k] = b[k] /\ a[k] < c[k]
      BY <3>1, <1>7
    <3>3. ASSUME NEW j \in 1..(k - 1) PROVE a[j] = c[j]
      <4>1. j \in 1..(i - 1)
        BY <2>1, <2>4
      <4>. QED  BY <4>1, <1>7
    <3>. QED  BY <3>1, <3>2, <3>3, <2>1, <1>1
  <2>. QED  BY <2>1, <2>2, <2>3, <2>4
<1> HIDE DEF Short, First
<1>8. ASSUME Precedes(a, b), Precedes(b, c) PROVE Precedes(a, c)
  <2>1. Short(a, b) \/ \E i : First(a, b, i)
    BY <1>8, <1>3
  <2>2. Short(b, c) \/ \E i : First(b, c, i)
    BY <1>8, <1>3
  <2>3. ASSUME Short(a, c) \/ \E i : First(a, c, i) PROVE Precedes(a, c)
    BY <2>3, <1>3
  <2>. QED  BY <2>1, <2>2, <2>3, <1>4, <1>5, <1>6, <1>7
<1>. QED  BY <1>2, <1>8

\* A set in the order of its keys: all of it, once.
LEMMA InOrderIs ==
  ASSUME NEW S, IsFiniteSet(S), NEW key \in [S -> Seq(Nat)],
         \A x, y \in S : key[x] = key[y] => x = y
  PROVE  /\ InOrder(S, key) \in [1..Cardinality(S) -> S] /\ Cardinality(S) \in Nat
         /\ \A x \in S : \E k \in 1..Cardinality(S) : InOrder(S, key)[k] = x
         /\ \A i, j \in 1..Cardinality(S) : InOrder(S, key)[i] = InOrder(S, key)[j] => i = j
<1> DEFINE R == {p \in S \X S : Precedes(key[p[1]], key[p[2]])}
           e == Enumeration(S, R)
<1>1. ASSUME NEW x \in S, NEW y \in S PROVE <<x, y>> \in R <=> Precedes(key[x], key[y])
  OBVIOUS
<1>2. \A x \in S : key[x] \in Seq(Nat)
  OBVIOUS
<1> HIDE DEF R
<1>3. StrictTotal(S, R)
  <2>1. ASSUME NEW x \in S PROVE <<x, x>> \notin R
    BY <1>1, <1>2, PrecedesStrict
  <2>2. ASSUME NEW x \in S, NEW y \in S, NEW z \in S, <<x, y>> \in R, <<y, z>> \in R
        PROVE  <<x, z>> \in R
    <3>1. Precedes(key[x], key[y]) /\ Precedes(key[y], key[z])
      BY <2>2, <1>1
    <3>2. Precedes(key[x], key[z])
      BY <3>1, <1>2, PrecedesStrict
    <3>. QED  BY <3>2, <1>1
  <2>3. ASSUME NEW x \in S, NEW y \in S PROVE x = y \/ <<x, y>> \in R \/ <<y, x>> \in R
    <3>1. key[x] = key[y] \/ Precedes(key[x], key[y]) \/ Precedes(key[y], key[x])
      BY <1>2, PrecedesTotal
    <3>. QED  BY <3>1, <1>1
  <2>. QED  BY <2>1, <2>2, <2>3 DEF StrictTotal
<1>4. /\ e \in [1..Cardinality(S) -> S]
      /\ \A x \in S : \E k \in 1..Cardinality(S) : e[k] = x
      /\ \A i, j \in 1..Cardinality(S) : i < j <=> <<e[i], e[j]>> \in R
  BY <1>3, Enumerated
<1>5. Cardinality(S) \in Nat
  BY FS_CardinalityType
<1> HIDE DEF e
<1>6. ASSUME NEW i \in 1..Cardinality(S), NEW j \in 1..Cardinality(S), e[i] = e[j] PROVE i = j
  <2>1. e[i] \in S /\ <<e[i], e[i]>> \notin R
    BY <1>3, <1>4 DEF StrictTotal
  <2>2. <<e[i], e[j]>> \notin R /\ <<e[j], e[i]>> \notin R
    BY <2>1, <1>6
  <2>3. ~(i < j) /\ ~(j < i)
    BY <2>2, <1>4
  <2>. QED  BY <2>3, <1>5
<1>7. e = InOrder(S, key)
  BY DEF e, R, InOrder
<1>. QED  BY <1>4, <1>5, <1>6, <1>7

-------------------------------------------------------------------------------
(* Utterance: lines of marks *)

LEMMA LineFacts ==
  ASSUME NEW S, NEW line \in Seq(S)
  PROVE  /\ Len(line) \in Nat /\ DOMAIN line = 1..Len(line)
         /\ \A i \in 1..Len(line) : line[i] \in S
BY LenProperties, ElementOfSeq

\* The start of a line.
LEMMA PrefixIs ==
  ASSUME NEW S, NEW line \in Seq(S), NEW m \in 0..Len(line)
  PROVE  /\ SubSeq(line, 1, m) \in Seq(S) /\ Len(SubSeq(line, 1, m)) = m
         /\ \A i \in 1..m : SubSeq(line, 1, m)[i] = line[i]
<1>1. Len(line) \in Nat /\ \A i \in 1..Len(line) : line[i] \in S
  BY LineFacts
<1>2. m \in Nat /\ m <= Len(line)
  BY <1>1
<1>3. \A i \in 1..m : i \in 1..Len(line)
  BY <1>1, <1>2
<1>4. \A i \in 1..m : line[i] \in S
  BY <1>1, <1>3
<1>. QED  BY <1>2, <1>4, SubSeqProperties

LEMMA PrefixMarks ==
  ASSUME NEW S, NEW line \in Seq(S), NEW m \in 0..Len(line)
  PROVE  ToSet(SubSeq(line, 1, m)) \subseteq ToSet(line)
<1>1. /\ SubSeq(line, 1, m) \in Seq(S) /\ Len(SubSeq(line, 1, m)) = m
      /\ \A i \in 1..m : SubSeq(line, 1, m)[i] = line[i]
  BY PrefixIs
<1>2. DOMAIN SubSeq(line, 1, m) = 1..m /\ DOMAIN line = 1..Len(line) /\ Len(line) \in Nat
  BY <1>1, LenProperties
<1>3. ASSUME NEW i \in 1..m PROVE i \in DOMAIN line
  BY <1>2
<1>. QED  BY <1>1, <1>2, <1>3 DEF ToSet

\* Stripping leaves nothing of the template.
LEMMA StrippedIs ==
  ASSUME NEW raw \in Seq(Mark)
  PROVE  Stripped(raw) \in Seq(Mark) /\ ToSet(Stripped(raw)) \cap {"<|im_end|>", "user"} = {}
<1> DEFINE P == {i \in DOMAIN raw : raw[i] # "<|im_end|>"}
           text == At(raw, P)
           breaks == {i \in DOMAIN text : text[i] = "user"}
<1>1. text \in Seq(Mark) /\ ToSet(text) = {raw[p] : p \in P}
  BY AtIs, AtItems
<1>2. "<|im_end|>" \notin ToSet(text)
  BY <1>1
<1> HIDE DEF text
<1>3. DOMAIN text = 1..Len(text) /\ Len(text) \in Nat
  BY <1>1, LenProperties
<1>4. CASE breaks = {}
  <2>1. Stripped(raw) = text
    BY <1>4 DEF Stripped, text
  <2>2. "user" \notin ToSet(text)
    BY <1>4 DEF ToSet
  <2>. QED  BY <1>1, <1>2, <2>1, <2>2
<1>5. CASE breaks # {}
  <2>1. Stripped(raw) = SubSeq(text, 1, Min(breaks) - 1)
    BY <1>5 DEF Stripped, text
  <2>2. Min(breaks) \in breaks /\ \A m \in breaks : Min(breaks) <= m
    <3>1. breaks \subseteq Nat
      BY <1>3
    <3>. QED  BY <3>1, <1>5, MinIs
  <2> DEFINE c == Min(breaks) - 1
  <2>3. c \in 0..Len(text) /\ c \in Nat
    BY <2>2, <1>3
  <2>4. /\ SubSeq(text, 1, c) \in Seq(Mark) /\ Len(SubSeq(text, 1, c)) = c
        /\ \A i \in 1..c : SubSeq(text, 1, c)[i] = text[i]
    BY <2>3, <1>1, PrefixIs
  <2>5. ASSUME NEW i \in 1..c PROVE text[i] # "user"
    <3>1. i \in DOMAIN text /\ ~(Min(breaks) <= i)
      BY <2>2, <2>3, <1>3
    <3>. QED  BY <3>1, <2>2
  <2>6. ToSet(SubSeq(text, 1, c)) \subseteq ToSet(text)
    BY <2>3, <1>1, PrefixMarks
  <2>7. DOMAIN SubSeq(text, 1, c) = 1..c
    BY <2>4, LenProperties
  <2>8. "user" \notin ToSet(SubSeq(text, 1, c))
    BY <2>4, <2>5, <2>7 DEF ToSet
  <2>. QED  BY <2>1, <2>4, <2>6, <2>8, <1>2
<1>. QED  BY <1>4, <1>5

LEMMA DropLeadingIs ==
  ASSUME NEW line \in Seq(Mark), NEW mark \in Mark \ Quote
  PROVE  /\ DropLeading(line, mark) \in Seq(Mark)
         /\ ToSet(DropLeading(line, mark)) \subseteq ToSet(line)
         /\ Speaks(line) => Speaks(DropLeading(line, mark))
<1>1. CASE ~(line # <<>> /\ Head(line) = mark)
  BY <1>1 DEF DropLeading
<1>2. CASE line # <<>> /\ Head(line) = mark
  <2> DEFINE t == Tail(line)
  <2>1. DropLeading(line, mark) = t
    BY <1>2 DEF DropLeading
  <2>2. /\ t \in Seq(Mark) /\ Len(t) = Len(line) - 1
        /\ \A i \in 1..Len(t) : t[i] = line[i + 1]
    BY <1>2, HeadTailProperties
  <2>3. /\ DOMAIN t = 1..Len(t) /\ Len(t) \in Nat /\ DOMAIN line = 1..Len(line) /\ Len(line) \in Nat
        /\ line[1] = mark
    BY <1>2, <2>2, LenProperties
  <2> HIDE DEF t
  <2>4. ASSUME NEW i \in DOMAIN t PROVE t[i] \in ToSet(line)
    <3>1. i + 1 \in DOMAIN line /\ t[i] = line[i + 1]
      BY <2>2, <2>3
    <3>. QED  BY <3>1 DEF ToSet
  <2>5. ASSUME Speaks(line) PROVE Speaks(t)
    <3>1. PICK p \in DOMAIN line : Opens(line, p) /\ \A j \in 1..(p - 1) : line[j] \notin Quote
      BY <2>5 DEF Speaks
    <3>2. PICK j \in (p + 1)..Len(line) :
            line[j] \notin Quote \cup {"*"} /\ \A k \in (p + 1)..(j - 1) : line[k] = "*"
      BY <3>1 DEF Opens
    <3>3. p # 1 /\ line[p] = "open"
      BY <3>1, <2>3 DEF Opens, Quote
    <3>4. p \in Nat /\ j \in Nat /\ p - 1 \in 1..Len(t) /\ j - 1 \in ((p - 1) + 1)..Len(t)
      BY <3>3, <2>2, <2>3
    <3>5. t[p - 1] = "open" /\ t[j - 1] = line[j]
      BY <3>3, <3>4, <2>2, <2>3
    <3>6. ASSUME NEW k \in ((p - 1) + 1)..((j - 1) - 1) PROVE t[k] = "*"
      <4>1. k \in 1..Len(t) /\ k + 1 \in (p + 1)..(j - 1)
        BY <3>4
      <4>. QED  BY <4>1, <3>2, <2>2
    <3>7. Opens(t, p - 1)
      BY <3>2, <3>4, <3>5, <3>6 DEF Opens
    <3>8. ASSUME NEW k \in 1..((p - 1) - 1) PROVE t[k] \notin Quote
      <4>3. p \in Nat /\ Len(t) \in Nat /\ p - 1 <= Len(t)
        BY <3>4
      <4>4. k \in Nat /\ 1 <= k /\ k + 1 <= p - 1
        BY <4>3
      <4>1. k \in 1..Len(t) /\ k + 1 \in 1..(p - 1)
        BY ONLY <4>3, <4>4
      <4>. QED  BY <4>1, <3>1, <2>2
    <3>. QED  BY <3>4, <3>7, <3>8, <2>3 DEF Speaks
  <2>6. ToSet(t) \subseteq ToSet(line)
    BY <2>4 DEF ToSet
  <2>. QED  BY <2>1, <2>2, <2>5, <2>6
<1>. QED  BY <1>1, <1>2

\* A quote that opens and stays: a mark follows that is no quote, and none is before.
Kept(line) ==
  \E q \in 1..Len(line) : /\ line[q] = "open" /\ q + 1 \in 1..Len(line) /\ line[q + 1] \notin Quote
                          /\ \A k \in 1..(q - 1) : line[k] \notin Quote

\* The asterisks are off, nothing but full stops and quotes is new, and what is said stays.
LEMMA UnstarredIs ==
  ASSUME NEW line \in Seq(Mark)
  PROVE  /\ Unstarred(line) \in Seq(Mark) /\ "*" \notin ToSet(Unstarred(line))
         /\ ToSet(Unstarred(line)) \subseteq ToSet(line) \cup {".", "apart"}
         /\ Speaks(line) => Kept(Unstarred(line))
<1> DEFINE stars == {i \in DOMAIN line : line[i] = "*"}
           before(i) == {j \in stars : j < i}
           closes == {i \in stars : Cardinality(before(i)) % 2 = 1}
           opens == {Max(before(i)) : i \in closes}
           alone(i) == Max(before(i)) = 1 \/ line[Max(before(i)) - 1] \in Quote \cup {"."}
           ended == {i \in closes : alone(i) /\ line[i - 1] \notin {".", "*"}}
           spaced == [i \in DOMAIN line |->
                       IF line[i] = "*" THEN "."
                       ELSE IF line[i] = "close" /\ i - 1 \in opens \cup closes THEN "apart"
                       ELSE line[i]]
           P == {i \in DOMAIN line : line[i] # "*"} \cup ended
           u == At(spaced, P)
<1>1. Unstarred(line) = u
  BY DEF Unstarred
<1>2. ended \subseteq DOMAIN line
  OBVIOUS
<1> HIDE DEF ended, opens, closes
<1>3. DOMAIN line = 1..Len(line) /\ Len(line) \in Nat /\ \A i \in 1..Len(line) : line[i] \in Mark
  BY LineFacts
<1>4. ASSUME NEW i \in DOMAIN line
      PROVE  /\ spaced[i] \in Mark /\ spaced[i] # "*" /\ spaced[i] \in ToSet(line) \cup {".", "apart"}
             /\ line[i] \notin Quote => spaced[i] \notin Quote
             /\ line[i] = "open" => spaced[i] = "open"
  <2>1. line[i] \in Mark /\ line[i] \in ToSet(line)
    BY <1>3 DEF ToSet
  <2>2. CASE line[i] = "*"
    BY <2>2 DEF Mark, Quote
  <2>3. CASE line[i] # "*" /\ line[i] = "close" /\ i - 1 \in opens \cup closes
    BY <2>3 DEF Mark, Quote
  <2>4. CASE line[i] # "*" /\ ~(line[i] = "close" /\ i - 1 \in opens \cup closes)
    <3>1. spaced[i] = line[i]
      BY <2>4
    <3>. QED  BY <3>1, <2>1, <2>4
  <2>. QED  BY <2>2, <2>3, <2>4
<1>5. DOMAIN spaced = DOMAIN line
  OBVIOUS
<1>6. spaced \in Seq(Mark)
  <2>1. spaced \in [1..Len(line) -> Mark]
    <3>1. spaced = [i \in DOMAIN line |-> spaced[i]]
      OBVIOUS
    <3> HIDE DEF spaced
    <3>2. \A i \in DOMAIN line : spaced[i] \in Mark
      BY <1>4
    <3>. QED  BY <3>1, <3>2, <1>3
  <2>. QED  BY <2>1, <1>3, SeqDef
<1>7. P \in SUBSET (DOMAIN spaced) /\ \A i \in DOMAIN line : line[i] # "*" => i \in P
  BY <1>2
<1> HIDE DEF P, spaced
<1>8. u \in Seq(Mark) /\ ToSet(u) = {spaced[p] : p \in P} /\ Len(u) = Cardinality(P)
  <2>1. P \in SUBSET (DOMAIN spaced)
    BY <1>7
  <2>2. u \in Seq(Mark) /\ Len(u) = Cardinality(P)
    BY <1>6, <2>1, AtIs
  <2>3. ToSet(u) = {spaced[p] : p \in P}
    BY <1>6, <2>1, AtItems
  <2>. QED  BY <2>2, <2>3
<1>9. "*" \notin ToSet(u) /\ ToSet(u) \subseteq ToSet(line) \cup {".", "apart"}
  BY <1>4, <1>5, <1>7, <1>8
<1>10. ASSUME Speaks(line) PROVE Kept(u)
  <2>1. PICK p \in DOMAIN line : Opens(line, p) /\ \A j \in 1..(p - 1) : line[j] \notin Quote
    BY <1>10 DEF Speaks
  <2>2. PICK j \in (p + 1)..Len(line) :
          line[j] \notin Quote \cup {"*"} /\ \A k \in (p + 1)..(j - 1) : line[k] = "*"
    BY <2>1 DEF Opens
  <2>3. line[p] = "open" /\ p \in 1..Len(line) /\ p \in Nat /\ j \in Nat /\ j \in DOMAIN line /\ p < j
    BY <2>1, <2>2, <1>3 DEF Opens
  <2>4. PICK f : /\ Placing(f, P)
                 /\ \A k \in 1..Cardinality(P) : f[k] \in DOMAIN spaced /\ u[k] = spaced[f[k]]
    BY <1>6, <1>7, AtIs
  <2> HIDE DEF u
  <2>5. p \in P /\ j \in P
    BY <2>2, <2>3, <1>7
  <2>6. PICK q \in 1..Len(u) : f[q] = p
    BY <2>4, <2>5, <1>8 DEF Placing
  <2>7. PICK m \in 1..Len(u) : f[m] = j
    BY <2>4, <2>5, <1>8 DEF Placing
  <2>8. \A i, k \in 1..Len(u) : i < k <=> f[i] < f[k]
    BY <2>4, <1>8 DEF Placing
  <2>9. Len(u) \in Nat
    BY <1>8, LenProperties
  <2>10. q < m /\ q \in Nat /\ q + 1 \in 1..Len(u)
    <3>1. q < m
      BY <2>3, <2>6, <2>7, <2>8
    <3>. QED  BY <3>1, <2>9
  <2>11. ASSUME NEW i \in 1..Len(u)
         PROVE  f[i] \in DOMAIN line /\ f[i] \in Nat /\ u[i] = spaced[f[i]]
    BY <2>4, <1>5, <1>8, <1>3
  <2>12. u[q] = "open"
    BY <2>11, <2>6, <2>3, <1>4
  <2>13. u[q + 1] \notin Quote
    <3>1. p < f[q + 1]
      BY <2>8, <2>6, <2>10
    <3>2. f[q + 1] <= j
      <4>1. ~(m < q + 1)
        BY <2>10
      <4>2. ~(f[m] < f[q + 1])
        BY <4>1, <2>8, <2>10
      <4>. QED  BY <4>2, <2>7, <2>11, <2>10, <2>3
    <3>3. line[f[q + 1]] \notin Quote
      <4>1. CASE f[q + 1] = j
        BY <4>1, <2>2
      <4>2. CASE f[q + 1] # j
        <5>1. f[q + 1] \in (p + 1)..(j - 1)
          BY <4>2, <3>1, <3>2, <2>3, <2>11, <2>10
        <5>. QED  BY <5>1, <2>2 DEF Quote
      <4>. QED  BY <4>1, <4>2
    <3>. QED  BY <3>3, <2>11, <2>10, <1>4
  <2>14. ASSUME NEW k \in 1..(q - 1) PROVE u[k] \notin Quote
    <3>1. k \in 1..Len(u) /\ k < q
      BY <2>9, <2>10
    <3>2. f[k] < p
      BY <3>1, <2>8, <2>6
    <3>3. f[k] \in 1..(p - 1) /\ f[k] \in DOMAIN line
      BY <3>1, <3>2, <2>11, <2>3, <1>3
    <3>. QED  BY <3>3, <2>1, <2>11, <3>1, <1>4
  <2>. QED  BY <2>10, <2>12, <2>13, <2>14 DEF Kept
<1>. QED  BY <1>1, <1>8, <1>9, <1>10

\* Cutting a line to its last whole sentence keeps its spoken line.
LEMMA TrimmedIs ==
  ASSUME NEW line \in Seq(Mark)
  PROVE  /\ Trimmed(line) \in Seq(Mark) /\ ToSet(Trimmed(line)) \subseteq ToSet(line)
         /\ Kept(line) => Kept(Trimmed(line))
<1> DEFINE m == Max(SentenceEnds(line))
           whole == SubSeq(line, 1, m)
<1>1. Len(line) \in Nat /\ DOMAIN line = 1..Len(line)
  BY LineFacts
<1>2. Trimmed(line) = line \/ (/\ Trimmed(line) = whole /\ SentenceEnds(line) # {}
                               /\ Quotes(whole) > 0 \/ Quotes(line) = 0)
  BY DEF Trimmed
<1>3. ASSUME SentenceEnds(line) # {}
      PROVE  m \in SentenceEnds(line) /\ m \in 1..Len(line)
  <2>1. SentenceEnds(line) \subseteq 0..Len(line) /\ SentenceEnds(line) \subseteq 1..Len(line)
    BY <1>1 DEF SentenceEnds
  <2>. QED  BY <2>1, <1>1, <1>3, MaxIs
<1> HIDE DEF m
<1>4. ASSUME SentenceEnds(line) # {}
      PROVE  /\ whole \in Seq(Mark) /\ Len(whole) = m /\ ToSet(whole) \subseteq ToSet(line)
             /\ \A i \in 1..m : whole[i] = line[i]
  <2>1. m \in 0..Len(line)
    BY <1>1, <1>3, <1>4
  <2>. QED  BY <2>1, PrefixIs, PrefixMarks
<1> HIDE DEF whole
<1>5. ASSUME SentenceEnds(line) # {}, Quotes(whole) > 0 \/ Quotes(line) = 0, Kept(line)
      PROVE  Kept(whole)
  <2>1. PICK q \in 1..Len(line) : /\ line[q] = "open" /\ q + 1 \in 1..Len(line)
                                  /\ line[q + 1] \notin Quote
                                  /\ \A k \in 1..(q - 1) : line[k] \notin Quote
    BY <1>5 DEF Kept
  <2>2. Quotes(line) # 0
    <3> DEFINE Q == {i \in DOMAIN line : line[i] \in Quote}
    <3>1. q \in Q
      BY <2>1, <1>1 DEF Quote
    <3>2. IsFiniteSet(1..Len(line))
      BY <1>1, Interval
    <3>3. IsFiniteSet(Q)
      BY <1>1, <3>2, FS_Subset
    <3>4. Cardinality(Q) # 0
      BY <3>1, <3>3, FS_EmptySet
    <3>. QED  BY <3>4 DEF Quotes
  <2>3. \E i \in DOMAIN whole : whole[i] \in Quote
    <3> SUFFICES ASSUME {i \in DOMAIN whole : whole[i] \in Quote} = {} PROVE FALSE
      OBVIOUS
    <3>1. Quotes(whole) = 0
      BY FS_EmptySet DEF Quotes
    <3>. QED  BY <3>1, <2>2, <1>5
  <2>4. DOMAIN whole = 1..m /\ m \in Nat /\ m <= Len(line)
    BY <1>5, <1>3, <1>4, <1>1, LenProperties
  <2>5. PICK i \in 1..m : line[i] \in Quote
    BY <2>3, <2>4, <1>4, <1>5
  <2>6. q <= i
    <3>1. i \notin 1..(q - 1)
      BY <2>1, <2>5
    <3>. QED  BY <3>1, <2>4, <1>1
  <2>7. m # q
    <3>1. line[m] \in {".", "close"}
      BY <1>3, <1>5 DEF SentenceEnds
    <3>. QED  BY <3>1, <2>1
  <2>8. q \in 1..m /\ q + 1 \in 1..m
    BY <2>4, <2>6, <2>7, <1>1
  <2>9. ASSUME NEW k \in 1..(q - 1) PROVE whole[k] \notin Quote
    <3>1. k \in 1..m
      BY <2>8, <2>4
    <3>. QED  BY <3>1, <2>1, <1>4, <1>5
  <2>10. whole[q] = "open" /\ whole[q + 1] \notin Quote
    BY <2>1, <2>8, <1>4, <1>5
  <2>. QED  BY <2>8, <2>9, <2>10, <1>4, <1>5 DEF Kept
<1>. QED  BY <1>2, <1>4, <1>5

LEMMA UnwrappedIs ==
  ASSUME NEW line \in Seq(Mark)
  PROVE  Unwrapped(line) \in Seq(Mark) /\ ToSet(Unwrapped(line)) \subseteq ToSet(line)
<1>1. Len(line) \in Nat /\ DOMAIN line = 1..Len(line)
  BY LineFacts
<1>2. CASE Unwrapped(line) = line
  BY <1>2
<1>3. CASE Unwrapped(line) # line
  <2> DEFINE n == Len(line) - 1
             inner == SubSeq(line, 2, n)
  <2>1. Unwrapped(line) = inner /\ Len(line) >= 2
    BY <1>3 DEF Unwrapped
  <2>2. n \in Int /\ 2 \in Int /\ \A i \in 2..n : i \in 1..Len(line)
    BY <1>1
  <2>3. \A i \in 2..n : line[i] \in Mark
    BY <2>2, ElementOfSeq
  <2> HIDE DEF n
  <2>4. /\ inner \in Seq(Mark) /\ Len(inner) = IF 2 <= n THEN n - 2 + 1 ELSE 0
        /\ \A i \in 1..(n - 2 + 1) : inner[i] = line[2 + i - 1]
    BY <2>2, <2>3, SubSeqProperties
  <2> HIDE DEF inner
  <2>5. DOMAIN inner = 1..Len(inner)
    BY <2>4, LenProperties
  <2>6. ASSUME NEW i \in DOMAIN inner PROVE inner[i] \in ToSet(line)
    <3>1. i \in 1..(n - 2 + 1) /\ 2 + i - 1 \in 2..n
      BY <2>4, <2>5, <2>2
    <3>2. 2 + i - 1 \in DOMAIN line
      BY <3>1, <2>2, <1>1
    <3>. QED  BY <3>1, <3>2, <2>4 DEF ToSet
  <2>7. ToSet(inner) \subseteq ToSet(line)
    BY <2>6 DEF ToSet
  <2>. QED  BY <2>1, <2>4, <2>7
<1>. QED  BY <1>2, <1>3

\* Quotes come in pairs, at the cost of a quote at the end, or of one more there.
LEMMA BalancedIs ==
  ASSUME NEW line \in Seq(Mark)
  PROVE  /\ Balanced(line) \in Seq(Mark) /\ Quotes(Balanced(line)) % 2 = 0
         /\ ToSet(Balanced(line)) \subseteq ToSet(line) \cup {"close"}
         /\ Kept(line) => Kept(Balanced(line))
<1> DEFINE Q == {i \in DOMAIN line : line[i] \in Quote}
           n == Len(line)
<1>1. n \in Nat /\ DOMAIN line = 1..n /\ \A i \in 1..n : line[i] \in Mark
  BY LineFacts
<1>2. IsFiniteSet(Q) /\ Quotes(line) = Cardinality(Q) /\ Quotes(line) \in Nat
  <2>1. IsFiniteSet(1..n)
    BY <1>1, Interval
  <2>2. IsFiniteSet(Q)
    BY <2>1, <1>1, FS_Subset
  <2>. QED  BY <2>2, FS_CardinalityType DEF Quotes
<1> HIDE DEF n
<1>3. CASE Quotes(line) % 2 = 0
  BY <1>3 DEF Balanced
<1>4. CASE Quotes(line) % 2 # 0 /\ Ends(line, Quote)
  <2> DEFINE t == SubSeq(line, 1, n - 1)
  <2>1. Balanced(line) = t
    BY <1>4 DEF Balanced, Front, n
  <2>2. n \in 1..n /\ line[n] \in Quote
    <3>1. line # <<>> /\ line[n] \in Quote
      BY <1>4 DEF Ends, Last, n
    <3>2. n # 0
      BY <3>1, EmptySeq DEF n
    <3>. QED  BY <3>1, <3>2, <1>1
  <2>3. n - 1 \in 0..Len(line) /\ n - 1 \in Nat
    BY <2>2, <1>1 DEF n
  <2>4. /\ t \in Seq(Mark) /\ Len(t) = n - 1 /\ ToSet(t) \subseteq ToSet(line)
        /\ \A i \in 1..(n - 1) : t[i] = line[i]
    BY <2>3, PrefixIs, PrefixMarks
  <2>5. DOMAIN t = 1..(n - 1)
    BY <2>4, LenProperties
  <2> HIDE DEF t
  <2>6. {i \in DOMAIN t : t[i] \in Quote} = Q \ {n}
    <3>1. ASSUME NEW i PROVE i \in 1..(n - 1) <=> i \in 1..n /\ i # n
      BY <1>1
    <3>. QED  BY <3>1, <2>4, <2>5, <1>1
  <2>7. Cardinality(Q \ {n}) = Cardinality(Q) - 1
    BY <2>2, <1>1, <1>2, FS_RemoveElement
  <2>8. Quotes(t) = Quotes(line) - 1
    BY <2>6, <2>7, <1>2 DEF Quotes
  <2>9. Quotes(t) % 2 = 0
    BY <2>8, <1>2, <1>4
  <2>10. ASSUME Kept(line) PROVE Kept(t)
    <3>1. PICK q \in 1..n : /\ line[q] = "open" /\ q + 1 \in 1..n /\ line[q + 1] \notin Quote
                            /\ \A k \in 1..(q - 1) : line[k] \notin Quote
      BY <2>10 DEF Kept, n
    <3>2. q + 1 # n
      BY <3>1, <2>2
    <3>3. q \in 1..(n - 1) /\ q + 1 \in 1..(n - 1) /\ \A k \in 1..(q - 1) : k \in 1..(n - 1)
      BY <3>1, <3>2, <1>1
    <3>. QED  BY <3>1, <3>3, <2>4 DEF Kept
  <2>. QED  BY <2>1, <2>4, <2>9, <2>10
<1>5. CASE Quotes(line) % 2 # 0 /\ ~Ends(line, Quote)
  <2> DEFINE t == Append(line, "close")
  <2>1. Balanced(line) = t
    BY <1>5 DEF Balanced
  <2>2. "close" \in Mark /\ "close" \in Quote
    BY DEF Mark, Quote
  <2>3. /\ t \in Seq(Mark) /\ Len(t) = n + 1
        /\ \A i \in 1..n : t[i] = line[i]
        /\ t[n + 1] = "close"
    BY <2>2, AppendProperties DEF n
  <2>4. DOMAIN t = 1..(n + 1)
    BY <2>3, LenProperties
  <2> HIDE DEF t
  <2>5. {i \in DOMAIN t : t[i] \in Quote} = Q \cup {n + 1}
    <3>1. ASSUME NEW i PROVE i \in 1..(n + 1) <=> i \in 1..n \/ i = n + 1
      BY <1>1
    <3>. QED  BY <3>1, <2>2, <2>3, <2>4, <1>1
  <2>6. n + 1 \notin Q
    BY <1>1
  <2>7. Cardinality(Q \cup {n + 1}) = Cardinality(Q) + 1
    BY <2>6, <1>2, FS_AddElement
  <2>8. Quotes(t) % 2 = 0
    <3>1. Quotes(t) = Quotes(line) + 1
      BY <2>5, <2>7, <1>2 DEF Quotes
    <3>. QED  BY <3>1, <1>2, <1>5
  <2>9. ASSUME NEW i \in DOMAIN t PROVE t[i] \in ToSet(line) \cup {"close"}
    <3>1. i \in 1..n \/ i = n + 1
      BY <2>4, <1>1
    <3>. QED  BY <3>1, <2>3, <1>1 DEF ToSet
  <2>10. ASSUME Kept(line) PROVE Kept(t)
    <3>1. PICK q \in 1..n : /\ line[q] = "open" /\ q + 1 \in 1..n /\ line[q + 1] \notin Quote
                            /\ \A k \in 1..(q - 1) : line[k] \notin Quote
      BY <2>10 DEF Kept, n
    <3>2. /\ q \in 1..(n + 1) /\ q + 1 \in 1..(n + 1)
          /\ \A k \in 1..(q - 1) : k \in 1..n
      BY <3>1, <1>1
    <3>. QED  BY <3>1, <3>2, <2>3 DEF Kept
  <2>11. ToSet(t) \subseteq ToSet(line) \cup {"close"}
    BY <2>9 DEF ToSet
  <2>. QED  BY <2>1, <2>3, <2>8, <2>10, <2>11
<1>. QED  BY <1>3, <1>4, <1>5

LEMMA CleanIs ==
  ASSUME NEW raw \in Seq(Mark), NEW mode
  PROVE  /\ Quotes(Clean(raw, mode)) % 2 = 0
         /\ ToSet(Clean(raw, mode)) \cap {"*", "<|im_end|>", "user"} = {}
         /\ mode = "rp" /\ Speaks(Stripped(raw)) => Spoken(Clean(raw, mode))
<1> DEFINE s == Stripped(raw)
           v == DropLeading(s, "@")
           bare == DropLeading(v, "Cricket says,")
           u == Unstarred(bare)
           t == Trimmed(u)
           w == IF mode = "rp" THEN t ELSE Unwrapped(t)
           line == Balanced(w)
<1>1. Clean(raw, mode) = line
  BY DEF Clean
<1>2. "@" \in Mark \ Quote /\ "Cricket says," \in Mark \ Quote
  BY DEF Mark, Quote
<1>3. s \in Seq(Mark) /\ ToSet(s) \cap {"<|im_end|>", "user"} = {}
  BY StrippedIs
<1> HIDE DEF s
<1>4. v \in Seq(Mark) /\ ToSet(v) \subseteq ToSet(s) /\ (Speaks(s) => Speaks(v))
  BY <1>2, <1>3, DropLeadingIs
<1> HIDE DEF v
<1>5. bare \in Seq(Mark) /\ ToSet(bare) \subseteq ToSet(v) /\ (Speaks(v) => Speaks(bare))
  BY <1>2, <1>4, DropLeadingIs
<1> HIDE DEF bare
<1>6. /\ u \in Seq(Mark) /\ "*" \notin ToSet(u) /\ ToSet(u) \subseteq ToSet(bare) \cup {".", "apart"}
      /\ Speaks(bare) => Kept(u)
  BY <1>5, UnstarredIs
<1> HIDE DEF u
<1>7. t \in Seq(Mark) /\ ToSet(t) \subseteq ToSet(u) /\ (Kept(u) => Kept(t))
  BY <1>6, TrimmedIs
<1> HIDE DEF t
<1>8. w \in Seq(Mark) /\ ToSet(w) \subseteq ToSet(t) /\ (mode = "rp" => w = t)
  BY <1>7, UnwrappedIs
<1> HIDE DEF w
<1>9. /\ line \in Seq(Mark) /\ Quotes(line) % 2 = 0 /\ ToSet(line) \subseteq ToSet(w) \cup {"close"}
      /\ Kept(w) => Kept(line)
  BY <1>8, BalancedIs
<1> HIDE DEF line
<1>10. ToSet(line) \cap {"*", "<|im_end|>", "user"} = {}
  BY <1>3, <1>4, <1>5, <1>6, <1>7, <1>8, <1>9
<1>11. ASSUME mode = "rp", Speaks(s) PROVE Spoken(line)
  <2>1. Kept(line)
    BY <1>11, <1>4, <1>5, <1>6, <1>7, <1>8, <1>9
  <2>2. PICK q \in 1..Len(line) : /\ line[q] = "open" /\ q + 1 \in 1..Len(line)
                                  /\ line[q + 1] \notin Quote
    BY <2>1 DEF Kept
  <2>3. Len(line) \in Nat /\ DOMAIN line = 1..Len(line)
    BY <1>9, LineFacts
  <2>4. line[q + 1] # "*" /\ q + 1 \in (q + 1)..Len(line)
    <3>1. line[q + 1] \in ToSet(line)
      BY <2>2, <2>3 DEF ToSet
    <3>. QED  BY <3>1, <1>10, <2>2, <2>3
  <2>5. \A k \in (q + 1)..((q + 1) - 1) : line[k] = "*"
    BY <2>2, <2>3
  <2>6. Opens(line, q)
    BY <2>2, <2>4, <2>5 DEF Opens
  <2>. QED  BY <2>2, <2>3, <2>6 DEF Spoken
<1>. QED  BY <1>1, <1>9, <1>10, <1>11 DEF s

-------------------------------------------------------------------------------
(* What goes out *)

\* What goes out is what was written, cleaned.
Cleaned == said = Silence \/ (said.raw \in Lines /\ said.line = Clean(said.raw, said.mode))

LEMMA CleanedInductive == Cleaned /\ [Next]_vars => Cleaned'
<1>1. ASSUME Cleaned, UNCHANGED said PROVE Cleaned'
  BY <1>1 DEF Cleaned, Silence
<1>2. ASSUME Composed PROVE Cleaned'
  <2>1. PICK raw \in Lines :
          said' = [raw |-> raw, line |-> Clean(raw, turn.mode), mode |-> turn.mode]
    BY <1>2 DEF Composed
  <2>2. said'.raw = raw /\ said'.line = Clean(raw, turn.mode) /\ said'.mode = turn.mode
    BY <2>1
  <2>. QED  BY <2>2 DEF Cleaned
<1>3. ASSUME Done PROVE Cleaned'
  BY <1>3 DEF Done, Cleaned, Silence
<1>4. ChatTurn \/ PoseTurn => UNCHANGED said
  BY DEF ChatTurn, PoseTurn, Respond
<1>5. Planned \/ Distilled \/ SceneOver \/ Directed \/ Edited \/ UNCHANGED vars => UNCHANGED said
  BY DEF Planned, Distilled, SceneOver, Directed, Edited, vars
<1>6. Answered \/ Failed => Done
  BY DEF Answered, Failed
<1>. QED  BY <1>1, <1>2, <1>3, <1>4, <1>5, <1>6 DEF Next

LEMMA CleanedIsFit == Cleaned => LineIsFit
<1>1. CASE said = Silence
  <2>1. said.line = <<>> /\ said.mode = ""
    BY <1>1 DEF Silence
  <2>2. {i \in DOMAIN said.line : said.line[i] \in Quote} = {} /\ ToSet(said.line) = {}
    <3>1. DOMAIN <<>> = {}
      OBVIOUS
    <3>. QED  BY <3>1, <2>1 DEF ToSet
  <2>3. Quotes(said.line) = 0
    BY <2>2, FS_EmptySet DEF Quotes
  <2>4. Quotes(said.line) % 2 = 0 /\ said.mode # "rp"
    <3>1. 0 % 2 = 0
      OBVIOUS
    <3>2. "" # "rp"
      OBVIOUS
    <3>. QED  BY <3>1, <3>2, <2>1, <2>3
  <2>5. ToSet(said.line) \cap {"*", "<|im_end|>", "user"} = {}
    BY <2>2
  <2>. QED  BY <2>4, <2>5, Zenon DEF LineIsFit
<1>2. CASE said.raw \in Lines /\ said.line = Clean(said.raw, said.mode)
  <2>1. said.raw \in Seq(Mark)
    BY <1>2, PersonaAssumption DEF PersonaAssumption
  <2>. QED  BY <1>2, <2>1, CleanIs DEF LineIsFit
<1>. QED  BY <1>1, <1>2 DEF Cleaned

\* Whatever the model writes, what goes out has its quotes in pairs, no asterisk and
\* nothing of the template, and a pose whose first quote opens on something still
\* has a spoken line (llm.py, _clean_output): for lines of any length.
THEOREM WhatGoesOut == Spec => []LineIsFit
<1>1. Init => Cleaned
  BY DEF Init, Cleaned
<1>. QED  BY <1>1, CleanedInductive, CleanedIsFit, PTL DEF Spec

-------------------------------------------------------------------------------
(* Lore: who is named *)

LEMMA MadeSeq ==
  ASSUME NEW S, NEW n \in Nat, NEW s \in [1..n -> S]
  PROVE  s \in Seq(S) /\ Len(s) = n /\ DOMAIN s = 1..n
<1>1. s \in Seq(S)
  BY SeqDef
<1>2. DOMAIN s = 1..n /\ DOMAIN s = 1..Len(s) /\ Len(s) \in Nat
  BY <1>1, LenProperties
<1>3. Len(s) = n
  <2> DEFINE l == Len(s)
  <2>1. l \in Nat /\ 1..l = 1..n
    BY <1>2
  <2> HIDE DEF l
  <2>2. (n \in 1..n <=> n \in 1..l) /\ (l \in 1..l <=> l \in 1..n)
    BY <2>1
  <2>3. l = n
    BY <2>1, <2>2
  <2>. QED  BY <2>3 DEF l
<1>. QED  BY <1>1, <1>2, <1>3

\* Items of any kind, at finitely many places.
LEMMA AtAny ==
  ASSUME NEW s, NEW P, P \subseteq Nat \ {0}, IsFiniteSet(P)
  PROVE  /\ Cardinality(P) \in Nat /\ DOMAIN At(s, P) = 1..Cardinality(P)
         /\ Len(At(s, P)) = Cardinality(P) /\ At(s, P) \in Seq({s[p] : p \in P})
<1> DEFINE n == Cardinality(P)
           f == Enumeration(P, Ascending(P))
<1>1. n \in Nat /\ Placing(f, P)
  BY Placed
<1>2. At(s, P) = [k \in 1..n |-> s[f[k]]]
  BY DEF At
<1>3. \A k \in 1..n : f[k] \in P
  BY <1>1 DEF Placing
<1> HIDE DEF n, f
<1>4. At(s, P) \in [1..n -> {s[p] : p \in P}]
  BY <1>2, <1>3
<1>. QED  BY <1>1, <1>4, MadeSeq DEF n

LEMMA FirstsAny ==
  ASSUME NEW s, NEW n \in Nat, DOMAIN s = 1..n, NEW key
  PROVE  Len(Firsts(s, key)) \in Nat
<1> DEFINE P == {i \in DOMAIN s : \A j \in DOMAIN s : j < i => key[j] # key[i]}
<1>1. P \in SUBSET (1..n) /\ IsFiniteSet(1..n) /\ P \subseteq Nat \ {0}
  BY Interval
<1>2. IsFiniteSet(P)
  BY <1>1, FS_Subset
<1>3. Firsts(s, key) = At(s, P)
  BY DEF Firsts
<1> HIDE DEF P
<1>. QED  BY <1>1, <1>2, <1>3, AtAny

LEMMA UptoShort ==
  ASSUME NEW s, Len(s) \in Nat, NEW n \in Nat
  PROVE  Len(Upto(n, s)) \in Nat /\ Len(Upto(n, s)) <= n
<1> DEFINE m == IF Len(s) < n THEN Len(s) ELSE n
           S == {s[i] : i \in 1..m}
<1>1. m \in Nat /\ m <= n
  OBVIOUS
<1>2. Upto(n, s) = SubSeq(s, 1, m)
  BY DEF Upto
<1> HIDE DEF m
<1>3. \A i \in 1..m : s[i] \in S
  OBVIOUS
<1> HIDE DEF S
<1>4. Len(SubSeq(s, 1, m)) = IF 1 <= m THEN m - 1 + 1 ELSE 0
  BY <1>1, <1>3, SubSeqProperties
<1>. QED  BY <1>1, <1>2, <1>4

\* All of a sequence, at all its places.
LEMMA AtAll == ASSUME NEW S, NEW s \in Seq(S) PROVE At(s, DOMAIN s) = s
<1> DEFINE D == DOMAIN s
<1>1. D = 1..Len(s) /\ Len(s) \in Nat
  BY LenProperties
<1>2. Cardinality(D) = Len(s)
  BY <1>1, Interval
<1>3. PICK f : /\ Placing(f, D)
               /\ \A k \in 1..Cardinality(D) : f[k] \in D /\ At(s, D)[k] = s[f[k]]
  <2>1. s \in Seq(S) /\ D \in SUBSET (DOMAIN s)
    OBVIOUS
  <2>3. D = DOMAIN s
    OBVIOUS
  <2> HIDE DEF D
  <2>2. \E f : /\ Placing(f, D)
               /\ \A k \in 1..Cardinality(D) : f[k] \in DOMAIN s /\ At(s, D)[k] = s[f[k]]
    BY ONLY <2>1, AtIs
  <2>. QED  BY <2>2, <2>3
<1>4. At(s, D) \in Seq(S) /\ Len(At(s, D)) = Cardinality(D)
  BY AtIs
<1>5. \A m \in Nat : 1..m \subseteq D => m <= Cardinality(D) /\ \A k \in 1..m : f[k] = k
  BY <1>3, PlacingPrefix
<1>6. \A k \in 1..Len(s) : f[k] = k
  BY <1>1, <1>5
<1>7. \A k \in 1..Len(At(s, D)) : At(s, D)[k] = s[k]
  BY <1>2, <1>3, <1>4, <1>6
<1>. QED  BY <1>2, <1>4, <1>7, SeqEqual

LEMMA TextFacts ==
  ASSUME NEW text \in Text
  PROVE  /\ Len(text) \in Nat /\ DOMAIN text = 1..Len(text)
         /\ \A i \in DOMAIN text : text[i] \in Word /\ text[i].t \in Tokens /\ text[i].up \in BOOLEAN
         /\ Tok(text) \in Seq(Tokens) /\ Len(Tok(text)) = Len(text) /\ Lower(text) = Tok(text)
<1>1. Len(text) \in Nat /\ DOMAIN text = 1..Len(text)
  BY LenProperties DEF Text
<1>2. ASSUME NEW i \in DOMAIN text
      PROVE  text[i] \in Word /\ text[i].t \in Tokens /\ text[i].up \in BOOLEAN
  <2>1. text[i] \in Word
    BY <1>1, ElementOfSeq DEF Text
  <2>. QED  BY <2>1 DEF Word
<1>3. Tok(text) \in [1..Len(text) -> Tokens]
  BY <1>1, <1>2 DEF Tok
<1>4. Lower(text) = Tok(text)
  BY DEF Lower, Tok
<1>. QED  BY <1>1, <1>2, <1>3, <1>4, MadeSeq

\* The files in an order of their names: all of them, each once.
AllOnce(order) ==
  /\ order \in Seq(Stems) /\ DOMAIN order = 1..Len(order)
  /\ \A s \in Stems : \E k \in DOMAIN order : order[k] = s
  /\ \A i, j \in DOMAIN order : order[i] = order[j] => i = j

LEMMA StemsInOrder ==
  ASSUME NEW key \in [Stems -> Seq(Nat)], \A x, y \in Stems : key[x] = key[y] => x = y
  PROVE  AllOnce(InOrder(Stems, key))
<1> DEFINE order == InOrder(Stems, key)
<1>1. IsFiniteSet(Stems)
  BY LoreAssumption DEF LoreAssumption
<1>2. /\ order \in [1..Cardinality(Stems) -> Stems] /\ Cardinality(Stems) \in Nat
      /\ \A x \in Stems : \E k \in 1..Cardinality(Stems) : order[k] = x
      /\ \A i, j \in 1..Cardinality(Stems) : order[i] = order[j] => i = j
  BY <1>1, InOrderIs
<1> HIDE DEF order
<1>3. /\ order \in Seq(Stems) /\ Len(order) = Cardinality(Stems)
      /\ DOMAIN order = 1..Cardinality(Stems)
  BY <1>2, MadeSeq
<1>4. AllOnce(order)
  BY <1>2, <1>3 DEF AllOnce
<1>. QED  BY <1>4 DEF order

\* A stem is a sequence of words that have a rank.
LEMMA StemWords ==
  ASSUME NEW s \in Stems
  PROVE  /\ Len(s) \in Nat /\ DOMAIN s = 1..Len(s) /\ s \in Seq(Tokens)
         /\ \A i \in DOMAIN s : /\ s[i] \in Tokens /\ [t |-> s[i], up |-> FALSE] \in Word
                                /\ Rank[[t |-> s[i], up |-> FALSE]] \in Nat
<1>1. s \in Seq(Tokens)
  BY LoreAssumption DEF LoreAssumption
<1>2. Len(s) \in Nat /\ DOMAIN s = 1..Len(s)
  BY <1>1, LenProperties
<1>3. ASSUME NEW i \in DOMAIN s PROVE s[i] \in Tokens /\ [t |-> s[i], up |-> FALSE] \in Word
  <2>1. s[i] \in Tokens
    BY <1>1, <1>2, ElementOfSeq
  <2>. QED  BY <2>1 DEF Word
<1>4. \A v \in Word : Rank[v] \in Nat
  BY LoreAssumption DEF LoreAssumption
<1>. QED  BY <1>1, <1>2, <1>3, <1>4

\* Two stems whose words have the same ranks are the same.
LEMMA SameRanks ==
  ASSUME NEW x \in Stems, NEW y \in Stems, DOMAIN x = DOMAIN y,
         \A i \in DOMAIN x : Rank[[t |-> x[i], up |-> FALSE]] = Rank[[t |-> y[i], up |-> FALSE]]
  PROVE  x = y
<1> DEFINE word(z) == [t |-> z, up |-> FALSE]
<1>1. ASSUME NEW i \in DOMAIN x PROVE x[i] = y[i]
  <2>1. word(x[i]) \in Word /\ word(y[i]) \in Word
    BY StemWords
  <2>2. word(x[i]) = word(y[i])
    BY <2>1, LoreAssumption DEF LoreAssumption
  <2>3. word(x[i]).t = x[i] /\ word(y[i]).t = y[i]
    OBVIOUS
  <2>. QED  BY <2>2, <2>3
<1>2. /\ x \in Seq(Tokens) /\ Len(x) \in Nat /\ DOMAIN x = 1..Len(x)
      /\ y \in Seq(Tokens) /\ Len(y) \in Nat /\ DOMAIN y = 1..Len(y)
  BY StemWords
<1>3. Len(x) = Len(y)
  <2>1. ASSUME NEW m \in Nat, NEW n \in Nat, 1..m = 1..n PROVE m = n
    <3>1. (m > n => m \in 1..m /\ m \notin 1..n) /\ (n > m => n \in 1..n /\ n \notin 1..m)
      OBVIOUS
    <3>. QED  BY <3>1, <2>1
  <2>2. Len(x) \in Nat /\ Len(y) \in Nat /\ 1..Len(x) = 1..Len(y)
    BY <1>2
  <2>. QED  BY <2>1, <2>2
<1>4. \A i \in 1..Len(x) : x[i] = y[i]
  BY <1>1, <1>2
<1> HIDE DEF word
<1>. QED  BY <1>2, <1>3, <1>4, SeqEqual

\* The dossiers by kebab name.
LEMMA StemOrderIs == AllOnce(StemOrder)
<1> DEFINE rank(s, i) == Rank[[t |-> s[i], up |-> FALSE]]
           key == [s \in Stems |-> [i \in DOMAIN s |-> rank(s, i)]]
<1>1. ASSUME NEW s \in Stems PROVE key[s] \in Seq(Nat)
  <2>1. key[s] = [i \in 1..Len(s) |-> rank(s, i)]
    BY StemWords
  <2>2. key[s] \in [1..Len(s) -> Nat]
    BY <2>1, StemWords
  <2>. QED  BY <2>2, StemWords, MadeSeq
<1>2. key \in [Stems -> Seq(Nat)]
  <2>1. key = [s \in Stems |-> key[s]]
    OBVIOUS
  <2> HIDE DEF key
  <2>. QED  BY <1>1, <2>1
<1>3. ASSUME NEW x \in Stems, NEW y \in Stems, key[x] = key[y] PROVE x = y
  <2>1. DOMAIN x = DOMAIN key[x] /\ DOMAIN y = DOMAIN key[y]
    OBVIOUS
  <2>2. DOMAIN x = DOMAIN y
    BY <2>1, <1>3
  <2>3. ASSUME NEW i \in DOMAIN x PROVE rank(x, i) = rank(y, i)
    BY <2>2, <1>3
  <2>. QED  BY <2>2, <2>3, SameRanks
<1>4. StemOrder = InOrder(Stems, key)
  BY DEF StemOrder
<1> HIDE DEF key
<1>. QED  BY <1>2, <1>3, <1>4, StemsInOrder

\* And by file name.
LEMMA FileOrderIs == AllOnce(FileOrder)
<1> DEFINE rank(s, i) == Rank[[t |-> s[i], up |-> FALSE]]
           key == [s \in Stems |-> [i \in DOMAIN s |-> 2 * rank(s, i) + (IF i = Len(s) THEN 1 ELSE 0)]]
<1>1. ASSUME NEW s \in Stems PROVE key[s] \in Seq(Nat)
  <2>1. key[s] = [i \in 1..Len(s) |-> 2 * rank(s, i) + (IF i = Len(s) THEN 1 ELSE 0)]
    BY StemWords
  <2>2. key[s] \in [1..Len(s) -> Nat]
    BY <2>1, StemWords
  <2>. QED  BY <2>2, StemWords, MadeSeq
<1>2. key \in [Stems -> Seq(Nat)]
  <2>1. key = [s \in Stems |-> key[s]]
    OBVIOUS
  <2> HIDE DEF key
  <2>. QED  BY <1>1, <2>1
<1>3. ASSUME NEW x \in Stems, NEW y \in Stems, key[x] = key[y] PROVE x = y
  <2>1. DOMAIN x = DOMAIN key[x] /\ DOMAIN y = DOMAIN key[y]
    OBVIOUS
  <2>2. DOMAIN x = DOMAIN y
    BY <2>1, <1>3
  <2>3. ASSUME NEW i \in DOMAIN x PROVE rank(x, i) = rank(y, i)
    <3>1. key[x][i] = 2 * rank(x, i) + (IF i = Len(x) THEN 1 ELSE 0)
          /\ key[y][i] = 2 * rank(y, i) + (IF i = Len(y) THEN 1 ELSE 0)
      BY <2>2
    <3>2. rank(x, i) \in Nat /\ rank(y, i) \in Nat
      BY <2>2, StemWords
    <3> HIDE DEF rank, key
    <3>. QED  BY <3>1, <3>2, <1>3
  <2>. QED  BY <2>2, <2>3, SameRanks
<1>4. FileOrder = InOrder(Stems, key)
  BY DEF FileOrder
<1> HIDE DEF key
<1>. QED  BY <1>2, <1>3, <1>4, StemsInOrder

\* The parts of Mentioned: the full names, the single words, the files they stand for.
FullAt(text) == {i \in DOMAIN FileOrder : Len(FileOrder[i]) >= 2 /\ Occurs(FileOrder[i], text)}
Fulls(text) == At(FileOrder, FullAt(text))
LoneAt(text) == {i \in DOMAIN text :
                   /\ text[i].up /\ Width[text[i].t] >= 3 /\ text[i].t \notin NameStop
                   /\ Cardinality(NamedBy(text[i].t)) = 1}
Lones(text) == At(text, LoneAt(text))
Alone(text) == [i \in DOMAIN Lones(text) |-> CHOOSE s \in Stems : NamedBy(Lones(text)[i].t) = {s}]
Named(text) == Fulls(text) \o Alone(text)
Titles(text) == [i \in DOMAIN Named(text) |-> Title[Named(text)[i]]]

LEMMA MentionedParts ==
  ASSUME NEW text PROVE Mentioned(text) = Upto(MaxNames, Firsts(Titles(text), Named(text)))
BY DEF Mentioned, FullAt, Fulls, LoneAt, Lones, Alone, Named, Titles

\* The full names in a text: every one, each once, so no more than occur in it.
LEMMA FullsAre ==
  ASSUME NEW text
  PROVE  /\ Fulls(text) \in Seq(Stems) /\ Len(Fulls(text)) = Cardinality(FullAt(text))
         /\ \A i, j \in 1..Len(Fulls(text)) : Fulls(text)[i] = Fulls(text)[j] => i = j
         /\ \A s \in Stems : Len(s) > 1 /\ Occurs(s, text) =>
              \E k \in 1..Len(Fulls(text)) : Fulls(text)[k] = s
         /\ Len(Fulls(text)) <= Cardinality({s \in Stems : Occurs(s, text)})
<1> DEFINE F == FullAt(text)
           e == Fulls(text)
           O == {s \in Stems : Occurs(s, text)}
<1>1. F \in SUBSET (DOMAIN FileOrder) /\ FileOrder \in Seq(Stems) /\ e = At(FileOrder, F)
  BY FileOrderIs DEF AllOnce, FullAt, Fulls
<1>2. \A i \in F : Len(FileOrder[i]) >= 2 /\ Occurs(FileOrder[i], text)
  BY DEF FullAt
<1>3. \A i \in DOMAIN FileOrder : Len(FileOrder[i]) >= 2 /\ Occurs(FileOrder[i], text) => i \in F
  BY DEF FullAt
<1> HIDE DEF F, e
<1>4. PICK f : /\ Placing(f, F)
               /\ \A k \in 1..Cardinality(F) : f[k] \in DOMAIN FileOrder /\ e[k] = FileOrder[f[k]]
  BY <1>1, AtIs
<1>5. e \in Seq(Stems) /\ Len(e) = Cardinality(F)
  BY <1>1, AtIs
<1>6. ASSUME NEW i \in 1..Cardinality(F), NEW j \in 1..Cardinality(F), e[i] = e[j] PROVE i = j
  <2>1. f[i] = f[j]
    BY <1>4, <1>6, FileOrderIs DEF AllOnce
  <2>2. Cardinality(F) \in Nat /\ (i < j <=> f[i] < f[j]) /\ (j < i <=> f[j] < f[i]) /\ f[i] \in Nat
    BY <1>4 DEF Placing
  <2>. QED  BY <2>1, <2>2
<1>7. ASSUME NEW s \in Stems, Len(s) > 1, Occurs(s, text) PROVE \E k \in 1..Cardinality(F) : e[k] = s
  <2>1. PICK i \in DOMAIN FileOrder : FileOrder[i] = s
    BY FileOrderIs DEF AllOnce
  <2>2. Len(s) \in Nat
    BY LoreAssumption, LenProperties DEF LoreAssumption
  <2>3. i \in F
    BY <2>1, <2>2, <1>3, <1>7
  <2>. QED  BY <2>1, <2>3, <1>4 DEF Placing
<1>8. Cardinality(F) <= Cardinality(O)
  <2> DEFINE g == [i \in F |-> FileOrder[i]]
  <2>1. \A i \in F : FileOrder[i] \in O
    BY <1>1, <1>2, FileOrderIs, ElementOfSeq DEF AllOnce
  <2>2. \A i, j \in F : FileOrder[i] = FileOrder[j] => i = j
    BY <1>1, FileOrderIs DEF AllOnce
  <2>3. g \in Injection(F, O)
    <3> HIDE DEF O
    <3>. QED  BY <2>1, <2>2 DEF Injection, IsInjective
  <2>4. IsFiniteSet(O)
    BY FS_Subset, LoreAssumption DEF LoreAssumption
  <2>. QED  BY <2>3, <2>4, FS_Injection
<1>. QED  BY <1>5, <1>6, <1>7, <1>8 DEF e, F

\* A single word that is one character's alone.
LEMMA LonesAre ==
  ASSUME NEW text \in Text
  PROVE  /\ Lones(text) \in Text /\ Alone(text) \in Seq(Stems)
         /\ Len(Alone(text)) = Cardinality(LoneAt(text))
         /\ \A i \in DOMAIN Lones(text) : \A s \in Stems :
              NamedBy(Lones(text)[i].t) = {s} => Alone(text)[i] = s
         /\ \E f : /\ Placing(f, LoneAt(text))
                   /\ \A k \in 1..Cardinality(LoneAt(text)) : Lones(text)[k] = text[f[k]]
<1> DEFINE L == LoneAt(text)
           e == Lones(text)
<1>1. L \in SUBSET (DOMAIN text) /\ e = At(text, L) /\ text \in Seq(Word)
  BY DEF LoneAt, Lones, Text
<1>2. \A i \in L : Cardinality(NamedBy(text[i].t)) = 1
  BY DEF LoneAt
<1> HIDE DEF L, e
<1>3. PICK f : /\ Placing(f, L)
               /\ \A k \in 1..Cardinality(L) : f[k] \in DOMAIN text /\ e[k] = text[f[k]]
  BY <1>1, AtIs
<1>4. e \in Seq(Word) /\ DOMAIN e = 1..Cardinality(L) /\ Cardinality(L) \in Nat
  BY <1>1, AtIs, <1>3 DEF Placing
<1>5. ASSUME NEW k \in 1..Cardinality(L)
      PROVE  \E s \in Stems : NamedBy(e[k].t) = {s}
  <2>1. f[k] \in L /\ e[k] = text[f[k]]
    BY <1>3 DEF Placing
  <2>2. Cardinality(NamedBy(e[k].t)) = 1
    BY <2>1, <1>2
  <2>3. NamedBy(e[k].t) \subseteq Stems /\ IsFiniteSet(Stems)
    BY LoreAssumption DEF LoreAssumption, NamedBy
  <2>4. IsFiniteSet(NamedBy(e[k].t))
    BY <2>3, FS_Subset
  <2>5. \E s : NamedBy(e[k].t) = {s}
    BY <2>2, <2>4, FS_Singleton
  <2>. QED  BY <2>3, <2>5
<1>6. Alone(text) = [k \in 1..Cardinality(L) |-> CHOOSE s \in Stems : NamedBy(e[k].t) = {s}]
  BY <1>4 DEF Alone, e
<1>7. \A k \in 1..Cardinality(L) : (CHOOSE s \in Stems : NamedBy(e[k].t) = {s}) \in Stems
  BY <1>5
<1>8. Alone(text) \in [1..Cardinality(L) -> Stems]
  BY <1>6, <1>7
<1>9. ASSUME NEW k \in 1..Cardinality(L), NEW s \in Stems, NamedBy(e[k].t) = {s}
      PROVE  Alone(text)[k] = s
  <2>1. Alone(text)[k] = CHOOSE x \in Stems : NamedBy(e[k].t) = {x}
    BY <1>6
  <2>2. \A x \in Stems : NamedBy(e[k].t) = {x} <=> x = s
    BY <1>9
  <2>3. (CHOOSE x \in Stems : NamedBy(e[k].t) = {x}) = s
    BY <2>2
  <2>. QED  BY <2>1, <2>3
<1>10. Alone(text) \in Seq(Stems) /\ Len(Alone(text)) = Cardinality(L)
  BY <1>4, <1>8, MadeSeq
<1>. QED  BY <1>3, <1>4, <1>9, <1>10 DEF L, e, Text

LEMMA NamedAre ==
  ASSUME NEW text \in Text
  PROVE  /\ Named(text) \in Seq(Stems) /\ Len(Named(text)) = Len(Fulls(text)) + Len(Alone(text))
         /\ Len(Fulls(text)) \in Nat /\ Len(Alone(text)) \in Nat
         /\ \A k \in 1..Len(Fulls(text)) : Named(text)[k] = Fulls(text)[k]
         /\ Len(Fulls(text)) = 0 => \A k \in 1..Len(Alone(text)) : Named(text)[k] = Alone(text)[k]
         /\ Titles(text) \in Seq(Text \ {<<>>}) /\ Len(Titles(text)) = Len(Named(text))
         /\ DOMAIN Titles(text) = DOMAIN Named(text)
         /\ \A k \in 1..Len(Named(text)) : Titles(text)[k] = Title[Named(text)[k]]
<1> DEFINE a == Fulls(text)
           b == Alone(text)
           n == Named(text)
<1>1. a \in Seq(Stems) /\ b \in Seq(Stems) /\ n = a \o b
  BY FullsAre, LonesAre DEF Named
<1> HIDE DEF a, b, n
<1>2. Len(a) \in Nat /\ Len(b) \in Nat
  BY <1>1, LenProperties
<1>3. /\ n \in Seq(Stems) /\ Len(n) = Len(a) + Len(b)
      /\ \A i \in 1..(Len(a) + Len(b)) : n[i] = IF i <= Len(a) THEN a[i] ELSE b[i - Len(a)]
  BY <1>1, ConcatProperties
<1>4. \A k \in 1..Len(a) : n[k] = a[k]
  BY <1>2, <1>3
<1>5. Len(a) = 0 => \A k \in 1..Len(b) : n[k] = b[k]
  BY <1>2, <1>3
<1>6. Len(n) \in Nat /\ DOMAIN n = 1..Len(n)
  BY <1>3, LenProperties
<1>7. Titles(text) = [k \in 1..Len(n) |-> Title[n[k]]]
  BY <1>6 DEF Titles, n
<1>8. \A s \in Stems : Title[s] \in Text \ {<<>>}
  BY LoreAssumption DEF LoreAssumption
<1>9. \A k \in 1..Len(n) : n[k] \in Stems
  BY <1>3, ElementOfSeq
<1>10. Titles(text) \in [1..Len(n) -> Text \ {<<>>}]
  BY <1>7, <1>8, <1>9
<1>11. /\ Titles(text) \in Seq(Text \ {<<>>}) /\ Len(Titles(text)) = Len(n)
       /\ DOMAIN Titles(text) = 1..Len(n)
  BY <1>6, <1>10, MadeSeq
<1>. QED  BY <1>2, <1>3, <1>4, <1>5, <1>6, <1>7, <1>11 DEF a, b, n

\* The first files named, if they are different ones and there is room, are named
\* by their titles.
LEMMA FirstNamed ==
  ASSUME NEW text \in Text
  PROVE  /\ Mentioned(text) \in Seq(Text \ {<<>>}) /\ Len(Mentioned(text)) <= MaxNames
         /\ \A x \in ToSet(Mentioned(text)) : \E s \in Stems : x = Title[s]
         /\ \A m \in 0..Len(Named(text)) :
              m <= MaxNames /\ (\A i, j \in 1..m : Named(text)[i] = Named(text)[j] => i = j)
              => \A k \in 1..m : Title[Named(text)[k]] \in ToSet(Mentioned(text))
<1> DEFINE n == Named(text)
           t == Titles(text)
           f == Firsts(t, n)
           u == Upto(MaxNames, f)
           S == Text \ {<<>>}
<1>1. Mentioned(text) = u /\ MaxNames \in Nat
  BY MentionedParts, LoreAssumption DEF LoreAssumption
<1>2. /\ t \in Seq(S) /\ Len(t) = Len(n) /\ DOMAIN t = DOMAIN n /\ n \in Seq(Stems)
      /\ \A k \in 1..Len(n) : t[k] = Title[n[k]]
  BY NamedAre
<1> HIDE DEF n, t, S
<1>3. /\ f \in Seq(S) /\ ToSet(f) \subseteq ToSet(t)
      /\ \A m \in 0..Len(t) :
           (\A i, j \in 1..m : n[i] = n[j] => i = j) => m <= Len(f) /\ \A k \in 1..m : f[k] = t[k]
  <2>1. t \in Seq(S) /\ DOMAIN n = DOMAIN t
    BY <1>2
  <2>. QED  BY ONLY <2>1, FirstsIs
<1> HIDE DEF f
<1>4. /\ u \in Seq(S) /\ Len(u) <= MaxNames /\ DOMAIN u = 1..Len(u) /\ Len(u) \in Nat
      /\ Len(u) = MaxNames \/ u = f
      /\ \A i \in DOMAIN u : i \in DOMAIN f /\ u[i] = f[i]
  BY <1>1, <1>3, UptoIs
<1> HIDE DEF u
<1>5. Len(t) \in Nat /\ DOMAIN t = 1..Len(t) /\ Len(f) \in Nat
  BY <1>2, <1>3, LenProperties
<1>6. ASSUME NEW x \in ToSet(u) PROVE \E s \in Stems : x = Title[s]
  <2>1. PICK i \in DOMAIN u : x = u[i]
    BY DEF ToSet
  <2>2. x \in ToSet(f)
    BY <2>1, <1>4 DEF ToSet
  <2>3. PICK k \in DOMAIN t : x = t[k]
    BY <2>2, <1>3 DEF ToSet
  <2>. QED  BY <2>3, <1>2, <1>5, ElementOfSeq
<1>7. ASSUME NEW m \in 0..Len(n), m <= MaxNames, \A i, j \in 1..m : n[i] = n[j] => i = j,
             NEW k \in 1..m
      PROVE  Title[n[k]] \in ToSet(u)
  <2>1. m \in 0..Len(t)
    BY <1>2
  <2>2. m <= Len(f) /\ f[k] = t[k]
    BY <2>1, <1>3, <1>7
  <2>3. m \in Nat /\ m <= Len(u)
    <3>1. m \in Nat /\ m <= MaxNames /\ m <= Len(f) /\ (Len(u) = MaxNames \/ u = f)
      BY <2>1, <2>2, <1>4, <1>5, <1>7
    <3>. QED  BY ONLY <3>1
  <2>4. k \in DOMAIN u
    BY <2>3, <1>4
  <2>5. u[k] = t[k]
    BY <2>2, <2>4, <1>4
  <2>6. k \in 1..Len(n)
    BY <2>1, <1>2, <1>5
  <2>7. Title[n[k]] = u[k]
    BY <2>5, <2>6, <1>2
  <2>. QED  BY <2>4, <2>7 DEF ToSet
<1>. QED  BY <1>1, <1>4, <1>6, <1>7 DEF n, u, S

\* Every full name in a text is found, unless it has too many (llm.py takes four).
LEMMA FullNameMentioned ==
  ASSUME NEW text \in Text, Cardinality({s \in Stems : Occurs(s, text)}) <= MaxNames,
         NEW s \in Stems, Len(s) > 1, Occurs(s, text)
  PROVE  Title[s] \in ToSet(Mentioned(text))
<1> DEFINE m == Len(Fulls(text))
<1>1. /\ Cardinality(FullAt(text)) = m
      /\ m <= Cardinality({x \in Stems : Occurs(x, text)})
      /\ \A i, j \in 1..m : Fulls(text)[i] = Fulls(text)[j] => i = j
      /\ \E k \in 1..m : Fulls(text)[k] = s
  BY FullsAre
<1>2. /\ m \in Nat /\ Len(Named(text)) = m + Len(Alone(text)) /\ Len(Alone(text)) \in Nat
      /\ \A k \in 1..m : Named(text)[k] = Fulls(text)[k]
  BY NamedAre
<1> HIDE DEF m
<1>3. Cardinality({x \in Stems : Occurs(x, text)}) \in Nat
  <2>1. IsFiniteSet({x \in Stems : Occurs(x, text)})
    BY FS_Subset, LoreAssumption DEF LoreAssumption
  <2>. QED  BY <2>1, FS_CardinalityType
<1>4. m \in 0..Len(Named(text)) /\ m <= MaxNames
  BY <1>1, <1>2, <1>3, LoreAssumption DEF LoreAssumption
<1>5. \A i, j \in 1..m : Named(text)[i] = Named(text)[j] => i = j
  BY <1>1, <1>2
<1>6. \A k \in 1..m : Title[Named(text)[k]] \in ToSet(Mentioned(text))
  BY <1>4, <1>5, FirstNamed
<1>. QED  BY <1>1, <1>2, <1>6

\* A name of one capitalized word finds the character it belongs to.
LEMMA LoneMentioned ==
  ASSUME NEW text \in Text, Len(text) = 1, text[1].up, text[1].t \notin NameStop,
         NEW s \in Stems, NamedBy(text[1].t) = {s}
  PROVE  Title[s] \in ToSet(Mentioned(text))
<1>1. DOMAIN text = 1..1 /\ 1 \in DOMAIN text
  BY TextFacts
<1>2. Width[text[1].t] >= 3
  BY DEF NamedBy
<1>3. Cardinality(NamedBy(text[1].t)) = 1
  BY FS_Singleton
<1>4. LoneAt(text) = {1}
  BY <1>1, <1>2, <1>3 DEF LoneAt
<1>5. Cardinality(LoneAt(text)) = 1
  BY <1>4, FS_Singleton
<1>6. PICK f : /\ Placing(f, LoneAt(text))
               /\ \A k \in 1..Cardinality(LoneAt(text)) : Lones(text)[k] = text[f[k]]
  BY LonesAre
<1>7. f[1] = 1 /\ Lones(text)[1] = text[1]
  BY <1>4, <1>5, <1>6 DEF Placing
<1>8. DOMAIN Lones(text) = 1..1
  <2>1. /\ Lones(text) = At(text, LoneAt(text)) /\ LoneAt(text) \in SUBSET (DOMAIN text)
        /\ text \in Seq(Word)
    BY <1>1, <1>4 DEF Lones, Text
  <2>. QED  BY <2>1, <1>5, AtIs
<1>9. Alone(text)[1] = s /\ Len(Alone(text)) = 1
  <2>1. 1 \in DOMAIN Lones(text) /\ NamedBy(Lones(text)[1].t) = {s}
    BY <1>7, <1>8
  <2>2. \A i \in DOMAIN Lones(text) : \A x \in Stems :
          NamedBy(Lones(text)[i].t) = {x} => Alone(text)[i] = x
    BY LonesAre
  <2>3. Alone(text)[1] = s
    BY <2>1, <2>2
  <2>. QED  BY <2>3, <1>5, LonesAre
<1>10. FullAt(text) = {}
  <2>1. ASSUME NEW x \in Stems, Len(x) >= 2, Occurs(x, text) PROVE FALSE
    <3>1. Len(x) \in Nat /\ Len(text) = 1
      BY LoreAssumption, LenProperties DEF LoreAssumption
    <3>2. 0..(Len(text) - Len(x)) = {}
      BY <3>1, <2>1
    <3>. QED  BY <3>2, <2>1 DEF Occurs
  <2>2. \A i \in DOMAIN FileOrder : FileOrder[i] \in Stems
    BY FileOrderIs, ElementOfSeq DEF AllOnce
  <2>. QED  BY <2>1, <2>2 DEF FullAt
<1>11. Len(Fulls(text)) = 0
  BY <1>10, FullsAre, FS_EmptySet
<1>12. Named(text)[1] = s /\ Len(Named(text)) = 1
  <2>1. /\ Len(Named(text)) = Len(Fulls(text)) + Len(Alone(text))
        /\ \A k \in 1..Len(Alone(text)) : Named(text)[k] = Alone(text)[k]
    BY <1>11, NamedAre
  <2>. QED  BY <2>1, <1>9, <1>11
<1>13. 1 \in 0..Len(Named(text)) /\ 1 <= MaxNames
  BY <1>12, LoreAssumption DEF LoreAssumption
<1>14. \A i, j \in 1..1 : Named(text)[i] = Named(text)[j] => i = j
  OBVIOUS
<1>15. \A k \in 1..1 : Title[Named(text)[k]] \in ToSet(Mentioned(text))
  BY <1>13, <1>14, FirstNamed
<1>. QED  BY <1>12, <1>15

-------------------------------------------------------------------------------
(* Persona: the cast and the do-not-puppet list *)

\* The do-not-puppet list: names of the set, never the bot's, and if there is room
\* all of them.
LEMMA ListedIs ==
  ASSUME NEW names, names \subseteq Text, IsFiniteSet(names)
  PROVE  /\ Listed(names) \in Seq(Text) /\ Len(Listed(names)) <= MaxClaimed
         /\ \A x \in ToSet(Listed(names)) : Lower(x) # Bot
         /\ Len(Listed(names)) # MaxClaimed =>
              \A x \in names : x = <<>> \/ Lower(x) = Bot \/ x \in ToSet(Listed(names))
<1> DEFINE others == {n \in names : n # <<>> /\ Lower(n) # Bot}
           key == [n \in others |-> [i \in DOMAIN n |-> Rank[n[i]]]]
           e == InOrder(others, key)
           l == Upto(MaxClaimed, e)
<1>1. Listed(names) = l
  BY DEF Listed
<1>2. others \in SUBSET names /\ \A x \in others : Lower(x) # Bot /\ x \in Text
  OBVIOUS
<1>3. \A x \in names : x = <<>> \/ Lower(x) = Bot \/ x \in others
  OBVIOUS
<1>4. key = [n \in others |-> [i \in DOMAIN n |-> Rank[n[i]]]]
  OBVIOUS
<1> HIDE DEF others, key
<1>5. IsFiniteSet(others)
  BY <1>2, FS_Subset
<1>6. ASSUME NEW x \in others
      PROVE  /\ Len(x) \in Nat /\ DOMAIN x = 1..Len(x) /\ x \in Seq(Word)
             /\ key[x] = [i \in 1..Len(x) |-> Rank[x[i]]]
             /\ key[x] \in Seq(Nat)
  <2>1. Len(x) \in Nat /\ DOMAIN x = 1..Len(x) /\ \A i \in DOMAIN x : x[i] \in Word
    BY <1>2, TextFacts
  <2>2. key[x] = [i \in 1..Len(x) |-> Rank[x[i]]]
    BY <1>4, <2>1
  <2>3. \A i \in 1..Len(x) : Rank[x[i]] \in Nat
    BY <2>1, LoreAssumption DEF LoreAssumption
  <2>4. key[x] \in [1..Len(x) -> Nat]
    BY <2>2, <2>3
  <2>5. key[x] \in Seq(Nat)
    BY <2>1, <2>4, MadeSeq
  <2>6. x \in Seq(Word)
    BY <1>2 DEF Text
  <2>. QED  BY <2>1, <2>2, <2>5, <2>6
<1>7. key \in [others -> Seq(Nat)]
  BY <1>4, <1>6
<1>8. ASSUME NEW x \in others, NEW y \in others, key[x] = key[y] PROVE x = y
  <2>1. DOMAIN key[x] = 1..Len(x) /\ DOMAIN key[y] = 1..Len(y)
    BY <1>6
  <2>2. 1..Len(x) = 1..Len(y)
    BY <2>1, <1>8
  <2>3. ASSUME NEW i \in 1..Len(x) PROVE x[i] = y[i]
    <3>1. key[x][i] = Rank[x[i]] /\ key[y][i] = Rank[y[i]]
      <4>1. /\ key[x] = [j \in 1..Len(x) |-> Rank[x[j]]] /\ key[y] = [j \in 1..Len(y) |-> Rank[y[j]]]
            /\ i \in 1..Len(x) /\ i \in 1..Len(y)
        BY <2>2, <1>6
      <4>. QED  BY <4>1
    <3>2. x[i] \in Word /\ y[i] \in Word
      BY <2>2, <1>6, ElementOfSeq
    <3>. QED  BY <3>1, <3>2, <1>8, LoreAssumption DEF LoreAssumption
  <2>4. x \in [1..Len(x) -> Word] /\ y \in [1..Len(x) -> Word]
    BY <2>2, <1>6, LenProperties
  <2>. QED  BY <2>3, <2>4
<1>9. /\ e \in [1..Cardinality(others) -> others] /\ Cardinality(others) \in Nat
      /\ \A x \in others : \E k \in 1..Cardinality(others) : e[k] = x
  BY ONLY <1>5, <1>7, <1>8, InOrderIs
<1> HIDE DEF e
<1>10. e \in Seq(others) /\ DOMAIN e = 1..Cardinality(others)
  BY <1>9, MadeSeq
<1>11. MaxClaimed \in Nat
  BY PersonaAssumption DEF PersonaAssumption
<1>12. /\ l \in Seq(others) /\ Len(l) <= MaxClaimed /\ DOMAIN l = 1..Len(l)
       /\ Len(l) = MaxClaimed \/ l = e
  BY <1>10, <1>11, UptoIs
<1> HIDE DEF l
<1>13. \A x \in ToSet(l) : x \in others
  BY <1>12, ElementOfSeq DEF ToSet
<1>14. l \in Seq(Text)
  <2>1. Len(l) \in Nat /\ l \in [1..Len(l) -> others]
    BY <1>12, LenProperties
  <2>2. l \in [1..Len(l) -> Text]
    BY <2>1, <1>2
  <2>. QED  BY <2>1, <2>2, MadeSeq
<1>15. ASSUME Len(l) # MaxClaimed, NEW x \in others PROVE x \in ToSet(l)
  BY <1>9, <1>10, <1>12, <1>15 DEF ToSet
<1>. QED  BY <1>1, <1>2, <1>3, <1>12, <1>13, <1>14, <1>15

LEMMA TurnFacts ==
  ASSUME NEW t \in Turn
  PROVE  /\ t.mode \in {"chat", "rp"} /\ t.context \in Seq(Line) /\ t.speaker \in Text
         /\ t.text \in Text /\ t.claimed \subseteq Text
         /\ Len(t.context) \in Nat /\ DOMAIN t.context = 1..Len(t.context)
         /\ \A i \in DOMAIN t.context : t.context[i] \in Line
<1>1. /\ t.mode \in {"chat", "rp"} /\ t.context \in Seq(Line) /\ t.speaker \in Text
      /\ t.text \in Text /\ t.claimed \subseteq Text
  BY DEF Turn
<1>2. Len(t.context) \in Nat /\ DOMAIN t.context = 1..Len(t.context)
  BY <1>1, LenProperties
<1>3. \A i \in DOMAIN t.context : t.context[i] \in Line
  BY <1>1, <1>2, ElementOfSeq
<1>. QED  BY <1>1, <1>2, <1>3

LEMMA LineOf ==
  ASSUME NEW l \in Line PROVE l.speaker \in Text /\ l.dbref \in BOOLEAN /\ l.text \in Text
BY DEF Line

\* The full names of a sequence that something is made of are its items' names.
LEMMA ToSetIs == ASSUME NEW S, NEW s \in Seq(S) PROVE IsFiniteSet(ToSet(s)) /\ ToSet(s) \subseteq S
<1>1. DOMAIN s = 1..Len(s) /\ Len(s) \in Nat /\ s \in [1..Len(s) -> S]
  BY LenProperties
<1>2. IsFiniteSet(1..Len(s))
  BY <1>1, Interval
<1>3. IsFiniteSet({s[i] : i \in 1..Len(s)})
  BY <1>1, <1>2, ImageFinite
<1>4. ToSet(s) = {s[i] : i \in 1..Len(s)}
  BY <1>1 DEF ToSet
<1>. QED  BY <1>1, <1>3, <1>4

\* Who poses and whom a pose names is claimed.
LEMMA ClaimedIs ==
  ASSUME NEW t \in Turn, IsFiniteSet(t.claimed)
  PROVE  /\ Claimed(t) \in Seq(Text) /\ Len(Claimed(t)) <= MaxClaimed
         /\ \A x \in ToSet(Claimed(t)) : Lower(x) # Bot
         /\ Len(Claimed(t)) # MaxClaimed =>
              \A i \in DOMAIN t.context : t.context[i].dbref =>
                \A x \in {t.context[i].speaker} \cup ToSet(Mentioned(t.context[i].text)) :
                  x = <<>> \/ Lower(x) = Bot \/ x \in ToSet(Claimed(t))
<1> DEFINE posed == {i \in DOMAIN t.context : t.context[i].dbref}
           speaker == [i \in posed |-> t.context[i].speaker]
           named == [i \in posed |-> ToSet(Mentioned(t.context[i].text))]
           A == {speaker[i] : i \in posed}
           B == {named[i] : i \in posed}
           C == t.claimed
           names == A \cup (UNION B) \cup C
<1>1. DOMAIN t.context = 1..Len(t.context) /\ Len(t.context) \in Nat /\ C \subseteq Text
  BY TurnFacts
<1>2. \A i \in posed : t.context[i] \in Line
  BY TurnFacts
<1>3. IsFiniteSet(posed)
  <2>1. posed \in SUBSET (1..Len(t.context)) /\ IsFiniteSet(1..Len(t.context))
    BY <1>1, Interval
  <2>. QED  BY <2>1, FS_Subset
<1>4. Claimed(t) = Listed(names)
  <2>1. /\ A = {t.context[i].speaker : i \in posed}
        /\ B = {ToSet(Mentioned(t.context[i].text)) : i \in posed}
    OBVIOUS
  <2>2. Claimed(t) = Listed({t.context[i].speaker : i \in posed}
             \cup (UNION {ToSet(Mentioned(t.context[i].text)) : i \in posed})
             \cup t.claimed)
    BY DEF Claimed
  <2>. HIDE DEF A, B
  <2>. QED  BY <2>1, <2>2
<1>5. \A i \in DOMAIN t.context : t.context[i].dbref =>
        /\ i \in posed /\ speaker[i] = t.context[i].speaker
        /\ named[i] = ToSet(Mentioned(t.context[i].text))
  OBVIOUS
<1>6. ASSUME NEW i \in posed
      PROVE  speaker[i] \in Text /\ IsFiniteSet(named[i]) /\ named[i] \subseteq Text
  <2>1. t.context[i].speaker \in Text /\ t.context[i].text \in Text
    BY <1>2, LineOf
  <2>2. Mentioned(t.context[i].text) \in Seq(Text \ {<<>>})
    BY <2>1, FirstNamed
  <2>. QED  BY <2>1, <2>2, ToSetIs
<1>7. DOMAIN speaker = posed /\ DOMAIN named = posed
  OBVIOUS
<1> HIDE DEF posed, speaker, named
<1>8. IsFiniteSet(A) /\ IsFiniteSet(B)
  BY <1>3, <1>7, ImageFinite
<1>9. \A b \in B : IsFiniteSet(b) /\ b \subseteq Text
  BY <1>6
<1>10. A \subseteq Text
  BY <1>6
<1>15. IsFiniteSet(C)
  OBVIOUS
<1>13. \A i \in posed : speaker[i] \in A /\ named[i] \in B
  OBVIOUS
<1> HIDE DEF A, B, C
<1>11. IsFiniteSet(UNION B)
  BY <1>8, <1>9, FS_UNION
<1>12. names \subseteq Text /\ IsFiniteSet(names)
  <2>1. IsFiniteSet(A \cup (UNION B))
    BY <1>8, <1>11, FS_Union
  <2>2. IsFiniteSet((A \cup (UNION B)) \cup C)
    BY ONLY <2>1, <1>15, FS_Union
  <2>3. UNION B \subseteq Text
    BY <1>9
  <2>4. (A \cup (UNION B)) \cup C \subseteq Text
    BY ONLY <2>3, <1>1, <1>10
  <2>. QED  BY <2>2, <2>4
<1>14. ASSUME NEW i \in DOMAIN t.context, t.context[i].dbref,
              NEW x \in {t.context[i].speaker} \cup ToSet(Mentioned(t.context[i].text))
       PROVE  x \in names
  <2>1. i \in posed /\ x \in {speaker[i]} \cup named[i]
    BY <1>5, <1>14
  <2>. QED  BY <2>1, <1>13
<1> HIDE DEF names
<1>. QED  BY <1>4, <1>12, <1>14, ListedIs

LEMMA SeqWider == ASSUME NEW S, NEW T, S \subseteq T, NEW s \in Seq(S) PROVE s \in Seq(T)
<1>1. Len(s) \in Nat /\ s \in [1..Len(s) -> S]
  BY LenProperties
<1>2. s \in [1..Len(s) -> T]
  BY <1>1
<1>. QED  BY <1>1, <1>2, MadeSeq

\* Two sequences, one after the other: the items of both.
LEMMA BothIn ==
  ASSUME NEW S, NEW a \in Seq(S), NEW b \in Seq(S)
  PROVE  /\ a \o b \in Seq(S) /\ Len(a \o b) = Len(a) + Len(b)
         /\ Len(a) \in Nat /\ Len(b) \in Nat /\ DOMAIN a = 1..Len(a)
         /\ DOMAIN (a \o b) = 1..(Len(a) + Len(b))
         /\ \A i \in 1..Len(a) : i \in DOMAIN (a \o b) /\ (a \o b)[i] = a[i]
         /\ \A x \in ToSet(b) : x \in ToSet(a \o b)
<1>1. /\ a \o b \in Seq(S) /\ Len(a \o b) = Len(a) + Len(b)
      /\ \A i \in 1..(Len(a) + Len(b)) : (a \o b)[i] = IF i <= Len(a) THEN a[i] ELSE b[i - Len(a)]
  BY ConcatProperties
<1>2. Len(a) \in Nat /\ Len(b) \in Nat /\ DOMAIN a = 1..Len(a) /\ DOMAIN b = 1..Len(b)
  BY LenProperties
<1>3. DOMAIN (a \o b) = 1..(Len(a) + Len(b))
  BY <1>1, LenProperties
<1> DEFINE c == a \o b
<1>4. /\ DOMAIN c = 1..(Len(a) + Len(b))
      /\ \A i \in 1..(Len(a) + Len(b)) : c[i] = IF i <= Len(a) THEN a[i] ELSE b[i - Len(a)]
  BY <1>1, <1>3
<1> HIDE DEF c
<1>5. ASSUME NEW i \in 1..Len(a) PROVE i \in DOMAIN c /\ c[i] = a[i]
  BY <1>2, <1>4
<1>6. ASSUME NEW x \in ToSet(b) PROVE x \in ToSet(c)
  <2>1. PICK k \in 1..Len(b) : x = b[k]
    BY <1>2 DEF ToSet
  <2>2. k + Len(a) \in 1..(Len(a) + Len(b)) /\ ~(k + Len(a) <= Len(a)) /\ (k + Len(a)) - Len(a) = k
    BY <1>2
  <2>3. c[k + Len(a)] = b[k] /\ k + Len(a) \in DOMAIN c
    BY <2>2, <1>4
  <2>. QED  BY <2>1, <2>3 DEF ToSet
<1>. QED  BY <1>1, <1>2, <1>3, <1>5, <1>6 DEF c

\* Of the names that are one but for their capitals, the first is kept.
LEMMA DistinctIs ==
  ASSUME NEW names \in Seq(Text)
  PROVE  /\ Distinct(names) \in Seq(Text)
         /\ \A i \in DOMAIN names : \E j \in DOMAIN names :
              j <= i /\ Lower(names[j]) = Lower(names[i]) /\ names[j] \in ToSet(Distinct(names))
<1> DEFINE key == [i \in DOMAIN names |-> Lower(names[i])]
<1>1. DOMAIN key = DOMAIN names /\ \A i \in DOMAIN names : key[i] = Lower(names[i])
  OBVIOUS
<1>2. Distinct(names) = Firsts(names, key)
  BY DEF Distinct
<1> HIDE DEF key
<1>3. /\ Firsts(names, key) \in Seq(Text)
      /\ \A i \in DOMAIN names : \E j \in DOMAIN names :
           j <= i /\ key[j] = key[i] /\ names[j] \in ToSet(Firsts(names, key))
  BY <1>1, FirstsIs
<1>. QED  BY <1>1, <1>2, <1>3

\* Who speaks in the context speaks before the speaker of the turn.
LEMMA SpeakersAre ==
  ASSUME NEW t \in Turn
  PROVE  /\ Speakers(t) \in Seq(Text)
         /\ \A c \in DOMAIN t.context : t.context[c].speaker # <<>> =>
              \E i \in DOMAIN Speakers(t) :
                /\ Speakers(t)[i] = t.context[c].speaker
                /\ \A j \in DOMAIN Speakers(t) : j <= i =>
                     \E b \in DOMAIN t.context : Speakers(t)[j] = t.context[b].speaker
<1> DEFINE n == Len(t.context)
           said1 == [i \in DOMAIN t.context |-> t.context[i].speaker]
           last == <<t.speaker>>
           all == said1 \o last
           P == {i \in DOMAIN all : all[i] # <<>>}
           sp == At(all, P)
<1>1. Speakers(t) = sp
  BY DEF Speakers
<1>2. n \in Nat /\ DOMAIN t.context = 1..n /\ t.speaker \in Text
      /\ \A i \in 1..n : t.context[i].speaker \in Text
  BY TurnFacts, LineOf
<1>3. said1 \in [1..n -> Text] /\ \A i \in 1..n : said1[i] = t.context[i].speaker
  BY <1>2
<1>4. last \in Seq(Text)
  BY <1>2
<1> HIDE DEF n, said1, last
<1>5. said1 \in Seq(Text) /\ Len(said1) = n
  BY <1>2, <1>3, MadeSeq
<1>6. /\ all \in Seq(Text) /\ \A i \in 1..n : i \in DOMAIN all /\ all[i] = said1[i]
      /\ DOMAIN all = 1..(n + Len(last)) /\ Len(last) \in Nat
  BY <1>4, <1>5, BothIn
<1> HIDE DEF all
<1>7. P \in SUBSET (DOMAIN all) /\ \A i \in DOMAIN all : all[i] # <<>> => i \in P
  OBVIOUS
<1> HIDE DEF P
<1>8. /\ sp \in Seq(Text) /\ DOMAIN sp = 1..Cardinality(P)
      /\ \E f : Placing(f, P) /\ \A k \in 1..Cardinality(P) : f[k] \in DOMAIN all /\ sp[k] = all[f[k]]
  <2>1. all \in Seq(Text) /\ P \in SUBSET (DOMAIN all)
    BY <1>6, <1>7
  <2>. QED  BY ONLY <2>1, AtIs
<1> HIDE DEF sp
<1>9. PICK f : Placing(f, P) /\ \A k \in 1..Cardinality(P) : f[k] \in DOMAIN all /\ sp[k] = all[f[k]]
  BY <1>8
<1>10. ASSUME NEW c \in 1..n, said1[c] # <<>>
       PROVE  \E i \in DOMAIN sp :
                /\ sp[i] = said1[c]
                /\ \A j \in DOMAIN sp : j <= i => \E b \in 1..n : sp[j] = said1[b]
  <2>1. c \in P /\ all[c] = said1[c]
    BY <1>6, <1>7, <1>10
  <2>2. PICK i \in 1..Cardinality(P) : f[i] = c
    BY <2>1, <1>9 DEF Placing
  <2>3. sp[i] = said1[c]
    BY <2>1, <2>2, <1>9
  <2>4. ASSUME NEW j \in 1..Cardinality(P), j <= i PROVE \E b \in 1..n : sp[j] = said1[b]
    <3>1. f[i] < f[j] <=> i < j
      BY <1>9 DEF Placing
    <3>2. f[j] \in Nat /\ 1 <= f[j]
      BY <1>9, <1>6
    <3>3. f[j] <= c
      <4>1. i \in Nat /\ j \in Nat /\ c \in Nat /\ Cardinality(P) \in Nat
        BY <1>9, <1>2 DEF Placing
      <4>. QED  BY <4>1, <3>1, <3>2, <2>2, <2>4
    <3>4. f[j] \in 1..n
      BY <3>2, <3>3, <1>2
    <3>. QED  BY <3>4, <1>6, <1>9
  <2>. QED  BY <2>2, <2>3, <2>4, <1>8
<1>11. ASSUME NEW c \in DOMAIN t.context, t.context[c].speaker # <<>>
       PROVE  \E i \in DOMAIN sp :
                /\ sp[i] = t.context[c].speaker
                /\ \A j \in DOMAIN sp : j <= i =>
                     \E b \in DOMAIN t.context : sp[j] = t.context[b].speaker
  <2>1. c \in 1..n /\ said1[c] = t.context[c].speaker /\ said1[c] # <<>>
    BY <1>2, <1>3, <1>11
  <2>2. PICK i \in DOMAIN sp :
          sp[i] = said1[c] /\ \A j \in DOMAIN sp : j <= i => \E b \in 1..n : sp[j] = said1[b]
    BY <2>1, <1>10
  <2>3. ASSUME NEW j \in DOMAIN sp, j <= i
        PROVE  \E b \in DOMAIN t.context : sp[j] = t.context[b].speaker
    <3>1. PICK b \in 1..n : sp[j] = said1[b]
      BY <2>2, <2>3
    <3>. QED  BY <3>1, <1>2, <1>3
  <2>4. sp[i] = t.context[c].speaker
    BY <2>1, <2>2
  <2>. QED  BY <2>3, <2>4
<1>. QED  BY <1>1, <1>8, <1>11

\* Names alike but for capitals and punctuation have one file name.
LEMMA KebabIs ==
  ASSUME NEW n \in Text, NEW s \in Stems, Kebab(Title[s]) = s
  PROVE  /\ Lower(n) = s => Kebab(n) = s
         /\ Lower(n) = Lower(Title[s]) => Kebab(n) = s
<1> DEFINE kept(tok) == {i \in DOMAIN tok : tok[i] \notin Punctuation}
           words(tok) == At(tok, kept(tok))
           kebab(tok) == [i \in DOMAIN words(tok) |-> Bare[words(tok)[i]]]
<1>1. ASSUME NEW x \in Text PROVE Kebab(x) = kebab(Lower(x)) /\ Lower(x) \in Seq(Tokens)
  <2>1. {i \in DOMAIN x : x[i].t \notin Punctuation} = kept(Tok(x))
    BY DEF Tok
  <2>2. Kebab(x) = LET w == At(Tok(x), {i \in DOMAIN x : x[i].t \notin Punctuation})
                   IN  [i \in DOMAIN w |-> Bare[w[i]]]
    BY DEF Kebab
  <2> HIDE DEF kept
  <2>3. Kebab(x) = kebab(Tok(x))
    BY <2>1, <2>2
  <2>. QED  BY <2>3, TextFacts
<1>2. Title[s] \in Text /\ s \in Seq(Tokens)
  BY LoreAssumption DEF LoreAssumption
<1>3. kebab(Lower(Title[s])) = s /\ Lower(Title[s]) \in Seq(Tokens)
  BY <1>1, <1>2
<1>4. ASSUME NEW i \in DOMAIN s PROVE s[i] \notin Punctuation /\ Bare[s[i]] = s[i]
  <2> DEFINE tok == Lower(Title[s])
             w == words(tok)
  <2>1. s = [j \in DOMAIN w |-> Bare[w[j]]]
    BY <1>3
  <2>2. tok \in Seq(Tokens) /\ kept(tok) \in SUBSET (DOMAIN tok)
    BY <1>3
  <2>3. \A p \in kept(tok) : tok[p] \in Tokens \ Punctuation
    <3>1. DOMAIN tok = 1..Len(tok)
      BY <2>2, LenProperties
    <3>. QED  BY <2>2, <3>1, ElementOfSeq
  <2>4. ToSet(w) = {tok[p] : p \in kept(tok)}
    <3> HIDE DEF tok, kept
    <3>. QED  BY <2>2, AtItems
  <2> HIDE DEF tok, kept, w
  <2>5. i \in DOMAIN w /\ s[i] = Bare[w[i]]
    BY <2>1
  <2>6. w[i] \in Tokens \ Punctuation
    BY <2>3, <2>4, <2>5 DEF ToSet
  <2>. QED  BY <2>5, <2>6, LoreAssumption DEF LoreAssumption
<1>5. kebab(s) = s
  <2>1. kept(s) = DOMAIN s
    BY <1>4
  <2> HIDE DEF kept
  <2>2. words(s) = s
    BY <2>1, <1>2, AtAll
  <2> HIDE DEF words
  <2>3. kebab(s) = [i \in DOMAIN s |-> s[i]]
    BY <2>2, <1>4
  <2>4. s = [i \in DOMAIN s |-> s[i]]
    BY <1>2, LenProperties
  <2>. QED  BY <2>3, <2>4
<1>6. Kebab(n) = kebab(Lower(n))
  BY <1>1
<1> HIDE DEF kebab
<1>. QED  BY <1>3, <1>5, <1>6

\* Whom the texts of a sequence name, in turn.
LEMMA JoinedNames ==
  ASSUME NEW n \in Nat, NEW texts \in [1..n -> Text],
         NEW ms, ms = [i \in 1..n |-> Mentioned(texts[i])]
  PROVE  /\ Joined(ms) \in Seq(Text)
         /\ \A i \in 1..n : \A x \in ToSet(Mentioned(texts[i])) : x \in ToSet(Joined(ms))
<1>1. ASSUME NEW i \in 1..n PROVE Mentioned(texts[i]) \in Seq(Text)
  <2>1. Mentioned(texts[i]) \in Seq(Text \ {<<>>}) /\ Text \ {<<>>} \subseteq Text
    BY FirstNamed
  <2>. QED  BY <2>1, SeqWider
<1>2. ms \in [1..n -> Seq(Text)] /\ \A i \in 1..n : ms[i] = Mentioned(texts[i])
  BY <1>1
<1>3. ms \in Seq(Seq(Text)) /\ DOMAIN ms = 1..n
  BY <1>2, MadeSeq
<1>4. Joined(ms) \in Seq(Text) /\ ToSet(Joined(ms)) = UNION {ToSet(ms[i]) : i \in DOMAIN ms}
  BY ONLY <1>3, JoinedIs
<1>5. ASSUME NEW i \in 1..n, NEW x \in ToSet(Mentioned(texts[i])) PROVE x \in ToSet(Joined(ms))
  <2>1. x \in ToSet(ms[i]) /\ i \in DOMAIN ms
    BY <1>2, <1>3, <1>5
  <2>. QED  BY <2>1, <1>4
<1>. QED  BY <1>4, <1>5

\* A name, and the full name it is short for, are both there once it is resolved.
LEMMA ResolvedIs ==
  ASSUME NEW names \in Seq(Text)
  PROVE  /\ Resolved(names) \in Seq(Text)
         /\ \A x \in ToSet(names) :
              /\ \E i \in DOMAIN Resolved(names) : Resolved(names)[i] = x
              /\ \A y \in ToSet(Mentioned(x)) : \E i \in DOMAIN Resolved(names) : Resolved(names)[i] = y
<1> DEFINE n == Len(names)
           ms == [i \in DOMAIN names |-> Mentioned(names[i])]
           r == names \o Joined(ms)
<1>1. n \in Nat /\ DOMAIN names = 1..n /\ names \in [1..n -> Text]
  BY LenProperties
<1>2. ms = [i \in 1..n |-> Mentioned(names[i])]
  BY <1>1
<1>3. Resolved(names) = r
  BY DEF Resolved
<1> HIDE DEF n, ms
<1>4. /\ Joined(ms) \in Seq(Text)
      /\ \A i \in 1..n : \A x \in ToSet(Mentioned(names[i])) : x \in ToSet(Joined(ms))
  BY <1>1, <1>2, JoinedNames
<1>5. /\ r \in Seq(Text) /\ \A i \in 1..Len(names) : i \in DOMAIN r /\ r[i] = names[i]
      /\ \A x \in ToSet(Joined(ms)) : x \in ToSet(r)
  BY <1>4, BothIn
<1> HIDE DEF r
<1>6. ASSUME NEW x \in ToSet(names)
      PROVE  /\ \E i \in DOMAIN r : r[i] = x
             /\ \A y \in ToSet(Mentioned(x)) : \E i \in DOMAIN r : r[i] = y
  <2>1. PICK k \in 1..n : x = names[k]
    BY <1>1 DEF ToSet
  <2>2. k \in DOMAIN r /\ r[k] = x
    BY <2>1, <1>5 DEF n
  <2>3. \A y \in ToSet(Mentioned(x)) : y \in ToSet(r)
    BY <2>1, <1>4, <1>5
  <2>. QED  BY <2>2, <2>3 DEF ToSet
<1>. QED  BY <1>3, <1>5, <1>6

\* The speaker of a line of the context is known by the file named for him.
GroundedBy(t, l, s) ==
  \/ Lower(l.speaker) = s
  \/ /\ Len(l.speaker) = 1 /\ l.speaker[1].up /\ l.speaker[1].t \notin NameStop
     /\ NamedBy(l.speaker[1].t) = {s}
     /\ \A k \in ToSet(t.context) : Lower(k.speaker) = Lower(l.speaker) => k.speaker = l.speaker

\* The names the first pass of the cast is made of.
First(t) ==
  Speakers(t) \o (Mentioned(t.text)
                  \o Joined([i \in DOMAIN t.context |-> Mentioned(t.context[i].text)]))

LEMMA FirstIs ==
  ASSUME NEW t \in Turn
  PROVE  /\ First(t) \in Seq(Text)
         /\ Cast(t) = Distinct(Resolved(Distinct(First(t))))
         /\ \A i \in DOMAIN Speakers(t) : i \in DOMAIN First(t) /\ First(t)[i] = Speakers(t)[i]
         /\ DOMAIN Speakers(t) = 1..Len(Speakers(t)) /\ Len(Speakers(t)) \in Nat
<1> DEFINE n == Len(t.context)
           texts == [i \in DOMAIN t.context |-> t.context[i].text]
           ms == [i \in DOMAIN t.context |-> Mentioned(t.context[i].text)]
           named == Mentioned(t.text) \o Joined(ms)
<1>1. n \in Nat /\ DOMAIN t.context = 1..n /\ t.text \in Text
      /\ \A i \in 1..n : t.context[i].text \in Text
  BY TurnFacts, LineOf
<1>2. texts \in [1..n -> Text] /\ ms = [i \in 1..n |-> Mentioned(texts[i])]
  BY <1>1
<1>3. Cast(t) = Distinct(Resolved(Distinct(Speakers(t) \o named)))
  BY DEF Cast
<1>4. First(t) = Speakers(t) \o named
  BY DEF First
<1> HIDE DEF n, texts, ms
<1>5. Joined(ms) \in Seq(Text)
  BY <1>1, <1>2, JoinedNames
<1>6. Mentioned(t.text) \in Seq(Text)
  <2>1. Mentioned(t.text) \in Seq(Text \ {<<>>}) /\ Text \ {<<>>} \subseteq Text
    BY <1>1, FirstNamed
  <2>. QED  BY <2>1, SeqWider
<1>7. named \in Seq(Text)
  BY <1>5, <1>6, BothIn
<1> HIDE DEF named
<1>8. Speakers(t) \in Seq(Text)
  BY SpeakersAre
<1> DEFINE sp == Speakers(t)
           first == First(t)
<1>9. sp \in Seq(Text) /\ first = sp \o named
  BY <1>4, <1>8
<1> HIDE DEF sp, first
<1>10. /\ first \in Seq(Text) /\ DOMAIN sp = 1..Len(sp) /\ Len(sp) \in Nat
       /\ \A i \in 1..Len(sp) : i \in DOMAIN first /\ first[i] = sp[i]
  BY <1>7, <1>9, BothIn
<1>. QED  BY <1>3, <1>4, <1>10 DEF sp, first

LEMMA CastIs ==
  ASSUME NEW t \in Turn
  PROVE  /\ Cast(t) \in Seq(Text)
         /\ \A l \in ToSet(t.context) : \A s \in Stems :
              GroundedBy(t, l, s) /\ Kebab(Title[s]) = s =>
                \E i \in DOMAIN Cast(t) : Kebab(Cast(t)[i]) = s
<1> DEFINE first == First(t)
           d == Distinct(first)
           r == Resolved(d)
           cast == Cast(t)
           sp == Speakers(t)
<1>1. /\ first \in Seq(Text) /\ cast = Distinct(r)
      /\ \A i \in DOMAIN sp : i \in DOMAIN first /\ first[i] = sp[i]
      /\ DOMAIN sp = 1..Len(sp) /\ Len(sp) \in Nat
  BY FirstIs
<1>2. /\ sp \in Seq(Text)
      /\ \A c \in DOMAIN t.context : t.context[c].speaker # <<>> =>
           \E i \in DOMAIN sp :
             /\ sp[i] = t.context[c].speaker
             /\ \A j \in DOMAIN sp : j <= i => \E b \in DOMAIN t.context : sp[j] = t.context[b].speaker
  BY SpeakersAre
<1> HIDE DEF first, cast, sp
<1>3. /\ d \in Seq(Text)
      /\ \A i \in DOMAIN first : \E j \in DOMAIN first :
           j <= i /\ Lower(first[j]) = Lower(first[i]) /\ first[j] \in ToSet(d)
  BY <1>1, DistinctIs
<1> HIDE DEF d
<1>4. /\ r \in Seq(Text)
      /\ \A x \in ToSet(d) :
           /\ \E i \in DOMAIN r : r[i] = x
           /\ \A y \in ToSet(Mentioned(x)) : \E i \in DOMAIN r : r[i] = y
  BY <1>3, ResolvedIs
<1> HIDE DEF r
<1>5. /\ cast \in Seq(Text)
      /\ \A i \in DOMAIN r : \E j \in DOMAIN r :
           j <= i /\ Lower(r[j]) = Lower(r[i]) /\ r[j] \in ToSet(cast)
  BY <1>1, <1>4, DistinctIs
<1>6. ASSUME NEW i \in DOMAIN r
      PROVE  \E k \in DOMAIN cast : cast[k] \in Text /\ Lower(cast[k]) = Lower(r[i])
  <2>1. PICK j \in DOMAIN r : Lower(r[j]) = Lower(r[i]) /\ r[j] \in ToSet(cast)
    BY <1>5
  <2>2. PICK k \in DOMAIN cast : cast[k] = r[j]
    BY <2>1 DEF ToSet
  <2>3. cast[k] \in Text
    BY <1>5, LenProperties, ElementOfSeq
  <2>. QED  BY <2>1, <2>2, <2>3
<1>7. ASSUME NEW l \in ToSet(t.context), NEW s \in Stems, Kebab(Title[s]) = s, Lower(l.speaker) = s
      PROVE  \E k \in DOMAIN cast : Kebab(cast[k]) = s
  <2>1. PICK c \in DOMAIN t.context : l = t.context[c]
    BY DEF ToSet
  <2>2. l.speaker \in Text /\ t.context[c].speaker = l.speaker
    BY <2>1, TurnFacts, LineOf
  <2>3. l.speaker # <<>>
    <3>1. Lower(<<>>) = <<>>
      BY DEF Lower
    <3>2. <<>> \notin Stems
      BY LoreAssumption DEF LoreAssumption
    <3>. QED  BY <3>1, <3>2, <1>7
  <2>4. PICK i \in DOMAIN sp : sp[i] = l.speaker
    BY <2>1, <2>2, <2>3, <1>2
  <2>5. PICK j \in DOMAIN first : Lower(first[j]) = s /\ first[j] \in ToSet(d)
    BY <2>4, <1>1, <1>3, <1>7
  <2>6. PICK m \in DOMAIN r : r[m] = first[j]
    BY <2>5, <1>4
  <2>7. PICK k \in DOMAIN cast : cast[k] \in Text /\ Lower(cast[k]) = s
    BY <2>5, <2>6, <1>6
  <2>. QED  BY <2>7, <1>7, KebabIs
<1>8. ASSUME NEW l \in ToSet(t.context), NEW s \in Stems, Kebab(Title[s]) = s,
             Len(l.speaker) = 1, l.speaker[1].up, l.speaker[1].t \notin NameStop,
             NamedBy(l.speaker[1].t) = {s},
             \A k \in ToSet(t.context) : Lower(k.speaker) = Lower(l.speaker) => k.speaker = l.speaker
      PROVE  \E k \in DOMAIN cast : Kebab(cast[k]) = s
  <2>1. PICK c \in DOMAIN t.context : l = t.context[c]
    BY DEF ToSet
  <2>2. l.speaker \in Text /\ t.context[c].speaker = l.speaker
    BY <2>1, TurnFacts, LineOf
  <2>3. l.speaker # <<>>
    <3>1. Len(<<>>) = 0
      OBVIOUS
    <3>. QED  BY <3>1, <1>8
  <2>4. PICK i \in DOMAIN sp :
          /\ sp[i] = l.speaker
          /\ \A j \in DOMAIN sp : j <= i => \E b \in DOMAIN t.context : sp[j] = t.context[b].speaker
    BY <2>1, <2>2, <2>3, <1>2
  <2>5. i \in DOMAIN first /\ first[i] = l.speaker
    BY <2>4, <1>1
  <2>6. PICK j \in DOMAIN first : j <= i /\ Lower(first[j]) = Lower(l.speaker) /\ first[j] \in ToSet(d)
    BY <2>5, <1>3
  <2>7. j \in DOMAIN sp /\ first[j] = sp[j]
    <3>1. Len(first) \in Nat /\ DOMAIN first = 1..Len(first)
      BY <1>1, LenProperties
    <3>2. j \in DOMAIN sp
      BY <3>1, <2>4, <2>6, <1>1
    <3>. QED  BY <3>2, <1>1
  <2>8. PICK b \in DOMAIN t.context : sp[j] = t.context[b].speaker
    BY <2>4, <2>6, <2>7
  <2>9. t.context[b] \in ToSet(t.context)
    BY DEF ToSet
  <2>10. first[j] = l.speaker
    BY <2>6, <2>7, <2>8, <2>9, <1>8
  <2>11. Title[s] \in ToSet(Mentioned(l.speaker))
    BY <2>2, <1>8, LoneMentioned
  <2>12. PICK m \in DOMAIN r : r[m] = Title[s]
    BY <2>6, <2>10, <2>11, <1>4
  <2>13. PICK k \in DOMAIN cast : cast[k] \in Text /\ Lower(cast[k]) = Lower(Title[s])
    BY <2>12, <1>6
  <2>. QED  BY <2>13, <1>8, KebabIs
<1>9. cast = Cast(t)
  BY DEF cast
<1>. QED  BY <1>5, <1>7, <1>8, <1>9 DEF GroundedBy

-------------------------------------------------------------------------------
(* Lore: what is retrieved *)

\* A facet is the preamble and that facet.
LEMMA FacetIs ==
  ASSUME NEW file \in Seq(Section), NEW scope
  PROVE  \A x \in ToSet(Facet(file, scope)) : x.facet \in {"pre", scope}
<1> DEFINE P == {i \in DOMAIN file : file[i].facet = "pre"}
           want == {i \in DOMAIN file : file[i].facet = scope}
           pre == At(file, P)
           one == <<file[Min(want)]>>
<1>1. DOMAIN file = 1..Len(file) /\ Len(file) \in Nat
  BY LenProperties
<1>2. /\ P \in SUBSET (DOMAIN file) /\ want \subseteq Nat
      /\ \A i \in P : file[i].facet = "pre"
      /\ \A i \in want : file[i].facet = scope /\ file[i] \in Section
  BY <1>1, ElementOfSeq
<1>3. Facet(file, scope) = IF want = {} THEN pre ELSE pre \o one
  BY DEF Facet
<1> HIDE DEF P, want
<1>4. pre \in Seq(Section) /\ ToSet(pre) = {file[i] : i \in P}
  BY <1>2, AtIs, AtItems
<1>5. \A x \in ToSet(pre) : x.facet = "pre"
  BY <1>2, <1>4
<1> HIDE DEF pre
<1>6. CASE want = {}
  BY <1>3, <1>5, <1>6
<1>7. CASE want # {}
  <2>1. Min(want) \in want
    BY <1>2, <1>7, MinIs
  <2>2. one \in Seq(Section) /\ Len(one) = 1 /\ one[1].facet = scope
    <3>1. file[Min(want)] \in Section /\ file[Min(want)].facet = scope
      BY <2>1, <1>2
    <3>. QED  BY <3>1
  <2> HIDE DEF one
  <2>3. /\ pre \o one \in Seq(Section) /\ Len(pre \o one) = Len(pre) + 1
        /\ \A i \in 1..(Len(pre) + 1) :
             (pre \o one)[i] = IF i <= Len(pre) THEN pre[i] ELSE one[i - Len(pre)]
    <3>1. pre \in Seq(Section) /\ one \in Seq(Section) /\ Len(one) = 1
      BY <1>4, <2>2
    <3>2. /\ pre \o one \in Seq(Section) /\ Len(pre \o one) = Len(pre) + Len(one)
          /\ \A i \in 1..(Len(pre) + Len(one)) :
               (pre \o one)[i] = IF i <= Len(pre) THEN pre[i] ELSE one[i - Len(pre)]
      BY ONLY <3>1, ConcatProperties
    <3>. QED  BY <3>1, <3>2
  <2>4. DOMAIN (pre \o one) = 1..(Len(pre) + 1) /\ Len(pre) \in Nat /\ DOMAIN pre = 1..Len(pre)
    BY <1>4, <2>3, LenProperties
  <2>5. ASSUME NEW i \in 1..(Len(pre) + 1) PROVE (pre \o one)[i] \in ToSet(pre) \cup {one[1]}
    <3>1. CASE i <= Len(pre)
      <4>1. (pre \o one)[i] = pre[i] /\ i \in DOMAIN pre
        BY <2>3, <2>4, <3>1
      <4>. QED  BY <4>1 DEF ToSet
    <3>2. CASE ~(i <= Len(pre))
      <4>1. i - Len(pre) = 1
        BY <2>4, <3>2
      <4>. QED  BY <4>1, <2>3, <3>2
    <3>. QED  BY <3>1, <3>2
  <2>6. ASSUME NEW x \in ToSet(pre \o one) PROVE x \in ToSet(pre) \cup {one[1]}
    BY <2>4, <2>5 DEF ToSet
  <2>7. Facet(file, scope) = pre \o one
    BY <1>3, <1>7
  <2>. QED  BY <2>2, <2>6, <2>7, <1>5
<1>. QED  BY <1>6, <1>7

\* What fits is the first of the pieces, and all of them unless there are too many.
LEMMA FittedIs ==
  ASSUME NEW S, NEW pieces \in Seq(S)
  PROVE  /\ \A i \in DOMAIN Fitted(pieces).block :
              i \in DOMAIN pieces /\ Fitted(pieces).block[i] = pieces[i]
         /\ ~Fitted(pieces).full => Fitted(pieces).block = pieces
<1> DEFINE size(k) == SizeOf(SubSeq(pieces, 1, k))
           over == {k \in DOMAIN pieces : size(k) > MaxChars}
           cut == Min(over)
           m == IF size(cut - 1) < MaxChars THEN cut ELSE cut - 1
           block == IF over = {} THEN pieces ELSE SubSeq(pieces, 1, m)
<1>1. Fitted(pieces) = [full |-> over # {}, block |-> block]
  BY DEF Fitted
<1>2. over \subseteq DOMAIN pieces
  OBVIOUS
<1> HIDE DEF size, over
<1>3. Fitted(pieces).block = block /\ (~Fitted(pieces).full <=> over = {})
  <2> HIDE DEF block
  <2>1. Fitted(pieces).block = block /\ Fitted(pieces).full = (over # {})
    BY <1>1
  <2>. QED  BY <2>1
<1>4. DOMAIN pieces = 1..Len(pieces) /\ Len(pieces) \in Nat
  BY LenProperties
<1>5. over # {} => cut \in 1..Len(pieces)
  BY <1>2, <1>4, MinIs
<1> HIDE DEF cut
<1>6. over # {} => m \in 0..Len(pieces)
  BY <1>4, <1>5
<1> HIDE DEF m
<1>7. ASSUME over # {}
      PROVE  DOMAIN SubSeq(pieces, 1, m) = 1..m /\ \A i \in 1..m : SubSeq(pieces, 1, m)[i] = pieces[i]
  <2>1. m \in Nat /\ m <= Len(pieces)
    BY <1>6, <1>7, <1>4
  <2>2. \A i \in 1..m : i \in 1..Len(pieces)
    BY <2>1, <1>4
  <2>3. \A i \in 1..m : pieces[i] \in S
    BY <2>2, ElementOfSeq
  <2>4. /\ SubSeq(pieces, 1, m) \in Seq(S) /\ Len(SubSeq(pieces, 1, m)) = m
        /\ \A i \in 1..m : SubSeq(pieces, 1, m)[i] = pieces[i]
    BY <2>1, <2>3, SubSeqProperties
  <2>. QED  BY <2>4, LenProperties
<1>8. \A i \in DOMAIN block : i \in DOMAIN pieces /\ block[i] = pieces[i]
  <2>1. ASSUME over # {}, NEW i \in DOMAIN block PROVE i \in DOMAIN pieces /\ block[i] = pieces[i]
    <3>1. i \in 1..m /\ block[i] = pieces[i]
      BY <2>1, <1>7
    <3>2. i \in 1..Len(pieces)
      BY <3>1, <2>1, <1>6, <1>4
    <3>. QED  BY <3>1, <3>2, <1>4
  <2>. QED  BY <2>1
<1>. QED  BY <1>3, <1>8

\* What is found has the dossier of everyone of the cast who has one with something
\* to say, if there was room.
Complete(found, fs, cast, scope) ==
  ~found.full =>
    \A s \in Stems : (\E k \in DOMAIN cast : Kebab(cast[k]) = s) /\ Facet(fs[s], scope) # <<>> =>
      \E i \in DOMAIN found.block : found.block[i].stem = s

\* A dossier is of a known character, one facet of it, and none is missing.
LEMMA RetrieveIs ==
  ASSUME NEW fs \in [Stems -> Seq(Section)], NEW cast, NEW scope
  PROVE  /\ \A i \in DOMAIN Retrieve(fs, cast, scope).block :
              \A x \in ToSet(Retrieve(fs, cast, scope).block[i].text) : x.facet \in {"pre", scope}
         /\ Complete(Retrieve(fs, cast, scope), fs, cast, scope)
<1> DEFINE known == {Kebab(cast[i]) : i \in DOMAIN cast}
           C == {k \in DOMAIN StemOrder :
                   StemOrder[k] \in known /\ Facet(fs[StemOrder[k]], scope) # <<>>}
           chosen == At(StemOrder, C)
           piece(s) == [stem |-> s, text |-> Facet(fs[s], scope)]
           pieces == [k \in DOMAIN chosen |-> piece(chosen[k])]
           found == Fitted(pieces)
<1>1. Retrieve(fs, cast, scope) = found
  BY DEF Retrieve
<1>2. C \in SUBSET (DOMAIN StemOrder)
  OBVIOUS
<1>3. \A k \in DOMAIN StemOrder :
        StemOrder[k] \in known /\ Facet(fs[StemOrder[k]], scope) # <<>> => k \in C
  OBVIOUS
<1>4. \A s : (\E k \in DOMAIN cast : Kebab(cast[k]) = s) => s \in known
  OBVIOUS
<1> HIDE DEF known, C
<1>5. StemOrder \in Seq(Stems)
  BY StemOrderIs DEF AllOnce
<1>6. /\ chosen \in Seq(Stems) /\ Len(chosen) \in Nat /\ DOMAIN chosen = 1..Len(chosen)
      /\ ToSet(chosen) = {StemOrder[k] : k \in C}
  <2>1. chosen \in Seq(Stems) /\ ToSet(chosen) = {StemOrder[k] : k \in C}
    BY <1>2, <1>5, AtIs, AtItems
  <2>. QED  BY <2>1, LenProperties
<1> HIDE DEF chosen
<1>7. \A k \in 1..Len(chosen) : chosen[k] \in Stems
  BY <1>6, ElementOfSeq
<1>8. \A s : piece(s).stem = s /\ piece(s).text = Facet(fs[s], scope)
  OBVIOUS
<1> HIDE DEF piece
<1>9. pieces \in [1..Len(chosen) -> {piece(s) : s \in Stems}]
  BY <1>6, <1>7
<1>10. pieces \in Seq({piece(s) : s \in Stems}) /\ DOMAIN pieces = 1..Len(chosen)
       /\ \A k \in 1..Len(chosen) : pieces[k] = piece(chosen[k])
  BY <1>6, <1>9, MadeSeq
<1> HIDE DEF pieces
<1>11. /\ \A i \in DOMAIN found.block : i \in DOMAIN pieces /\ found.block[i] = pieces[i]
       /\ ~found.full => found.block = pieces
  BY <1>10, FittedIs
<1> HIDE DEF found
<1>12. ASSUME NEW i \in DOMAIN found.block, NEW x \in ToSet(found.block[i].text)
       PROVE  x.facet \in {"pre", scope}
  <2>1. i \in 1..Len(chosen) /\ found.block[i] = piece(chosen[i])
    BY <1>10, <1>11
  <2>2. found.block[i].text = Facet(fs[chosen[i]], scope)
    BY <2>1, <1>8
  <2>3. fs[chosen[i]] \in Seq(Section)
    BY <2>1, <1>7
  <2>. QED  BY <2>2, <2>3, <1>12, FacetIs
<1>13. ASSUME ~found.full, NEW s \in Stems, s \in known, Facet(fs[s], scope) # <<>>
       PROVE  \E i \in DOMAIN found.block : found.block[i].stem = s
  <2>1. PICK k \in DOMAIN StemOrder : StemOrder[k] = s
    BY StemOrderIs DEF AllOnce
  <2>2. s \in ToSet(chosen)
    BY <2>1, <1>3, <1>6, <1>13
  <2>3. PICK i \in 1..Len(chosen) : chosen[i] = s
    BY <2>2, <1>6 DEF ToSet
  <2>4. found.block = pieces /\ i \in DOMAIN pieces /\ pieces[i] = piece(s)
    BY <2>3, <1>10, <1>11, <1>13
  <2>5. i \in DOMAIN found.block /\ found.block[i].stem = s
    BY <2>4, <1>8
  <2>. QED  BY <2>5
<1>14. Complete(found, fs, cast, scope)
  BY <1>4, <1>13 DEF Complete
<1>. QED  BY <1>1, <1>12, <1>14

-------------------------------------------------------------------------------
(* Lore: how much of the wiki is given *)

\* Some of the places of a sequence.
LEMMA SomePlaces ==
  ASSUME NEW n \in Nat, NEW P, P \subseteq 1..n
  PROVE  P \subseteq Nat \ {0} /\ IsFiniteSet(P)
<1>1. IsFiniteSet(1..n) /\ P \in SUBSET (1..n) /\ P \subseteq Nat \ {0}
  BY Interval
<1>. QED  BY <1>1, FS_Subset

LEMMA PhrasesAre ==
  ASSUME NEW text \in Text PROVE \E n \in Nat : DOMAIN Phrases(text) = 1..n
<1> DEFINE capitals == {i \in DOMAIN text : text[i].up}
           run(i, j) == i <= j /\ \A k \in i..j : text[k].up \/ text[k].t \in PhraseParticles
           end(i) == Max({j \in capitals : run(i, j)})
           begins == {i \in capitals : /\ ~ \E h \in capitals : h < i /\ run(h, i)
                                       /\ ~(end(i) = i /\ text[i].t \in Openers)}
           run1 == [i \in DOMAIN text |-> IF i \in begins THEN SubSeq(text, i, end(i)) ELSE <<>>]
           phrases == At(run1, begins)
           key == [k \in DOMAIN phrases |-> 0 - Length(phrases[k])]
<1>1. Phrases(text) = Sorted(phrases, key)
  BY DEF Phrases
<1>2. begins \subseteq DOMAIN text
  OBVIOUS
<1> HIDE DEF begins, run1
<1>3. begins \subseteq Nat \ {0} /\ IsFiniteSet(begins)
  BY <1>2, TextFacts, SomePlaces
<1>4. DOMAIN phrases = 1..Cardinality(begins) /\ Cardinality(begins) \in Nat
  BY <1>3, AtAny
<1> HIDE DEF phrases, key
<1>5. DOMAIN Sorted(phrases, key) = 1..Cardinality(DOMAIN phrases)
  BY DEF Sorted
<1>6. Cardinality(DOMAIN phrases) = Cardinality(begins)
  BY <1>4, Interval
<1>. QED  BY <1>1, <1>4, <1>5, <1>6

LEMMA TopicsFew ==
  ASSUME NEW text \in Text, NEW covered PROVE Len(Topics(text, covered)) <= 2
<1> DEFINE phrases == Phrases(text)
           P == {i \in DOMAIN phrases : Tok(phrases[i]) \notin covered
                                        /\ SummaryFor(phrases[i]) # {}}
           hits == At(phrases, P)
           found == [i \in DOMAIN hits |-> TopicOf(hits[i])]
           titles == [i \in DOMAIN found |-> Tok(found[i].title)]
           new == {i \in DOMAIN found : titles[i] \notin covered}
           some == At(found, new)
           first == Firsts(some, At(titles, new))
<1>1. PICK n \in Nat : DOMAIN phrases = 1..n
  BY PhrasesAre
<1>2. Told(phrases, covered) = hits
  BY DEF Told
<1>3. New(found, covered) = first
  BY DEF New
<1>4. Topics(text, covered) = Upto(2, first)
  <2>1. Topics(text, covered) = Upto(2, New([i \in DOMAIN Told(phrases, covered) |->
                                             TopicOf(Told(phrases, covered)[i])], covered))
    BY DEF Topics
  <2> HIDE DEF hits, first
  <2>. QED  BY <2>1, <1>2, <1>3
<1> HIDE DEF phrases
<1>5. P \subseteq 1..n
  BY <1>1
<1> HIDE DEF P
<1>6. DOMAIN hits = 1..Cardinality(P) /\ Cardinality(P) \in Nat
  BY <1>5, SomePlaces, AtAny
<1> HIDE DEF hits
<1>7. DOMAIN found = 1..Cardinality(P)
  BY <1>6
<1> HIDE DEF found, titles
<1>8. new \subseteq 1..Cardinality(P)
  BY <1>7
<1> HIDE DEF new
<1>9. DOMAIN some = 1..Cardinality(new) /\ Cardinality(new) \in Nat
  BY <1>6, <1>8, SomePlaces, AtAny
<1> HIDE DEF some
<1>10. Len(first) \in Nat
  BY <1>9, FirstsAny
<1> HIDE DEF first
<1>. QED  BY <1>4, <1>10, UptoShort

LEMMA SharedFew == ASSUME NEW cast \in Seq(Text) PROVE Len(SharedHistory(cast)) <= 4
<1> DEFINE logs(n) == At(Index, {i \in DOMAIN Index : /\ {Tok(n), Anchor} \subseteq Index[i].characters
                                                      /\ Index[i].summary})
           newest(n) == Sorted(logs(n), [k \in DOMAIN logs(n) |-> 0 - logs(n)[k].year])[1]
           P == {i \in DOMAIN cast : logs(cast[i]) # <<>>}
           with == At(cast, P)
           logged == [i \in DOMAIN with |-> [with |-> with[i], title |-> newest(with[i]).title]]
           first == Firsts(logged, [i \in DOMAIN logged |-> logged[i].title])
<1>1. SharedHistory(cast) = Upto(4, first)
  BY DEF SharedHistory
<1>2. P \subseteq 1..Len(cast) /\ Len(cast) \in Nat
  BY LenProperties
<1> HIDE DEF P, newest
<1>3. DOMAIN with = 1..Cardinality(P) /\ Cardinality(P) \in Nat
  BY <1>2, SomePlaces, AtAny
<1> HIDE DEF with
<1>4. DOMAIN logged = 1..Cardinality(P)
  BY <1>3
<1> HIDE DEF logged
<1>5. Len(first) \in Nat
  BY <1>3, <1>4, FirstsAny
<1> HIDE DEF first
<1>. QED  BY <1>1, <1>5, UptoShort

LEMMA UnknownFew ==
  ASSUME NEW fs, NEW cast \in Seq(Text) PROVE Len(Unknown(fs, cast)) <= MaxUnknown
<1> DEFINE P == {i \in DOMAIN cast :
                   /\ Lower(cast[i]) \notin {<<"memory">>, <<"scene">>}
                   /\ cast[i][1].up /\ (Len(cast[i]) > 1 \/ Width[cast[i][1].t] >= 3)
                   /\ ~HasDossier(fs, cast[i]) /\ SummaryFor(cast[i]) # {}}
           some == At(cast, P)
<1>1. Unknown(fs, cast) = Upto(MaxUnknown, some)
  BY DEF Unknown
<1>2. P \subseteq 1..Len(cast) /\ Len(cast) \in Nat
  BY LenProperties
<1> HIDE DEF P
<1>3. Len(some) \in Nat
  BY <1>2, SomePlaces, AtAny
<1> HIDE DEF some
<1>4. MaxUnknown \in Nat
  BY PersonaAssumption DEF PersonaAssumption
<1>. QED  BY <1>1, <1>3, <1>4, UptoShort

-------------------------------------------------------------------------------
(* Persona: what is remembered for a turn *)

Scope(t) == IF t.mode = "rp" THEN "ic" ELSE "ooc"
Covered(cast) == {Lower(cast[i]) : i \in DOMAIN cast} \cup {Bot}

LEMMA AboutIs ==
  ASSUME NEW fs, NEW t, NEW cast, NEW hit
  PROVE  /\ About(fs, t, cast, hit).dossiers = Retrieve(fs, cast, Scope(t)).block
         /\ About(fs, t, cast, hit).full = Retrieve(fs, cast, Scope(t)).full
         /\ About(fs, t, cast, hit).shared = IF t.mode = "rp" THEN SharedHistory(cast) ELSE <<>>
         /\ About(fs, t, cast, hit).claimed = IF t.mode = "rp" THEN Claimed(t) ELSE <<>>
         /\ About(fs, t, cast, hit).unknown = IF t.mode = "rp" THEN Unknown(fs, cast) ELSE <<>>
         /\ About(fs, t, cast, hit).topics =
              IF t.mode = "rp" THEN <<>> ELSE Topics(t.text, Covered(cast))
         /\ t.mode = "rp" => About(fs, t, cast, hit).closest = {}
<1> DEFINE rp == t.mode = "rp"
           found == Retrieve(fs, cast, Scope(t))
           topics == IF rp THEN <<>> ELSE Topics(t.text, Covered(cast))
           fallback == ~rp /\ Mentioned(t.text) = <<>> /\ topics = <<>> /\ Phrases(t.text) # <<>>
           shared == IF rp THEN SharedHistory(cast) ELSE <<>>
           claimed == IF rp THEN Claimed(t) ELSE <<>>
           unknown == IF rp THEN Unknown(fs, cast) ELSE <<>>
           closest == IF fallback THEN UNION {SummaryFor(h.title) : h \in hit} ELSE {}
<1>1. About(fs, t, cast, hit) =
        [dossiers |-> found.block, full |-> found.full, shared |-> shared, claimed |-> claimed,
         unknown |-> unknown, topics |-> topics, closest |-> closest]
  BY DEF About, Scope, Covered
<1>2. rp => closest = {}
  OBVIOUS
<1> DEFINE block == found.block
           full == found.full
<1>3. About(fs, t, cast, hit) =
        [dossiers |-> block, full |-> full, shared |-> shared, claimed |-> claimed,
         unknown |-> unknown, topics |-> topics, closest |-> closest]
  BY <1>1
<1> HIDE DEF closest, topics, shared, claimed, unknown, block, full
<1>4. /\ About(fs, t, cast, hit).dossiers = block /\ About(fs, t, cast, hit).full = full
      /\ About(fs, t, cast, hit).shared = shared /\ About(fs, t, cast, hit).claimed = claimed
      /\ About(fs, t, cast, hit).unknown = unknown /\ About(fs, t, cast, hit).topics = topics
      /\ About(fs, t, cast, hit).closest = closest
  BY ONLY <1>3
<1>. QED  BY <1>2, <1>4, Zenon DEF closest, topics, shared, claimed, unknown, block, full

\* A turn that the program can have in hand.
GoodTurn(t) == t \in Turn /\ IsFiniteSet(t.claimed)

\* What is remembered is within its limits and of the turn's side.
LEMMA MemoriesAre ==
  ASSUME NEW t, GoodTurn(t), NEW fs \in Dossiers, NEW hit, NEW m, m = Memories(fs, t, hit)
  PROVE  /\ Len(m.claimed) <= MaxClaimed /\ Len(m.unknown) <= MaxUnknown
         /\ Len(m.shared) <= 4 /\ Len(m.topics) <= 2
         /\ \A name \in ToSet(m.claimed) : Lower(name) # Bot
         /\ t.mode = "rp" => m.claimed = Claimed(t)
         /\ IF t.mode = "rp"
            THEN "ooc" \notin SectionsOf(m) /\ m.topics = <<>> /\ m.closest = {}
            ELSE "ic" \notin SectionsOf(m) /\ m.shared = <<>> /\ m.claimed = <<>> /\ m.unknown = <<>>
<1> DEFINE cast == Cast(t)
           scope == Scope(t)
           covered == Covered(cast)
<1>1. m = About(fs, t, cast, hit)
  BY DEF Memories
<1>2. t \in Turn /\ IsFiniteSet(t.claimed)
  BY DEF GoodTurn
<1>3. cast \in Seq(Text) /\ t.text \in Text /\ t.mode \in {"chat", "rp"}
  BY <1>2, CastIs, TurnFacts
<1> HIDE DEF cast, covered
<1>4. fs \in [Stems -> Seq(Section)]
  BY PersonaAssumption DEF PersonaAssumption
<1>5. /\ m.dossiers = Retrieve(fs, cast, scope).block
      /\ m.shared = IF t.mode = "rp" THEN SharedHistory(cast) ELSE <<>>
      /\ m.claimed = IF t.mode = "rp" THEN Claimed(t) ELSE <<>>
      /\ m.unknown = IF t.mode = "rp" THEN Unknown(fs, cast) ELSE <<>>
      /\ m.topics = IF t.mode = "rp" THEN <<>> ELSE Topics(t.text, covered)
      /\ t.mode = "rp" => m.closest = {}
  <2> DEFINE a == About(fs, t, cast, hit)
  <2>1. /\ a.dossiers = Retrieve(fs, cast, Scope(t)).block
        /\ a.shared = IF t.mode = "rp" THEN SharedHistory(cast) ELSE <<>>
        /\ a.claimed = IF t.mode = "rp" THEN Claimed(t) ELSE <<>>
        /\ a.unknown = IF t.mode = "rp" THEN Unknown(fs, cast) ELSE <<>>
        /\ a.topics = IF t.mode = "rp" THEN <<>> ELSE Topics(t.text, Covered(cast))
        /\ t.mode = "rp" => a.closest = {}
    BY AboutIs
  <2>2. m = a
    BY <1>1
  <2> HIDE DEF a
  <2>. QED  BY <2>1, <2>2 DEF covered
<1>6. /\ Len(SharedHistory(cast)) <= 4 /\ Len(Topics(t.text, covered)) <= 2
      /\ Len(Unknown(fs, cast)) <= MaxUnknown
  BY <1>3, SharedFew, TopicsFew, UnknownFew
<1>7. Len(Claimed(t)) <= MaxClaimed /\ \A x \in ToSet(Claimed(t)) : Lower(x) # Bot
  BY <1>2, ClaimedIs
<1>8. MaxClaimed \in Nat /\ MaxUnknown \in Nat
  BY PersonaAssumption DEF PersonaAssumption
<1>9. Len(<<>>) = 0 /\ ToSet(<<>>) = {}
  BY DEF ToSet
<1>10. scope = IF t.mode = "rp" THEN "ic" ELSE "ooc"
  BY DEF Scope
<1> HIDE DEF scope
<1>11. ASSUME NEW x \in SectionsOf(m) PROVE x \in {"pre", scope}
  <2> DEFINE block == m.dossiers
  <2>1. PICK i \in DOMAIN block : x \in {s.facet : s \in ToSet(block[i].text)}
    BY <1>11 DEF SectionsOf
  <2>2. PICK s \in ToSet(block[i].text) : x = s.facet
    BY <2>1
  <2>3. block = Retrieve(fs, cast, scope).block
    BY <1>5
  <2> HIDE DEF block
  <2>4. \A j \in DOMAIN block : \A y \in ToSet(block[j].text) : y.facet \in {"pre", scope}
    BY <1>4, <2>3, RetrieveIs
  <2>. QED  BY <2>2, <2>4
<1>12. CASE t.mode = "rp"
  <2>1. scope = "ic" /\ "ooc" \notin SectionsOf(m)
    BY <1>10, <1>11, <1>12
  <2>2. m.claimed = Claimed(t) /\ m.topics = <<>> /\ m.closest = {}
        /\ m.unknown = Unknown(fs, cast) /\ m.shared = SharedHistory(cast)
    BY <1>5, <1>12
  <2>3. Len(m.topics) <= 2
    BY <2>2, <1>9
  <2>. QED  BY <2>1, <2>2, <2>3, <1>6, <1>7, <1>12
<1>13. CASE t.mode # "rp"
  <2>1. scope = "ooc" /\ "ic" \notin SectionsOf(m)
    BY <1>10, <1>11, <1>13
  <2>2. m.claimed = <<>> /\ m.unknown = <<>> /\ m.shared = <<>> /\ m.topics = Topics(t.text, covered)
    BY <1>5, <1>13
  <2>3. /\ Len(m.claimed) <= MaxClaimed /\ Len(m.unknown) <= MaxUnknown /\ Len(m.shared) <= 4
        /\ ToSet(m.claimed) = {}
    BY <2>2, <1>8, <1>9
  <2>. QED  BY <2>1, <2>2, <2>3, <1>6, <1>13
<1>. QED  BY <1>12, <1>13

-------------------------------------------------------------------------------
(* Persona: the turns and the invariant *)

\* What the distillations leave among the owners of the room: names, finitely many.
LEMMA ActorsAre ==
  ASSUME NEW out \in Distillates
  PROVE  /\ ParseDistill(out, Bot).actors \subseteq Text
         /\ IsFiniteSet(ParseDistill(out, Bot).actors)
<1> DEFINE R == [kind : {"frame", "note", "actors"}, names : Seq(Text)]
           actors == {i \in DOMAIN out : out[i].kind = "actors"}
           names == [i \in DOMAIN out |-> IF i \in actors THEN out[i].names ELSE <<>>]
           all == Joined(names)
           P == {i \in DOMAIN all : Lower(all[i]) # Bot /\ LooksLikeName(all[i])}
           some == At(all, P)
           first == Upto(6, some)
<1>1. ParseDistill(out, Bot).actors = Actors(all, Bot)
  BY DEF ParseDistill
<1>2. Actors(all, Bot) = ToSet(first)
  BY DEF Actors
<1>3. out \in Seq(R)
  BY PersonaAssumption DEF PersonaAssumption
<1>4. DOMAIN out = 1..Len(out) /\ Len(out) \in Nat
  BY <1>3, LenProperties
<1>5. \A i \in 1..Len(out) : out[i].names \in Seq(Text)
  <2>1. \A i \in 1..Len(out) : out[i] \in R
    BY <1>3, ElementOfSeq
  <2>. QED  BY <2>1
<1>6. <<>> \in Seq(Text)
  OBVIOUS
<1>7. names \in [1..Len(out) -> Seq(Text)]
  BY <1>4, <1>5, <1>6
<1> HIDE DEF names
<1>8. names \in Seq(Seq(Text))
  BY <1>4, <1>7, MadeSeq
<1>9. all \in Seq(Text)
  BY ONLY <1>8, JoinedIs
<1> HIDE DEF all
<1>10. P \in SUBSET (DOMAIN all)
  OBVIOUS
<1> HIDE DEF P
<1>11. some \in Seq(Text)
  BY <1>9, <1>10, AtIs
<1> HIDE DEF some
<1>12. 6 \in Nat
  OBVIOUS
<1>13. first \in Seq(Text)
  BY <1>11, <1>12, UptoIs
<1> HIDE DEF first
<1>. QED  BY <1>1, <1>2, <1>13, ToSetIs

\* The context of a pose: what is remembered, then the scene.
Note(text) == [speaker |-> Memory, dbref |-> FALSE, text |-> text, length |-> 0]
Remembered(kept, words) ==
  (IF kept THEN <<Note(Name("rules"))>> ELSE <<>>)
  \o (IF words # <<>> THEN <<Note(words)>> ELSE <<>>)

LEMMA PoseContext ==
  ASSUME NEW scene \in Scenes, NEW kept \in BOOLEAN, NEW words \in Text
  PROVE  Remembered(kept, words) \o scene.tail \in Seq(Line)
<1>1. Memory \in Text /\ Name("rules") \in Text
  <2>1. [t |-> "memory", up |-> FALSE] \in Word /\ [t |-> "rules", up |-> TRUE] \in Word
    BY PersonaAssumption DEF PersonaAssumption, Word
  <2>. QED  BY <2>1 DEF Text, Memory, Name
<1>2. \A text \in Text : Note(text) \in Line
  BY <1>1 DEF Line, Note
<1>3. scene.tail \in Seq(Line)
  BY PersonaAssumption DEF PersonaAssumption
<1> DEFINE a == IF kept THEN <<Note(Name("rules"))>> ELSE <<>>
           b == IF words # <<>> THEN <<Note(words)>> ELSE <<>>
<1>4. a \in Seq(Line)
  BY <1>1, <1>2
<1>5. b \in Seq(Line)
  BY <1>2
<1> HIDE DEF a, b
<1>6. (a \o b) \o scene.tail \in Seq(Line)
  BY <1>3, <1>4, <1>5, ConcatProperties
<1>. QED  BY <1>6 DEF a, b, Remembered

\* What the model is asked is made of what was there when the turn came: a profile,
\* the dossiers, and what the search by meaning found.
Prompted ==
  \E doc \in Profiles, fs \in Dossiers, plan \in BOOLEAN : \E hit :
    prompt = Messages(turn, doc, Memories(fs, turn, hit), plan,
                      IF phase = "plan" THEN "plan" ELSE Compose(turn))

\* The inductive invariant.
Consistent ==
  /\ profile \in Profiles /\ files \in Dossiers /\ rule \in BOOLEAN
  /\ owners \subseteq Text /\ IsFiniteSet(owners) /\ recall \in Text
  /\ phase \in {"idle", "plan", "compose", "said"}
  /\ phase = "idle" => turn = NoTurn
  /\ phase # "idle" => GoodTurn(turn)
  /\ phase # "said" => said = Silence
  /\ ~Asking => prompt = NoPrompt
  /\ Asking => Prompted

LEMMA ConsistentInit == Init => Consistent
<1>1. {} \subseteq Text /\ IsFiniteSet({}) /\ <<>> \in Text /\ FALSE \in BOOLEAN
  BY FS_EmptySet DEF Text
<1>. QED  BY <1>1 DEF Init, Consistent, Asking

\* A turn comes.
LEMMA ConsistentRespond ==
  ASSUME Consistent, NEW t, GoodTurn(t), NEW hit, Respond(t, hit) PROVE Consistent'
<1>1. /\ phase = "idle" /\ turn' = t
      /\ prompt' = Messages(t, profile, Memories(files, t, hit), FALSE,
                            IF profile.thinking THEN "plan" ELSE Compose(t))
      /\ phase' = IF profile.thinking THEN "plan" ELSE "compose"
      /\ UNCHANGED <<profile, files, owners, recall, rule, said>>
  BY DEF Respond
<1>2. /\ profile \in Profiles /\ files \in Dossiers /\ rule \in BOOLEAN
      /\ owners \subseteq Text /\ IsFiniteSet(owners) /\ recall \in Text /\ said = Silence
  BY <1>1 DEF Consistent
<1>3. prompt' = Messages(t, profile, Memories(files, t, hit), FALSE,
                         IF phase' = "plan" THEN "plan" ELSE Compose(t))
  BY <1>1
<1>4. phase' \in {"plan", "compose"}
  BY <1>1
<1>5. Prompted'
  <2>1. FALSE \in BOOLEAN
    OBVIOUS
  <2>. QED  BY <1>1, <1>2, <1>3, <2>1 DEF Prompted
<1>6. GoodTurn(turn')
  BY <1>1
<1>7. GoodTurn(turn)'
  BY <1>6 DEF GoodTurn
<1>. QED  BY <1>1, <1>2, <1>4, <1>5, <1>7 DEF Consistent, Asking

\* The turns there may be.
LEMMA TurnsAre ==
  ASSUME Consistent, ChatTurn \/ PoseTurn
  PROVE  \E t, hit : GoodTurn(t) /\ Respond(t, hit)
<1>1. ASSUME ChatTurn PROVE \E t, hit : GoodTurn(t) /\ Respond(t, hit)
  <2>1. PICK t \in Chats : \E hit : Respond(t, hit)
    BY <1>1 DEF ChatTurn
  <2>2. t \in Turn /\ t.claimed = {}
    BY PersonaAssumption DEF PersonaAssumption
  <2>3. GoodTurn(t)
    BY <2>2, FS_EmptySet DEF GoodTurn
  <2>. QED  BY <2>1, <2>3
<1>2. ASSUME PoseTurn PROVE \E t, hit : GoodTurn(t) /\ Respond(t, hit)
  <2> DEFINE pose(scene) ==
        [mode |-> "rp", context |-> Remembered(rule, recall) \o scene.tail, speaker |-> <<>>,
         text |-> scene.seed, claimed |-> owners]
  <2>1. PICK scene \in Scenes : Respond(pose(scene), {})
    BY <1>2 DEF PoseTurn, Remembered, Note
  <2>2. rule \in BOOLEAN /\ recall \in Text /\ owners \subseteq Text /\ IsFiniteSet(owners)
    BY DEF Consistent
  <2>3. Remembered(rule, recall) \o scene.tail \in Seq(Line)
    BY <2>2, PoseContext
  <2>4. scene.seed \in Text /\ <<>> \in Text
    BY PersonaAssumption DEF PersonaAssumption, Text
  <2>5. pose(scene) \in Turn /\ pose(scene).claimed = owners
    BY <2>2, <2>3, <2>4 DEF Turn
  <2>6. GoodTurn(pose(scene))
    BY <2>2, <2>5 DEF GoodTurn
  <2> HIDE DEF pose
  <2>. QED  BY <2>1, <2>6
<1>. QED  BY <1>1, <1>2

\* Planning done: the same prompt, for the line.
LEMMA ConsistentPlanned == ASSUME Consistent, Planned PROVE Consistent'
<1>1. /\ phase = "plan" /\ phase' = "compose"
      /\ UNCHANGED <<profile, files, owners, recall, rule, turn, said>>
  BY DEF Planned
<1>2. PICK plan \in BOOLEAN : prompt' = [prompt EXCEPT !.plan = plan, !.ask = Compose(turn)]
  BY DEF Planned
<1>3. Prompted
  BY <1>1 DEF Consistent, Asking
<1>4. PICK doc \in Profiles, fs \in Dossiers, old \in BOOLEAN : \E hit :
        prompt = Messages(turn, doc, Memories(fs, turn, hit), old,
                          IF phase = "plan" THEN "plan" ELSE Compose(turn))
  BY <1>3 DEF Prompted
<1>10. PICK hit : prompt = Messages(turn, doc, Memories(fs, turn, hit), old,
                                    IF phase = "plan" THEN "plan" ELSE Compose(turn))
  BY <1>4
<1>5. prompt' = Messages(turn, doc, Memories(fs, turn, hit), plan, Compose(turn))
  BY <1>2, <1>10 DEF Messages
<1>6. turn' = turn /\ (IF phase' = "plan" THEN "plan" ELSE Compose(turn')) = Compose(turn)
  BY <1>1
<1>7. Prompted'
  BY <1>5, <1>6 DEF Prompted
<1>8. GoodTurn(turn)
  BY <1>1 DEF Consistent
<1>9. GoodTurn(turn)'
  BY <1>6, <1>8 DEF GoodTurn
<1>. QED  BY <1>1, <1>7, <1>9 DEF Consistent, Asking

\* Steps that leave the turn in hand alone.
LEMMA ConsistentBeside ==
  ASSUME Consistent, UNCHANGED <<phase, turn, prompt, said>>,
         profile' \in Profiles, files' \in Dossiers, rule' \in BOOLEAN,
         owners' \subseteq Text, IsFiniteSet(owners'), recall' \in Text
  PROVE  Consistent'
<1>1. Prompted => Prompted'
  BY DEF Prompted
<1>2. GoodTurn(turn) => GoodTurn(turn)'
  BY DEF GoodTurn
<1>. QED  BY <1>1, <1>2 DEF Consistent, Asking

LEMMA ConsistentNext == Consistent /\ [Next]_vars => Consistent'
<1> SUFFICES ASSUME Consistent, [Next]_vars PROVE Consistent'
  OBVIOUS
<1>0. /\ profile \in Profiles /\ files \in Dossiers /\ rule \in BOOLEAN
      /\ owners \subseteq Text /\ IsFiniteSet(owners) /\ recall \in Text
  BY DEF Consistent
<1>1. ASSUME ChatTurn \/ PoseTurn PROVE Consistent'
  <2>1. PICK t, hit : GoodTurn(t) /\ Respond(t, hit)
    BY <1>1, TurnsAre
  <2>. QED  BY <2>1, ConsistentRespond
<1>2. ASSUME Planned PROVE Consistent'
  BY <1>2, ConsistentPlanned
<1>3. ASSUME Composed PROVE Consistent'
  <2>1. /\ phase = "compose" /\ phase' = "said" /\ prompt' = NoPrompt
        /\ UNCHANGED <<profile, files, owners, recall, rule, turn>>
    BY <1>3 DEF Composed
  <2>2. GoodTurn(turn)
    BY <2>1 DEF Consistent
  <2>3. GoodTurn(turn)'
    BY <2>1, <2>2 DEF GoodTurn
  <2>. QED  BY <2>1, <2>3, <1>0 DEF Consistent, Asking
<1>4. ASSUME Answered \/ Failed PROVE Consistent'
  <2>1. Done
    BY <1>4 DEF Answered, Failed
  <2>. QED  BY <2>1, <1>0 DEF Done, Consistent, Asking
<1>5. ASSUME Distilled PROVE Consistent'
  <2>1. PICK out \in Distillates : owners' = owners \cup ParseDistill(out, Bot).actors
    BY <1>5 DEF Distilled
  <2> DEFINE seen == ParseDistill(out, Bot).actors
  <2>2. seen \subseteq Text /\ IsFiniteSet(seen) /\ owners' = owners \cup seen
    BY <2>1, ActorsAre
  <2> HIDE DEF seen
  <2>3. owners' \subseteq Text
    BY <2>2, <1>0
  <2>4. IsFiniteSet(owners')
    BY <2>2, <1>0, FS_Union
  <2>5. UNCHANGED <<profile, files, recall, rule, phase, turn, prompt, said>>
    BY <1>5 DEF Distilled
  <2>. QED  BY <2>3, <2>4, <2>5, <1>0, ConsistentBeside
<1>6. ASSUME SceneOver PROVE Consistent'
  <2>1. /\ owners' = {} /\ recall' \in Recalls \cup {recall}
        /\ UNCHANGED <<profile, files, rule, phase, turn, prompt, said>>
    BY <1>6 DEF SceneOver
  <2>2. recall' \in Text
    BY <2>1, <1>0, PersonaAssumption DEF PersonaAssumption
  <2>3. owners' \subseteq Text /\ IsFiniteSet(owners')
    BY <2>1, FS_EmptySet
  <2>. QED  BY <2>1, <2>2, <2>3, <1>0, ConsistentBeside
<1>7. ASSUME Directed PROVE Consistent'
  BY <1>7, <1>0, ConsistentBeside DEF Directed
<1>8. ASSUME Edited PROVE Consistent'
  BY <1>8, <1>0, ConsistentBeside DEF Edited
<1>9. ASSUME UNCHANGED vars PROVE Consistent'
  BY <1>9, <1>0, ConsistentBeside DEF vars
<1>. QED  BY <1>1, <1>2, <1>3, <1>4, <1>5, <1>6, <1>7, <1>8, <1>9 DEF Next

\* The invariant holds: it is inductive.
THEOREM PersonaInvariant == Spec => []Consistent
BY ConsistentInit, ConsistentNext, PTL DEF Spec

-------------------------------------------------------------------------------
(* Persona: its properties *)

\* While the model is asked, the prompt is of the turn in hand.
LEMMA AskedOf ==
  ASSUME Consistent, Asking
  PROVE  /\ GoodTurn(turn)
         /\ prompt.ask = IF phase = "plan" THEN "plan" ELSE Compose(turn)
         /\ prompt.charter = (turn.mode = "rp")
         /\ \E fs \in Dossiers : \E hit : prompt.memories = Memories(fs, turn, hit)
<1>1. phase # "idle"
  BY DEF Asking
<1>2. GoodTurn(turn) /\ Prompted
  BY <1>1 DEF Consistent
<1>3. PICK doc \in Profiles, fs \in Dossiers, plan \in BOOLEAN : \E hit :
        prompt = Messages(turn, doc, Memories(fs, turn, hit), plan,
                          IF phase = "plan" THEN "plan" ELSE Compose(turn))
  BY <1>2 DEF Prompted
<1>5. PICK hit : prompt = Messages(turn, doc, Memories(fs, turn, hit), plan,
                                   IF phase = "plan" THEN "plan" ELSE Compose(turn))
  BY <1>3
<1>4. /\ prompt.ask = IF phase = "plan" THEN "plan" ELSE Compose(turn)
      /\ prompt.charter = (turn.mode = "rp")
      /\ prompt.memories = Memories(fs, turn, hit)
  BY <1>5 DEF Messages
<1>. QED  BY <1>2, <1>4

LEMMA ConsistentTypes == Consistent => TypeOK
<1> SUFFICES ASSUME Consistent PROVE TypeOK
  OBVIOUS
<1>1. phase # "idle" => turn # NoTurn /\ turn \in Turn
  <2>1. ASSUME phase # "idle" PROVE turn.mode \in {"chat", "rp"} /\ turn \in Turn
    BY <2>1, TurnFacts DEF Consistent, GoodTurn
  <2>2. NoTurn.mode = ""
    BY DEF NoTurn
  <2>3. "" \notin {"chat", "rp"}
    OBVIOUS
  <2>. QED  BY <2>1, <2>2, <2>3
<1>2. ASSUME Asking
      PROVE  /\ prompt.ask = IF phase = "plan" THEN "plan" ELSE Compose(turn)
             /\ Len(prompt.memories.claimed) <= MaxClaimed
             /\ Len(prompt.memories.unknown) <= MaxUnknown
             /\ Len(prompt.memories.shared) <= 4 /\ Len(prompt.memories.topics) <= 2
             /\ \A name \in ToSet(prompt.memories.claimed) : Lower(name) # Bot
  <2>1. /\ GoodTurn(turn)
        /\ prompt.ask = IF phase = "plan" THEN "plan" ELSE Compose(turn)
        /\ \E fs \in Dossiers : \E hit : prompt.memories = Memories(fs, turn, hit)
    BY <1>2, AskedOf
  <2> DEFINE m == prompt.memories
  <2>4. PICK fs \in Dossiers : \E hit : m = Memories(fs, turn, hit)
    BY <2>1
  <2>2. PICK hit : m = Memories(fs, turn, hit)
    BY <2>4
  <2> HIDE DEF m
  <2>3. /\ Len(m.claimed) <= MaxClaimed /\ Len(m.unknown) <= MaxUnknown
        /\ Len(m.shared) <= 4 /\ Len(m.topics) <= 2
        /\ \A name \in ToSet(m.claimed) : Lower(name) # Bot
    BY <2>1, <2>2, MemoriesAre
  <2>. QED  BY <2>1, <2>3 DEF m
<1>3. /\ profile \in Profiles /\ files \in Dossiers /\ rule \in BOOLEAN
      /\ phase \in {"idle", "plan", "compose", "said"}
      /\ phase = "idle" => turn = NoTurn
      /\ phase # "said" => said = Silence
      /\ ~Asking => prompt = NoPrompt
  BY DEF Consistent
<1>4. Asking => phase # "idle"
  BY DEF Asking
<1>. QED  BY <1>1, <1>2, <1>3, <1>4 DEF TypeOK

\* The types, what is asked for in each phase, and the limits of the blocks: no more
\* of the do-not-puppet list, of strangers' blurbs, of logs or of topics than the
\* code takes, and never the bot's own name among the names to leave alone.
THEOREM PersonaTyped == Spec => []TypeOK
BY PersonaInvariant, ConsistentTypes, PTL

LEMMA ConsistentScope == Consistent => InScope
<1> SUFFICES ASSUME Consistent, Asking
             PROVE  LET m == prompt.memories
                    IN  IF turn.mode = "rp"
                        THEN "ooc" \notin SectionsOf(m) /\ m.topics = <<>> /\ m.closest = {}
                             /\ prompt.charter
                        ELSE "ic" \notin SectionsOf(m) /\ m.shared = <<>> /\ m.claimed = <<>>
                             /\ m.unknown = <<>> /\ ~prompt.charter
  BY DEF InScope
<1> DEFINE m == prompt.memories
<1>1. GoodTurn(turn) /\ prompt.charter = (turn.mode = "rp")
  BY AskedOf
<1>9. PICK fs \in Dossiers : \E hit : m = Memories(fs, turn, hit)
  BY AskedOf
<1>2. PICK hit : m = Memories(fs, turn, hit)
  BY <1>9
<1> HIDE DEF m
<1>3. IF turn.mode = "rp"
      THEN "ooc" \notin SectionsOf(m) /\ m.topics = <<>> /\ m.closest = {}
      ELSE "ic" \notin SectionsOf(m) /\ m.shared = <<>> /\ m.claimed = <<>> /\ m.unknown = <<>>
  BY <1>1, <1>2, MemoriesAre
<1>. QED  BY <1>1, <1>3 DEF m

\* A pose is prompted with no OOC facet and nothing of the wiki's topics, a line of
\* chat with no IC facet and nothing of the scene (llm.py, _retrieve_memories), while
\* the profile and the dossiers change and the scene ends beside it.
THEOREM FacetsKeptApart == Spec => []InScope
BY PersonaInvariant, ConsistentScope, PTL

LEMMA ConsistentPosers == Consistent => PosersProtected
<1> SUFFICES ASSUME Consistent, Asking, turn.mode = "rp",
                    Len(prompt.memories.claimed) # MaxClaimed,
                    NEW l \in ToSet(turn.context), l.dbref
             PROVE  /\ \/ l.speaker = <<>> \/ Lower(l.speaker) = Bot
                       \/ l.speaker \in ToSet(prompt.memories.claimed)
                    /\ Cardinality({s \in Stems : Occurs(s, l.text)}) <= MaxNames =>
                         \A s \in Stems : Len(s) > 1 /\ Occurs(s, l.text) =>
                           Lower(Title[s]) = Bot \/ Title[s] \in ToSet(prompt.memories.claimed)
  BY DEF PosersProtected
<1> DEFINE claimed == prompt.memories.claimed
           m == prompt.memories
<1>1. GoodTurn(turn)
  BY AskedOf
<1>9. PICK fs \in Dossiers : \E hit : m = Memories(fs, turn, hit)
  BY AskedOf
<1>2. PICK hit : m = Memories(fs, turn, hit)
  BY <1>9
<1>3. claimed = Claimed(turn)
  <2> HIDE DEF m
  <2>1. turn.mode = "rp" => m.claimed = Claimed(turn)
    BY <1>1, <1>2, MemoriesAre
  <2>. QED  BY <2>1 DEF m
<1>4. turn \in Turn /\ IsFiniteSet(turn.claimed) /\ Len(claimed) # MaxClaimed
  BY <1>1 DEF GoodTurn
<1>5. PICK i \in DOMAIN turn.context : l = turn.context[i]
  BY DEF ToSet
<1>6. l.speaker \in Text /\ l.text \in Text
  BY <1>4, <1>5, TurnFacts, LineOf
<1> HIDE DEF claimed
<1>7. \A x \in {l.speaker} \cup ToSet(Mentioned(l.text)) :
        x = <<>> \/ Lower(x) = Bot \/ x \in ToSet(claimed)
  <2>1. \A c \in DOMAIN turn.context : turn.context[c].dbref =>
          \A x \in {turn.context[c].speaker} \cup ToSet(Mentioned(turn.context[c].text)) :
            x = <<>> \/ Lower(x) = Bot \/ x \in ToSet(Claimed(turn))
    BY <1>3, <1>4, ClaimedIs
  <2>. QED  BY <2>1, <1>3, <1>5
<1>8. ASSUME Cardinality({s \in Stems : Occurs(s, l.text)}) <= MaxNames,
             NEW s \in Stems, Len(s) > 1, Occurs(s, l.text)
      PROVE  Lower(Title[s]) = Bot \/ Title[s] \in ToSet(claimed)
  <2>1. Title[s] \in ToSet(Mentioned(l.text))
    BY <1>6, <1>8, FullNameMentioned
  <2>2. Title[s] # <<>>
    BY LoreAssumption DEF LoreAssumption
  <2>. QED  BY <2>1, <2>2, <1>7
<1>. QED  BY <1>7, <1>8 DEF claimed

\* Whoever poses in the scene and every character whose full name a pose has is on
\* the do-not-puppet list, unless it is full or the pose names too many (llm.py,
\* _retrieve_memories): for every cast, scene and length of the list.
THEOREM NobodyPuppeted == Spec => []PosersProtected
BY PersonaInvariant, ConsistentPosers, PTL

LEMMA RespondGrounded ==
  ASSUME NEW t, GoodTurn(t), NEW hit, Consistent, Respond(t, hit),
         NEW l \in ToSet(turn'.context), NEW s \in Stems, GroundedBy(turn', l, s),
         Kebab(Title[s]) = s, Facet(files[s], Scope(turn')) # <<>>, ~prompt'.memories.full
  PROVE  \E i \in DOMAIN prompt'.memories.dossiers : prompt'.memories.dossiers[i].stem = s
<1> DEFINE cast == Cast(t)
           found == Retrieve(files, cast, Scope(t))
           m == prompt'.memories
<1>1. turn' = t /\ m = Memories(files, t, hit)
  <2>1. turn' = t /\ prompt' = Messages(t, profile, Memories(files, t, hit), FALSE,
                            IF profile.thinking THEN "plan" ELSE Compose(t))
    BY DEF Respond
  <2>. QED  BY <2>1 DEF Messages
<1>2. t \in Turn /\ l \in ToSet(t.context) /\ GroundedBy(t, l, s)
  BY <1>1 DEF GoodTurn
<1>3. \E k \in DOMAIN cast : Kebab(cast[k]) = s
  BY <1>2, CastIs
<1>4. files \in [Stems -> Seq(Section)]
  BY PersonaAssumption DEF PersonaAssumption, Consistent
<1>5. Facet(files[s], Scope(t)) # <<>> /\ ~m.full
  BY <1>1
<1>6. m.dossiers = found.block /\ m.full = found.full
  BY <1>1, AboutIs DEF Memories
<1> HIDE DEF m, cast
<1>7. ~found.full => \E i \in DOMAIN found.block : found.block[i].stem = s
  <2>1. Complete(found, files, cast, Scope(t))
    BY <1>4, RetrieveIs
  <2> HIDE DEF found
  <2>. QED  BY <2>1, <1>3, <1>5 DEF Complete
<1> HIDE DEF found
<1>8. \E i \in DOMAIN m.dossiers : m.dossiers[i].stem = s
  BY <1>5, <1>6, <1>7
<1>. QED  BY <1>8 DEF m

LEMMA StepGrounded ==
  ASSUME Consistent, [Next]_vars, phase = "idle", phase' # "idle",
         NEW l \in ToSet(turn'.context), NEW s \in Stems, GroundedBy(turn', l, s),
         Kebab(Title[s]) = s, Facet(files[s], Scope(turn')) # <<>>, ~prompt'.memories.full
  PROVE  \E i \in DOMAIN prompt'.memories.dossiers : prompt'.memories.dossiers[i].stem = s
<1>1. ChatTurn \/ PoseTurn
  BY DEF Next, vars, Planned, Composed, Answered, Failed, Distilled, SceneOver, Directed, Edited
<1>2. PICK t, hit : GoodTurn(t) /\ Respond(t, hit)
  BY <1>1, TurnsAre
<1>. QED  BY <1>2, RespondGrounded

\* A speaker known by the name of a file, or by one word that is one character's
\* alone, brings that dossier into the prompt if there is room (llm.py, the cast of
\* _retrieve_memories; loader.py, mentioned and retrieve).
THEOREM SpeakersGrounded == Spec => CastGrounded
<1> DEFINE Grounded ==
      phase = "idle" /\ phase' # "idle" =>
        \A l \in ToSet(turn'.context) : \A s \in Stems :
          /\ \/ Lower(l.speaker) = s
             \/ /\ Len(l.speaker) = 1 /\ l.speaker[1].up /\ l.speaker[1].t \notin NameStop
                /\ NamedBy(l.speaker[1].t) = {s}
                /\ \A k \in ToSet(turn'.context) :
                     Lower(k.speaker) = Lower(l.speaker) => k.speaker = l.speaker
          /\ Kebab(Title[s]) = s
          /\ Facet(files[s], IF turn'.mode = "rp" THEN "ic" ELSE "ooc") # <<>>
          /\ ~prompt'.memories.full
          => \E i \in DOMAIN prompt'.memories.dossiers : prompt'.memories.dossiers[i].stem = s
<1>1. Consistent /\ [Next]_vars => Grounded
  BY StepGrounded DEF GroundedBy, Scope
<1>2. CastGrounded <=> [][Grounded]_vars
  BY DEF CastGrounded
<1> HIDE DEF Grounded
<1>. QED  BY <1>1, <1>2, PersonaInvariant, PTL DEF Spec
===============================================================================
