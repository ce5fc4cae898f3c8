------------------------------ MODULE Counting ------------------------------
(***************************************************************************)
(* Lemmas about counting, which the proofs of the other components share:  *)
(* the least of some numbers, induction and recursion, how often an        *)
(* element is in a sequence, since a queue neither loses nor repeats what  *)
(* is put in, and powers of two.                                           *)
(***************************************************************************)
EXTENDS Integers, Sequences, FunctionTheorems, FiniteSetTheorems,
        WellFoundedInduction, TLAPS

\* A set of naturals that is not empty has a least element.
LEMMA LeastElement ==
  ASSUME NEW T, T \subseteq Nat, T # {}
  PROVE  \E x \in T : \A y \in T : x <= y
<1> DEFINE R == {ij \in Nat \X Nat : ij[1] < ij[2]}
<1>1. IsWellFoundedOn(R, Nat)
  BY NatLessThanWellFounded DEF OpToRel
<1>2. PICK x \in T : \A y \in T : <<y, x>> \notin R
  <2> HIDE DEF R
  <2>1. QED
    BY <1>1, WFMin
<1>3. x \in Nat
  OBVIOUS
<1>4. ASSUME NEW y \in T PROVE x <= y
  <2>1. y \in Nat /\ <<y, x>> \notin R
    BY <1>2
  <2>2. ~(y < x)
    BY <2>1, <1>3
  <2>3. QED
    BY <2>1, <2>2, <1>3
<1>5. QED
  BY <1>4

\* A set that holds a number whenever it holds all smaller ones holds them all.
LEMMA Induction ==
  ASSUME NEW G,
         \A k \in Nat : (\A j \in 0..(k - 1) : j \in G) => k \in G
  PROVE  Nat \subseteq G
<1> DEFINE T == Nat \ G
<1>1. SUFFICES ASSUME T # {} PROVE FALSE
  OBVIOUS
<1>2. PICK k \in T : \A y \in T : k <= y
  BY <1>1, LeastElement
<1>3. k \in Nat /\ k \notin G
  OBVIOUS
<1>4. ASSUME NEW j \in 0..(k - 1) PROVE j \in G
  BY <1>2, <1>3
<1>5. QED
  BY <1>3, <1>4

\* A definition by recursion: where it ends the value is that of first, elsewhere
\* it follows from the value at next, which is smaller.
IsRecursion(D, S, ends, size, next, first, step) ==
  /\ ends \in SUBSET D /\ size \in [D -> Nat] /\ next \in [D -> D]
  /\ first \in [D -> S] /\ step \in [D \X S -> S]
  /\ \A n \in D \ ends : size[next[n]] < size[n]

\* f is the function so defined.
Recurs(f, D, S, ends, next, first, step) ==
  /\ f \in [D -> S]
  /\ \A n \in D : f[n] = IF n \in ends THEN first[n] ELSE step[<<n, f[next[n]]>>]

\* Such a function exists.
LEMMA Recursion ==
  ASSUME NEW D, NEW S, NEW ends, NEW size, NEW next, NEW first, NEW step,
         IsRecursion(D, S, ends, size, next, first, step)
  PROVE  \E f : Recurs(f, D, S, ends, next, first, step)
<1>1. /\ ends \in SUBSET D /\ size \in [D -> Nat] /\ next \in [D -> D]
      /\ first \in [D -> S] /\ step \in [D \X S -> S]
      /\ \A n \in D \ ends : size[next[n]] < size[n]
  BY DEF IsRecursion
<1> DEFINE Below(k) == {n \in D : size[n] <= k}
           Value(g, n) == IF n \in ends THEN first[n] ELSE step[<<n, g[next[n]]>>]
           Part(g, k) == /\ g \in [Below(k) -> S]
                         /\ \A n \in Below(k) : g[n] = Value(g, n)
<1>2. ASSUME NEW n \in D \ ends
      PROVE  next[n] \in D /\ size[n] \in Nat /\ size[next[n]] \in Nat
             /\ size[next[n]] < size[n]
  BY <1>1
<1>3. ASSUME NEW g, NEW h, NEW k \in Nat, NEW l \in Nat, Part(g, k), Part(h, l)
      PROVE  \A n \in Below(k) \cap Below(l) : g[n] = h[n]
  <2> DEFINE G == {m \in Nat : \A n \in Below(k) \cap Below(l) :
                                 size[n] = m => g[n] = h[n]}
  <2>1. ASSUME NEW m \in Nat, \A j \in 0..(m - 1) : j \in G
        PROVE  m \in G
    <3> SUFFICES ASSUME NEW n \in Below(k) \cap Below(l), size[n] = m
                 PROVE  Value(g, n) = Value(h, n)
      BY <1>3
    <3>1. CASE n \in ends
      BY <3>1
    <3>2. CASE n \notin ends
      <4>1. size[next[n]] \in 0..(m - 1) /\ next[n] \in Below(k) \cap Below(l)
        BY <3>2, <1>1, <1>2
      <4>2. g[next[n]] = h[next[n]]
        BY <4>1, <2>1
      <4>3. QED
        BY <4>2
    <3>3. QED
      BY <3>1, <3>2
  <2>2. Nat \subseteq G
    <3> HIDE DEF G
    <3>1. QED
      BY <2>1, Induction
  <2>3. \A n \in D : size[n] \in Nat
    BY <1>1
  <2>4. QED
    BY <2>2, <2>3
<1>4. \A k \in Nat : \E g : Part(g, k)
  <2> DEFINE G == {k \in Nat : \E g : Part(g, k)}
  <2>1. ASSUME NEW k \in Nat, \A j \in 0..(k - 1) : j \in G
        PROVE  k \in G
    <3>1. CASE k = 0
      <4> DEFINE g == [n \in Below(k) |-> first[n]]
      <4>1. \A n \in Below(k) : n \in ends
        BY <3>1, <1>1, <1>2
      <4>2. Part(g, k)
        BY <1>1, <4>1
      <4>3. QED
        BY <4>2, Zenon
    <3>2. CASE k # 0
      <4>1. PICK h : Part(h, k - 1)
        <5>1. k - 1 \in 0..(k - 1)
          BY <3>2
        <5>2. QED
          BY <5>1, <2>1, Zenon
      <4> DEFINE g == [n \in Below(k) |-> Value(h, n)]
      <4>2. ASSUME NEW n \in Below(k) \ ends
            PROVE  next[n] \in Below(k - 1) /\ next[n] \in Below(k)
        BY <1>1, <1>2
      <4>3. ASSUME NEW n \in Below(k) PROVE Value(h, n) \in S
        <5>1. CASE n \in ends
          BY <1>1, <5>1
        <5>2. CASE n \notin ends
          <6>1. h[next[n]] \in S
            BY <4>1, <4>2, <5>2
          <6>2. QED
            BY <1>1, <5>2, <6>1
        <5>3. QED
          BY <5>1, <5>2
      <4>4. ASSUME NEW n \in Below(k) PROVE g[n] = Value(g, n)
        <5>1. CASE n \in ends
          BY <5>1
        <5>2. CASE n \notin ends
          <6>1. g[next[n]] = Value(h, next[n])
            BY <4>2, <5>2
          <6>2. h[next[n]] = Value(h, next[n])
            BY <4>1, <4>2, <5>2
          <6>3. QED
            BY <5>2, <6>1, <6>2
        <5>3. QED
          BY <5>1, <5>2
      <4>5. g \in [Below(k) -> S]
        <5> HIDE DEF Below, Value
        <5>1. QED
          BY <4>3
      <4>6. Part(g, k)
        <5> HIDE DEF Below, Value, g
        <5>1. QED
          BY <4>4, <4>5
      <4>7. QED
        BY <4>6, Zenon
    <3>3. QED
      BY <3>1, <3>2
  <2>2. Nat \subseteq G
    <3> HIDE DEF G
    <3>1. QED
      BY <2>1, Induction
  <2>3. QED
    BY <2>2
<1> DEFINE Of(n) == CHOOSE g : Part(g, size[n])
           f == [n \in D |-> Of(n)[n]]
<1>5. ASSUME NEW n \in D
      PROVE  Part(Of(n), size[n]) /\ n \in Below(size[n]) /\ size[n] \in Nat
  <2>1. size[n] \in Nat
    BY <1>1
  <2>2. \E g : Part(g, size[n])
    <3> HIDE DEF Part
    <3>1. QED
      BY <2>1, <1>4
  <2>3. Part(Of(n), size[n])
    <3> HIDE DEF Part
    <3>1. QED
      BY <2>2, Zenon
  <2>4. QED
    <3> HIDE DEF Of, Part
    <3>1. QED
      BY <2>1, <2>3
<1> HIDE DEF Of
<1>6. f \in [D -> S]
  <2> SUFFICES ASSUME NEW n \in D PROVE Of(n)[n] \in S
    OBVIOUS
  <2>1. QED
    BY <1>5
<1>7. ASSUME NEW n \in D PROVE f[n] = Value(f, n)
  <2>1. f[n] = Value(Of(n), n)
    BY <1>5
  <2>2. CASE n \in ends
    BY <2>1, <2>2
  <2>3. CASE n \notin ends
    <3>1. next[n] \in D /\ next[n] \in Below(size[n])
      BY <1>2, <2>3
    <3>2. next[n] \in Below(size[next[n]])
          /\ Part(Of(next[n]), size[next[n]]) /\ size[next[n]] \in Nat
      <4> HIDE DEF Part, Below
      <4>1. QED
        BY <3>1, <1>5
    <3>3. Of(n)[next[n]] = Of(next[n])[next[n]]
      <4> HIDE DEF Part, Below
      <4>1. QED
        BY <1>3, <1>5, <3>1, <3>2
    <3>4. f[next[n]] = Of(next[n])[next[n]]
      BY <3>1
    <3>5. QED
      BY <2>1, <2>3, <3>3, <3>4
  <2>4. QED
    BY <2>2, <2>3
<1> HIDE DEF f
<1>8. Recurs(f, D, S, ends, next, first, step)
  BY <1>6, <1>7 DEF Recurs
<1>9. QED
  BY <1>8

\* The places of x in a sequence s.
At(s, x) == {i \in 1..Len(s) : s[i] = x}

\* A sequence has finitely many places.
LEMMA CountType ==
  ASSUME NEW S, NEW s \in Seq(S), NEW x
  PROVE  IsFiniteSet(At(s, x)) /\ Cardinality(At(s, x)) \in Nat
<1>1. IsFiniteSet(1..Len(s))
  BY FS_Interval
<1>2. At(s, x) \in SUBSET (1..Len(s))
  BY DEF At
<1>3. QED
  BY <1>1, <1>2, FS_Subset, FS_CardinalityType

\* What is in a sequence has a place there.
LEMMA CountMember ==
  ASSUME NEW S, NEW s \in Seq(S), NEW i \in 1..Len(s)
  PROVE  Cardinality(At(s, s[i])) >= 1
<1>1. i \in At(s, s[i])
  BY DEF At
<1>2. QED
  BY <1>1, CountType, FS_EmptySet

\* At the end of a sequence one place is added.
LEMMA CountAppend ==
  ASSUME NEW S, NEW s \in Seq(S), NEW y \in S, NEW x
  PROVE  Cardinality(At(Append(s, y), x)) =
           Cardinality(At(s, x)) + (IF y = x THEN 1 ELSE 0)
<1>1. At(Append(s, y), x) = IF y = x THEN At(s, x) \cup {Len(s) + 1}
                                     ELSE At(s, x)
  BY DEF At
<1>2. Len(s) + 1 \notin At(s, x)
  BY DEF At
<1>3. IsFiniteSet(At(s, x)) /\ Cardinality(At(s, x)) \in Nat
  BY CountType
<1>4. Cardinality(At(s, x) \cup {Len(s) + 1}) = Cardinality(At(s, x)) + 1
  BY <1>2, <1>3, FS_AddElement
<1>5. QED
  BY <1>1, <1>3, <1>4

\* Without its head a sequence has one place less.
LEMMA CountTail ==
  ASSUME NEW S, NEW s \in Seq(S), s # <<>>, NEW x
  PROVE  Cardinality(At(Tail(s), x)) =
           Cardinality(At(s, x)) - (IF Head(s) = x THEN 1 ELSE 0)
<1> DEFINE later == At(s, x) \ {1}
           shift == [i \in At(Tail(s), x) |-> i + 1]
<1>1. Tail(s) \in Seq(S) /\ Len(Tail(s)) = Len(s) - 1 /\ Len(s) \in Nat \ {0}
  OBVIOUS
<1>2. \A i \in 1..(Len(s) - 1) : Tail(s)[i] = s[i + 1]
  OBVIOUS
<1>3. shift \in [At(Tail(s), x) -> later]
  BY <1>1, <1>2 DEF At
<1>4. \A i, j \in At(Tail(s), x) : shift[i] = shift[j] => i = j
  BY DEF At
<1>5. \A k \in later : \E i \in At(Tail(s), x) : shift[i] = k
  <2> SUFFICES ASSUME NEW k \in later
               PROVE  k - 1 \in At(Tail(s), x) /\ shift[k - 1] = k
    OBVIOUS
  <2>1. k \in 2..Len(s) /\ s[k] = x
    BY <1>1 DEF At
  <2>2. QED
    BY <1>1, <1>2, <2>1 DEF At
<1>6. shift \in Bijection(At(Tail(s), x), later)
  BY <1>3, <1>4, <1>5, Fun_IsBij
<1>7. /\ IsFiniteSet(At(s, x)) /\ Cardinality(At(s, x)) \in Nat
      /\ IsFiniteSet(At(Tail(s), x))
  BY <1>1, CountType
<1> HIDE DEF later, shift
<1>8. Cardinality(later) = Cardinality(At(Tail(s), x))
  BY <1>6, <1>7, FS_Bijection DEF ExistsBijection
<1>9. 1 \in At(s, x) <=> Head(s) = x
  BY <1>1 DEF At
<1>10. Cardinality(later) = Cardinality(At(s, x)) - (IF Head(s) = x THEN 1 ELSE 0)
  <2>1. Cardinality(later) = IF 1 \in At(s, x) THEN Cardinality(At(s, x)) - 1
                                               ELSE Cardinality(At(s, x))
    BY <1>7, FS_RemoveElement DEF later
  <2>2. QED
    BY <1>7, <1>9, <2>1
<1>11. QED
  BY <1>8, <1>10

\* 2^n counts the subsets of n elements, so one more doubles it.
LEMMA PowerOfTwo ==
  ASSUME NEW n \in Nat
  PROVE  2^n \in Nat \ {0} /\ 2^(n + 1) = 2 * 2^n
<1> DEFINE S == 1..n
           without == SUBSET S
           with == {T \cup {n + 1} : T \in without}
           add == [T \in without |-> T \cup {n + 1}]
<1>1. /\ IsFiniteSet(S) /\ Cardinality(S) = n /\ n + 1 \notin S
      /\ IsFiniteSet(S \cup {n + 1}) /\ Cardinality(S \cup {n + 1}) = n + 1
  <2>1. IsFiniteSet(S) /\ Cardinality(S) = n
    BY FS_Interval
  <2>2. n + 1 \notin S
    OBVIOUS
  <2> HIDE DEF S
  <2>3. QED
    BY <2>1, <2>2, FS_AddElement
<1> HIDE DEF S
<1>2. IsFiniteSet(without) /\ Cardinality(without) = 2^n
  BY <1>1, FS_SUBSET
<1>3. Cardinality(SUBSET (S \cup {n + 1})) = 2^(n + 1)
  BY <1>1, FS_SUBSET
<1>4. add \in Bijection(without, with)
  <2>1. add \in [without -> with]
    OBVIOUS
  <2>2. \A T, U \in without : add[T] = add[U] => T = U
    BY <1>1
  <2>3. \A V \in with : \E T \in without : add[T] = V
    OBVIOUS
  <2>4. QED
    BY <2>1, <2>2, <2>3, Fun_IsBij
<1>5. IsFiniteSet(with) /\ Cardinality(with) = Cardinality(without)
  <2> HIDE DEF add, with, without
  <2>1. QED
    BY <1>2, <1>4, FS_Bijection DEF ExistsBijection
<1>6. SUBSET (S \cup {n + 1}) = without \cup with /\ without \cap with = {}
  <2>1. ASSUME NEW V \in SUBSET (S \cup {n + 1}) PROVE V \in without \cup with
    <3>1. CASE n + 1 \in V
      <4>1. V \ {n + 1} \in without /\ V = (V \ {n + 1}) \cup {n + 1}
        BY <3>1
      <4>2. QED
        BY <4>1
    <3>2. CASE n + 1 \notin V
      BY <3>2
    <3>3. QED
      BY <3>1, <3>2
  <2>2. without \cup with \subseteq SUBSET (S \cup {n + 1})
    OBVIOUS
  <2>3. without \cap with = {}
    BY <1>1
  <2>4. SUBSET (S \cup {n + 1}) \subseteq without \cup with
    <3> HIDE DEF without, with
    <3>1. QED
      BY <2>1
  <2>5. QED
    <3> HIDE DEF without, with
    <3>1. QED
      BY <2>2, <2>3, <2>4
<1>7. Cardinality(without \cup with) = Cardinality(without) + Cardinality(with)
  <2> HIDE DEF with, without
  <2>1. Cardinality(without \cap with) = 0
    BY <1>6, FS_EmptySet
  <2>2. Cardinality(without \cup with) =
          Cardinality(without) + Cardinality(with) - Cardinality(without \cap with)
    BY <1>2, <1>5, FS_Union
  <2>3. Cardinality(without) \in Nat /\ Cardinality(with) \in Nat
    BY <1>2, <1>5, FS_CardinalityType
  <2>4. QED
    BY <2>1, <2>2, <2>3
<1>8. Cardinality(without) \in Nat /\ Cardinality(without) # 0
  BY <1>2, FS_CardinalityType, FS_EmptySet
<1> HIDE DEF with, without
<1> DEFINE p == 2^n  q == 2^(n + 1)
<1>9. Cardinality(without) = p /\ q = Cardinality(without) + Cardinality(without)
  BY <1>2, <1>3, <1>5, <1>6, <1>7, Zenon
<1> HIDE DEF p, q
<1>10. p \in Nat \ {0} /\ q = 2 * p
  BY <1>8, <1>9
<1>11. QED
  BY <1>10, Zenon DEF p, q

\* 2^n grows with n.
LEMMA PowersGrow ==
  ASSUME NEW n \in Nat
  PROVE  \A k \in Nat : 2^n <= 2^(n + k)
<1> DEFINE p(k) == 2^(n + k)
           G == {k \in Nat : p(0) <= p(k)}
<1>1. \A k \in Nat : p(k) \in Nat /\ p(k + 1) = 2 * p(k)
  <2> TAKE k \in Nat
  <2>1. n + k \in Nat /\ n + (k + 1) = n + k + 1
    OBVIOUS
  <2>2. 2^(n + k) \in Nat \ {0} /\ 2^(n + k + 1) = 2 * 2^(n + k)
    BY <2>1, PowerOfTwo
  <2>3. p(k) \in Nat \ {0} /\ p(k + 1) = 2 * p(k)
    BY <2>1, <2>2, Zenon
  <2>4. QED
    BY <2>3
<1>2. p(0) = 2^n
  <2>1. n + 0 = n
    OBVIOUS
  <2>2. QED
    BY <2>1, Zenon
<1> HIDE DEF p
<1>3. ASSUME NEW k \in Nat, \A j \in 0..(k - 1) : j \in G PROVE k \in G
  <2>1. CASE k = 0
    BY <1>1, <2>1
  <2>2. CASE k # 0
    <3>1. PICK j \in Nat : k = j + 1 /\ j \in 0..(k - 1)
      <4>1. k - 1 \in Nat /\ k = (k - 1) + 1 /\ k - 1 \in 0..(k - 1)
        BY <2>2
      <4>2. QED
        BY <4>1
    <3>2. p(0) <= p(j)
      BY <1>3, <3>1
    <3>3. p(0) \in Nat /\ p(j) \in Nat /\ p(j + 1) = 2 * p(j)
      BY <1>1
    <3>4. p(0) <= p(j + 1)
      BY <3>2, <3>3
    <3>5. QED
      BY <3>1, <3>4
  <2>3. QED
    BY <2>1, <2>2
<1>4. Nat \subseteq G
  <2> HIDE DEF G
  <2>1. QED
    BY <1>3, Induction
<1>5. QED
  BY <1>2, <1>4 DEF p
=============================================================================
