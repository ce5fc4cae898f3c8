------------------------- MODULE BinaryHeap_proofs -------------------------
(***************************************************************************)
(* Proofs about BinaryHeap, for a heap of any size and any order Less: the *)
(* percolations keep every element, restore the order of the heap, and the *)
(* top is a least element.                                                 *)
(*                                                                         *)
(* The induction along a path of the tree rests on WFMin, every set of     *)
(* naturals that is not empty having a least element.                      *)
(***************************************************************************)
EXTENDS BinaryHeap, Counting

-----------------------------------------------------------------------------
(* Paths. *)

\* A step of next goes down by rank until it stays where it is.
Descends(next, rank, n) ==
  /\ n \in Nat
  /\ next \in [1..n -> 1..n]
  /\ rank \in [1..n -> 0..n]
  /\ \A i \in 1..n : next[i] # i => rank[next[i]] < rank[i]

\* f[i] is the set of the indexes from i on.
IsPath(f, next, n) ==
  f = [i \in 1..n |-> IF next[i] = i THEN {i} ELSE {i} \cup f[next[i]]]

\* The equation that defines the paths has a solution.
LEMMA PathExists ==
  ASSUME NEW n, NEW next, NEW rank, Descends(next, rank, n)
  PROVE  \E f : IsPath(f, next, n)
<1> DEFINE Low(k) == {i \in 1..n : rank[i] <= k}
           Sol(f, k) == f = [i \in Low(k) |-> IF next[i] = i THEN {i}
                                              ELSE {i} \cup f[next[i]]]
           G == {k \in Nat : \E f : Sol(f, k)}
<1>1. ASSUME NEW k \in Nat, \A j \in 0..(k - 1) : j \in G
      PROVE  k \in G
  <2>1. PICK g : k > 0 => Sol(g, k - 1)
    <3>1. CASE k = 0
      BY <3>1
    <3>2. CASE k > 0
      <4>1. k - 1 \in 0..(k - 1)
        BY <3>2
      <4>2. k - 1 \in G
        BY <1>1, <4>1
      <4>3. QED
        BY <4>2
    <3>3. QED
      BY <3>1, <3>2
  <2> DEFINE g1 == [i \in Low(k) |->
                      IF k > 0 /\ i \in Low(k - 1) THEN g[i]
                      ELSE IF next[i] = i THEN {i} ELSE {i} \cup g[next[i]]]
  <2>2. ASSUME NEW i \in Low(k), next[i] # i
        PROVE  k > 0 /\ next[i] \in Low(k - 1)
    BY <2>2, SMTT(30) DEF Descends
  <2>3. ASSUME NEW i \in Low(k)
        PROVE  g1[i] = IF next[i] = i THEN {i} ELSE {i} \cup g1[next[i]]
    <3>1. CASE next[i] = i
      BY <3>1, <2>1
    <3>2. CASE next[i] # i
      <4>1. k > 0 /\ next[i] \in Low(k - 1) /\ next[i] \in Low(k)
        BY <3>2, <2>2 DEF Descends
      <4>2. g1[next[i]] = g[next[i]]
        BY <4>1
      <4>3. i \in Low(k - 1) => g[i] = {i} \cup g[next[i]]
        BY <4>1, <3>2, <2>1
      <4>4. QED
        BY <4>1, <4>2, <4>3, <3>2
    <3>3. QED
      BY <3>1, <3>2
  <2>4. g1 = [i \in Low(k) |-> g1[i]]
    OBVIOUS
  <2>5. Sol(g1, k)
    <3> HIDE DEF g1
    <3>1. QED
      BY <2>3, <2>4
  <2>6. QED
    BY <2>5
<1>2. Nat \subseteq G
  <2> HIDE DEF G
  <2>1. QED
    BY <1>1, Induction
<1>3. Low(n) = 1..n /\ n \in Nat
  BY DEF Descends
<1>4. PICK f : Sol(f, n)
  BY <1>2, <1>3
<1>5. IsPath(f, next, n)
  BY <1>3, <1>4 DEF IsPath
<1>6. QED
  BY <1>5

\* P is a path from s: next leads from index to index of P, no two lead to the
\* same one, none leads to s, all but s are led to, and exactly one stays.
Chain(P, next, s) ==
  /\ s \in P
  /\ \A i \in P : next[i] \in P
  /\ \A j \in P : next[j] = s => j = s
  /\ \A i, j \in P : next[i] = next[j] /\ next[i] # i /\ next[j] # j => i = j
  /\ \A i \in P \ {s} : \E j \in P : next[j] = i /\ j # i
  /\ \E e \in P : next[e] = e /\ \A i \in P : next[i] = i => i = e

\* A path goes down by rank.
Below(P, rank, s, n) == P \subseteq 1..n /\ \A i \in P : rank[i] <= rank[s]

\* What f collects is a path.
LEMMA PathIsChain ==
  ASSUME NEW n, NEW next, NEW rank, Descends(next, rank, n),
         NEW f, IsPath(f, next, n), NEW start \in 1..n
  PROVE  Chain(f[start], next, start) /\ f[start] \subseteq 1..n
<1> DEFINE Good(s) == Chain(f[s], next, s) /\ Below(f[s], rank, s, n)
           G == {k \in Nat : \A s \in 1..n : rank[s] = k => Good(s)}
<1>1. ASSUME NEW s \in 1..n
      PROVE  f[s] = IF next[s] = s THEN {s} ELSE {s} \cup f[next[s]]
  BY DEF IsPath
<1>2. ASSUME NEW s \in 1..n, next[s] = s PROVE Good(s)
  <2>1. f[s] = {s}
    BY <1>1, <1>2
  <2>2. rank[s] \in Nat
    BY DEF Descends
  <2>3. QED
    BY <2>1, <2>2, <1>2 DEF Chain, Below
<1>3. ASSUME NEW s \in 1..n, next[s] # s, Good(next[s]) PROVE Good(s)
  <2> DEFINE t == next[s]
  <2>1. t \in 1..n /\ rank[t] < rank[s] /\ rank[t] \in Nat /\ rank[s] \in Nat
    BY <1>3 DEF Descends
  <2>2. f[s] = {s} \cup f[t]
    BY <1>1, <1>3
  <2>3. Chain(f[t], next, t)
    BY <1>3
  <2>4. f[t] \subseteq 1..n /\ \A i \in f[t] : rank[i] <= rank[t]
    BY <1>3 DEF Below
  <2>5. \A i \in f[t] : rank[i] \in Nat /\ rank[i] < rank[s]
    <3> SUFFICES ASSUME NEW i \in f[t] PROVE rank[i] \in Nat /\ rank[i] < rank[s]
      OBVIOUS
    <3>1. rank[i] \in Nat
      BY <2>4 DEF Descends
    <3>2. rank[i] <= rank[t]
      BY <2>4
    <3> HIDE DEF t
    <3>3. QED
      BY <3>1, <3>2, <2>1
  <2>6. s \notin f[t]
    BY <2>1, <2>5
  <2>7. Below(f[s], rank, s, n)
    <3>1. f[s] \subseteq 1..n
      BY <2>2, <2>4
    <3>2. ASSUME NEW i \in f[s] PROVE rank[i] <= rank[s]
      BY <2>1, <2>2, <2>5
    <3>3. QED
      BY <3>1, <3>2 DEF Below
  <2>8. Chain(f[s], next, s)
    <3> HIDE DEF t
    <3>1. next[s] = t /\ t # s /\ t \in f[t]
      BY <1>3, <2>3 DEF t, Chain
    <3>2. \A i \in f[t] : next[i] \in f[t]
      BY <2>3 DEF Chain
    <3>3. \A i \in f[s] : next[i] \in f[s]
      BY <3>1, <3>2, <2>2
    <3>4. \A j \in f[s] : next[j] # s
      BY <3>1, <3>2, <2>2, <2>6
    <3>5. \A i, j \in f[s] :
            next[i] = next[j] /\ next[i] # i /\ next[j] # j => i = j
      <4>1. \A i, j \in f[t] :
              next[i] = next[j] /\ next[i] # i /\ next[j] # j => i = j
        BY <2>3 DEF Chain
      <4>2. \A j \in f[t] : next[j] = t => j = t
        BY <2>3 DEF Chain
      <4>3. \A j \in f[t] : next[j] = next[s] => next[j] = j
        BY <4>2, <3>1
      <4>4. QED
        BY <4>1, <4>3, <2>2
    <3>6. \A i \in f[s] \ {s} : \E j \in f[s] : next[j] = i /\ j # i
      <4>1. \A i \in f[t] \ {t} : \E j \in f[t] : next[j] = i /\ j # i
        BY <2>3 DEF Chain
      <4>2. QED
        BY <4>1, <3>1, <2>2
    <3>7. \E e \in f[s] : next[e] = e /\ \A i \in f[s] : next[i] = i => i = e
      <4>1. PICK e \in f[t] :
               next[e] = e /\ \A i \in f[t] : next[i] = i => i = e
        BY <2>3 DEF Chain
      <4>2. QED
        BY <4>1, <3>1, <2>2
    <3>8. QED
      BY <2>2, <3>3, <3>4, <3>5, <3>6, <3>7 DEF Chain
  <2>9. QED
    BY <2>7, <2>8
<1>4. ASSUME NEW k \in Nat, \A j \in 0..(k - 1) : j \in G
      PROVE  k \in G
  <2> SUFFICES ASSUME NEW s \in 1..n, rank[s] = k PROVE Good(s)
    BY DEF G
  <2>1. CASE next[s] = s
    BY <2>1, <1>2
  <2>2. CASE next[s] # s
    <3>1. next[s] \in 1..n /\ rank[next[s]] \in Nat /\ rank[next[s]] < k
      BY <2>2 DEF Descends
    <3>2. rank[next[s]] \in G
      BY <3>1, <1>4
    <3>3. Good(next[s])
      BY <3>1, <3>2
    <3> HIDE DEF Good
    <3>4. QED
      BY <3>3, <2>2, <1>3
  <2>3. QED
    BY <2>1, <2>2
<1>5. Nat \subseteq G
  <2> HIDE DEF G
  <2>1. QED
    BY <1>4, Induction
<1>6. rank[start] \in Nat
  BY DEF Descends
<1>7. Good(start)
  <2> HIDE DEF Good
  <2>1. QED
    BY <1>5, <1>6
<1>8. QED
  BY <1>7 DEF Below

-----------------------------------------------------------------------------
(* Moving along a path. *)

\* What is moved along the path P.
Moved(v, P, next, start) ==
  [i \in 1..Len(v) |-> IF i \notin P THEN v[i]
                       ELSE IF next[i] = i THEN v[start]
                       ELSE v[next[i]]]

\* moveAlong() moves the elements along a path.
LEMMA MovesAlongPath ==
  ASSUME NEW v, NEW next, NEW rank, Descends(next, rank, Len(v)),
         NEW start \in 1..Len(v)
  PROVE  \E P : /\ Chain(P, next, start) /\ P \subseteq 1..Len(v)
                /\ moveAlong(v, next, start) = Moved(v, P, next, start)
<1> DEFINE n == Len(v)
           f == CHOOSE f : IsPath(f, next, n)
<1>1. IsPath(f, next, n)
  BY PathExists
<1>2. moveAlong(v, next, start) = Moved(v, f[start], next, start)
  BY DEF moveAlong, Moved, IsPath
<1>3. Chain(f[start], next, start) /\ f[start] \subseteq 1..n
  <2> HIDE DEF f
  <2>1. QED
    BY <1>1, PathIsChain
<1>4. QED
  BY <1>2, <1>3

\* w has the elements of v in other places.
Rearranged(w, v) ==
  /\ Len(w) = Len(v)
  /\ \E place \in Bijection(1..Len(v), 1..Len(v)) :
       \A i \in 1..Len(v) : w[i] = v[place[i]]

\* Moving along a path neither loses nor repeats an element.
LEMMA MovedIsRearranged ==
  ASSUME NEW S, NEW v \in Seq(S), NEW P, NEW next, NEW start \in 1..Len(v),
         Chain(P, next, start), P \subseteq 1..Len(v)
  PROVE  LET w == Moved(v, P, next, start) IN w \in Seq(S) /\ Rearranged(w, v)
<1> DEFINE n == Len(v)
           w == Moved(v, P, next, start)
           place == [i \in 1..n |-> IF i \notin P THEN i
                                    ELSE IF next[i] = i THEN start
                                    ELSE next[i]]
<1>1. place \in [1..n -> 1..n]
  BY DEF Chain
<1>2. ASSUME NEW i \in 1..n PROVE w[i] = v[place[i]]
  BY DEF Moved
<1>3. ASSUME NEW i \in 1..n, NEW j \in 1..n, place[i] = place[j] PROVE i = j
  <2>1. CASE i \in P /\ j \in P
    <3>1. CASE next[i] = i /\ next[j] = j
      BY <2>1, <3>1 DEF Chain
    <3>2. CASE next[i] = i /\ next[j] # j
      BY <2>1, <3>2, <1>3 DEF Chain
    <3>3. CASE next[i] # i /\ next[j] = j
      BY <2>1, <3>3, <1>3 DEF Chain
    <3>4. CASE next[i] # i /\ next[j] # j
      BY <2>1, <3>4, <1>3 DEF Chain
    <3>5. QED
      BY <3>1, <3>2, <3>3, <3>4
  <2>2. CASE i \notin P \/ j \notin P
    BY <2>2, <1>3 DEF Chain
  <2>3. QED
    BY <2>1, <2>2
<1>4. ASSUME NEW y \in 1..n PROVE \E i \in 1..n : place[i] = y
  <2>1. CASE y \notin P
    BY <2>1
  <2>2. CASE y = start
    <3>1. PICK e \in P : next[e] = e
      BY DEF Chain
    <3>2. QED
      BY <2>2, <3>1
  <2>3. CASE y \in P \ {start}
    <3>1. PICK j \in P : next[j] = y /\ j # y
      BY <2>3 DEF Chain
    <3>2. QED
      BY <3>1
  <2>4. QED
    BY <2>1, <2>2, <2>3
<1>5. place \in Bijection(1..n, 1..n)
  <2> HIDE DEF place
  <2>1. QED
    BY <1>1, <1>3, <1>4, Fun_IsBij
<1>6. w \in Seq(S) /\ Len(w) = n
  <2>1. w \in [1..n -> S]
    BY <1>1, <1>2 DEF Moved, Chain
  <2>2. n \in Nat
    OBVIOUS
  <2>3. QED
    BY <2>1, <2>2
<1>7. QED
  BY <1>2, <1>5, <1>6 DEF Rearranged

\* What a bijection is.
LEMMA BijectionMeans ==
  ASSUME NEW S, NEW T, NEW p \in Bijection(S, T)
  PROVE  /\ p \in [S -> T]
         /\ \A i, j \in S : p[i] = p[j] => i = j
         /\ \A k \in T : \E i \in S : p[i] = k
<1>1. p \in Injection(S, T) /\ p \in Surjection(S, T)
  BY DEF Bijection
<1>2. p \in [S -> T] /\ IsInjective(p)
  BY <1>1 DEF Injection
<1>3. \A i, j \in S : p[i] = p[j] => i = j
  BY <1>2 DEF IsInjective
<1>4. QED
  BY <1>1, <1>2, <1>3 DEF Surjection

\* Elements that change places twice change places.
LEMMA RearrangedAgain ==
  ASSUME NEW u, NEW v, NEW w, Len(v) \in Nat,
         Rearranged(w, v), Rearranged(v, u)
  PROVE  Rearranged(w, u)
<1> DEFINE n == Len(v)
<1>1. PICK p \in Bijection(1..n, 1..n) : \A i \in 1..n : w[i] = v[p[i]]
  BY DEF Rearranged
<1>2. PICK q \in Bijection(1..n, 1..n) : \A i \in 1..n : v[i] = u[q[i]]
  BY DEF Rearranged
<1> DEFINE r == [i \in 1..n |-> q[p[i]]]
<1>3. r \in Bijection(1..n, 1..n)
  BY Fun_BijTransitive
<1>4. p \in [1..n -> 1..n]
  BY BijectionMeans
<1>5. \A i \in 1..n : w[i] = u[r[i]]
  BY <1>1, <1>2, <1>4
<1>6. QED
  BY <1>3, <1>5 DEF Rearranged

\* Elements in other places are as many of each kind.
LEMMA CountRearranged ==
  ASSUME NEW S, NEW v \in Seq(S), NEW w, Rearranged(w, v), NEW x
  PROVE  Cardinality(At(w, x)) = Cardinality(At(v, x))
<1> DEFINE n == Len(v)
<1>1. PICK p \in Bijection(1..n, 1..n) : \A i \in 1..n : w[i] = v[p[i]]
  BY DEF Rearranged
<1> DEFINE q == [i \in At(w, x) |-> p[i]]
<1>2. /\ p \in [1..n -> 1..n]
      /\ \A i, j \in 1..n : p[i] = p[j] => i = j
      /\ \A k \in 1..n : \E i \in 1..n : p[i] = k
  <2> DEFINE S1 == 1..n
  <2>1. p \in Bijection(S1, S1)
    BY <1>1
  <2> HIDE DEF S1
  <2>2. /\ p \in [S1 -> S1]
        /\ \A i, j \in S1 : p[i] = p[j] => i = j
        /\ \A k \in S1 : \E i \in S1 : p[i] = k
    BY <2>1, BijectionMeans
  <2>3. QED
    BY <2>2 DEF S1
<1>3. At(w, x) = {i \in 1..n : w[i] = x} /\ At(v, x) = {i \in 1..n : v[i] = x}
  BY DEF At, Rearranged
<1>4. q \in [At(w, x) -> At(v, x)]
  BY <1>1, <1>2, <1>3
<1>5. \A i, j \in At(w, x) : q[i] = q[j] => i = j
  BY <1>2, <1>3
<1>6. ASSUME NEW k \in At(v, x) PROVE \E i \in At(w, x) : q[i] = k
  <2>1. k \in 1..n /\ v[k] = x
    BY <1>3
  <2>2. PICK i \in 1..n : p[i] = k
    BY <1>2, <2>1
  <2>3. i \in At(w, x)
    BY <1>1, <1>3, <2>1, <2>2
  <2>4. QED
    BY <2>2, <2>3
<1>7. q \in Bijection(At(w, x), At(v, x))
  <2> HIDE DEF q
  <2>1. QED
    BY <1>4, <1>5, <1>6, Fun_IsBij
<1>8. ExistsBijection(At(v, x), At(w, x)) /\ ExistsBijection(At(w, x), At(v, x))
  BY <1>7, Fun_ExistsBijSymmetric DEF ExistsBijection
<1>9. IsFiniteSet(At(v, x))
  BY CountType
<1>10. QED
  BY <1>8, <1>9, FS_Bijection

\* Elements in other places are the same ones.
LEMMA SameRearranged ==
  ASSUME NEW S, NEW v \in Seq(S), NEW w, Rearranged(w, v)
  PROVE  /\ {w[i] : i \in 1..Len(w)} = {v[i] : i \in 1..Len(v)}
         /\ (\A i, j \in 1..Len(v) : v[i] = v[j] => i = j) =>
              \A i, j \in 1..Len(w) : w[i] = w[j] => i = j
<1> DEFINE n == Len(v)
<1>1. PICK p \in Bijection(1..n, 1..n) : \A i \in 1..n : w[i] = v[p[i]]
  BY DEF Rearranged
<1>2. /\ p \in [1..n -> 1..n]
      /\ \A i, j \in 1..n : p[i] = p[j] => i = j
      /\ \A k \in 1..n : \E i \in 1..n : p[i] = k
  <2> DEFINE S1 == 1..n
  <2>1. p \in Bijection(S1, S1)
    BY <1>1
  <2> HIDE DEF S1
  <2>2. /\ p \in [S1 -> S1]
        /\ \A i, j \in S1 : p[i] = p[j] => i = j
        /\ \A k \in S1 : \E i \in S1 : p[i] = k
    BY <2>1, BijectionMeans
  <2>3. QED
    BY <2>2 DEF S1
<1>3. Len(w) = n
  BY DEF Rearranged
<1>4. {w[i] : i \in 1..n} \subseteq {v[i] : i \in 1..n}
  BY <1>1, <1>2, SMTT(30)
<1>5. ASSUME NEW k \in 1..n PROVE v[k] \in {w[i] : i \in 1..n}
  <2>1. PICK i \in 1..n : p[i] = k
    BY <1>2
  <2>2. w[i] = v[k]
    BY <1>1, <2>1
  <2>3. QED
    BY <2>2
<1>6. ASSUME \A i, j \in 1..n : v[i] = v[j] => i = j,
             NEW i \in 1..n, NEW j \in 1..n, w[i] = w[j]
      PROVE  i = j
  <2>1. p[i] \in 1..n /\ p[j] \in 1..n /\ v[p[i]] = v[p[j]]
    BY <1>1, <1>2, <1>6
  <2>2. p[i] = p[j]
    BY <1>6, <2>1
  <2>3. QED
    BY <1>2, <2>2
<1>7. {w[i] : i \in 1..n} = {v[i] : i \in 1..n}
  BY <1>4, <1>5
<1> HIDE DEF n
<1>8. QED
  BY <1>3, <1>6, <1>7 DEF n

-----------------------------------------------------------------------------
(* The percolations. *)

\* Where percolateUp() goes from an index.
Up(v) == [i \in 1..Len(v) |-> IF i = 1 \/ Less(v[Parent(i)], v[Len(v)])
                                THEN i ELSE Parent(i)]

\* Where perolateDown() goes from an index.
Down(v) == [i \in 1..Len(v) |-> properParent(v, v[1], i)]

\* The parent of an index that is not the first comes before it.
LEMMA ParentBefore ==
  ASSUME NEW i \in Nat, i > 1
  PROVE  /\ Parent(i) \in Nat /\ Parent(i) >= 1 /\ Parent(i) < i
         /\ i = LChild(Parent(i)) \/ i = RChild(Parent(i))
BY SMT DEF Parent, LChild, RChild

\* The children of an index come after it.
LEMMA ChildAfter ==
  ASSUME NEW i \in Nat, i >= 1
  PROVE  /\ LChild(i) \in Nat /\ LChild(i) > i /\ Parent(LChild(i)) = i
         /\ RChild(i) \in Nat /\ RChild(i) > i /\ Parent(RChild(i)) = i
         /\ LChild(i) < RChild(i)
BY SMT DEF Parent, LChild, RChild

\* percolateUp() ends, at the root at the latest.
LEMMA UpDescends ==
  ASSUME NEW S, NEW v \in Seq(S)
  PROVE  Descends(Up(v), [i \in 1..Len(v) |-> i], Len(v))
<1> DEFINE n == Len(v)
<1>1. n \in Nat
  OBVIOUS
<1>2. ASSUME NEW i \in 1..n
      PROVE  Up(v)[i] \in 1..n /\ (Up(v)[i] # i => Up(v)[i] < i)
  <2>1. \/ i = 1
        \/ Parent(i) \in 1..n /\ Parent(i) < i
    BY ParentBefore
  <2>2. QED
    BY <2>1 DEF Up
<1>3. Up(v) \in [1..n -> 1..n]
  BY <1>2 DEF Up
<1>4. QED
  BY <1>1, <1>2, <1>3 DEF Descends

\* perolateDown() goes from an index to one of its children or ends.
LEMMA DownToChild ==
  ASSUME NEW v, Len(v) \in Nat, NEW i \in 1..Len(v)
  PROVE  LET c == Down(v)[i] IN
         c # i => /\ c \in 1..Len(v) /\ c > i /\ Parent(c) = i
                  /\ Less(v[c], v[1])
<1>1. LChild(i) \in Nat /\ LChild(i) > i /\ Parent(LChild(i)) = i
      /\ RChild(i) \in Nat /\ RChild(i) > i /\ Parent(RChild(i)) = i
  BY ChildAfter
<1>2. QED
  BY <1>1 DEF Down, properParent

\* perolateDown() ends, at a leaf at the latest.
LEMMA DownDescends ==
  ASSUME NEW S, NEW v \in Seq(S)
  PROVE  Descends(Down(v), [i \in 1..Len(v) |-> Len(v) - i], Len(v))
<1> DEFINE n == Len(v)
<1>1. n \in Nat
  OBVIOUS
<1>2. ASSUME NEW i \in 1..n
      PROVE  Down(v)[i] \in 1..n /\ (Down(v)[i] # i => n - Down(v)[i] < n - i)
  BY DownToChild
<1>3. Down(v) \in [1..n -> 1..n]
  BY <1>2 DEF Down
<1>4. QED
  BY <1>1, <1>2, <1>3 DEF Descends

\* An index that is moved, other than start, is moved to by one before it.
LEMMA MovedFrom ==
  ASSUME NEW v, NEW P, NEW start, Len(v) \in Nat, P \subseteq 1..Len(v),
         Chain(P, Down(v), start)
  PROVE  \A i \in P : i # start => Parent(i) \in P /\ Down(v)[Parent(i)] = i
<1> SUFFICES ASSUME NEW i \in P, i # start
             PROVE  Parent(i) \in P /\ Down(v)[Parent(i)] = i
  OBVIOUS
<1>1. PICK j \in P : Down(v)[j] = i /\ j # i
  BY DEF Chain
<1>2. Parent(i) = j
  BY <1>1, DownToChild
<1>3. QED
  BY <1>1, <1>2

\* insert() adds the item to the elements, in some order.
THEOREM InsertKeepsAll ==
  ASSUME NEW S, NEW v \in Seq(S), NEW item \in S
  PROVE  insert(v, item) \in Seq(S) /\ Rearranged(insert(v, item), Append(v, item))
<1> DEFINE a == Append(v, item)
           n == Len(a)
<1>1. a \in Seq(S) /\ n \in 1..n
  OBVIOUS
<1>2. PICK P : /\ Chain(P, Up(a), n) /\ P \subseteq 1..n
               /\ moveAlong(a, Up(a), n) = Moved(a, P, Up(a), n)
  BY <1>1, UpDescends, MovesAlongPath
<1>3. insert(v, item) = Moved(a, P, Up(a), n)
  BY <1>2 DEF insert, percolateUp, Up
<1>4. QED
  BY <1>1, <1>2, <1>3, MovedIsRearranged

\* What is left before perolateDown(): the last element in the first place.
WithoutTop(v) ==
  [i \in 1..(Len(v) - 1) |-> IF i = 1 THEN v[Len(v)] ELSE v[i]]

\* The last element in the first place is the tail in another order.
LEMMA WithoutTopKeepsAll ==
  ASSUME NEW S, NEW v \in Seq(S), v # <<>>
  PROVE  WithoutTop(v) \in Seq(S) /\ Rearranged(WithoutTop(v), Tail(v))
<1> DEFINE n == Len(v) - 1
           w == WithoutTop(v)
           place == [i \in 1..n |-> IF i = 1 THEN n ELSE i - 1]
<1>1. n \in Nat /\ Len(v) \in Nat
  OBVIOUS
<1>2. Tail(v) \in Seq(S) /\ Len(Tail(v)) = n
      /\ \A i \in 1..n : Tail(v)[i] = v[i + 1]
  OBVIOUS
<1>3. w \in [1..n -> S]
  BY <1>1 DEF WithoutTop
<1>4. w \in Seq(S) /\ Len(w) = n
  BY <1>1, <1>3
<1>5. place \in [1..n -> 1..n]
  BY <1>1
<1>6. \A i, j \in 1..n : place[i] = place[j] => i = j
  BY <1>1
<1>7. ASSUME NEW k \in 1..n PROVE \E i \in 1..n : place[i] = k
  <2>1. CASE k = n
    BY <2>1, <1>1
  <2>2. CASE k # n
    <3>1. k + 1 \in 1..n /\ place[k + 1] = k
      BY <2>2, <1>1
    <3>2. QED
      BY <3>1
  <2>3. QED
    BY <2>1, <2>2
<1>8. place \in Bijection(1..n, 1..n)
  <2> HIDE DEF place, n
  <2>1. QED
    BY <1>5, <1>6, <1>7, Fun_IsBij
<1>9. ASSUME NEW i \in 1..n PROVE w[i] = Tail(v)[place[i]]
  <2>1. CASE i = 1
    BY <2>1, <1>1, <1>2 DEF WithoutTop
  <2>2. CASE i # 1
    BY <2>2, <1>1, <1>2 DEF WithoutTop
  <2>3. QED
    BY <2>1, <2>2
<1>10. QED
  BY <1>2, <1>4, <1>8, <1>9 DEF Rearranged

\* popTop() leaves all elements but the top, in some order.
THEOREM PopKeepsAll ==
  ASSUME NEW S, NEW v \in Seq(S), v # <<>>
  PROVE  popTop(v) \in Seq(S) /\ Rearranged(popTop(v), Tail(v))
<1> DEFINE w == WithoutTop(v)
           n == Len(w)
<1>1. w \in Seq(S) /\ Rearranged(w, Tail(v)) /\ n = Len(v) - 1
  <2>1. w \in Seq(S) /\ Rearranged(w, Tail(v))
    BY WithoutTopKeepsAll
  <2>2. Len(Tail(v)) = Len(v) - 1
    OBVIOUS
  <2>3. Len(w) = Len(Tail(v))
    BY <2>1 DEF Rearranged
  <2>4. QED
    BY <2>1, <2>2, <2>3
<1>2. CASE Len(v) = 1
  <2>1. popTop(v) = <<>> /\ popTop(v) \in Seq(S)
    BY <1>2 DEF popTop
  <2>2. Len(w) = 0 /\ w = <<>>
    BY <1>1, <1>2
  <2>3. QED
    BY <1>1, <2>1, <2>2
<1>3. CASE Len(v) # 1
  <2>1. 1 \in 1..n /\ n \in Nat
    BY <1>1, <1>3
  <2>2. PICK P : /\ Chain(P, Down(w), 1) /\ P \subseteq 1..n
                 /\ moveAlong(w, Down(w), 1) = Moved(w, P, Down(w), 1)
    BY <1>1, <2>1, DownDescends, MovesAlongPath
  <2>3. popTop(v) = Moved(w, P, Down(w), 1)
    BY <2>2, <1>3 DEF popTop, perolateDown, Down, WithoutTop
  <2>4. popTop(v) \in Seq(S) /\ Rearranged(popTop(v), w)
    BY <1>1, <2>1, <2>2, <2>3, MovedIsRearranged
  <2>5. QED
    BY <1>1, <2>1, <2>4, RearrangedAgain
<1>4. QED
  BY <1>2, <1>3

-----------------------------------------------------------------------------
(* The order of the heap. *)

\* Less orders S, with elements that are equally great where neither is less.
Orders(S) ==
  /\ \A x, y \in S : Less(x, y) => ~Less(y, x)
  /\ \A x, y, z \in S : ~Less(y, x) /\ ~Less(z, y) => ~Less(z, x)

\* The top is a least element.
THEOREM TopIsLeast ==
  ASSUME NEW S, NEW v \in Seq(S), Orders(S), IsHeap(v)
  PROVE  \A i \in 1..Len(v) : ~Less(v[i], top(v))
<1> DEFINE n == Len(v)
           G == {k \in Nat : k \in 1..n => ~Less(v[k], v[1])}
<1>1. ASSUME NEW k \in Nat, \A j \in 0..(k - 1) : j \in G
      PROVE  k \in G
  <2> SUFFICES ASSUME k \in 1..n PROVE ~Less(v[k], v[1])
    OBVIOUS
  <2>1. CASE k = 1
    BY <2>1 DEF Orders
  <2>2. CASE k > 1
    <3>1. Parent(k) \in 1..n /\ Parent(k) \in 0..(k - 1)
      BY <2>2, ParentBefore
    <3>2. ~Less(v[Parent(k)], v[1])
      BY <3>1, <1>1
    <3>3. ~Less(v[k], v[Parent(k)])
      BY <2>2 DEF IsHeap
    <3>4. v[1] \in S /\ v[k] \in S /\ v[Parent(k)] \in S
      BY <3>1, <2>2
    <3>5. QED
      BY <3>2, <3>3, <3>4 DEF Orders
  <2>3. QED
    BY <2>1, <2>2
<1>2. Nat \subseteq G
  <2> HIDE DEF G
  <2>1. QED
    BY <1>1, Induction
<1>3. QED
  BY <1>2 DEF top

\* insert() keeps the order of the heap.
THEOREM InsertKeepsOrder ==
  ASSUME NEW S, NEW v \in Seq(S), NEW item \in S, Orders(S), IsHeap(v)
  PROVE  IsHeap(insert(v, item))
<1> DEFINE a == Append(v, item)
           n == Len(a)
           up == Up(a)
<1>1. a \in Seq(S) /\ n \in 1..n /\ n \in Nat /\ n = Len(v) + 1
  OBVIOUS
<1>2. PICK P : /\ Chain(P, up, n) /\ P \subseteq 1..n
               /\ moveAlong(a, up, n) = Moved(a, P, up, n)
  BY <1>1, UpDescends, MovesAlongPath
<1> DEFINE w == Moved(a, P, up, n)
<1>3. insert(v, item) = w
  BY <1>2 DEF insert, percolateUp, Up
<1>4. \A i \in 1..n : a[i] \in S
  BY <1>1
<1>5. ASSUME NEW i \in 2..n
      PROVE  Parent(i) \in 1..n /\ Parent(i) < i /\ Parent(i) < n
  BY <1>1, ParentBefore
<1>6. \A i \in 2..n : i # n => ~Less(a[i], a[Parent(i)])
  <2>1. ASSUME NEW i \in 2..n, i # n PROVE ~Less(a[i], a[Parent(i)])
    <3>1. i \in 2..Len(v) /\ Parent(i) \in 1..Len(v)
      BY <2>1, <1>1, <1>5
    <3>2. a[i] = v[i] /\ a[Parent(i)] = v[Parent(i)]
      BY <3>1
    <3>3. QED
      BY <3>1, <3>2 DEF IsHeap
  <2>2. QED
    BY <2>1
<1>7. \A i \in 2..n : \/ up[i] = i /\ Less(a[Parent(i)], a[n])
                      \/ up[i] = Parent(i) /\ ~Less(a[Parent(i)], a[n])
                         /\ up[i] # i
  BY <1>1, <1>5 DEF Up
<1>8. \A i \in P : i \in 1..n /\ up[i] \in P
  BY <1>2 DEF Chain
<1>9. n \in P /\ \A j \in P : up[j] = n => j = n
  BY <1>2 DEF Chain
<1>14. up[1] = 1
  BY <1>1 DEF Up
<1> HIDE DEF up, a
<1>10. \A i \in 1..n : w[i] = IF i \notin P THEN a[i]
                              ELSE IF up[i] = i THEN a[n] ELSE a[up[i]]
  BY DEF Moved
<1> HIDE DEF w, n
<1>11. Len(w) = n
  <2>1. DOMAIN w = 1..n /\ n \in Nat
    BY <1>1 DEF w, Moved, n
  <2>2. insert(v, item) \in Seq(S) /\ Rearranged(insert(v, item), a)
    BY InsertKeepsAll DEF a
  <2>3. QED
    BY <2>2, <1>3 DEF Rearranged, n
<1>12. ASSUME NEW i \in 2..n PROVE ~Less(w[i], w[Parent(i)])
  <2> DEFINE p == Parent(i)
  <2>1. p \in 1..n /\ i \in 1..n /\ p # n /\ p < i
    BY <1>1, <1>5
  <2>2. p # 1 => p \in 2..n /\ Parent(p) \in 1..n /\ ~Less(a[p], a[Parent(p)])
    <3>1. p # 1 => p \in 2..n
      BY <2>1, <1>1
    <3>2. QED
      BY <3>1, <2>1, <1>5, <1>6
  <2> HIDE DEF p
  <2>3. CASE i \in P /\ up[i] # i
    <3>1. up[i] = p /\ ~Less(a[p], a[n]) /\ p \in P /\ w[i] = a[p]
      BY <2>3, <1>7, <1>8, <1>10, <2>1 DEF p
    <3>2. CASE up[p] = p
      <4>1. w[p] = a[n]
        BY <3>1, <3>2, <2>1, <1>10
      <4>2. QED
        BY <4>1, <3>1 DEF p
    <3>3. CASE up[p] # p
      <4>1. p # 1
        BY <3>3, <1>14
      <4>2. up[p] = Parent(p)
        BY <4>1, <2>2, <3>3, <1>7
      <4>3. w[p] = a[Parent(p)]
        BY <4>2, <3>1, <3>3, <2>1, <1>10
      <4>4. QED
        BY <4>1, <4>3, <3>1, <2>2 DEF p
    <3>4. QED
      BY <3>2, <3>3
  <2>4. CASE i \in P /\ up[i] = i
    <3>1. w[i] = a[n] /\ Less(a[p], a[n])
      BY <2>4, <1>7, <1>10, <2>1 DEF p
    <3>2. p \notin P
      <4>1. SUFFICES ASSUME p \in P PROVE FALSE
        OBVIOUS
      <4>2. PICK j \in P : up[j] = p /\ j # p
        BY <4>1, <2>1, <1>2 DEF Chain
      <4>3. j \in 1..n /\ j # 1
        BY <4>2, <1>8, <1>14
      <4>4. QED
        BY <4>2, <4>3, <3>1, <1>7, <1>1
    <3>3. w[p] = a[p]
      BY <3>2, <2>1, <1>10
    <3>4. QED
      BY <3>1, <3>3, <2>1, <1>4, <1>1 DEF Orders, p
  <2>5. CASE i \notin P
    <3>1. i # n /\ w[i] = a[i] /\ ~Less(a[i], a[p])
      BY <2>5, <1>9, <1>10, <2>1, <1>6 DEF p
    <3>2. CASE p \notin P
      BY <3>1, <3>2, <1>10, <2>1 DEF p
    <3>3. CASE p \in P /\ up[p] = p
      <4>1. w[p] = a[n]
        BY <3>3, <2>1, <1>10
      <4>2. PICK j \in P : up[j] = p /\ j # p
        BY <3>3, <2>1, <1>2 DEF Chain
      <4>3. ~Less(a[p], a[n])
        <5>1. j \in 1..n /\ j # 1
          BY <4>2, <1>8, <1>14
        <5>2. QED
          BY <5>1, <4>2, <1>7, <1>1
      <4>4. QED
        BY <3>1, <4>1, <4>3, <2>1, <1>4, <1>1 DEF Orders, p
    <3>4. CASE p \in P /\ up[p] # p
      <4>1. p # 1
        BY <3>4, <1>14
      <4>2. w[p] = a[Parent(p)] /\ ~Less(a[p], a[Parent(p)])
        BY <4>1, <3>4, <2>1, <2>2, <1>7, <1>10
      <4>3. QED
        BY <3>1, <4>1, <4>2, <2>1, <2>2, <1>4 DEF Orders, p
    <3>5. QED
      BY <3>2, <3>3, <3>4
  <2>6. QED
    BY <2>3, <2>4, <2>5
<1>13. QED
  BY <1>3, <1>11, <1>12 DEF IsHeap

\* properParent() ends where no child is less than the saved element, and goes
\* on to a child that is no greater than the other.
LEMMA DownToLeast ==
  ASSUME NEW S, NEW v \in Seq(S), Orders(S), NEW i \in 2..Len(v)
  PROVE  LET c == Down(v)[Parent(i)] IN
         IF c = Parent(i) THEN ~Less(v[i], v[1]) ELSE ~Less(v[i], v[c])
<1> DEFINE n == Len(v)
           p == Parent(i)
           l == LChild(p)
           r == RChild(p)
<1>1. n \in Nat /\ i \in Nat /\ i > 1 /\ i \in 1..n
  OBVIOUS
<1>2. /\ p \in Nat /\ p >= 1 /\ p < i
      /\ i = l \/ i = r
  BY <1>1, ParentBefore
<1>3. l \in Nat /\ r \in Nat /\ l > p /\ r > l /\ p \in 1..n
  BY <1>1, <1>2, ChildAfter
<1>4. \A k \in 1..n : v[k] \in S
  OBVIOUS
<1>5. l <= n /\ l \in 1..n /\ 1 \in 1..n
  BY <1>1, <1>2, <1>3
<1> DEFINE child == IF r <= n /\ Less(v[r], v[l]) THEN r ELSE l
<1>6. Down(v)[p] = IF child <= n /\ Less(v[child], v[1]) THEN child ELSE p
  BY <1>3 DEF Down, properParent
<1>7. child \in 1..n /\ child # p
  BY <1>3, <1>5
<1>8. ~Less(v[i], v[child])
  <2> HIDE DEF p, n
  <2>1. CASE r <= n /\ Less(v[r], v[l])
    <3>1. r \in 1..n
      BY <2>1, <1>3, <1>5
    <3>2. ~Less(v[r], v[r]) /\ ~Less(v[l], v[r])
      BY <2>1, <3>1, <1>4, <1>5 DEF Orders
    <3>3. child = r
      BY <2>1
    <3> HIDE DEF child, l, r
    <3>4. QED
      BY <1>2, <3>2, <3>3
  <2>2. CASE ~(r <= n /\ Less(v[r], v[l]))
    <3>1. ~Less(v[l], v[l])
      BY <1>4, <1>5 DEF Orders
    <3>2. child = l
      BY <2>2
    <3>3. i = r => r <= n
      BY <1>1
    <3> HIDE DEF child, l, r
    <3>4. QED
      BY <1>2, <2>2, <3>1, <3>2, <3>3
  <2>3. QED
    BY <2>1, <2>2
<1> HIDE DEF child, p
<1>9. CASE child <= n /\ Less(v[child], v[1])
  BY <1>6, <1>7, <1>8, <1>9 DEF p
<1>10. CASE ~(child <= n /\ Less(v[child], v[1]))
  <2>1. ~Less(v[child], v[1]) /\ Down(v)[p] = p
    BY <1>6, <1>7, <1>10
  <2>2. v[i] \in S /\ v[child] \in S /\ v[1] \in S
    BY <1>1, <1>4, <1>5, <1>7
  <2>3. QED
    BY <1>8, <2>1, <2>2 DEF Orders, p
<1>11. QED
  BY <1>9, <1>10

\* popTop() keeps the order of the heap.
THEOREM PopKeepsOrder ==
  ASSUME NEW S, NEW v \in Seq(S), v # <<>>, Orders(S), IsHeap(v)
  PROVE  IsHeap(popTop(v))
<1>1. CASE Len(v) = 1
  <2>1. popTop(v) = <<>>
    BY <1>1 DEF popTop
  <2>2. QED
    BY <2>1 DEF IsHeap
<1>2. CASE Len(v) # 1
  <2> DEFINE a == WithoutTop(v)
             n == Len(a)
             down == Down(a)
  <2>1. a \in Seq(S) /\ n = Len(v) - 1 /\ 1 \in 1..n /\ n \in Nat
    <3>1. a \in Seq(S) /\ Rearranged(a, Tail(v)) /\ Len(Tail(v)) = Len(v) - 1
      BY WithoutTopKeepsAll
    <3>2. Len(v) \in Nat \ {0}
      OBVIOUS
    <3>3. QED
      BY <3>1, <3>2, <1>2 DEF Rearranged
  <2>2. PICK P : /\ Chain(P, down, 1) /\ P \subseteq 1..n
                 /\ moveAlong(a, down, 1) = Moved(a, P, down, 1)
    BY <2>1, DownDescends, MovesAlongPath
  <2> DEFINE w == Moved(a, P, down, 1)
  <2>3. popTop(v) = w
    BY <2>2, <1>2 DEF popTop, perolateDown, Down, WithoutTop
  <2>4. \A i \in 1..n : a[i] \in S
    BY <2>1
  <2>5. ASSUME NEW i \in 2..n, Parent(i) # 1
        PROVE  ~Less(a[i], a[Parent(i)])
    <3>1. Parent(i) \in 1..n /\ Parent(i) \in 1..Len(v) /\ i \in 2..Len(v)
      BY <2>1, ParentBefore
    <3>2. a[i] = v[i] /\ a[Parent(i)] = v[Parent(i)]
      BY <3>1, <2>1, <2>5 DEF WithoutTop
    <3>3. QED
      BY <3>1, <3>2 DEF IsHeap
  <2>6. ASSUME NEW i \in P, down[i] # i
        PROVE  /\ down[i] \in P /\ down[i] \in 2..n /\ Parent(down[i]) = i
               /\ Less(a[down[i]], a[1])
    <3>1. i \in 1..n /\ down[i] \in P
      BY <2>2 DEF Chain
    <3>2. down[i] \in 1..n /\ down[i] > i /\ Parent(down[i]) = i
          /\ Less(a[down[i]], a[1])
      BY <3>1, <2>6, <2>1, DownToChild
    <3>3. QED
      BY <3>1, <3>2
  <2>7. ASSUME NEW i \in P, i # 1
        PROVE  Parent(i) \in P /\ down[Parent(i)] = i
    <3>1. Len(a) \in Nat /\ P \subseteq 1..Len(a) /\ Chain(P, Down(a), 1)
      BY <2>1, <2>2
    <3> HIDE DEF a
    <3>2. \A j \in P : j # 1 => Parent(j) \in P /\ Down(a)[Parent(j)] = j
      BY <3>1, MovedFrom
    <3>3. QED
      BY <3>2, <2>7
  <2>8. 1 \in P
    BY <2>2 DEF Chain
  <2>9. ASSUME NEW i \in 2..n
        PROVE  IF down[Parent(i)] = Parent(i) THEN ~Less(a[i], a[1])
                                     ELSE ~Less(a[i], a[down[Parent(i)]])
    BY <2>1, DownToLeast
  <2>10. Len(w) = n
    <3>1. DOMAIN w = 1..n
      BY DEF Moved
    <3>2. w \in Seq(S)
      BY <2>1, <2>2, MovedIsRearranged
    <3> HIDE DEF w, n
    <3>3. QED
      BY <3>1, <3>2, <2>1
  <2>11. \A i \in 1..n : w[i] = IF i \notin P THEN a[i]
                                ELSE IF down[i] = i THEN a[1] ELSE a[down[i]]
    BY DEF Moved
  <2> HIDE DEF a, down, w, n
  <2>12. ASSUME NEW i \in 2..n PROVE ~Less(w[i], w[Parent(i)])
    <3> DEFINE p == Parent(i)
    <3>1. p \in 1..n /\ i \in 1..n /\ i # 1 /\ p < i
      BY <2>1, ParentBefore
    <3> HIDE DEF p
    <3>2. CASE i \in P
      <4>1. p \in P /\ down[p] = i /\ p # i
        BY <3>1, <3>2, <2>7 DEF p
      <4>2. w[p] = a[i] /\ Less(a[i], a[1])
        BY <4>1, <3>1, <2>6, <2>11
      <4>3. CASE down[i] = i
        <5>1. w[i] = a[1]
          BY <4>3, <3>1, <3>2, <2>11
        <5>2. QED
          BY <4>2, <5>1, <3>1, <2>1, <2>4 DEF Orders, p
      <4>4. CASE down[i] # i
        <5>1. w[i] = a[down[i]] /\ down[i] \in 2..n /\ Parent(down[i]) = i
          BY <4>4, <3>1, <3>2, <2>6, <2>11
        <5>2. QED
          BY <4>2, <5>1, <3>1, <2>5 DEF p
      <4>5. QED
        BY <4>3, <4>4
    <3>3. CASE i \notin P
      <4>1. w[i] = a[i]
        BY <3>3, <3>1, <2>11
      <4>2. CASE p \notin P
        <5>1. p # 1 /\ w[p] = a[p]
          BY <4>2, <2>8, <3>1, <2>11
        <5>2. QED
          BY <4>1, <5>1, <2>5 DEF p
      <4>3. CASE p \in P /\ down[p] = p
        BY <4>1, <4>3, <3>1, <2>9, <2>11 DEF p
      <4>4. CASE p \in P /\ down[p] # p
        BY <4>1, <4>4, <3>1, <2>9, <2>11 DEF p
      <4>5. QED
        BY <4>2, <4>3, <4>4
    <3>4. QED
      BY <3>2, <3>3
  <2>13. QED
    BY <2>3, <2>10, <2>12 DEF IsHeap
<1>3. QED
  BY <1>1, <1>2

=============================================================================
