---------------------------- MODULE RenderProofs ----------------------------
(***************************************************************************)
(* Proofs about Render and the readings of a document it stands on, for    *)
(* every document, however large, and all caps.                            *)
(***************************************************************************)
EXTENDS Render, FiniteSetTheorems, FunctionTheorems, SequenceTheorems,
        WellFoundedInduction, TLAPS

(* Places in order.                                                         *)

\* A set of numbers that is not empty has a least one.
LEMMA LeastNumber ==
  ASSUME NEW T, T \subseteq Nat, T # {}
  PROVE  \E n \in T : \A m \in T : n <= m
<1> DEFINE R == OpToRel(<, Nat)
<1>1. \E n \in T : \A m \in T : <<m, n>> \notin R
  BY NatLessThanWellFounded, WFMin
<1>2. \A n, m \in Nat : <<m, n>> \in R <=> m < n
  BY DEF OpToRel
<1> HIDE DEF R
<1>3. PICK n \in T : \A m \in T : <<m, n>> \notin R
  BY <1>1
<1>4. \A m \in T : m \in Nat /\ n \in Nat /\ ~ (m < n)
  BY <1>2, <1>3
<1> QED
  BY <1>4

\* How many places of P are before i.
Before(P, i) == {j \in P : j < i}

LEMMA BeforeCounts ==
  ASSUME NEW n \in Nat, NEW P \in SUBSET (1..n)
  PROVE  /\ IsFiniteSet(P) /\ Cardinality(P) \in Nat
         /\ \A i \in P : Cardinality(Before(P, i)) \in 0..(Cardinality(P) - 1)
         /\ \A i, j \in P : i < j => Cardinality(Before(P, i)) < Cardinality(Before(P, j))
<1>1. IsFiniteSet(P) /\ Cardinality(P) \in Nat
  <2>1. IsFiniteSet(1..n)
    BY FS_Interval
  <2> QED
    BY <2>1, FS_Subset, FS_CardinalityType
<1>5. \A i \in P : i \in Nat
  OBVIOUS
<1>2. \A T \in SUBSET P : /\ IsFiniteSet(T) /\ Cardinality(T) \in Nat
                          /\ Cardinality(T) <= Cardinality(P)
                          /\ T # P => Cardinality(T) # Cardinality(P)
  BY <1>1, FS_Subset, FS_CardinalityType
<1>3. ASSUME NEW i \in P
      PROVE  Cardinality(Before(P, i)) \in 0..(Cardinality(P) - 1)
  <2>1. Before(P, i) \in SUBSET P /\ i \notin Before(P, i)
    BY DEF Before
  <2>2. Before(P, i) # P
    BY <2>1
  <2> HIDE DEF Before
  <2> QED
    BY <1>1, <1>2, <2>1, <2>2
<1>4. ASSUME NEW i \in P, NEW j \in P, i < j
      PROVE  Cardinality(Before(P, i)) < Cardinality(Before(P, j))
  <2>1. Before(P, j) \in SUBSET P
    BY DEF Before
  <2>2. Before(P, i) \in SUBSET Before(P, j)
    <3>1. \A k \in P : k < i => k < j
      BY <1>4, <1>5
    <3> QED
      BY <3>1 DEF Before
  <2>3. i \in Before(P, j) /\ i \notin Before(P, i)
    <3>1. i \in Nat /\ ~ (i < i)
      BY <1>5
    <3> QED
      BY <1>4, <3>1 DEF Before
  <2>4. /\ IsFiniteSet(Before(P, j)) /\ Cardinality(Before(P, j)) \in Nat
        /\ Cardinality(Before(P, i)) \in Nat
    BY <1>2, <2>1, <2>2
  <2>5. /\ Cardinality(Before(P, i)) <= Cardinality(Before(P, j))
        /\ Cardinality(Before(P, i)) # Cardinality(Before(P, j))
    BY <2>2, <2>3, <2>4, FS_Subset
  <2> QED
    BY <2>4, <2>5
<1> QED
  BY <1>1, <1>3, <1>4

\* InOrder lists every place once, in increasing order.
LEMMA InOrderLists ==
  ASSUME NEW n \in Nat, NEW P \in SUBSET (1..n)
  PROVE  /\ Cardinality(P) \in Nat
         /\ InOrder(P) \in [1..Cardinality(P) -> P]
         /\ \A i \in P : \E k \in 1..Cardinality(P) : InOrder(P)[k] = i
         /\ \A k, l \in 1..Cardinality(P) : k < l => InOrder(P)[k] < InOrder(P)[l]
<1> DEFINE N == Cardinality(P)
           rank(i) == Cardinality(Before(P, i))
           f == [i \in P |-> rank(i) + 1]
<1>1. /\ IsFiniteSet(P) /\ N \in Nat
      /\ \A i \in P : i \in Nat /\ rank(i) \in 0..(N - 1)
      /\ \A i, j \in P : i < j => rank(i) < rank(j)
  BY BeforeCounts
<1>2. InOrder(P) = [k \in 1..N |-> CHOOSE i \in P : rank(i) = k - 1]
  BY DEF InOrder, Before
<1> HIDE DEF N, rank
<1>3. \A i, j \in P : rank(i) = rank(j) => i = j
  BY <1>1
<1>4. f \in Injection(P, 1..N)
  <2>1. f \in [P -> 1..N]
    BY <1>1
  <2>2. \A i, j \in P : f[i] = f[j] => i = j
    BY <1>1, <1>3
  <2> HIDE DEF f
  <2> QED
    BY <2>1, <2>2, Fun_IsInj
<1>5. IsFiniteSet(1..N) /\ Cardinality(1..N) = N
  BY <1>1, FS_Interval
<1>6. f \in Surjection(P, 1..N)
  <2> HIDE DEF f
  <2>1. Cardinality(P) = Cardinality(1..N)
    BY <1>5 DEF N
  <2> QED
    BY <1>4, <1>5, <2>1, FS_Injection
<1>7. \A k \in 1..N : \E i \in P : f[i] = k
  <2> HIDE DEF f
  <2> QED
    BY <1>6, Fun_SurjectionProperties
<1>8. \A k \in 1..N : \E i \in P : rank(i) = k - 1
  <2>1. \A i \in P : f[i] = rank(i) + 1
    OBVIOUS
  <2> HIDE DEF f
  <2> QED
    <3> SUFFICES ASSUME NEW k \in 1..N PROVE \E i \in P : rank(i) = k - 1
      OBVIOUS
    <3>1. PICK i \in P : f[i] = k
      BY <1>7
    <3>2. rank(i) \in Int /\ rank(i) + 1 = k
      BY <1>1, <2>1, <3>1
    <3> QED
      BY <3>2
<1>9. \A k \in 1..N : InOrder(P)[k] \in P /\ rank(InOrder(P)[k]) = k - 1
  BY <1>2, <1>8
<1>10. \A i \in P : rank(i) + 1 \in 1..N /\ InOrder(P)[rank(i) + 1] = i
  <2> SUFFICES ASSUME NEW i \in P
               PROVE  rank(i) + 1 \in 1..N /\ InOrder(P)[rank(i) + 1] = i
    OBVIOUS
  <2>1. rank(i) + 1 \in 1..N
    BY <1>1
  <2>2. /\ InOrder(P)[rank(i) + 1] \in P
        /\ rank(InOrder(P)[rank(i) + 1]) = rank(i)
    BY <1>1, <1>9, <2>1
  <2> QED
    BY <1>3, <2>1, <2>2
<1>11. \A k, l \in 1..N : k < l => InOrder(P)[k] < InOrder(P)[l]
  <2> SUFFICES ASSUME NEW k \in 1..N, NEW l \in 1..N, k < l,
                      ~ (InOrder(P)[k] < InOrder(P)[l])
               PROVE  FALSE
    OBVIOUS
  <2>1. /\ InOrder(P)[k] \in P /\ InOrder(P)[l] \in P
        /\ rank(InOrder(P)[k]) = k - 1 /\ rank(InOrder(P)[l]) = l - 1
    BY <1>9
  <2>3. InOrder(P)[k] \in Nat /\ InOrder(P)[l] \in Nat
    BY <1>1, <2>1
  <2>2. \/ InOrder(P)[k] = InOrder(P)[l]
        \/ InOrder(P)[l] < InOrder(P)[k]
    BY <2>3
  <2>4. rank(InOrder(P)[l]) <= rank(InOrder(P)[k])
    <3>1. CASE InOrder(P)[k] = InOrder(P)[l]
      BY <1>1, <2>1, <3>1
    <3>2. CASE InOrder(P)[l] < InOrder(P)[k]
      <4>1. rank(InOrder(P)[l]) < rank(InOrder(P)[k])
        BY <1>1, <2>1, <3>2
      <4> QED
        BY <1>1, <2>1, <4>1
    <3> QED
      BY <2>2, <3>1, <3>2
  <2> QED
    BY <1>1, <2>1, <2>4
<1>12. InOrder(P) \in [1..N -> P]
  BY <1>2, <1>9
<1> QED
  BY <1>1, <1>10, <1>11, <1>12 DEF N


---------------------------------------------------------------------------
(* Documents.                                                               *)

Nodes == [tag : Tags, parent : Nat]

\* A node is below an earlier one, or below none.
Rooted(d) ==
  /\ d \in Seq(Nodes)
  /\ \A n \in DOMAIN d : d[n].parent \in 0..(n - 1)

\* The recursion of Above has a solution on every document.
LEMMA AboveIs ==
  ASSUME NEW d, Rooted(d), NEW x \in DOMAIN d
  PROVE  Above(d, x) = {x} \cup (IF d[x].parent = 0 THEN {} ELSE Above(d, d[x].parent))
<1> DEFINE Solves(f, n) == f = [y \in 1..n |-> {y} \cup (IF d[y].parent = 0 THEN {} ELSE f[d[y].parent])]
           bad == {n \in 0..Len(d) : ~ \E f : Solves(f, n)}
<1>1. DOMAIN d = 1..Len(d) /\ Len(d) \in Nat
  BY DEF Rooted
<1>2. \A y \in 1..Len(d) : d[y].parent \in Nat /\ d[y].parent < y
  BY <1>1 DEF Rooted
<1>3. bad = {}
  <2> SUFFICES ASSUME bad # {} PROVE FALSE
    OBVIOUS
  <2>1. PICK n \in bad : \A m \in bad : n <= m
    <3>1. bad \subseteq Nat
      BY <1>1
    <3> HIDE DEF bad
    <3> QED
      BY <3>1, LeastNumber
  <2>2. CASE n = 0
    <3>1. Solves([y \in 1..0 |-> {}], 0)
      OBVIOUS
    <3> QED
      BY <2>1, <2>2, <3>1
  <2>3. CASE n # 0
    <3>1. n - 1 \in 0..Len(d) /\ n - 1 \notin bad /\ n \in 1..Len(d)
      <4>1. n \in 0..Len(d)
        BY <2>1
      <4>2. n - 1 \in 0..Len(d) /\ ~ (n <= n - 1) /\ n \in 1..Len(d)
        BY <1>1, <2>3, <4>1
      <4> HIDE DEF bad
      <4> QED
        BY <2>1, <4>2
    <3>2. PICK f : Solves(f, n - 1)
      BY <3>1
    <3> DEFINE g == [y \in 1..n |-> IF y = n THEN {y} \cup (IF d[y].parent = 0 THEN {} ELSE f[d[y].parent])
                                            ELSE f[y]]
    <3>0. n - 1 \in Nat /\ 1..(n - 1) \subseteq 1..n /\ n \notin 1..(n - 1)
      BY <3>1
    <3>3. \A y \in 1..(n - 1) : g[y] = f[y] /\ f[y] = {y} \cup (IF d[y].parent = 0 THEN {} ELSE f[d[y].parent])
      <4> SUFFICES ASSUME NEW y \in 1..(n - 1)
                   PROVE  g[y] = f[y] /\ f[y] = {y} \cup (IF d[y].parent = 0 THEN {} ELSE f[d[y].parent])
        OBVIOUS
      <4>1. y \in 1..n /\ y # n
        BY <3>0
      <4>2. g[y] = f[y]
        BY <4>1
      <4> HIDE DEF g
      <4>3. f[y] = {y} \cup (IF d[y].parent = 0 THEN {} ELSE f[d[y].parent])
        BY <3>2
      <4> QED
        BY <4>2, <4>3
    <3>4. \A y \in 1..n : d[y].parent # 0 => d[y].parent \in 1..(n - 1)
      BY <1>2, <3>1
    <3>5. \A y \in 1..n : g[y] = {y} \cup (IF d[y].parent = 0 THEN {} ELSE g[d[y].parent])
      <4> SUFFICES ASSUME NEW y \in 1..n
                   PROVE  g[y] = {y} \cup (IF d[y].parent = 0 THEN {} ELSE g[d[y].parent])
        OBVIOUS
      <4>1. d[y].parent # 0 => g[d[y].parent] = f[d[y].parent]
        BY <3>3, <3>4
      <4>2. d[y].parent \in Int
        BY <1>2, <3>1
      <4>3. g[y] = {y} \cup (IF d[y].parent = 0 THEN {} ELSE f[d[y].parent])
        <5>1. CASE y = n
          BY <5>1
        <5>2. CASE y # n
          <6>1. y \in 1..(n - 1)
            BY <3>1, <5>2
          <6> QED
            BY <3>3, <6>1
        <5> QED
          BY <5>1, <5>2
      <4> HIDE DEF g
      <4> QED
        BY <4>1, <4>2, <4>3
    <3>6. Solves(g, n)
      BY <3>5
    <3> QED
      BY <2>1, <3>6
  <2> QED
    BY <2>2, <2>3
<1>4. PICK f : Solves(f, Len(d))
  <2>1. Len(d) \in 0..Len(d) /\ Len(d) \notin bad
    <3> HIDE DEF bad
    <3> QED
      BY <1>1, <1>3
  <2> HIDE DEF Solves
  <2> QED
    BY <2>1
<1> DEFINE above == CHOOSE h : h = [y \in DOMAIN d |-> {y} \cup (IF d[y].parent = 0 THEN {} ELSE h[d[y].parent])]
<1>5. above = [y \in DOMAIN d |-> {y} \cup (IF d[y].parent = 0 THEN {} ELSE above[d[y].parent])]
  <2>1. f = [y \in DOMAIN d |-> {y} \cup (IF d[y].parent = 0 THEN {} ELSE f[d[y].parent])]
    BY <1>1, <1>4
  <2> HIDE DEF Solves
  <2> QED
    BY <2>1
<1>6. \A y : Above(d, y) = above[y]
  BY DEF Above
<1> HIDE DEF above
<1>7. above[x] = {x} \cup (IF d[x].parent = 0 THEN {} ELSE above[d[x].parent])
  BY <1>5
<1> QED
  BY <1>6, <1>7


\* What is above x is x itself and, unless nothing is, what is above the node it
\* is below.
LEMMA AboveParent ==
  ASSUME NEW d, Rooted(d), NEW x \in DOMAIN d
  PROVE  /\ x \in Above(d, x)
         /\ d[x].parent # 0 => d[x].parent \in DOMAIN d /\ d[x].parent < x
         /\ \A a \in Above(d, x) \ {x} : d[x].parent # 0 /\ a \in Above(d, d[x].parent)
         /\ d[x].parent # 0 => Above(d, d[x].parent) \subseteq Above(d, x)
<1>1. DOMAIN d = 1..Len(d) /\ Len(d) \in Nat /\ x \in Nat /\ d[x].parent \in Nat /\ d[x].parent < x
  BY DEF Rooted
<1>2. d[x].parent # 0 => d[x].parent \in DOMAIN d
  BY <1>1
<1>3. Above(d, x) = {x} \cup (IF d[x].parent = 0 THEN {} ELSE Above(d, d[x].parent))
  BY AboveIs
<1> QED
  BY <1>1, <1>2, <1>3

\* An induction from the top of the document down.
LEMMA FromTheTop ==
  ASSUME NEW d, Rooted(d), NEW Good, Good \subseteq DOMAIN d,
         \A x \in DOMAIN d : (d[x].parent # 0 => d[x].parent \in Good) => x \in Good
  PROVE  Good = DOMAIN d
<1> SUFFICES ASSUME DOMAIN d \ Good # {} PROVE FALSE
  OBVIOUS
<1>1. DOMAIN d \ Good \subseteq Nat
  BY DEF Rooted
<1>2. PICK x \in DOMAIN d \ Good : \A y \in DOMAIN d \ Good : x <= y
  BY <1>1, LeastNumber
<1>3. d[x].parent # 0 => d[x].parent \in DOMAIN d /\ d[x].parent \in Int /\ d[x].parent < x /\ x \in Int
  BY <1>1, AboveParent DEF Rooted
<1> QED
  BY <1>2, <1>3

LEMMA AboveIsEarlier ==
  ASSUME NEW d, Rooted(d)
  PROVE  \A x \in DOMAIN d : Above(d, x) \subseteq DOMAIN d /\ \A a \in Above(d, x) : a <= x
<1> DEFINE Good == {x \in DOMAIN d : Above(d, x) \subseteq DOMAIN d /\ \A a \in Above(d, x) : a <= x}
<1>1. ASSUME NEW x \in DOMAIN d, d[x].parent # 0 => d[x].parent \in Good
      PROVE  x \in Good
  <2>1. DOMAIN d \subseteq Nat
    BY DEF Rooted
  <2>2. ASSUME NEW a \in Above(d, x) PROVE a \in DOMAIN d /\ a <= x
    <3>1. CASE a = x
      BY <2>1, <3>1
    <3>2. CASE a # x
      <4>1. d[x].parent # 0 /\ a \in Above(d, d[x].parent) /\ d[x].parent < x /\ d[x].parent \in DOMAIN d
        BY <3>2, AboveParent
      <4>2. a \in DOMAIN d /\ a <= d[x].parent
        BY <1>1, <4>1
      <4> QED
        BY <2>1, <4>1, <4>2
    <3> QED
      BY <3>1, <3>2
  <2> QED
    BY <2>2
<1> HIDE DEF Good
<1>2. Good = DOMAIN d
  <2>1. Good \subseteq DOMAIN d
    BY DEF Good
  <2> QED
    BY <1>1, <2>1, FromTheTop
<1> QED
  BY <1>2 DEF Good

LEMMA AboveNests ==
  ASSUME NEW d, Rooted(d)
  PROVE  \A x \in DOMAIN d : \A a \in Above(d, x) : Above(d, a) \subseteq Above(d, x)
<1> DEFINE Good == {x \in DOMAIN d : \A a \in Above(d, x) : Above(d, a) \subseteq Above(d, x)}
<1>1. ASSUME NEW x \in DOMAIN d, d[x].parent # 0 => d[x].parent \in Good
      PROVE  x \in Good
  <2>1. ASSUME NEW a \in Above(d, x), a # x PROVE Above(d, a) \subseteq Above(d, x)
    BY <1>1, <2>1, AboveParent
  <2> QED
    BY <2>1
<1> HIDE DEF Good
<1>2. Good = DOMAIN d
  <2>1. Good \subseteq DOMAIN d
    BY DEF Good
  <2> QED
    BY <1>1, <2>1, FromTheTop
<1> QED
  BY <1>2 DEF Good

\* Of two nodes above a node, one is above the other.
LEMMA AboveIsALine ==
  ASSUME NEW d, Rooted(d)
  PROVE  \A x \in DOMAIN d : \A a, b \in Above(d, x) : a \in Above(d, b) \/ b \in Above(d, a)
<1> DEFINE Good == {x \in DOMAIN d : \A a, b \in Above(d, x) : a \in Above(d, b) \/ b \in Above(d, a)}
<1>1. ASSUME NEW x \in DOMAIN d, d[x].parent # 0 => d[x].parent \in Good
      PROVE  x \in Good
  <2>1. ASSUME NEW a \in Above(d, x), NEW b \in Above(d, x), a # x, b # x
        PROVE  a \in Above(d, b) \/ b \in Above(d, a)
    BY <1>1, <2>1, AboveParent
  <2> QED
    BY <2>1
<1> HIDE DEF Good
<1>2. Good = DOMAIN d
  <2>1. Good \subseteq DOMAIN d
    BY DEF Good
  <2> QED
    BY <1>1, <2>1, FromTheTop
<1> QED
  BY <1>2 DEF Good

\* From a node that is above x, the way down to x begins with a child of it.
LEMMA ChildTowards ==
  ASSUME NEW d, Rooted(d)
  PROVE  \A x \in DOMAIN d : \A p \in Above(d, x) \ {x} : \E b \in Above(d, x) : d[b].parent = p
<1> DEFINE Good == {x \in DOMAIN d : \A p \in Above(d, x) \ {x} : \E b \in Above(d, x) : d[b].parent = p}
<1>1. ASSUME NEW x \in DOMAIN d, d[x].parent # 0 => d[x].parent \in Good
      PROVE  x \in Good
  <2>1. ASSUME NEW p \in Above(d, x) \ {x} PROVE \E b \in Above(d, x) : d[b].parent = p
    <3>1. d[x].parent # 0 /\ p \in Above(d, d[x].parent) /\ Above(d, d[x].parent) \subseteq Above(d, x)
          /\ x \in Above(d, x)
      BY AboveParent
    <3>2. CASE p = d[x].parent
      BY <3>1, <3>2
    <3>3. CASE p # d[x].parent
      BY <1>1, <3>1, <3>3
    <3> QED
      BY <3>2, <3>3
  <2> QED
    BY <2>1
<1> HIDE DEF Good
<1>2. Good = DOMAIN d
  <2>1. Good \subseteq DOMAIN d
    BY DEF Good
  <2> QED
    BY <1>1, <2>1, FromTheTop
<1> QED
  BY <1>2 DEF Good

\* The nodes something may be in.
Containers == {"body", "block", "hidden", "span", "svg"}

\* The order of a document: every node but the first is in one on the path to the
\* node before it.
Tree(d) ==
  /\ Rooted(d)
  /\ \A n \in DOMAIN d : n # 1 => d[n].parent \in Above(d, n - 1) /\ d[d[n].parent].tag \in Containers

Below(d, n) == {m \in DOMAIN d : n \in Above(d, m)}

LEMMA BelowIs ==
  ASSUME NEW d, Rooted(d), NEW n \in DOMAIN d
  PROVE  /\ Below(d, n) \subseteq DOMAIN d /\ n \in Below(d, n) /\ \A m \in Below(d, n) : n <= m
         /\ \A k \in DOMAIN d : d[k].parent = n => Below(d, k) \subseteq Below(d, n) \ {n}
         /\ \A m \in Below(d, n) \ {n} : \E k \in DOMAIN d : d[k].parent = n /\ m \in Below(d, k)
<1>1. DOMAIN d \subseteq Nat /\ n # 0
  BY DEF Rooted
<1>2. n \in Below(d, n) /\ \A m \in Below(d, n) : n <= m
  BY AboveParent, AboveIsEarlier DEF Below
<1>3. ASSUME NEW k \in DOMAIN d, d[k].parent = n, NEW m \in Below(d, k)
      PROVE  m \in Below(d, n) \ {n}
  <2>1. m \in DOMAIN d /\ k \in Above(d, m) /\ k <= m
    BY AboveIsEarlier DEF Below
  <2>2. n < k /\ n \in Above(d, n) /\ Above(d, n) \subseteq Above(d, k)
    BY <1>1, <1>3, AboveParent
  <2>3. Above(d, k) \subseteq Above(d, m)
    BY <2>1, AboveNests
  <2> QED
    BY <1>1, <2>1, <2>2, <2>3 DEF Below
<1>4. ASSUME NEW m \in Below(d, n) \ {n}
      PROVE  \E k \in DOMAIN d : d[k].parent = n /\ m \in Below(d, k)
  <2>1. m \in DOMAIN d /\ n \in Above(d, m) \ {m}
    BY DEF Below
  <2>2. PICK k \in Above(d, m) : d[k].parent = n
    BY <2>1, ChildTowards
  <2>3. k \in DOMAIN d
    BY <2>1, <2>2, AboveIsEarlier
  <2> QED
    BY <2>1, <2>2, <2>3 DEF Below
<1> QED
  BY <1>2, <1>3, <1>4 DEF Below

\* The nodes below one follow it, with no other in between.
LEMMA BelowIsARun ==
  ASSUME NEW d, Tree(d), NEW k \in DOMAIN d, NEW m \in Below(d, k), NEW j \in k..m
  PROVE  j \in Below(d, k)
<1> DEFINE bad == {i \in 0..(m - k) : m - i \notin Below(d, k)}
<1>0. Rooted(d) /\ DOMAIN d = 1..Len(d) /\ Len(d) \in Nat /\ m \in DOMAIN d /\ k <= m /\ k \in Nat /\ m \in Nat
  BY BelowIs DEF Tree, Rooted
<1>1. bad = {}
  <2> SUFFICES ASSUME bad # {} PROVE FALSE
    OBVIOUS
  <2>1. PICK i \in bad : \A l \in bad : i <= l
    <3>1. bad \subseteq Nat
      BY <1>0
    <3> HIDE DEF bad
    <3> QED
      BY <3>1, LeastNumber
  <2>2. i \in 0..(m - k) /\ m - i \notin Below(d, k)
    BY <2>1
  <2>3. i # 0
    BY <1>0, <2>2
  <2>4. i - 1 \in 0..(m - k) /\ m - (i - 1) \in Below(d, k)
    <3>1. i - 1 \in 0..(m - k) /\ ~ (i <= i - 1)
      BY <1>0, <2>2, <2>3
    <3> QED
      BY <2>1, <3>1
  <2> DEFINE h == m - (i - 1)
  <2>5. h \in DOMAIN d /\ k \in Above(d, h) /\ h - 1 = m - i /\ h # k /\ k < h /\ h \in Nat
    BY <1>0, <2>2, <2>3, <2>4 DEF Below
  <2> HIDE DEF h
  <2>6. h # 1 /\ h - 1 \in DOMAIN d
    BY <1>0, <2>5
  <2>7. d[h].parent \in Above(d, h - 1) /\ k \in Above(d, d[h].parent)
    BY <1>0, <2>5, <2>6, AboveParent DEF Tree
  <2>8. k \in Above(d, h - 1)
    BY <1>0, <2>6, <2>7, AboveNests
  <2> QED
    BY <2>2, <2>5, <2>6, <2>8 DEF Below
<1>2. m - j \in 0..(m - k) /\ m - (m - j) = j
  BY <1>0
<1> QED
  BY <1>1, <1>2

\* What is below the elder of two siblings comes before what is below the younger.
LEMMA SiblingsApart ==
  ASSUME NEW d, Tree(d), NEW k \in DOMAIN d, NEW l \in DOMAIN d, k < l, d[k].parent = d[l].parent,
         NEW m \in Below(d, k), NEW n \in Below(d, l)
  PROVE  m < n
<1>0. Rooted(d) /\ DOMAIN d \subseteq Nat \ {0} /\ m \in DOMAIN d /\ n \in DOMAIN d /\ k <= m /\ l <= n
  BY BelowIs, SMTT(60) DEF Tree, Rooted
<1>1. m < l
  <2> SUFFICES ASSUME ~ (m < l) PROVE FALSE
    OBVIOUS
  <2>1. l \in k..m
    BY <1>0
  <2>2. k \in Above(d, l) \ {l}
    BY <1>0, <2>1, BelowIsARun DEF Below
  <2>3. k \in Above(d, d[l].parent) /\ d[l].parent \in DOMAIN d
    BY <1>0, <2>2, AboveParent
  <2>4. k <= d[l].parent /\ d[l].parent \in Nat
    BY <1>0, <2>3, AboveIsEarlier
  <2>5. d[k].parent < k
    BY <1>0, <2>3, AboveParent
  <2> QED
    BY <1>0, <2>4, <2>5
<1> QED
  BY <1>0, <1>1

---------------------------------------------------------------------------
(* Sequences one after another.                                             *)

\* What a function builds is a sequence.
LEMMA BuiltSeq ==
  ASSUME NEW S, NEW n \in Nat, NEW f \in [1..n -> S]
  PROVE  f \in Seq(S) /\ Len(f) = n
BY SeqDef

\* f is the first i of the parts one after another: it has at j what part p[j] has at
\* q[j].
Laid(parts, i, f, p, q) ==
  /\ p \in [DOMAIN f -> 1..i] /\ q \in [DOMAIN f -> Nat]
  /\ \A j \in DOMAIN f : q[j] \in DOMAIN parts[p[j]] /\ f[j] = parts[p[j]][q[j]]
  /\ \A j, l \in DOMAIN f : j < l => p[j] < p[l] \/ (p[j] = p[l] /\ q[j] < q[l])
  /\ \A a \in 1..i : \A b \in DOMAIN parts[a] : \E j \in DOMAIN f : p[j] = a /\ q[j] = b

LEMMA LaidFirst ==
  ASSUME NEW S, NEW parts \in Seq(Seq(S)), parts # <<>>
  PROVE  \E p, q : Laid(parts, 1, parts[1], p, q)
<1> DEFINE g == parts[1]  p == [j \in DOMAIN g |-> 1]  q == [j \in DOMAIN g |-> j]
<1>1. g \in Seq(S) /\ DOMAIN g \subseteq Nat
  OBVIOUS
<1>2. 1..1 = {1}
  OBVIOUS
<1>3. Laid(parts, 1, g, p, q)
  BY <1>1, <1>2 DEF Laid
<1> QED
  BY <1>3

LEMMA LaidOneMore ==
  ASSUME NEW S, NEW parts \in Seq(Seq(S)), NEW i \in Nat, i # 0, i + 1 \in DOMAIN parts,
         NEW f \in Seq(S), NEW p, NEW q, Laid(parts, i, f, p, q)
  PROVE  /\ f \o parts[i + 1] \in Seq(S)
         /\ \E r, s : Laid(parts, i + 1, f \o parts[i + 1], r, s)
<1> DEFINE g == parts[i + 1]
           h == f \o g
           m == Len(f)
           r == [j \in DOMAIN h |-> IF j <= m THEN p[j] ELSE i + 1]
           s == [j \in DOMAIN h |-> IF j <= m THEN q[j] ELSE j - m]
<1>1. /\ g \in Seq(S) /\ Len(g) \in Nat /\ m \in Nat /\ DOMAIN f = 1..m /\ DOMAIN g = 1..Len(g)
      /\ h \in Seq(S) /\ DOMAIN h = 1..(m + Len(g))
      /\ \A j \in DOMAIN h : h[j] = IF j <= m THEN f[j] ELSE g[j - m]
  OBVIOUS
<1> HIDE DEF g, h, m
<1>2. /\ p \in [1..m -> 1..i] /\ q \in [1..m -> Nat]
      /\ \A j \in 1..m : q[j] \in DOMAIN parts[p[j]] /\ f[j] = parts[p[j]][q[j]]
      /\ \A j, l \in 1..m : j < l => p[j] < p[l] \/ (p[j] = p[l] /\ q[j] < q[l])
      /\ \A a \in 1..i : \A b \in DOMAIN parts[a] : \E j \in 1..m : p[j] = a /\ q[j] = b
  <2>1. DOMAIN f = 1..m
    BY <1>1
  <2>2. p \in [1..m -> 1..i] /\ q \in [1..m -> Nat]
    BY <2>1 DEF Laid
  <2>3. \A j \in 1..m : q[j] \in DOMAIN parts[p[j]] /\ f[j] = parts[p[j]][q[j]]
    BY <2>1 DEF Laid
  <2>4. \A j, l \in 1..m : j < l => p[j] < p[l] \/ (p[j] = p[l] /\ q[j] < q[l])
    BY <2>1 DEF Laid
  <2>5. \A a \in 1..i : \A b \in DOMAIN parts[a] : \E j \in 1..m : p[j] = a /\ q[j] = b
    BY <2>1 DEF Laid
  <2> QED
    BY <2>2, <2>3, <2>4, <2>5
<1>3. ASSUME NEW j \in DOMAIN h
      PROVE  \/ j \in 1..m /\ r[j] = p[j] /\ s[j] = q[j] /\ h[j] = f[j] /\ p[j] \in 1..i
             \/ j - m \in DOMAIN g /\ j > m /\ r[j] = i + 1 /\ s[j] = j - m /\ h[j] = g[j - m]
  BY <1>1, <1>2, SMTT(60)
<1>4. DOMAIN r = DOMAIN h /\ DOMAIN s = DOMAIN h
  OBVIOUS
<1>9. r = [j \in DOMAIN h |-> r[j]] /\ s = [j \in DOMAIN h |-> s[j]]
  OBVIOUS
<1>10. \A j \in DOMAIN f : j \in DOMAIN h /\ r[j] = p[j] /\ s[j] = q[j]
  BY <1>1
<1>11. \A j \in DOMAIN g : m + j \in DOMAIN h /\ r[m + j] = i + 1 /\ s[m + j] = j
  BY <1>1
<1> HIDE DEF r, s
<1>5. r \in [DOMAIN h -> 1..(i + 1)] /\ s \in [DOMAIN h -> Nat]
  <2>1. \A j \in DOMAIN h : r[j] \in 1..(i + 1) /\ s[j] \in Nat
    <3> SUFFICES ASSUME NEW j \in DOMAIN h PROVE r[j] \in 1..(i + 1) /\ s[j] \in Nat
      OBVIOUS
    <3>1. CASE j \in 1..m /\ r[j] = p[j] /\ s[j] = q[j] /\ p[j] \in 1..i
      BY <1>2, <3>1
    <3>2. CASE j - m \in DOMAIN g /\ r[j] = i + 1 /\ s[j] = j - m
      BY <1>1, <3>2
    <3> QED
      BY <1>3, <3>1, <3>2
  <2> QED
    BY <1>9, <2>1
<1>6. \A j \in DOMAIN h : s[j] \in DOMAIN parts[r[j]] /\ h[j] = parts[r[j]][s[j]]
  <2> SUFFICES ASSUME NEW j \in DOMAIN h PROVE s[j] \in DOMAIN parts[r[j]] /\ h[j] = parts[r[j]][s[j]]
    OBVIOUS
  <2>1. CASE j \in 1..m /\ r[j] = p[j] /\ s[j] = q[j] /\ h[j] = f[j]
    <3>1. q[j] \in DOMAIN parts[p[j]] /\ f[j] = parts[p[j]][q[j]]
      BY <1>2, <2>1
    <3> QED
      BY <2>1, <3>1
  <2>2. CASE j - m \in DOMAIN g /\ r[j] = i + 1 /\ s[j] = j - m /\ h[j] = g[j - m]
    <3>1. g = parts[i + 1]
      BY DEF g
    <3> HIDE DEF g
    <3> QED
      BY <2>2, <3>1, Zenon
  <2> QED
    BY <1>3, <2>1, <2>2, Zenon
<1>7. ASSUME NEW j \in DOMAIN h, NEW l \in DOMAIN h, j < l
      PROVE  r[j] < r[l] \/ (r[j] = r[l] /\ s[j] < s[l])
  <2>0. j \in Nat /\ l \in Nat
    BY <1>1
  <2>1. CASE l \in 1..m
    <3>1. j \in 1..m
      BY <1>1, <1>7, <2>0, <2>1
    <3>2. r[j] = p[j] /\ s[j] = q[j] /\ r[l] = p[l] /\ s[l] = q[l]
      BY <1>10, <1>1, <2>1, <3>1
    <3>3. p[j] < p[l] \/ (p[j] = p[l] /\ q[j] < q[l])
      BY <1>2, <1>7, <2>1, <3>1
    <3> QED
      BY <3>2, <3>3
  <2>2. CASE l > m /\ j \in 1..m
    <3>1. r[j] = p[j] /\ p[j] \in 1..i
      BY <1>1, <1>2, <1>10, <2>2
    <3>2. r[l] = i + 1
      BY <1>1, <1>3, <2>0, <2>2
    <3> QED
      BY <3>1, <3>2
  <2>3. CASE l > m /\ j > m
    BY <1>1, <1>3, <1>7, <2>0, <2>3
  <2> QED
    BY <1>1, <2>0, <2>1, <2>2, <2>3
<1>8. ASSUME NEW a \in 1..(i + 1), NEW b \in DOMAIN parts[a]
      PROVE  \E j \in DOMAIN h : r[j] = a /\ s[j] = b
  <2>1. CASE a \in 1..i
    <3>1. PICK j \in 1..m : p[j] = a /\ q[j] = b
      BY <1>2, <2>1
    <3>2. j \in DOMAIN h /\ r[j] = p[j] /\ s[j] = q[j]
      BY <1>1, <1>10
    <3> QED
      BY <3>1, <3>2
  <2>2. CASE a = i + 1
    BY <1>11, <2>2 DEF g
  <2> QED
    BY <2>1, <2>2
<1>12. Laid(parts, i + 1, h, r, s)
  BY <1>5, <1>6, <1>7, <1>8 DEF Laid
<1> QED
  BY <1>1, <1>12 DEF h, g

\* FlattenSeq puts the parts one after another.
LEMMA FlattenIs ==
  ASSUME NEW S, NEW parts \in Seq(Seq(S))
  PROVE  /\ FlattenSeq(parts) \in Seq(S)
         /\ \E p, q : Laid(parts, Len(parts), FlattenSeq(parts), p, q)
<1> DEFINE N == Len(parts)
           Solves(f, n) == f = [i \in 1..n |-> IF i = 1 THEN parts[i] ELSE f[i - 1] \o parts[i]]
           bad == {n \in 0..N : ~ \E f : Solves(f, n)}
<1>1. N \in Nat /\ DOMAIN parts = 1..N
  OBVIOUS
<1>2. CASE parts = <<>>
  <2>1. FlattenSeq(parts) = <<>> /\ N = 0
    BY <1>2 DEF FlattenSeq
  <2>2. Laid(parts, 0, <<>>, <<>>, <<>>)
    BY DEF Laid
  <2> QED
    BY <2>1, <2>2
<1>3. CASE parts # <<>>
  <2>0. N # 0
    BY <1>3
  <2> HIDE DEF N
  <2>1. bad = {}
    <3> SUFFICES ASSUME bad # {} PROVE FALSE
      OBVIOUS
    <3>1. PICK n \in bad : \A m \in bad : n <= m
      <4>1. bad \subseteq Nat
        <5> HIDE DEF Solves
        <5> QED
          BY <1>1
      <4> HIDE DEF bad
      <4> QED
        BY <4>1, LeastNumber
    <3>2. CASE n = 0
      <4>1. Solves([i \in 1..0 |-> <<>>], 0)
        OBVIOUS
      <4> QED
        BY <3>1, <3>2, <4>1
    <3>3. CASE n # 0
      <4>1. n \in 1..N /\ n - 1 \in 0..N /\ n - 1 \notin bad
        <5>1. n \in 0..N
          BY <3>1
        <5>2. n - 1 \in 0..N /\ ~ (n <= n - 1) /\ n \in 1..N
          BY <1>1, <3>3, <5>1
        <5> HIDE DEF bad
        <5> QED
          BY <3>1, <5>2
      <4>2. PICK f : Solves(f, n - 1)
        BY <4>1
      <4> DEFINE g == [i \in 1..n |-> IF i = n THEN (IF i = 1 THEN parts[i] ELSE f[i - 1] \o parts[i]) ELSE f[i]]
      <4>3. n - 1 \in Nat /\ 1..(n - 1) \subseteq 1..n /\ n \notin 1..(n - 1)
        BY <4>1
      <4>4. \A i \in 1..(n - 1) : g[i] = f[i] /\ f[i] = IF i = 1 THEN parts[i] ELSE f[i - 1] \o parts[i]
        <5> SUFFICES ASSUME NEW i \in 1..(n - 1)
                     PROVE  g[i] = f[i] /\ f[i] = IF i = 1 THEN parts[i] ELSE f[i - 1] \o parts[i]
          OBVIOUS
        <5>1. i \in 1..n /\ i # n
          BY <4>3
        <5>2. g[i] = f[i]
          BY <5>1
        <5> HIDE DEF g
        <5>3. f[i] = IF i = 1 THEN parts[i] ELSE f[i - 1] \o parts[i]
          BY <4>2
        <5> QED
          BY <5>2, <5>3
      <4>5. \A i \in 1..n : g[i] = IF i = 1 THEN parts[i] ELSE g[i - 1] \o parts[i]
        <5> SUFFICES ASSUME NEW i \in 1..n
                     PROVE  g[i] = IF i = 1 THEN parts[i] ELSE g[i - 1] \o parts[i]
          OBVIOUS
        <5>1. i # 1 => i - 1 \in 1..(n - 1)
          BY <4>1
        <5>2. i # 1 => g[i - 1] = f[i - 1]
          BY <4>4, <5>1
        <5>3. g[i] = IF i = 1 THEN parts[i] ELSE f[i - 1] \o parts[i]
          <6>1. CASE i = n
            BY <6>1
          <6>2. CASE i # n
            <7>1. i \in 1..(n - 1)
              BY <4>1, <6>2
            <7> QED
              BY <4>4, <7>1
          <6> QED
            BY <6>1, <6>2
        <5> HIDE DEF g
        <5> QED
          BY <5>2, <5>3
      <4>6. Solves(g, n)
        BY <4>5
      <4> QED
        BY <3>1, <4>6
    <3> QED
      BY <3>2, <3>3
  <2> DEFINE flat == CHOOSE f : Solves(f, N)
  <2>2. Solves(flat, N)
    <3>1. N \in 0..N /\ N \notin bad
      <4> HIDE DEF bad
      <4> QED
        BY <1>1, <2>1
    <3> QED
      BY <3>1
  <2>3. FlattenSeq(parts) = flat[N]
    BY <2>0 DEF FlattenSeq, N
  <2> HIDE DEF flat
  <2>4. \A i \in 1..N : flat[i] = IF i = 1 THEN parts[i] ELSE flat[i - 1] \o parts[i]
    BY <2>2
  <2> HIDE DEF Solves, bad
  <2> DEFINE Fine(i) == flat[i] \in Seq(S) /\ \E p, q : Laid(parts, i, flat[i], p, q)
             off == {i \in 1..N : ~ Fine(i)}
  <2>5. off = {}
    <3> SUFFICES ASSUME off # {} PROVE FALSE
      OBVIOUS
    <3>1. PICK n \in off : \A m \in off : n <= m
      <4>1. off \subseteq Nat
        OBVIOUS
      <4> HIDE DEF off
      <4> QED
        BY <4>1, LeastNumber
    <3>2. n \in 1..N /\ ~ Fine(n)
      BY <3>1
    <3>3. CASE n = 1
      <4>1. flat[1] = parts[1] /\ parts[1] \in Seq(S)
        BY <1>1, <2>4, <3>2, <3>3
      <4> QED
        BY <1>3, <3>2, <3>3, <4>1, LaidFirst
    <3>4. CASE n # 1
      <4>1. n - 1 \in 1..N /\ ~ (n <= n - 1)
        BY <1>1, <3>2, <3>4
      <4>2. Fine(n - 1)
        BY <3>1, <4>1
      <4>3. PICK p, q : Laid(parts, n - 1, flat[n - 1], p, q)
        BY <4>2
      <4>4. n - 1 \in Nat /\ n - 1 # 0 /\ (n - 1) + 1 = n /\ n \in DOMAIN parts
        BY <1>1, <3>2, <4>1
      <4>5. flat[n] = flat[n - 1] \o parts[n]
        BY <2>4, <3>2, <3>4
      <4>6. flat[n - 1] \in Seq(S)
        BY <4>2
      <4> HIDE DEF Fine
      <4>7. flat[n - 1] \o parts[(n - 1) + 1] \in Seq(S)
            /\ \E r, s : Laid(parts, (n - 1) + 1, flat[n - 1] \o parts[(n - 1) + 1], r, s)
        BY <4>3, <4>4, <4>6, LaidOneMore
      <4>8. Fine(n)
        BY <4>4, <4>5, <4>7 DEF Fine
      <4> QED
        BY <3>2, <4>8
    <3> QED
      BY <3>3, <3>4
  <2>6. N \in 1..N
    BY <1>1, <2>0
  <2>7. Fine(N)
    BY <2>5, <2>6
  <2> QED
    BY <2>3, <2>7 DEF N
<1> QED
  BY <1>2, <1>3

---------------------------------------------------------------------------
(* Recursion from the end of a document to its beginning.                   *)

\* F computes something in V for each place from the places after it.
ComputedFrom(N, V, F) ==
  /\ N \in Nat /\ F \in [1..N -> [[1..N -> V] -> V]]
  /\ \A n \in 1..N : \A f, g \in [1..N -> V] :
       (\A m \in 1..N : n < m => f[m] = g[m]) => F[n][f] = F[n][g]

Computed(N, V, F, f) ==
  f \in [1..N -> V] /\ \A n \in 1..N : f[n] = F[n][f]

\* There is a function of what is computed.
LEMMA FromTheBottom ==
  ASSUME NEW N, NEW V, V # {}, NEW F, ComputedFrom(N, V, F)
  PROVE  \E f : Computed(N, V, F, f)
<1> USE DEF ComputedFrom
<1>0. PICK v \in V : TRUE
  OBVIOUS
<1> DEFINE Solves(f, k) == \A n \in 1..N : N - n < k => f[n] = F[n][f]
           bad == {k \in 0..N : ~ \E f \in [1..N -> V] : Solves(f, k)}
<1>1. bad = {}
  <2> SUFFICES ASSUME bad # {} PROVE FALSE
    OBVIOUS
  <2>1. PICK k \in bad : \A m \in bad : k <= m
    <3>1. bad \subseteq Nat
      <4> HIDE DEF Solves
      <4> QED
        OBVIOUS
    <3> HIDE DEF bad
    <3> QED
      BY <3>1, LeastNumber
  <2> HIDE DEF Solves
  <2>2. k \in 0..N /\ ~ \E f \in [1..N -> V] : Solves(f, k)
    BY <2>1
  <2>3. CASE k = 0
    <3>1. [n \in 1..N |-> v] \in [1..N -> V]
      OBVIOUS
    <3>2. \A n \in 1..N : ~ (N - n < 0)
      OBVIOUS
    <3>3. Solves([n \in 1..N |-> v], 0)
      BY <3>2 DEF Solves
    <3> QED
      BY <2>2, <2>3, <3>1, <3>3
  <2>4. CASE k # 0
    <3>1. k - 1 \in 0..N /\ ~ (k <= k - 1)
      BY <2>2, <2>4
    <3>2. k - 1 \notin bad
      <4> HIDE DEF bad
      <4> QED
        BY <2>1, <3>1
    <3>3. PICK f \in [1..N -> V] : Solves(f, k - 1)
      BY <3>1, <3>2
    <3> DEFINE t == N - (k - 1)
               g == [f EXCEPT ![t] = F[t][f]]
    <3>4. t \in 1..N /\ N - t = k - 1
      BY <2>2, <2>4
    <3> HIDE DEF t
    <3>5. F[t] \in [[1..N -> V] -> V]
      BY <3>4
    <3>6. F[t][f] \in V
      BY <3>5
    <3>7. g \in [1..N -> V] /\ g[t] = F[t][f] /\ \A n \in 1..N : n # t => g[n] = f[n]
      BY <3>4, <3>6
    <3> HIDE DEF g
    <3>8. ASSUME NEW n \in 1..N, N - n < k
          PROVE  g[n] = F[n][g]
      <4>1. t <= n
        BY <2>2, <3>4, <3>8
      <4>2. \A m \in 1..N : n < m => f[m] = g[m]
        BY <3>4, <3>7, <4>1
      <4>3. F[n][f] = F[n][g]
        BY <3>7, <4>2
      <4>4. CASE n = t
        BY <3>7, <4>3, <4>4
      <4>5. CASE n # t
        <5>1. N - n < k - 1
          BY <2>2, <3>4, <4>1, <4>5
        <5>2. f[n] = F[n][f]
          BY <3>3, <5>1 DEF Solves
        <5> QED
          BY <3>7, <4>3, <4>5, <5>2
      <4> QED
        BY <4>4, <4>5
    <3>9. Solves(g, k)
      BY <3>8 DEF Solves
    <3> QED
      BY <2>2, <3>7, <3>9
  <2> QED
    BY <2>3, <2>4
<1>2. PICK f \in [1..N -> V] : Solves(f, N)
  <2>1. N \in 0..N /\ N \notin bad
    <3> HIDE DEF bad
    <3> QED
      BY <1>1
  <2> HIDE DEF Solves
  <2> QED
    BY <2>1
<1>3. \A n \in 1..N : N - n < N
  OBVIOUS
<1> QED
  BY <1>2, <1>3 DEF Computed

\* An induction from the end of the document: from what is in a node to the node.
LEMMA FromTheKids ==
  ASSUME NEW d, Rooted(d), NEW Good, Good \subseteq DOMAIN d,
         \A n \in DOMAIN d : (\A k \in DOMAIN d : d[k].parent = n => k \in Good) => n \in Good
  PROVE  Good = DOMAIN d
<1> SUFFICES ASSUME DOMAIN d \ Good # {} PROVE FALSE
  OBVIOUS
<1> DEFINE N == Len(d)
           left == {N - n : n \in DOMAIN d \ Good}
<1>1. N \in Nat /\ DOMAIN d = 1..N
  BY DEF Rooted
<1>2. left \subseteq Nat /\ left # {}
  <2>1. left # {}
    OBVIOUS
  <2>2. ASSUME NEW n \in 1..N PROVE N - n \in Nat
    <3> HIDE DEF N
    <3> QED
      BY <1>1
  <2>3. ASSUME NEW l \in left PROVE l \in Nat
    <3>1. PICK n \in DOMAIN d \ Good : l = N - n
      OBVIOUS
    <3>2. n \in 1..N
      BY <1>1, <3>1
    <3> HIDE DEF N
    <3> QED
      BY <2>2, <3>1, <3>2
  <2> QED
    BY <2>1, <2>3
<1>3. PICK l \in left : \A m \in left : l <= m
  <2> HIDE DEF left
  <2> QED
    BY <1>2, LeastNumber
<1>4. PICK n \in DOMAIN d \ Good : l = N - n
  BY <1>3
<1>5. ASSUME NEW k \in DOMAIN d, d[k].parent = n, k \notin Good
      PROVE  FALSE
  <2>1. n < k /\ n \in Nat /\ k \in Nat
    <3>1. n \in Nat /\ k \in Nat /\ n # 0
      <4>1. n \in 1..N /\ k \in 1..N
        BY <1>1, <1>4, <1>5, Zenon
      <4> HIDE DEF left, N
      <4> QED
        BY <1>1, <4>1
    <3> QED
      BY <1>5, <3>1, AboveParent
  <2>2. N - k \in left
    BY <1>5
  <2> HIDE DEF left
  <2>3. l <= N - k
    BY <1>3, <2>2
  <2>4. N - n <= N - k /\ N \in Nat
    BY <1>1, <1>4, <2>3, Zenon
  <2> HIDE DEF N
  <2> QED
    BY <2>1, <2>4
<1> QED
  BY <1>4, <1>5

Grows(a, f) ==
  /\ a \in Nat /\ f \in [1..a -> Nat]
  /\ \A i, j \in 1..a : i < j => f[i] < f[j]

SameNumbers(a, f, b, g) ==
  /\ \A i \in 1..a : \E j \in 1..b : f[i] = g[j]
  /\ \A i \in 1..b : \E j \in 1..a : g[i] = f[j]

\* Two lists of numbers that grow and have the same numbers are the same.
LEMMA SortedSame ==
  ASSUME NEW a, NEW b, NEW f, NEW g, Grows(a, f), Grows(b, g), SameNumbers(a, f, b, g)
  PROVE  a = b /\ f = g
<1> USE DEF Grows, SameNumbers
<1> DEFINE bad == {i \in (1..a) \cup (1..b) : ~ (i \in 1..a /\ i \in 1..b /\ f[i] = g[i])}
<1>1. bad = {}
  <2> SUFFICES ASSUME bad # {} PROVE FALSE
    OBVIOUS
  <2>1. PICK i \in bad : \A m \in bad : i <= m
    <3>1. (1..a) \cup (1..b) \subseteq Nat
      OBVIOUS
    <3>2. bad \subseteq (1..a) \cup (1..b)
      OBVIOUS
    <3>3. bad \subseteq Nat
      BY <3>1, <3>2
    <3> HIDE DEF bad
    <3> QED
      BY <3>3, LeastNumber
  <2>2. i \in Nat /\ (i \in 1..a \/ i \in 1..b)
    BY <2>1
  <2>3. \A j \in Nat : j # 0 /\ j < i => j \in 1..a /\ j \in 1..b /\ f[j] = g[j]
    <3> SUFFICES ASSUME NEW j \in Nat, j # 0, j < i
                 PROVE  j \in 1..a /\ j \in 1..b /\ f[j] = g[j]
      OBVIOUS
    <3>1. j \in (1..a) \cup (1..b) /\ ~ (i <= j)
      BY <2>2
    <3>2. j \notin bad
      <4> HIDE DEF bad
      <4> QED
        BY <2>1, <3>1
    <3> QED
      BY <3>1, <3>2
  <2>4. ASSUME i \in 1..a PROVE i \in 1..b /\ g[i] <= f[i]
    <3>1. PICK k \in 1..b : f[i] = g[k]
      BY <2>4
    <3>2. ~ (k < i)
      <4> SUFFICES ASSUME k < i PROVE FALSE
        OBVIOUS
      <4>1. k \in 1..a /\ f[k] = g[k]
        <5>1. k \in Nat /\ k # 0
          OBVIOUS
        <5> HIDE DEF bad
        <5> QED
          BY <2>3, <5>1
      <4>2. f[k] < f[i] /\ f[k] \in Nat /\ f[i] \in Nat
        BY <2>4, <4>1
      <4> QED
        BY <3>1, <4>1, <4>2
    <3>3. i \in 1..b
      BY <2>2, <2>4, <3>2
    <3>4. CASE k = i
      BY <2>4, <3>1, <3>3, <3>4
    <3>5. CASE i < k
      <4>1. g[i] < g[k] /\ g[i] \in Nat /\ g[k] \in Nat
        BY <3>3, <3>5
      <4> QED
        BY <3>1, <3>3, <4>1
    <3> QED
      BY <2>2, <3>2, <3>4, <3>5
  <2>5. ASSUME i \in 1..b PROVE i \in 1..a /\ f[i] <= g[i]
    <3>1. PICK k \in 1..a : g[i] = f[k]
      BY <2>5
    <3>2. ~ (k < i)
      <4> SUFFICES ASSUME k < i PROVE FALSE
        OBVIOUS
      <4>1. k \in 1..b /\ f[k] = g[k]
        <5>1. k \in Nat /\ k # 0
          OBVIOUS
        <5> HIDE DEF bad
        <5> QED
          BY <2>3, <5>1
      <4>2. g[k] < g[i] /\ g[k] \in Nat /\ g[i] \in Nat
        BY <2>5, <4>1
      <4> QED
        BY <3>1, <4>1, <4>2
    <3>3. i \in 1..a
      BY <2>2, <2>5, <3>2
    <3>4. CASE k = i
      BY <3>1, <3>3, <3>4
    <3>5. CASE i < k
      <4>1. f[i] < f[k] /\ f[i] \in Nat /\ f[k] \in Nat
        BY <3>3, <3>5
      <4> QED
        BY <3>1, <3>3, <4>1
    <3> QED
      BY <2>2, <3>2, <3>4, <3>5
  <2>6. i \in 1..a /\ i \in 1..b /\ f[i] \in Nat /\ g[i] \in Nat /\ g[i] <= f[i] /\ f[i] <= g[i]
    BY <2>2, <2>4, <2>5
  <2> QED
    BY <2>1, <2>6
<1>2. \A i \in (1..a) \cup (1..b) : i \in 1..a /\ i \in 1..b /\ f[i] = g[i]
  BY <1>1
<1>3. a = b
  <2>1. a # 0 => a \in 1..a /\ a <= b
    BY <1>2
  <2>2. b # 0 => b \in 1..b /\ b <= a
    BY <1>2
  <2> QED
    BY <2>1, <2>2
<1> QED
  BY <1>2, <1>3

\* The children of a node, in order, are c.
Children(d, n, c) ==
  /\ c \in Nat /\ DOMAIN Kids(d, n) = 1..c
  /\ \A i \in 1..c : Kids(d, n)[i] \in DOMAIN d /\ d[Kids(d, n)[i]].parent = n /\ n < Kids(d, n)[i]
  /\ \A k \in DOMAIN d : d[k].parent = n => \E i \in 1..c : Kids(d, n)[i] = k
  /\ \A i, j \in 1..c : i < j => Kids(d, n)[i] < Kids(d, n)[j]

LEMMA KidsAre ==
  ASSUME NEW d, Rooted(d), NEW n \in DOMAIN d
  PROVE  \E c : Children(d, n, c)
<1> DEFINE kids == {m \in DOMAIN d : d[m].parent = n}
           c == Cardinality(kids)
<1>1. DOMAIN d = 1..Len(d) /\ Len(d) \in Nat
  BY DEF Rooted
<1>2. kids \in SUBSET (1..Len(d))
  BY <1>1
<1>3. \A k \in kids : k \in DOMAIN d /\ d[k].parent = n /\ n < k
  BY <1>1, AboveParent
<1>4. \A k \in DOMAIN d : d[k].parent = n => k \in kids
  OBVIOUS
<1> HIDE DEF kids
<1>5. /\ c \in Nat /\ InOrder(kids) \in [1..c -> kids]
      /\ \A i \in kids : \E k \in 1..c : InOrder(kids)[k] = i
      /\ \A k, l \in 1..c : k < l => InOrder(kids)[k] < InOrder(kids)[l]
  BY <1>1, <1>2, InOrderLists
<1>6. Kids(d, n) = InOrder(kids)
  BY DEF Kids, kids
<1> HIDE DEF c
<1>7. Children(d, n, c)
  BY <1>3, <1>4, <1>5, <1>6 DEF Children
<1> QED
  BY <1>7

---------------------------------------------------------------------------
(* The snapshot.                                                            *)

\* What is visible from n: the way from it down to the node is what counts.
LEMMA VisibleIs ==
  ASSUME NEW d, Rooted(d), NEW n \in DOMAIN d, NEW m
  PROVE  m \in Visible(d, n) <=>
           /\ m \in Below(d, n) /\ d[m].tag \notin {"text", "body"}
           /\ \A a \in Above(d, m) \cap Below(d, n) : ~ Pruned(d[a].tag)
<1>1. ASSUME NEW k \in Below(d, n)
      PROVE  Above(d, k) \ (Above(d, n) \ {n}) = Above(d, k) \cap Below(d, n)
  <2>1. k \in DOMAIN d /\ n \in Above(d, k) /\ Above(d, k) \subseteq DOMAIN d
    BY AboveIsEarlier DEF Below
  <2>2. ASSUME NEW a \in Above(d, k), a \notin Above(d, n) \ {n} PROVE a \in Below(d, n)
    <3>1. a \in Above(d, n) \/ n \in Above(d, a)
      BY <2>1, AboveIsALine
    <3> QED
      BY <2>1, <2>2, <3>1, BelowIs DEF Below
  <2>3. ASSUME NEW a \in Above(d, k) \cap Below(d, n) PROVE a \notin Above(d, n) \ {n}
    <3>1. n <= a /\ n \in Nat /\ a \in Nat
      BY BelowIs DEF Rooted
    <3>2. a \in Above(d, n) => a <= n
      BY AboveIsEarlier
    <3> QED
      BY <3>1, <3>2
  <2> QED
    BY <2>2, <2>3
<1>2. m \in Visible(d, n) <=>
        /\ m \in Below(d, n) /\ d[m].tag \notin {"text", "body"}
        /\ \A a \in Above(d, m) \ (Above(d, n) \ {n}) : ~ Pruned(d[a].tag)
  BY DEF Visible, Below, Pruned
<1> QED
  BY <1>1, <1>2

\* The way down from n is n and then the way down from its child.
LEMMA KidPath ==
  ASSUME NEW d, Rooted(d), NEW n \in DOMAIN d, NEW k \in DOMAIN d, d[k].parent = n, NEW m \in Below(d, k)
  PROVE  Above(d, m) \cap Below(d, n) = (Above(d, m) \cap Below(d, k)) \cup {n}
<1>1. m \in DOMAIN d /\ k \in Above(d, m) /\ Below(d, k) \subseteq Below(d, n) \ {n} /\ n \in Below(d, n)
  BY BelowIs DEF Below
<1>2. n # 0 /\ n < k /\ n \in Above(d, k)
  <2>1. n # 0
    BY DEF Rooted
  <2> QED
    BY <2>1, AboveParent
<1>3. n \in Above(d, m) /\ Above(d, m) \subseteq DOMAIN d
  BY <1>1, <1>2, AboveNests, AboveIsEarlier
<1>4. ASSUME NEW a \in Above(d, m) \cap Below(d, n), a # n PROVE a \in Below(d, k)
  <2>1. a \in DOMAIN d /\ n \in Above(d, a) /\ n <= a
    BY BelowIs DEF Below
  <2>2. a \in Above(d, k) \/ k \in Above(d, a)
    BY <1>1, AboveIsALine
  <2>3. CASE k \in Above(d, a)
    BY <2>1, <2>3 DEF Below
  <2>4. CASE a \in Above(d, k) /\ a # k
    <3>1. a \in Above(d, n)
      BY <2>4, AboveParent
    <3>2. a <= n /\ a \in Nat /\ n \in Nat
      BY <2>1, <3>1, AboveIsEarlier DEF Rooted
    <3> QED
      BY <1>4, <2>1, <3>2
  <2> QED
    BY <2>1, <2>2, <2>3, <2>4, AboveParent DEF Below
<1> QED
  BY <1>1, <1>3, <1>4

\* What is visible from n is n and what is visible from its children.
LEMMA VisibleSplits ==
  ASSUME NEW d, Tree(d), NEW n \in DOMAIN d
  PROVE  /\ (d[n].tag = "text" \/ Pruned(d[n].tag)) => Visible(d, n) = {}
         /\ ~ Pruned(d[n].tag) =>
              /\ d[n].tag \notin {"text", "body"} <=> n \in Visible(d, n)
              /\ \A k \in DOMAIN d : d[k].parent = n =>
                   \A m \in Below(d, k) : m \in Visible(d, n) <=> m \in Visible(d, k)
              /\ \A m \in Visible(d, n) \ {n} : \E k \in DOMAIN d : d[k].parent = n /\ m \in Visible(d, k)
<1>0. Rooted(d) /\ n \in Nat \ {0}
  BY DEF Tree, Rooted
<1>1. ASSUME d[n].tag = "text", NEW m \in Visible(d, n)
      PROVE  FALSE
  <2>1. m \in Below(d, n) \ {n}
    BY <1>0, <1>1, VisibleIs
  <2>2. PICK k \in DOMAIN d : d[k].parent = n
    BY <1>0, <2>1, BelowIs
  <2>3. k # 1
    <3>1. n < k
      BY <1>0, <2>2, AboveParent
    <3> QED
      BY <1>0, <3>1
  <2>4. d[n].tag \in Containers
    BY <2>2, <2>3 DEF Tree
  <2> QED
    BY <1>1, <2>4 DEF Containers
<1>2. ASSUME Pruned(d[n].tag), NEW m \in Visible(d, n)
      PROVE  FALSE
  <2>1. m \in Below(d, n) /\ \A a \in Above(d, m) \cap Below(d, n) : ~ Pruned(d[a].tag)
    BY <1>0, VisibleIs
  <2>2. n \in Above(d, m) \cap Below(d, n)
    BY <1>0, <2>1, BelowIs DEF Below
  <2> QED
    BY <1>2, <2>1, <2>2
<1>3. ASSUME ~ Pruned(d[n].tag)
      PROVE  d[n].tag \notin {"text", "body"} <=> n \in Visible(d, n)
  <2>1. n \in Below(d, n)
    BY <1>0, BelowIs
  <2>2. ASSUME NEW a \in Above(d, n) \cap Below(d, n) PROVE a = n
    <3>1. a <= n /\ n <= a /\ a \in Nat /\ n \in Nat
      BY <1>0, AboveIsEarlier, BelowIs DEF Rooted
    <3> QED
      BY <3>1
  <2> QED
    BY <1>0, <1>3, <2>1, <2>2, VisibleIs
<1>4. ASSUME ~ Pruned(d[n].tag), NEW k \in DOMAIN d, d[k].parent = n, NEW m \in Below(d, k)
      PROVE  m \in Visible(d, n) <=> m \in Visible(d, k)
  <2>1. Above(d, m) \cap Below(d, n) = (Above(d, m) \cap Below(d, k)) \cup {n}
    BY <1>0, <1>4, KidPath
  <2>2. m \in Below(d, n)
    BY <1>0, <1>4, BelowIs
  <2>3. m \in Visible(d, n) <=>
          /\ d[m].tag \notin {"text", "body"}
          /\ \A a \in Above(d, m) \cap Below(d, n) : ~ Pruned(d[a].tag)
    BY <1>0, <2>2, VisibleIs
  <2>4. m \in Visible(d, k) <=>
          /\ d[m].tag \notin {"text", "body"}
          /\ \A a \in Above(d, m) \cap Below(d, k) : ~ Pruned(d[a].tag)
    BY <1>0, VisibleIs
  <2> QED
    BY <1>4, <2>1, <2>3, <2>4
<1>5. ASSUME ~ Pruned(d[n].tag), NEW m \in Visible(d, n) \ {n}
      PROVE  \E k \in DOMAIN d : d[k].parent = n /\ m \in Visible(d, k)
  <2>1. m \in Below(d, n) \ {n}
    BY <1>0, VisibleIs
  <2>2. PICK k \in DOMAIN d : d[k].parent = n /\ m \in Below(d, k)
    BY <1>0, <2>1, BelowIs
  <2> QED
    BY <1>4, <1>5, <2>2
<1> QED
  BY <1>1, <1>2, <1>3, <1>4, <1>5

LEMMA VisibleIsFinite ==
  ASSUME NEW d, Rooted(d), NEW n \in DOMAIN d
  PROVE  /\ Visible(d, n) \subseteq Below(d, n) /\ Visible(d, n) \subseteq 1..Len(d)
         /\ \A m \in DOMAIN d : IsFiniteSet(Above(d, m)) /\ IsFiniteSet(Above(d, m) \cap Visible(d, n))
                                /\ Cardinality(Above(d, m) \cap Visible(d, n)) \in Nat
         /\ \A m \in Visible(d, n) : m \in Above(d, m) /\ Cardinality(Above(d, m) \cap Visible(d, n)) # 0
<1>1. DOMAIN d = 1..Len(d) /\ Len(d) \in Nat /\ IsFiniteSet(1..Len(d))
  BY FS_Interval DEF Rooted
<1>2. Visible(d, n) \subseteq Below(d, n) /\ Visible(d, n) \subseteq 1..Len(d)
  BY <1>1, VisibleIs, BelowIs
<1>3. ASSUME NEW m \in DOMAIN d
      PROVE  IsFiniteSet(Above(d, m)) /\ IsFiniteSet(Above(d, m) \cap Visible(d, n))
             /\ Cardinality(Above(d, m) \cap Visible(d, n)) \in Nat
  <2>1. Above(d, m) \subseteq 1..Len(d)
    BY <1>1, AboveIsEarlier
  <2>2. Above(d, m) \cap Visible(d, n) \subseteq 1..Len(d)
    BY <2>1
  <2>3. IsFiniteSet(Above(d, m)) /\ IsFiniteSet(Above(d, m) \cap Visible(d, n))
    BY <1>1, <2>1, <2>2, FS_Subset
  <2> QED
    BY <2>3, FS_CardinalityType
<1>4. ASSUME NEW m \in Visible(d, n)
      PROVE  m \in Above(d, m) /\ Cardinality(Above(d, m) \cap Visible(d, n)) # 0
  <2>1. m \in DOMAIN d /\ m \in Above(d, m)
    BY <1>1, <1>2, AboveParent
  <2> DEFINE T == Above(d, m) \cap Visible(d, n)
  <2>2. IsFiniteSet(T) /\ T # {}
    BY <1>3, <2>1
  <2> HIDE DEF T
  <2>3. Cardinality(T) # 0
    BY <2>2, FS_EmptySet
  <2> QED
    BY <2>1, <2>3 DEF T
<1> QED
  BY <1>2, <1>3, <1>4

\* How deep something visible is: one deeper from n than from its child.
LEMMA OneDeeper ==
  ASSUME NEW d, Tree(d), NEW n \in DOMAIN d, ~ Pruned(d[n].tag), NEW k \in DOMAIN d, d[k].parent = n,
         NEW m \in Visible(d, k)
  PROVE  Cardinality(Above(d, m) \cap Visible(d, n)) =
           Cardinality(Above(d, m) \cap Visible(d, k)) + IF n \in Visible(d, n) THEN 1 ELSE 0
<1> DEFINE T == Above(d, m) \cap Visible(d, n)
           U == Above(d, m) \cap Visible(d, k)
<1>0. Rooted(d)
  BY DEF Tree
<1>1. m \in Below(d, k) /\ m \in DOMAIN d /\ Visible(d, k) \subseteq Below(d, k) /\ Visible(d, n) \subseteq Below(d, n)
  BY <1>0, VisibleIsFinite, BelowIs
<1>2. Above(d, m) \cap Below(d, n) = (Above(d, m) \cap Below(d, k)) \cup {n}
  BY <1>0, <1>1, KidPath
<1>3. n \notin Below(d, k) /\ n \in Above(d, m)
  BY <1>0, <1>2, BelowIs
<1>4. \A a \in Below(d, k) : a \in Visible(d, n) <=> a \in Visible(d, k)
  BY VisibleSplits
<1>5. T = IF n \in Visible(d, n) THEN U \cup {n} ELSE U
  BY <1>1, <1>2, <1>3, <1>4
<1>6. n \notin U /\ IsFiniteSet(U) /\ Cardinality(U) \in Nat
  BY <1>0, <1>1, <1>3, VisibleIsFinite
<1> HIDE DEF T, U
<1>7. Cardinality(U \cup {n}) = Cardinality(U) + 1
  BY <1>6, FS_AddElement
<1> QED
  BY <1>5, <1>6, <1>7 DEF T, U

Entries == [node : Nat, depth : Nat]

\* s lists what is visible from n, in document order, n itself at that depth.
Lists(d, n, depth, s) ==
  /\ s \in Seq(Entries)
  /\ \A j \in DOMAIN s :
       /\ s[j].node \in Visible(d, n)
       /\ s[j].depth = depth + Cardinality(Above(d, s[j].node) \cap Visible(d, n)) - 1
  /\ \A m \in Visible(d, n) : \E j \in DOMAIN s : s[j].node = m
  /\ \A j, l \in DOMAIN s : j < l => s[j].node < s[l].node

\* f lists what is visible from n but n itself, its children at that depth.
ListsKids(d, n, below, f) ==
  /\ f \in Seq(Entries)
  /\ \A j \in DOMAIN f :
       /\ f[j].node \in Visible(d, n) /\ n < f[j].node
       /\ f[j].depth = below + Cardinality(Above(d, f[j].node) \cap Visible(d, n))
                             - IF n \in Visible(d, n) THEN 2 ELSE 1
  /\ \A m \in Visible(d, n) \ {n} : \E j \in DOMAIN f : f[j].node = m
  /\ \A j, l \in DOMAIN f : j < l => f[j].node < f[l].node

\* The lists of the children, one after another.
LEMMA KidsListed ==
  ASSUME NEW d, Tree(d), NEW n \in DOMAIN d, ~ Pruned(d[n].tag), NEW below \in Nat,
         NEW parts, parts = [i \in DOMAIN parts |-> parts[i]], DOMAIN parts = DOMAIN Kids(d, n),
         \A i \in DOMAIN parts : Lists(d, Kids(d, n)[i], below, parts[i])
  PROVE  ListsKids(d, n, below, FlattenSeq(parts))
<1> DEFINE kids == Kids(d, n)
           f == FlattenSeq(parts)
<1>0. Rooted(d) /\ n \in Nat
  BY DEF Tree, Rooted
<1>a. PICK c : Children(d, n, c)
  BY <1>0, KidsAre
<1>1. /\ c \in Nat /\ DOMAIN kids = 1..c
      /\ \A i \in 1..c : kids[i] \in DOMAIN d /\ d[kids[i]].parent = n /\ n < kids[i]
      /\ \A k \in DOMAIN d : d[k].parent = n => \E i \in 1..c : kids[i] = k
      /\ \A i, j \in 1..c : i < j => kids[i] < kids[j]
  BY <1>a DEF Children
<1>2. DOMAIN parts = 1..c /\ \A i \in 1..c : Lists(d, kids[i], below, parts[i])
  BY <1>1
<1>3. \A i \in 1..c : parts[i] \in Seq(Entries)
  BY <1>2 DEF Lists
<1>4. parts \in Seq(Seq(Entries)) /\ Len(parts) = c
  <2>1. parts \in [1..c -> Seq(Entries)]
    BY <1>2, <1>3
  <2> QED
    BY <1>1, <2>1, BuiltSeq
<1>5. f \in Seq(Entries) /\ \E p, q : Laid(parts, c, f, p, q)
  BY <1>4, FlattenIs
<1> HIDE DEF f, kids
<1>6. PICK p, q : Laid(parts, c, f, p, q)
  BY <1>5
<1>7. \A j \in DOMAIN f : p[j] \in 1..c /\ q[j] \in DOMAIN parts[p[j]] /\ f[j] = parts[p[j]][q[j]]
  BY <1>6 DEF Laid
<1>8. ASSUME NEW j \in DOMAIN f
      PROVE  /\ f[j].node \in Visible(d, kids[p[j]]) /\ f[j].node \in Below(d, kids[p[j]])
             /\ f[j].node \in Visible(d, n) /\ n < f[j].node
             /\ f[j].depth = below + Cardinality(Above(d, f[j].node) \cap Visible(d, n))
                                   - IF n \in Visible(d, n) THEN 2 ELSE 1
  <2> DEFINE k == kids[p[j]]
             m == f[j].node
             a == Cardinality(Above(d, m) \cap Visible(d, k))
             b == Cardinality(Above(d, m) \cap Visible(d, n))
  <2>1. p[j] \in 1..c /\ k \in DOMAIN d /\ d[k].parent = n /\ n < k /\ Lists(d, k, below, parts[p[j]])
    BY <1>1, <1>2, <1>7
  <2>2. m \in Visible(d, k) /\ f[j].depth = below + a - 1
    <3> DEFINE part == parts[p[j]]
               x == part[q[j]]
    <3>1. q[j] \in DOMAIN part /\ f[j] = x
      BY <1>7
    <3>2. Lists(d, k, below, part)
      BY <2>1
    <3> HIDE DEF part, k
    <3>3. x.node \in Visible(d, k) /\ x.depth = below + Cardinality(Above(d, x.node) \cap Visible(d, k)) - 1
      BY <3>1, <3>2 DEF Lists
    <3> HIDE DEF x
    <3> QED
      BY <3>1, <3>3
  <2> HIDE DEF k, m
  <2>3. m \in Below(d, k) /\ m \in DOMAIN d /\ k <= m /\ k \in Nat /\ m \in Nat
    <3>1. m \in Below(d, k) /\ k \in DOMAIN d
      BY <1>0, <2>1, <2>2, VisibleIsFinite
    <3>2. m \in DOMAIN d /\ k <= m
      BY <1>0, <3>1, BelowIs
    <3>3. DOMAIN d \subseteq Nat
      BY <1>0 DEF Rooted
    <3> QED
      BY <3>1, <3>2, <3>3
  <2>4. m \in Visible(d, n)
    BY <2>1, <2>2, <2>3, VisibleSplits
  <2>5. b = a + IF n \in Visible(d, n) THEN 1 ELSE 0
    BY <2>1, <2>2, OneDeeper
  <2>6. a \in Nat /\ b \in Nat
    BY <1>0, <2>1, <2>3, VisibleIsFinite
  <2> HIDE DEF a, b
  <2>7. f[j].depth = below + b - IF n \in Visible(d, n) THEN 2 ELSE 1
    BY <2>2, <2>5, <2>6
  <2>8. n < m
    BY <1>0, <2>1, <2>3
  <2> QED
    BY <2>2, <2>3, <2>4, <2>7, <2>8 DEF k, m, b
<1>9. ASSUME NEW m \in Visible(d, n) \ {n}
      PROVE  \E j \in DOMAIN f : f[j].node = m
  <2>1. PICK k \in DOMAIN d : d[k].parent = n /\ m \in Visible(d, k)
    BY VisibleSplits
  <2>2. PICK i \in 1..c : kids[i] = k
    BY <1>1, <2>1
  <2>3. PICK b \in DOMAIN parts[i] : parts[i][b].node = m
    BY <1>2, <2>1, <2>2 DEF Lists
  <2>4. PICK j \in DOMAIN f : p[j] = i /\ q[j] = b
    BY <1>6 DEF Laid
  <2> QED
    BY <1>7, <2>3, <2>4
<1>10. ASSUME NEW j \in DOMAIN f, NEW l \in DOMAIN f, j < l
       PROVE  f[j].node < f[l].node
  <2>1. p[j] < p[l] \/ (p[j] = p[l] /\ q[j] < q[l])
    BY <1>6, <1>10 DEF Laid
  <2>2. CASE p[j] < p[l]
    <3> DEFINE k == kids[p[j]]
               h == kids[p[l]]
    <3>1. k \in DOMAIN d /\ h \in DOMAIN d /\ k < h /\ d[k].parent = d[h].parent
      BY <1>1, <1>7, <2>2
    <3>2. f[j].node \in Below(d, k) /\ f[l].node \in Below(d, h)
      BY <1>8
    <3> HIDE DEF k, h
    <3> QED
      BY <3>1, <3>2, SiblingsApart
  <2>3. CASE p[j] = p[l] /\ q[j] < q[l]
    BY <1>2, <1>7, <2>3 DEF Lists
  <2> QED
    BY <2>1, <2>2, <2>3
<1> QED
  BY <1>5, <1>8, <1>9, <1>10 DEF f, ListsKids

\* And the node before them, if it is listed.
LEMMA NodeListed ==
  ASSUME NEW d, Tree(d), NEW n \in DOMAIN d, ~ Pruned(d[n].tag), d[n].tag # "text", NEW depth \in Nat,
         NEW parts, parts = [i \in DOMAIN parts |-> parts[i]], DOMAIN parts = DOMAIN Kids(d, n),
         \A i \in DOMAIN parts :
           Lists(d, Kids(d, n)[i], IF d[n].tag # "body" THEN depth + 1 ELSE depth, parts[i])
  PROVE  Lists(d, n, depth, (IF d[n].tag # "body" THEN << [node |-> n, depth |-> depth] >> ELSE <<>>)
                              \o FlattenSeq(parts))
<1> DEFINE f == FlattenSeq(parts)
           below == IF d[n].tag # "body" THEN depth + 1 ELSE depth
           Count(m) == Cardinality(Above(d, m) \cap Visible(d, n))
<1>0. Rooted(d) /\ n \in Nat
  BY DEF Tree, Rooted
<1>1. d[n].tag # "body" <=> n \in Visible(d, n)
  BY VisibleSplits
<1>2. below \in Nat /\ \A i \in DOMAIN parts : Lists(d, Kids(d, n)[i], below, parts[i])
  OBVIOUS
<1>3. \A m \in Visible(d, n) : Count(m) \in Nat
  BY <1>0, VisibleIsFinite, BelowIs
<1> HIDE DEF Count
<1>4. /\ f \in Seq(Entries)
      /\ \A j \in DOMAIN f :
           /\ f[j].node \in Visible(d, n) /\ n < f[j].node
           /\ f[j].depth = below + Count(f[j].node) - IF n \in Visible(d, n) THEN 2 ELSE 1
      /\ \A m \in Visible(d, n) \ {n} : \E j \in DOMAIN f : f[j].node = m
      /\ \A j, l \in DOMAIN f : j < l => f[j].node < f[l].node
  <2> HIDE DEF below
  <2>1. ListsKids(d, n, below, f)
    BY <1>2, KidsListed
  <2> HIDE DEF f
  <2> QED
    BY <2>1 DEF ListsKids, Count
<1> HIDE DEF f
<1>5. \A j \in DOMAIN f : f[j].depth = depth + Count(f[j].node) - 1
  <2> SUFFICES ASSUME NEW j \in DOMAIN f PROVE f[j].depth = depth + Count(f[j].node) - 1
    OBVIOUS
  <2> DEFINE a == Count(f[j].node)
  <2>1. a \in Nat /\ f[j].depth = below + a - IF n \in Visible(d, n) THEN 2 ELSE 1
    BY <1>3, <1>4
  <2> HIDE DEF a
  <2>2. f[j].depth = depth + a - 1
    BY <1>1, <2>1
  <2> QED
    BY <2>2 DEF a
<1>6. CASE d[n].tag = "body"
  <2>1. <<>> \o f = f
    BY <1>4
  <2>2. Lists(d, n, depth, f)
    BY <1>1, <1>4, <1>5, <1>6 DEF Lists, Count
  <2> QED
    BY <1>6, <2>1, <2>2 DEF f
<1>7. CASE d[n].tag # "body"
  <2> DEFINE e == [node |-> n, depth |-> depth]
             s == << e >> \o f
  <2>1. e \in Entries /\ e.node = n /\ e.depth = depth
    BY <1>0 DEF Entries
  <2> HIDE DEF e
  <2>2. /\ s \in Seq(Entries) /\ Len(f) \in Nat /\ DOMAIN f = 1..Len(f) /\ DOMAIN s = 1..(Len(f) + 1)
        /\ s[1] = e /\ \A j \in DOMAIN f : s[j + 1] = f[j]
    BY <1>4, <2>1
  <2> HIDE DEF s
  <2>3. \A j \in DOMAIN s : j = 1 \/ (j - 1 \in DOMAIN f /\ s[j] = f[j - 1])
    BY <2>2
  <2>4. Count(n) = 1
    <3>1. Above(d, n) \cap Visible(d, n) = {n}
      <4>1. n \in Above(d, n) /\ n \in Visible(d, n) /\ Visible(d, n) \subseteq Below(d, n)
        BY <1>0, <1>1, <1>7, AboveParent, VisibleIsFinite
      <4>2. ASSUME NEW a \in Above(d, n) \cap Below(d, n) PROVE a = n
        <5>1. a <= n /\ n <= a /\ a \in Nat
          BY <1>0, AboveIsEarlier, BelowIs DEF Rooted
        <5> QED
          BY <1>0, <5>1
      <4> QED
        BY <4>1, <4>2
    <3>2. Cardinality({n}) = 1
      BY FS_Singleton
    <3> QED
      BY <3>1, <3>2 DEF Count
  <2>5. ASSUME NEW j \in DOMAIN s
        PROVE  s[j].node \in Visible(d, n) /\ s[j].depth = depth + Count(s[j].node) - 1
    <3>1. CASE j = 1
      BY <1>1, <1>7, <2>1, <2>2, <2>4, <3>1
    <3>2. CASE j - 1 \in DOMAIN f /\ s[j] = f[j - 1]
      BY <1>4, <1>5, <3>2
    <3> QED
      BY <2>3, <3>1, <3>2
  <2>6. ASSUME NEW m \in Visible(d, n)
        PROVE  \E j \in DOMAIN s : s[j].node = m
    <3>1. CASE m = n
      BY <2>1, <2>2, <3>1
    <3>2. CASE m # n
      <4>1. PICK j \in DOMAIN f : f[j].node = m
        BY <1>4, <3>2
      <4>2. j + 1 \in DOMAIN s /\ s[j + 1] = f[j]
        BY <2>2
      <4> QED
        BY <4>1, <4>2
    <3> QED
      BY <3>1, <3>2
  <2>7. ASSUME NEW j \in DOMAIN s, NEW l \in DOMAIN s, j < l
        PROVE  s[j].node < s[l].node
    <3>1. l - 1 \in DOMAIN f /\ s[l] = f[l - 1] /\ j \in Nat /\ l \in Nat
      BY <2>2, <2>3, <2>7
    <3>2. CASE j = 1
      BY <1>4, <2>1, <2>2, <3>1, <3>2
    <3>3. CASE j - 1 \in DOMAIN f /\ s[j] = f[j - 1]
      <4>1. j - 1 < l - 1
        BY <2>7, <3>1
      <4> QED
        BY <1>4, <3>1, <3>3, <4>1
    <3> QED
      BY <2>3, <3>2, <3>3
  <2>8. Lists(d, n, depth, s)
    BY <2>2, <2>5, <2>6, <2>7 DEF Lists, Count
  <2> QED
    BY <1>7, <2>8 DEF s, e, f
<1> QED
  BY <1>6, <1>7

\* What walk is given of the children, and what it makes of it.
KidsOf(d, w, n, below) == [i \in DOMAIN Kids(d, n) |-> w[Kids(d, n)[i]][below]]

Walked(d, w, n) ==
  [depth \in Nat |->
     IF d[n].tag = "text" \/ Pruned(d[n].tag) THEN <<>>
     ELSE (IF d[n].tag # "body" THEN << [node |-> n, depth |-> depth] >> ELSE <<>>)
          \o FlattenSeq(KidsOf(d, w, n, IF d[n].tag # "body" THEN depth + 1 ELSE depth))]

LEMMA WalkedIs ==
  ASSUME NEW d, Rooted(d), NEW n \in DOMAIN d, NEW f \in [DOMAIN d -> [Nat -> Seq(Entries)]]
  PROVE  /\ Walked(d, f, n) \in [Nat -> Seq(Entries)]
         /\ \A g \in [DOMAIN d -> [Nat -> Seq(Entries)]] :
              (\A m \in DOMAIN d : n < m => f[m] = g[m]) => Walked(d, f, n) = Walked(d, g, n)
<1> DEFINE kids == Kids(d, n)
<1>0. n \in Nat
  BY DEF Rooted
<1>a. PICK c : Children(d, n, c)
  BY KidsAre
<1>1. /\ c \in Nat /\ DOMAIN kids = 1..c
      /\ \A i \in 1..c : kids[i] \in DOMAIN d /\ d[kids[i]].parent = n /\ n < kids[i]
  BY <1>a DEF Children
<1> HIDE DEF kids
<1>2. ASSUME NEW depth \in Nat
      PROVE  FlattenSeq(KidsOf(d, f, n, depth)) \in Seq(Entries)
  <2> DEFINE parts == KidsOf(d, f, n, depth)
  <2>1. parts \in [1..c -> Seq(Entries)]
    <3>1. \A i \in 1..c : f[kids[i]][depth] \in Seq(Entries)
      <4> SUFFICES ASSUME NEW i \in 1..c PROVE f[kids[i]][depth] \in Seq(Entries)
        OBVIOUS
      <4>1. f[kids[i]] \in [Nat -> Seq(Entries)]
        BY <1>1
      <4> QED
        BY <4>1
    <3>2. parts = [i \in 1..c |-> f[kids[i]][depth]]
      BY <1>1 DEF KidsOf, kids
    <3> HIDE DEF parts
    <3> QED
      BY <3>1, <3>2
  <2> HIDE DEF parts
  <2>2. parts \in Seq(Seq(Entries))
    BY <1>1, <2>1, BuiltSeq
  <2>3. FlattenSeq(parts) \in Seq(Entries)
    BY <2>2, FlattenIs
  <2> QED
    BY <2>3 DEF parts
<1>3. ASSUME NEW depth \in Nat
      PROVE  (IF d[n].tag = "text" \/ Pruned(d[n].tag) THEN <<>>
              ELSE (IF d[n].tag # "body" THEN << [node |-> n, depth |-> depth] >> ELSE <<>>)
                   \o FlattenSeq(KidsOf(d, f, n, IF d[n].tag # "body" THEN depth + 1 ELSE depth))) \in Seq(Entries)
  <2> DEFINE below == IF d[n].tag # "body" THEN depth + 1 ELSE depth
             head == IF d[n].tag # "body" THEN << [node |-> n, depth |-> depth] >> ELSE <<>>
             flat == FlattenSeq(KidsOf(d, f, n, below))
  <2>1. below \in Nat
    OBVIOUS
  <2>2. flat \in Seq(Entries)
    <3> HIDE DEF below
    <3> QED
      BY <1>2, <2>1
  <2>3. [node |-> n, depth |-> depth] \in Entries
    BY <1>0 DEF Entries
  <2>4. head \in Seq(Entries)
    BY <2>3
  <2> HIDE DEF head, flat, below
  <2>5. head \o flat \in Seq(Entries) /\ <<>> \in Seq(Entries)
    BY <2>2, <2>4
  <2>6. (IF d[n].tag = "text" \/ Pruned(d[n].tag) THEN <<>> ELSE head \o flat) \in Seq(Entries)
    BY <2>5
  <2> QED
    BY <2>6 DEF head, flat, below
<1>4. Walked(d, f, n) \in [Nat -> Seq(Entries)]
  BY <1>3 DEF Walked
<1>5. ASSUME NEW g \in [DOMAIN d -> [Nat -> Seq(Entries)]], \A m \in DOMAIN d : n < m => f[m] = g[m]
      PROVE  Walked(d, f, n) = Walked(d, g, n)
  <2>1. ASSUME NEW depth PROVE KidsOf(d, f, n, depth) = KidsOf(d, g, n, depth)
    <3>1. \A i \in DOMAIN kids : f[kids[i]] = g[kids[i]]
      BY <1>1, <1>5
    <3> QED
      BY <3>1 DEF KidsOf, kids
  <2> QED
    BY <2>1 DEF Walked
<1> QED
  BY <1>4, <1>5

\* The recursion of walk has a solution on every document.
LEMMA WalkIs ==
  ASSUME NEW d, Rooted(d)
  PROVE  \E w : /\ w = [n \in DOMAIN d |-> Walked(d, w, n)]
                /\ \A n \in DOMAIN d : Walk(d, n) = w[n][0]
<1> DEFINE V == [Nat -> Seq(Entries)]
           N == Len(d)
           F == [n \in 1..N |-> [f \in [1..N -> V] |-> Walked(d, f, n)]]
<1>1. N \in Nat /\ DOMAIN d = 1..N
  BY DEF Rooted
<1>2. V # {}
  <2>1. [depth \in Nat |-> <<>>] \in V
    OBVIOUS
  <2> HIDE DEF V
  <2> QED
    BY <2>1
<1>3. \A n \in 1..N : \A f \in [1..N -> V] : Walked(d, f, n) \in V
  BY <1>1, WalkedIs
<1>4. \A n \in 1..N : \A f, g \in [1..N -> V] :
        (\A m \in 1..N : n < m => f[m] = g[m]) => Walked(d, f, n) = Walked(d, g, n)
  BY <1>1, WalkedIs
<1> HIDE DEF V, N
<1>5. F \in [1..N -> [[1..N -> V] -> V]]
  BY <1>3
<1>6. \A n \in 1..N : \A f \in [1..N -> V] : F[n][f] = Walked(d, f, n)
  OBVIOUS
<1> HIDE DEF F
<1>7. \A n \in 1..N : \A f, g \in [1..N -> V] : (\A m \in 1..N : n < m => f[m] = g[m]) => F[n][f] = F[n][g]
  <2> SUFFICES ASSUME NEW n \in 1..N, NEW f \in [1..N -> V], NEW g \in [1..N -> V],
                      \A m \in 1..N : n < m => f[m] = g[m]
               PROVE  F[n][f] = F[n][g]
    OBVIOUS
  <2>1. Walked(d, f, n) = Walked(d, g, n)
    BY <1>4
  <2> QED
    BY <1>6, <2>1
<1>8. PICK f : Computed(N, V, F, f)
  <2>1. ComputedFrom(N, V, F)
    BY <1>1, <1>5, <1>7 DEF ComputedFrom
  <2> QED
    BY <1>2, <2>1, FromTheBottom
<1>9. f = [n \in DOMAIN d |-> Walked(d, f, n)]
  BY <1>1, <1>6, <1>8 DEF Computed
<1> DEFINE walk == CHOOSE w : w = [n \in DOMAIN d |-> Walked(d, w, n)]
<1>10. walk = [n \in DOMAIN d |-> Walked(d, walk, n)]
  BY <1>9
<1>11. \A n : Walk(d, n) = walk[n][0]
  BY DEF Walk, Walked, KidsOf
<1> HIDE DEF walk
<1> QED
  BY <1>10, <1>11

\* read_snapshot lists what is visible.
LEMMA WalkLists ==
  ASSUME NEW d, Tree(d), NEW top \in DOMAIN d
  PROVE  Lists(d, top, 0, Walk(d, top))
<1>0. Rooted(d)
  BY DEF Tree
<1>1. PICK w : /\ w = [n \in DOMAIN d |-> Walked(d, w, n)]
               /\ \A n \in DOMAIN d : Walk(d, n) = w[n][0]
  BY <1>0, WalkIs
<1> DEFINE Good == {n \in DOMAIN d : \A depth \in Nat : Lists(d, n, depth, w[n][depth])}
<1>2. ASSUME NEW n \in DOMAIN d, \A k \in DOMAIN d : d[k].parent = n => k \in Good
      PROVE  n \in Good
  <2> SUFFICES ASSUME NEW depth \in Nat PROVE Lists(d, n, depth, w[n][depth])
    OBVIOUS
  <2> DEFINE below == IF d[n].tag # "body" THEN depth + 1 ELSE depth
             parts == KidsOf(d, w, n, below)
  <2>1. w[n] = Walked(d, w, n)
    BY <1>1
  <2>2. w[n][depth] =
          IF d[n].tag = "text" \/ Pruned(d[n].tag) THEN <<>>
          ELSE (IF d[n].tag # "body" THEN << [node |-> n, depth |-> depth] >> ELSE <<>>) \o FlattenSeq(parts)
    BY <2>1 DEF Walked
  <2>3. CASE d[n].tag = "text" \/ Pruned(d[n].tag)
    <3>1. w[n][depth] = <<>> /\ Visible(d, n) = {}
      BY <2>2, <2>3, VisibleSplits
    <3> QED
      BY <3>1 DEF Lists
  <2>4. CASE d[n].tag # "text" /\ ~ Pruned(d[n].tag)
    <3>a. PICK c : Children(d, n, c)
      BY <1>0, KidsAre
    <3>1. /\ c \in Nat /\ DOMAIN Kids(d, n) = 1..c
          /\ \A i \in 1..c : Kids(d, n)[i] \in DOMAIN d /\ d[Kids(d, n)[i]].parent = n
      BY <3>a DEF Children
    <3>2. below \in Nat
      OBVIOUS
    <3> HIDE DEF below
    <3>3. parts = [i \in DOMAIN parts |-> parts[i]] /\ DOMAIN parts = DOMAIN Kids(d, n)
          /\ \A i \in DOMAIN parts : parts[i] = w[Kids(d, n)[i]][below]
      BY DEF KidsOf
    <3>4. \A i \in DOMAIN parts : Lists(d, Kids(d, n)[i], below, parts[i])
      BY <1>2, <3>1, <3>2, <3>3
    <3> HIDE DEF parts
    <3>5. Lists(d, n, depth, (IF d[n].tag # "body" THEN << [node |-> n, depth |-> depth] >> ELSE <<>>)
                               \o FlattenSeq(parts))
      BY <2>4, <3>3, <3>4, NodeListed DEF below
    <3> QED
      BY <2>2, <2>4, <3>5
  <2> QED
    BY <2>3, <2>4
<1>3. Good = DOMAIN d
  <2>1. Good \subseteq DOMAIN d
    OBVIOUS
  <2> HIDE DEF Good
  <2> QED
    BY <1>0, <1>2, <2>1, FromTheKids
<1> QED
  BY <1>1, <1>3

\* There is one list of what is visible.
LEMMA SnapshotIs ==
  ASSUME NEW d, Tree(d), NEW top \in DOMAIN d
  PROVE  Walk(d, top) =
           [i \in DOMAIN InOrder(Visible(d, top)) |->
              [node |-> InOrder(Visible(d, top))[i],
               depth |-> Cardinality(Above(d, InOrder(Visible(d, top))[i]) \cap Visible(d, top)) - 1]]
<1> DEFINE s == Walk(d, top)
           seen == Visible(d, top)
           order == InOrder(seen)
           a == Len(s)
           c == Cardinality(seen)
           nodes == [j \in 1..a |-> s[j].node]
<1>0. Rooted(d) /\ Len(d) \in Nat
  BY DEF Tree, Rooted
<1>1. seen \in SUBSET (1..Len(d))
  BY <1>0, VisibleIsFinite
<1>2. /\ c \in Nat /\ order \in [1..c -> seen]
      /\ \A i \in seen : \E k \in 1..c : order[k] = i
      /\ \A k, l \in 1..c : k < l => order[k] < order[l]
  BY <1>0, <1>1, InOrderLists
<1>3. Lists(d, top, 0, s)
  BY WalkLists
<1> HIDE DEF s, seen, order, c
<1>4. /\ s \in Seq(Entries)
      /\ \A j \in DOMAIN s : s[j].node \in seen /\ s[j].depth = 0 + Cardinality(Above(d, s[j].node) \cap seen) - 1
      /\ \A m \in seen : \E j \in DOMAIN s : s[j].node = m
      /\ \A j, l \in DOMAIN s : j < l => s[j].node < s[l].node
  BY <1>3 DEF Lists, seen
<1>5. a \in Nat /\ DOMAIN s = 1..a /\ s = [j \in 1..a |-> s[j]] /\ \A j \in 1..a : s[j] \in Entries
  BY <1>4
<1> HIDE DEF a
<1>6. /\ nodes \in [1..a -> Nat] /\ order \in [1..c -> Nat]
      /\ \A j \in 1..a : nodes[j] = s[j].node
  BY <1>1, <1>2, <1>4, <1>5 DEF Entries
<1> HIDE DEF nodes
<1>7. a = c /\ nodes = order
  <2>1. \A i, j \in 1..a : i < j => nodes[i] < nodes[j]
    BY <1>4, <1>5, <1>6
  <2>2. \A i \in 1..a : \E j \in 1..c : nodes[i] = order[j]
    BY <1>2, <1>4, <1>5, <1>6
  <2>3. \A i \in 1..c : \E j \in 1..a : order[i] = nodes[j]
    <3> SUFFICES ASSUME NEW i \in 1..c PROVE \E j \in 1..a : order[i] = nodes[j]
      OBVIOUS
    <3>1. PICK j \in DOMAIN s : s[j].node = order[i]
      BY <1>2, <1>4
    <3> QED
      BY <1>5, <1>6, <3>1
  <2>4. \A i, j \in 1..c : i < j => order[i] < order[j]
    BY <1>2
  <2> QED
    <3>1. Grows(a, nodes) /\ Grows(c, order) /\ SameNumbers(a, nodes, c, order)
      BY <1>2, <1>5, <1>6, <2>1, <2>2, <2>3, <2>4 DEF Grows, SameNumbers
    <3> QED
      BY <3>1, SortedSame, Zenon
<1> DEFINE Depth(n) == Cardinality(Above(d, n) \cap seen) - 1
<1>8. \A j \in 1..a : s[j].depth = Depth(s[j].node)
  <2> SUFFICES ASSUME NEW j \in 1..a PROVE s[j].depth = Depth(s[j].node)
    OBVIOUS
  <2>1. s[j].node \in seen /\ s[j].node \in DOMAIN d
    <3>1. s[j].node \in seen
      BY <1>4, <1>5
    <3>2. DOMAIN d = 1..Len(d)
      BY <1>0 DEF Rooted
    <3> QED
      BY <1>1, <3>1, <3>2
  <2>2. Cardinality(Above(d, s[j].node) \cap seen) \in Nat
    BY <1>0, <2>1, VisibleIsFinite DEF seen
  <2> QED
    BY <1>4, <1>5, <2>2
<1> HIDE DEF Depth
<1>9. \A j \in 1..a : s[j] = [node |-> order[j], depth |-> Depth(order[j])]
  <2> SUFFICES ASSUME NEW j \in 1..a PROVE s[j] = [node |-> order[j], depth |-> Depth(order[j])]
    OBVIOUS
  <2>1. s[j] = [node |-> s[j].node, depth |-> s[j].depth]
    BY <1>5 DEF Entries
  <2>2. s[j].node = order[j] /\ s[j].depth = Depth(order[j])
    BY <1>6, <1>7, <1>8
  <2> QED
    BY <2>1, <2>2
<1>10. s = [i \in DOMAIN order |-> [node |-> order[i], depth |-> Depth(order[i])]]
  <2>1. DOMAIN order = 1..a
    BY <1>2, <1>7
  <2> QED
    BY <1>5, <1>9, <2>1
<1> QED
  BY <1>10 DEF s, order, seen, Depth

---------------------------------------------------------------------------
(* The text: where its words and its line breaks come from.                 *)

\* What is rendered of n and of what is below it.
Inside(d, n) == {m \in Below(d, n) : \A a \in Above(d, m) \cap Below(d, n) : d[a].tag \notin NoText}

InsideKids(d, n) == {m \in DOMAIN d : \E k \in DOMAIN d : d[k].parent = n /\ m \in Inside(d, k)}

\* Text and line breaks have nothing in them.
LEMMA NothingIn ==
  ASSUME NEW d, Tree(d), NEW n \in DOMAIN d, d[n].tag \notin Containers
  PROVE  Below(d, n) = {n} /\ InsideKids(d, n) = {}
<1>0. Rooted(d) /\ n \in Nat \ {0}
  BY DEF Tree, Rooted
<1>1. ASSUME NEW k \in DOMAIN d, d[k].parent = n PROVE FALSE
  <2>1. n < k
    BY <1>0, <1>1, AboveParent
  <2>2. k # 1
    BY <1>0, <2>1
  <2> QED
    BY <1>1, <2>2 DEF Tree
<1> QED
  BY <1>0, <1>1, BelowIs DEF InsideKids

LEMMA InsideSplits ==
  ASSUME NEW d, Tree(d), NEW n \in DOMAIN d
  PROVE  Inside(d, n) = IF d[n].tag \in NoText THEN {} ELSE {n} \cup InsideKids(d, n)
<1>0. Rooted(d) /\ n \in Nat \ {0}
  BY DEF Tree, Rooted
<1>1. CASE d[n].tag \in NoText
  <2>1. ASSUME NEW m \in Inside(d, n) PROVE FALSE
    <3>1. m \in Below(d, n) /\ n \in Above(d, m) /\ n \in Below(d, n)
      BY <1>0, BelowIs DEF Inside, Below
    <3> QED
      BY <1>1, <3>1 DEF Inside
  <2> QED
    BY <1>1, <2>1
<1>2. CASE d[n].tag \notin NoText
  <2>1. n \in Inside(d, n)
    <3>1. n \in Below(d, n)
      BY <1>0, BelowIs
    <3>2. ASSUME NEW a \in Above(d, n) \cap Below(d, n) PROVE a = n
      <4>1. a <= n /\ n <= a /\ a \in Nat
        BY <1>0, AboveIsEarlier, BelowIs DEF Rooted
      <4> QED
        BY <1>0, <4>1
    <3> QED
      BY <1>2, <3>1, <3>2 DEF Inside
  <2>2. ASSUME NEW k \in DOMAIN d, d[k].parent = n, NEW m \in Below(d, k)
        PROVE  m \in Inside(d, n) <=> m \in Inside(d, k)
    <3>1. Above(d, m) \cap Below(d, n) = (Above(d, m) \cap Below(d, k)) \cup {n}
      BY <1>0, <2>2, KidPath
    <3>2. m \in Below(d, n)
      BY <1>0, <2>2, BelowIs
    <3> QED
      BY <1>2, <3>1, <3>2 DEF Inside
  <2>3. ASSUME NEW m \in Inside(d, n), m # n PROVE m \in InsideKids(d, n)
    <3>1. m \in Below(d, n) \ {n} /\ m \in DOMAIN d
      BY <2>3 DEF Inside, Below
    <3>2. PICK k \in DOMAIN d : d[k].parent = n /\ m \in Below(d, k)
      BY <1>0, <3>1, BelowIs
    <3> QED
      BY <2>2, <3>1, <3>2 DEF InsideKids
  <2>4. ASSUME NEW m \in InsideKids(d, n) PROVE m \in Inside(d, n)
    <3>1. PICK k \in DOMAIN d : d[k].parent = n /\ m \in Inside(d, k)
      BY DEF InsideKids
    <3>2. m \in Below(d, k)
      BY <3>1 DEF Inside
    <3> QED
      BY <2>2, <3>1, <3>2
  <2> QED
    BY <1>2, <2>1, <2>3, <2>4
<1> QED
  BY <1>1, <1>2

\* Of the element whose text is asked for, what is in its children counts.
LEMMA RenderedIs ==
  ASSUME NEW d, Tree(d), NEW n \in DOMAIN d
  PROVE  Rendered(d, n) = InsideKids(d, n)
<1>0. Rooted(d) /\ n \in Nat \ {0}
  BY DEF Tree, Rooted
<1>1. ASSUME NEW k \in DOMAIN d, d[k].parent = n, NEW m \in Below(d, k)
      PROVE  Above(d, m) \ Above(d, n) = Above(d, m) \cap Below(d, k)
  <2>1. m \in DOMAIN d /\ k \in Above(d, m) /\ Above(d, m) \subseteq DOMAIN d
    BY <1>0, AboveIsEarlier DEF Below
  <2>2. ASSUME NEW a \in Above(d, m), a \notin Above(d, n) PROVE a \in Below(d, k)
    <3>1. a \in Above(d, k) \/ k \in Above(d, a)
      BY <1>0, <2>1, AboveIsALine
    <3>2. a \in Above(d, k) => a = k
      BY <1>0, <1>1, <2>2, AboveParent
    <3> QED
      BY <1>0, <2>1, <3>1, <3>2, AboveParent DEF Below
  <2>3. ASSUME NEW a \in Above(d, m) \cap Below(d, k) PROVE a \notin Above(d, n)
    <3>1. k <= a /\ n < k /\ a \in Nat /\ k \in Nat
      <4>1. k <= a /\ n < k
        BY <1>0, <1>1, BelowIs, AboveParent
      <4> QED
        BY <1>0, <2>1, <4>1 DEF Rooted
    <3>2. a \in Above(d, n) => a <= n
      BY <1>0, AboveIsEarlier
    <3> QED
      BY <1>0, <3>1, <3>2
  <2> QED
    BY <2>2, <2>3
<1>2. ASSUME NEW m \in Rendered(d, n) PROVE m \in InsideKids(d, n)
  <2>1. m \in Below(d, n) \ {n} /\ m \in DOMAIN d
    BY DEF Rendered, Below
  <2>2. PICK k \in DOMAIN d : d[k].parent = n /\ m \in Below(d, k)
    BY <1>0, <2>1, BelowIs
  <2>3. m \in Inside(d, k)
    BY <1>1, <2>2 DEF Rendered, Inside
  <2> QED
    BY <2>1, <2>2, <2>3 DEF InsideKids
<1>3. ASSUME NEW m \in InsideKids(d, n) PROVE m \in Rendered(d, n)
  <2>1. PICK k \in DOMAIN d : d[k].parent = n /\ m \in Inside(d, k)
    BY DEF InsideKids
  <2>2. m \in Below(d, k)
    BY <2>1 DEF Inside
  <2>3. m \in Below(d, n) \ {n} /\ m \in DOMAIN d
    BY <1>0, <2>1, <2>2, BelowIs DEF Below
  <2> QED
    BY <1>1, <2>1, <2>2, <2>3 DEF Rendered, Inside, Below
<1> QED
  BY <1>2, <1>3

\* The beginning (or, if e, the end) of x comes before that of y.
Precedes(d, x, e, y, f) ==
  IF f THEN IF e THEN (x < y /\ x \notin Above(d, y)) \/ y \in Above(d, x) \ {x}
            ELSE x <= y \/ y \in Above(d, x)
  ELSE x < y /\ (e => x \notin Above(d, y))

\* at tells of every mark of s the node it comes from, and whether from its end.
Comes(d, nodes, s, at) ==
  /\ s \in Seq(Int) /\ at \in [DOMAIN s -> [node : nodes, end : BOOLEAN]]
  /\ \A j \in DOMAIN s :
       \/ d[at[j].node].tag = "text" /\ s[j] = at[j].node /\ ~ at[j].end
       \/ /\ d[at[j].node].tag \in BlockTags \cup {"br"} /\ s[j] = Break
          /\ at[j].end => d[at[j].node].tag \in BlockTags
  /\ \A m \in nodes : /\ d[m].tag \in BlockTags \cup {"text", "br"} => \E j \in DOMAIN s : at[j].node = m /\ ~ at[j].end
                      /\ d[m].tag \in BlockTags => \E j \in DOMAIN s : at[j].node = m /\ at[j].end
  /\ \A j, l \in DOMAIN s : j < l => Precedes(d, at[j].node, at[j].end, at[l].node, at[l].end)

\* The marks of the children, one after another.
LEMMA KidsCome ==
  ASSUME NEW d, Tree(d), NEW n \in DOMAIN d,
         NEW parts, parts = [i \in DOMAIN parts |-> parts[i]], DOMAIN parts = DOMAIN Kids(d, n),
         \A i \in DOMAIN parts : \E at : Comes(d, Inside(d, Kids(d, n)[i]), parts[i], at)
  PROVE  \E at : Comes(d, InsideKids(d, n), FlattenSeq(parts), at)
<1> DEFINE kids == Kids(d, n)
           f == FlattenSeq(parts)
           nodes == InsideKids(d, n)
           ats == [i \in DOMAIN parts |-> CHOOSE at : Comes(d, Inside(d, kids[i]), parts[i], at)]
<1>0. Rooted(d) /\ n \in Nat
  BY DEF Tree, Rooted
<1>a. PICK c : Children(d, n, c)
  BY <1>0, KidsAre
<1>1. /\ c \in Nat /\ DOMAIN kids = 1..c
      /\ \A i \in 1..c : kids[i] \in DOMAIN d /\ d[kids[i]].parent = n
      /\ \A k \in DOMAIN d : d[k].parent = n => \E i \in 1..c : kids[i] = k
      /\ \A i, j \in 1..c : i < j => kids[i] < kids[j]
  BY <1>a DEF Children
<1>2. DOMAIN parts = 1..c
  BY <1>1
<1>3. \A i \in 1..c : Comes(d, Inside(d, kids[i]), parts[i], ats[i])
  <2> SUFFICES ASSUME NEW i \in 1..c PROVE Comes(d, Inside(d, kids[i]), parts[i], ats[i])
    OBVIOUS
  <2>1. \E at : Comes(d, Inside(d, kids[i]), parts[i], at)
    BY <1>2
  <2>2. ats[i] = CHOOSE at : Comes(d, Inside(d, kids[i]), parts[i], at)
    BY <1>2
  <2> HIDE DEF ats, kids
  <2> QED
    BY <2>1, <2>2
<1> HIDE DEF ats, kids, f, nodes
<1>4. parts \in Seq(Seq(Int)) /\ Len(parts) = c
  <2>1. \A i \in 1..c : parts[i] \in Seq(Int)
    BY <1>3 DEF Comes
  <2>2. parts \in [1..c -> Seq(Int)]
    BY <1>2, <2>1
  <2> QED
    BY <1>1, <2>2, BuiltSeq
<1>5. f \in Seq(Int) /\ \E p, q : Laid(parts, c, f, p, q)
  BY <1>4, FlattenIs DEF f
<1>6. PICK p, q : Laid(parts, c, f, p, q)
  BY <1>5
<1>7. \A j \in DOMAIN f : p[j] \in 1..c /\ q[j] \in DOMAIN parts[p[j]] /\ f[j] = parts[p[j]][q[j]]
  BY <1>6 DEF Laid
<1> DEFINE at == [j \in DOMAIN f |-> ats[p[j]][q[j]]]
<1>8. \A j \in DOMAIN f : at[j] = ats[p[j]][q[j]]
  OBVIOUS
<1>9. at = [j \in DOMAIN f |-> at[j]]
  OBVIOUS
<1> HIDE DEF at
<1>10. ASSUME NEW j \in DOMAIN f
       PROVE  /\ at[j].node \in Inside(d, kids[p[j]]) /\ at[j].end \in BOOLEAN
              /\ at[j] = [node |-> at[j].node, end |-> at[j].end]
              /\ at[j].node \in Below(d, kids[p[j]]) /\ at[j].node \in nodes
              /\ \/ d[at[j].node].tag = "text" /\ f[j] = at[j].node /\ ~ at[j].end
                 \/ /\ d[at[j].node].tag \in BlockTags \cup {"br"} /\ f[j] = Break
                    /\ at[j].end => d[at[j].node].tag \in BlockTags
  <2> DEFINE part == parts[p[j]]
             a == ats[p[j]]
             k == kids[p[j]]
  <2>1. Comes(d, Inside(d, k), part, a) /\ q[j] \in DOMAIN part /\ f[j] = part[q[j]] /\ at[j] = a[q[j]]
        /\ k \in DOMAIN d /\ d[k].parent = n
    BY <1>1, <1>3, <1>7, <1>8
  <2> HIDE DEF part, a, k
  <2>2. a[q[j]] \in [node : Inside(d, k), end : BOOLEAN]
    BY <2>1 DEF Comes
  <2>3. \/ d[a[q[j]].node].tag = "text" /\ part[q[j]] = a[q[j]].node /\ ~ a[q[j]].end
        \/ /\ d[a[q[j]].node].tag \in BlockTags \cup {"br"} /\ part[q[j]] = Break
           /\ a[q[j]].end => d[a[q[j]].node].tag \in BlockTags
    BY <2>1 DEF Comes
  <2>4. at[j].node \in Inside(d, k) /\ at[j].end \in BOOLEAN /\ at[j] = [node |-> at[j].node, end |-> at[j].end]
    BY <2>1, <2>2
  <2>5. at[j].node \in Below(d, k) /\ at[j].node \in DOMAIN d
    BY <2>4 DEF Inside, Below
  <2>6. at[j].node \in nodes
    BY <2>1, <2>4, <2>5 DEF nodes, InsideKids
  <2> QED
    BY <2>1, <2>3, <2>4, <2>5, <2>6 DEF k
<1>11. at \in [DOMAIN f -> [node : nodes, end : BOOLEAN]]
  <2>1. \A x \in nodes, e \in BOOLEAN : [node |-> x, end |-> e] \in [node : nodes, end : BOOLEAN]
    OBVIOUS
  <2>2. \A j \in DOMAIN f : at[j] \in [node : nodes, end : BOOLEAN]
    <3> SUFFICES ASSUME NEW j \in DOMAIN f PROVE at[j] \in [node : nodes, end : BOOLEAN]
      OBVIOUS
    <3> DEFINE x == at[j].node
               e == at[j].end
    <3>1. x \in nodes /\ e \in BOOLEAN /\ at[j] = [node |-> x, end |-> e]
      BY <1>10
    <3> HIDE DEF x, e
    <3> QED
      BY <2>1, <3>1
  <2> QED
    BY <1>9, <2>2
<1>12. ASSUME NEW m \in nodes
       PROVE  /\ d[m].tag \in BlockTags \cup {"text", "br"} => \E j \in DOMAIN f : at[j].node = m /\ ~ at[j].end
              /\ d[m].tag \in BlockTags => \E j \in DOMAIN f : at[j].node = m /\ at[j].end
  <2>1. PICK k \in DOMAIN d : d[k].parent = n /\ m \in Inside(d, k)
    BY DEF nodes, InsideKids
  <2>2. PICK i \in 1..c : kids[i] = k
    BY <1>1, <2>1
  <2>3. /\ d[m].tag \in BlockTags \cup {"text", "br"} => \E b \in DOMAIN parts[i] : ats[i][b].node = m /\ ~ ats[i][b].end
        /\ d[m].tag \in BlockTags => \E b \in DOMAIN parts[i] : ats[i][b].node = m /\ ats[i][b].end
    BY <1>3, <2>1, <2>2 DEF Comes
  <2>4. \A b \in DOMAIN parts[i] : \E j \in DOMAIN f : at[j] = ats[i][b]
    <3> SUFFICES ASSUME NEW b \in DOMAIN parts[i] PROVE \E j \in DOMAIN f : at[j] = ats[i][b]
      OBVIOUS
    <3>1. PICK j \in DOMAIN f : p[j] = i /\ q[j] = b
      BY <1>6 DEF Laid
    <3> QED
      BY <1>8, <3>1
  <2> QED
    BY <2>3, <2>4
<1>13. ASSUME NEW j \in DOMAIN f, NEW l \in DOMAIN f, j < l
       PROVE  Precedes(d, at[j].node, at[j].end, at[l].node, at[l].end)
  <2>1. p[j] < p[l] \/ (p[j] = p[l] /\ q[j] < q[l])
    BY <1>6, <1>13 DEF Laid
  <2>2. CASE p[j] < p[l]
    <3> DEFINE k == kids[p[j]]
               h == kids[p[l]]
               x == at[j].node
               y == at[l].node
    <3>1. k \in DOMAIN d /\ h \in DOMAIN d /\ k < h /\ d[k].parent = d[h].parent
      BY <1>1, <1>7, <2>2
    <3>2. x \in Below(d, k) /\ y \in Below(d, h) /\ at[j].end \in BOOLEAN /\ at[l].end \in BOOLEAN
      BY <1>10
    <3> HIDE DEF k, h, x, y
    <3>3. x < y /\ x \in Nat /\ y \in Nat /\ x \in DOMAIN d /\ y \in DOMAIN d
      <4>1. x < y
        BY <3>1, <3>2, SiblingsApart
      <4>2. x \in DOMAIN d /\ y \in DOMAIN d /\ DOMAIN d \subseteq Nat
        BY <1>0, <3>2 DEF Below, Rooted
      <4> QED
        BY <4>1, <4>2
    <3>4. x \notin Above(d, y)
      <4> SUFFICES ASSUME x \in Above(d, y) PROVE FALSE
        OBVIOUS
      <4>1. k \in Above(d, x)
        BY <3>2 DEF Below
      <4>2. k \in Above(d, y)
        BY <1>0, <3>3, <4>1, AboveNests
      <4>3. y \in Below(d, k)
        BY <3>3, <4>2 DEF Below
      <4>4. y < y
        BY <3>1, <3>2, <4>3, SiblingsApart
      <4> QED
        BY <3>3, <4>4
    <3>5. x < y /\ x <= y
      BY <3>3
    <3>6. Precedes(d, x, at[j].end, y, at[l].end)
      BY <3>2, <3>4, <3>5 DEF Precedes
    <3> QED
      BY <3>6 DEF x, y
  <2>3. CASE p[j] = p[l] /\ q[j] < q[l]
    <3> DEFINE part == parts[p[j]]
               a == ats[p[j]]
    <3>1. Comes(d, Inside(d, kids[p[j]]), part, a) /\ q[j] \in DOMAIN part /\ q[l] \in DOMAIN part
          /\ at[j] = a[q[j]] /\ at[l] = a[q[l]]
      BY <1>3, <1>7, <1>8, <2>3
    <3> HIDE DEF part, a
    <3>2. Precedes(d, a[q[j]].node, a[q[j]].end, a[q[l]].node, a[q[l]].end)
      BY <2>3, <3>1 DEF Comes
    <3> QED
      BY <3>1, <3>2
  <2> QED
    BY <2>1, <2>2, <2>3
<1>14. Comes(d, nodes, f, at)
  BY <1>5, <1>10, <1>11, <1>12, <1>13 DEF Comes
<1> QED
  BY <1>14 DEF nodes, f

\* The beginning of a node, what is in it, and its end if it is a block.
LEMMA NodeComes ==
  ASSUME NEW d, Tree(d), NEW n \in DOMAIN d, d[n].tag \in Containers,
         NEW f, NEW at, Comes(d, InsideKids(d, n), f, at)
  PROVE  \E all : Comes(d, Inside(d, n),
                        (IF d[n].tag \in BlockTags THEN <<Break>> ELSE <<>>) \o f
                        \o (IF d[n].tag \in BlockTags THEN <<Break>> ELSE <<>>), all)
<1> DEFINE kids == InsideKids(d, n)
           nodes == Inside(d, n)
<1>0. Rooted(d) /\ n \in Nat
  BY DEF Tree, Rooted
<1>1. nodes = {n} \cup kids
  <2>1. d[n].tag \notin NoText
    BY DEF Containers, NoText, ScriptTags
  <2> QED
    BY <2>1, InsideSplits
<1>2. \A m \in kids : n < m /\ n \in Above(d, m) /\ m \in DOMAIN d /\ m \in Nat /\ n # m
  <2> SUFFICES ASSUME NEW m \in kids
               PROVE  n < m /\ n \in Above(d, m) /\ m \in DOMAIN d /\ m \in Nat /\ n # m
    OBVIOUS
  <2>1. PICK k \in DOMAIN d : d[k].parent = n /\ m \in Inside(d, k)
    BY DEF InsideKids
  <2>2. m \in Below(d, k)
    BY <2>1 DEF Inside
  <2>3. m \in Below(d, n) \ {n} /\ m \in DOMAIN d /\ m \in Nat
    BY <1>0, <2>1, <2>2, BelowIs DEF Below, Rooted
  <2>4. n <= m
    BY <1>0, <2>3, BelowIs
  <2> QED
    BY <1>0, <2>3, <2>4 DEF Below
<1> HIDE DEF kids, nodes
<1>3. /\ f \in Seq(Int) /\ at \in [DOMAIN f -> [node : kids, end : BOOLEAN]]
      /\ \A j \in DOMAIN f :
           \/ d[at[j].node].tag = "text" /\ f[j] = at[j].node /\ ~ at[j].end
           \/ /\ d[at[j].node].tag \in BlockTags \cup {"br"} /\ f[j] = Break
              /\ at[j].end => d[at[j].node].tag \in BlockTags
      /\ \A m \in kids : /\ d[m].tag \in BlockTags \cup {"text", "br"} => \E j \in DOMAIN f : at[j].node = m /\ ~ at[j].end
                         /\ d[m].tag \in BlockTags => \E j \in DOMAIN f : at[j].node = m /\ at[j].end
      /\ \A j, l \in DOMAIN f : j < l => Precedes(d, at[j].node, at[j].end, at[l].node, at[l].end)
  BY DEF Comes, kids
<1>4. \A j \in DOMAIN f : at[j].node \in kids /\ at[j].end \in BOOLEAN
  BY <1>3
<1>5. CASE d[n].tag \notin BlockTags
  <2>1. (IF d[n].tag \in BlockTags THEN <<Break>> ELSE <<>>) \o f
        \o (IF d[n].tag \in BlockTags THEN <<Break>> ELSE <<>>) = f
    BY <1>3, <1>5
  <2>2. d[n].tag \notin BlockTags \cup {"text", "br"}
    BY <1>5 DEF Containers
  <2>3. at \in [DOMAIN f -> [node : nodes, end : BOOLEAN]]
    BY <1>1, <1>3
  <2>4. Comes(d, nodes, f, at)
    BY <1>1, <1>3, <2>2, <2>3 DEF Comes
  <2> QED
    BY <2>1, <2>4 DEF nodes
<1>6. CASE d[n].tag \in BlockTags
  <2> DEFINE N == Len(f)
             s == <<Break>> \o f \o <<Break>>
             own == [end \in BOOLEAN |-> [node |-> n, end |-> end]]
             all == [j \in 1..(N + 2) |-> IF j = 1 THEN own[FALSE] ELSE IF j = N + 2 THEN own[TRUE] ELSE at[j - 1]]
  <2>1. N \in Nat /\ DOMAIN f = 1..N
    BY <1>3
  <2>2. s \in Seq(Int) /\ DOMAIN s = 1..(N + 2) /\ s[1] = Break /\ s[N + 2] = Break
        /\ \A j \in 2..(N + 1) : s[j] = f[j - 1]
    BY <1>3, <2>1 DEF Break
  <2>3. own \in [BOOLEAN -> [node : nodes, end : BOOLEAN]] /\ \A e \in BOOLEAN : own[e].node = n /\ own[e].end = e
    BY <1>1
  <2>4. \A j \in 1..N : at[j] \in [node : nodes, end : BOOLEAN]
    BY <1>1, <1>3, <2>1
  <2> HIDE DEF own, s
  <2> DEFINE R == [node : nodes, end : BOOLEAN]
             Entry(j) == IF j = 1 THEN own[FALSE] ELSE IF j = N + 2 THEN own[TRUE] ELSE at[j - 1]
  <2>5a. own[FALSE] \in R /\ own[TRUE] \in R /\ \A j \in 1..N : at[j] \in R
    BY <2>3, <2>4
  <2> HIDE DEF R, N
  <2>5b. \A j \in 1..(N + 2) : Entry(j) \in R
    <3> SUFFICES ASSUME NEW j \in 1..(N + 2) PROVE Entry(j) \in R
      OBVIOUS
    <3>1. j = 1 \/ j = N + 2 \/ (j - 1 \in 1..N /\ j # 1 /\ j # N + 2)
      BY <2>1
    <3> QED
      BY <2>5a, <3>1
  <2>5c. 1 \in 1..(N + 2) /\ N + 2 \in 1..(N + 2) /\ N + 2 # 1
         /\ \A j \in 2..(N + 1) : j \in 1..(N + 2) /\ j # 1 /\ j # N + 2
    BY <2>1
  <2>5d. all = [j \in 1..(N + 2) |-> Entry(j)]
    OBVIOUS
  <2> HIDE DEF all
  <2>5e. Entry(1) = own[FALSE] /\ Entry(N + 2) = own[TRUE] /\ \A j \in 2..(N + 1) : Entry(j) = at[j - 1]
    BY <2>5c
  <2> HIDE DEF Entry
  <2>5. all \in [1..(N + 2) -> [node : nodes, end : BOOLEAN]] /\ all[1] = own[FALSE] /\ all[N + 2] = own[TRUE]
        /\ \A j \in 2..(N + 1) : all[j] = at[j - 1]
    <3>1. all \in [1..(N + 2) -> R]
      BY <2>5b, <2>5d
    <3>2. all[1] = own[FALSE] /\ all[N + 2] = own[TRUE] /\ \A j \in 2..(N + 1) : all[j] = at[j - 1]
      BY <2>5c, <2>5d, <2>5e
    <3> QED
      BY <3>1, <3>2 DEF R
  <2>6. \A j \in 1..(N + 2) : j = 1 \/ j = N + 2 \/ (j \in 2..(N + 1) /\ j - 1 \in DOMAIN f /\ j # 1 /\ j # N + 2)
    BY <2>1
  <2>7. \A j \in 1..(N + 2) :
           \/ d[all[j].node].tag = "text" /\ s[j] = all[j].node /\ ~ all[j].end
           \/ /\ d[all[j].node].tag \in BlockTags \cup {"br"} /\ s[j] = Break
              /\ all[j].end => d[all[j].node].tag \in BlockTags
    <3> SUFFICES ASSUME NEW j \in 1..(N + 2)
                 PROVE  \/ d[all[j].node].tag = "text" /\ s[j] = all[j].node /\ ~ all[j].end
                        \/ /\ d[all[j].node].tag \in BlockTags \cup {"br"} /\ s[j] = Break
                           /\ all[j].end => d[all[j].node].tag \in BlockTags
      OBVIOUS
    <3>1. CASE j = 1 \/ j = N + 2
      <4>1. all[j].node = n /\ s[j] = Break
        BY <2>2, <2>3, <2>5, <3>1
      <4> QED
        BY <1>6, <4>1
    <3>2. CASE j \in 2..(N + 1) /\ j - 1 \in DOMAIN f
      <4>1. all[j] = at[j - 1] /\ s[j] = f[j - 1]
        BY <2>2, <2>5, <3>2
      <4> QED
        BY <1>3, <3>2, <4>1
    <3> QED
      BY <2>6, <3>1, <3>2
  <2>8. ASSUME NEW m \in nodes
        PROVE  /\ d[m].tag \in BlockTags \cup {"text", "br"} => \E j \in 1..(N + 2) : all[j].node = m /\ ~ all[j].end
               /\ d[m].tag \in BlockTags => \E j \in 1..(N + 2) : all[j].node = m /\ all[j].end
    <3>1. CASE m = n
      <4>1. 1 \in 1..(N + 2) /\ N + 2 \in 1..(N + 2)
        BY <2>1
      <4>2. all[1].node = m /\ ~ all[1].end /\ all[N + 2].node = m /\ all[N + 2].end
        BY <2>3, <2>5, <3>1
      <4> QED
        BY <4>1, <4>2
    <3>2. CASE m \in kids
      <4>1. \A j \in DOMAIN f : j + 1 \in 1..(N + 2) /\ all[j + 1] = at[j]
        <5> SUFFICES ASSUME NEW j \in DOMAIN f PROVE j + 1 \in 1..(N + 2) /\ all[j + 1] = at[j]
          OBVIOUS
        <5>1. j + 1 \in 2..(N + 1) /\ j + 1 \in 1..(N + 2) /\ (j + 1) - 1 = j
          BY <2>1
        <5> QED
          BY <2>5, <5>1
      <4>2. ASSUME d[m].tag \in BlockTags \cup {"text", "br"}
            PROVE  \E j \in 1..(N + 2) : all[j].node = m /\ ~ all[j].end
        <5>1. PICK j \in DOMAIN f : at[j].node = m /\ ~ at[j].end
          BY <1>3, <3>2, <4>2
        <5>2. j + 1 \in 1..(N + 2) /\ all[j + 1] = at[j]
          BY <4>1
        <5> QED
          BY <5>1, <5>2
      <4>3. ASSUME d[m].tag \in BlockTags
            PROVE  \E j \in 1..(N + 2) : all[j].node = m /\ all[j].end
        <5>1. PICK j \in DOMAIN f : at[j].node = m /\ at[j].end
          BY <1>3, <3>2, <4>3
        <5>2. j + 1 \in 1..(N + 2) /\ all[j + 1] = at[j]
          BY <4>1
        <5> QED
          BY <5>1, <5>2
      <4> QED
        BY <4>2, <4>3
    <3> QED
      BY <1>1, <3>1, <3>2
  <2>9. ASSUME NEW j \in 1..(N + 2), NEW l \in 1..(N + 2), j < l
        PROVE  Precedes(d, all[j].node, all[j].end, all[l].node, all[l].end)
    <3>0. l # 1 /\ j # N + 2
      BY <2>1, <2>9
    <3>1. CASE j = 1 /\ l = N + 2
      <4>1. Precedes(d, n, FALSE, n, TRUE)
        BY <1>0 DEF Precedes
      <4> QED
        BY <2>3, <2>5, <3>1, <4>1
    <3>2. CASE j = 1 /\ l \in 2..(N + 1) /\ l - 1 \in DOMAIN f
      <4> DEFINE x == at[l - 1].node
                 e == at[l - 1].end
      <4>1. all[l] = at[l - 1] /\ all[1].node = n /\ all[1].end = FALSE
        BY <2>3, <2>5, <3>2
      <4>2. x \in kids /\ e \in BOOLEAN
        BY <1>4, <3>2
      <4> HIDE DEF x, e
      <4>3. n < x /\ n <= x
        BY <1>0, <1>2, <4>2
      <4>4. Precedes(d, n, FALSE, x, e)
        BY <4>2, <4>3 DEF Precedes
      <4> QED
        BY <3>2, <4>1, <4>4 DEF x, e
    <3>3. CASE j \in 2..(N + 1) /\ j - 1 \in DOMAIN f /\ l = N + 2
      <4> DEFINE x == at[j - 1].node
                 e == at[j - 1].end
      <4>1. all[j] = at[j - 1] /\ all[N + 2].node = n /\ all[N + 2].end = TRUE
        BY <2>3, <2>5, <3>3
      <4>2. x \in kids /\ e \in BOOLEAN
        BY <1>4, <3>3
      <4> HIDE DEF x, e
      <4>3. n \in Above(d, x) \ {x}
        BY <1>2, <4>2
      <4>4. Precedes(d, x, e, n, TRUE)
        BY <4>2, <4>3 DEF Precedes
      <4> QED
        BY <3>3, <4>1, <4>4 DEF x, e
    <3>4. CASE /\ j \in 2..(N + 1) /\ j - 1 \in DOMAIN f
               /\ l \in 2..(N + 1) /\ l - 1 \in DOMAIN f
      <4>1. all[j] = at[j - 1] /\ all[l] = at[l - 1] /\ j - 1 < l - 1
        BY <2>1, <2>5, <2>9, <3>4
      <4> QED
        BY <1>3, <3>4, <4>1
    <3> QED
      BY <2>6, <3>0, <3>1, <3>2, <3>3, <3>4
  <2>10. Comes(d, nodes, s, all)
    BY <2>2, <2>5, <2>7, <2>8, <2>9 DEF Comes
  <2>11. (IF d[n].tag \in BlockTags THEN <<Break>> ELSE <<>>) \o f
         \o (IF d[n].tag \in BlockTags THEN <<Break>> ELSE <<>>) = s
    BY <1>6 DEF s
  <2> QED
    BY <2>10, <2>11 DEF nodes
<1> QED
  BY <1>5, <1>6

\* What marks is given of the children, and what it makes of it.
MarksOf(d, w, n) == [i \in DOMAIN Kids(d, n) |-> w[Kids(d, n)[i]]]

Marking(d, w, n) ==
  CASE d[n].tag = "text" -> <<n>>
    [] d[n].tag = "br" -> <<Break>>
    [] d[n].tag \in NoText -> <<>>
    [] OTHER -> (IF d[n].tag \in BlockTags THEN <<Break>> ELSE <<>>) \o FlattenSeq(MarksOf(d, w, n))
                \o (IF d[n].tag \in BlockTags THEN <<Break>> ELSE <<>>)

\* The cases of a tag.
LEMMA MarkingCases ==
  ASSUME NEW d, NEW w, NEW n, d[n].tag \in Tags
  PROVE  /\ d[n].tag = "text" => Marking(d, w, n) = <<n>>
         /\ d[n].tag = "br" => Marking(d, w, n) = <<Break>>
         /\ d[n].tag \in NoText => Marking(d, w, n) = <<>>
         /\ d[n].tag \in Containers =>
              Marking(d, w, n) = (IF d[n].tag \in BlockTags THEN <<Break>> ELSE <<>>) \o FlattenSeq(MarksOf(d, w, n))
                                 \o (IF d[n].tag \in BlockTags THEN <<Break>> ELSE <<>>)
         /\ d[n].tag \in NoText \cup Containers \cup {"text", "br"}
<1> DEFINE t == d[n].tag
<1>1. /\ t = "text" => t # "br" /\ t \notin NoText
      /\ t = "br" => t # "text" /\ t \notin NoText
      /\ t \in NoText => t # "text" /\ t # "br"
      /\ t \in Containers => t # "text" /\ t # "br" /\ t \notin NoText
      /\ t \in NoText \cup Containers \cup {"text", "br"}
  BY DEF Tags, NonRendering, NoText, ScriptTags, BlockTags, Containers
<1> HIDE DEF t
<1>2. CASE t = "text"
  BY <1>1, <1>2 DEF Marking, t
<1>3. CASE t = "br"
  BY <1>1, <1>3 DEF Marking, t
<1>4. CASE t \in NoText
  BY <1>1, <1>4 DEF Marking, t
<1>5. CASE t \in Containers
  BY <1>1, <1>5 DEF Marking, t
<1> QED
  BY <1>1, <1>2, <1>3, <1>4, <1>5 DEF t

LEMMA NodeIs ==
  ASSUME NEW d, Rooted(d), NEW n \in DOMAIN d
  PROVE  n \in Nat /\ n \in Int /\ d[n].tag \in Tags
<1>1. d[n] \in Nodes /\ n \in Nat
  BY DEF Rooted
<1> QED
  BY <1>1 DEF Nodes

LEMMA MarkingIs ==
  ASSUME NEW d, Rooted(d), NEW n \in DOMAIN d, NEW f \in [DOMAIN d -> Seq(Int)]
  PROVE  /\ Marking(d, f, n) \in Seq(Int)
         /\ \A g \in [DOMAIN d -> Seq(Int)] :
              (\A m \in DOMAIN d : n < m => f[m] = g[m]) => Marking(d, f, n) = Marking(d, g, n)
<1> DEFINE kids == Kids(d, n)
<1>0. n \in Nat /\ d[n].tag \in Tags
  BY NodeIs
<1>a. PICK c : Children(d, n, c)
  BY KidsAre
<1>1. /\ c \in Nat /\ DOMAIN kids = 1..c
      /\ \A i \in 1..c : kids[i] \in DOMAIN d /\ n < kids[i]
  BY <1>a DEF Children
<1> HIDE DEF kids
<1> DEFINE parts == MarksOf(d, f, n)
           flat == FlattenSeq(parts)
<1>2. flat \in Seq(Int)
  <2>1. parts \in [1..c -> Seq(Int)]
    <3>1. \A i \in 1..c : f[kids[i]] \in Seq(Int)
      BY <1>1
    <3>2. parts = [i \in 1..c |-> f[kids[i]]]
      BY <1>1 DEF MarksOf, kids
    <3> HIDE DEF parts
    <3> QED
      BY <3>1, <3>2
  <2> HIDE DEF parts
  <2>2. parts \in Seq(Seq(Int))
    BY <1>1, <2>1, BuiltSeq
  <2> QED
    BY <2>2, FlattenIs
<1> HIDE DEF flat
<1> DEFINE edge == IF d[n].tag \in BlockTags THEN <<Break>> ELSE <<>>
<1>3. edge \in Seq(Int) /\ <<n>> \in Seq(Int) /\ <<Break>> \in Seq(Int) /\ <<>> \in Seq(Int)
  BY <1>0 DEF Break
<1> HIDE DEF edge
<1>4. edge \o flat \o edge \in Seq(Int)
  BY <1>2, <1>3
<1>5. Marking(d, f, n) \in Seq(Int)
  BY <1>0, <1>3, <1>4, MarkingCases DEF edge, flat
<1>6. ASSUME NEW g \in [DOMAIN d -> Seq(Int)], \A m \in DOMAIN d : n < m => f[m] = g[m]
      PROVE  Marking(d, f, n) = Marking(d, g, n)
  <2>1. MarksOf(d, f, n) = MarksOf(d, g, n)
    <3>1. \A i \in DOMAIN kids : f[kids[i]] = g[kids[i]]
      BY <1>1, <1>6
    <3> QED
      BY <3>1 DEF MarksOf, kids
  <2> QED
    BY <2>1 DEF Marking
<1> QED
  BY <1>5, <1>6

\* The recursion of marks has a solution on every document.
LEMMA MarksIs ==
  ASSUME NEW d, Rooted(d)
  PROVE  \E w : /\ w = [n \in DOMAIN d |-> Marking(d, w, n)]
                /\ \A n \in DOMAIN d : Marks(d, n) = FlattenSeq(MarksOf(d, w, n))
<1> DEFINE V == Seq(Int)
           N == Len(d)
           F == [n \in 1..N |-> [f \in [1..N -> V] |-> Marking(d, f, n)]]
<1>1. N \in Nat /\ DOMAIN d = 1..N
  BY DEF Rooted
<1>2. V # {}
  <2>1. <<>> \in V
    OBVIOUS
  <2> HIDE DEF V
  <2> QED
    BY <2>1
<1>3. \A n \in 1..N : \A f \in [1..N -> V] : Marking(d, f, n) \in V
  BY <1>1, MarkingIs
<1>4. \A n \in 1..N : \A f, g \in [1..N -> V] :
        (\A m \in 1..N : n < m => f[m] = g[m]) => Marking(d, f, n) = Marking(d, g, n)
  BY <1>1, MarkingIs
<1> HIDE DEF V, N
<1>5. F \in [1..N -> [[1..N -> V] -> V]]
  BY <1>3
<1>6. \A n \in 1..N : \A f \in [1..N -> V] : F[n][f] = Marking(d, f, n)
  OBVIOUS
<1> HIDE DEF F
<1>7. \A n \in 1..N : \A f, g \in [1..N -> V] : (\A m \in 1..N : n < m => f[m] = g[m]) => F[n][f] = F[n][g]
  <2> SUFFICES ASSUME NEW n \in 1..N, NEW f \in [1..N -> V], NEW g \in [1..N -> V],
                      \A m \in 1..N : n < m => f[m] = g[m]
               PROVE  F[n][f] = F[n][g]
    OBVIOUS
  <2>1. Marking(d, f, n) = Marking(d, g, n)
    BY <1>4
  <2> QED
    BY <1>6, <2>1
<1>8. PICK f : Computed(N, V, F, f)
  <2>1. ComputedFrom(N, V, F)
    BY <1>1, <1>5, <1>7 DEF ComputedFrom
  <2> QED
    BY <1>2, <2>1, FromTheBottom
<1>9. f = [n \in DOMAIN d |-> Marking(d, f, n)]
  BY <1>1, <1>6, <1>8 DEF Computed
<1> DEFINE marks == CHOOSE w : w = [n \in DOMAIN d |-> Marking(d, w, n)]
<1>10. marks = [n \in DOMAIN d |-> Marking(d, marks, n)]
  BY <1>9
<1>11. \A n : Marks(d, n) = FlattenSeq(MarksOf(d, marks, n))
  BY DEF Marks, Marking, MarksOf
<1> HIDE DEF marks
<1> QED
  BY <1>10, <1>11

\* inner_text_node comes to what is rendered, each word and each edge of a block once,
\* in the order of the document.
LEMMA MarksCome ==
  ASSUME NEW d, Tree(d), NEW root \in DOMAIN d
  PROVE  \E at : Comes(d, Rendered(d, root), Marks(d, root), at)
<1>0. Rooted(d)
  BY DEF Tree
<1>1. PICK w : /\ w = [n \in DOMAIN d |-> Marking(d, w, n)]
               /\ \A n \in DOMAIN d : Marks(d, n) = FlattenSeq(MarksOf(d, w, n))
  BY <1>0, MarksIs
<1> DEFINE Good == {n \in DOMAIN d : \E at : Comes(d, Inside(d, n), w[n], at)}
<1>2. ASSUME NEW n \in DOMAIN d, \A k \in DOMAIN d : d[k].parent = n => k \in Good
      PROVE  \E at : Comes(d, InsideKids(d, n), FlattenSeq(MarksOf(d, w, n)), at)
  <2> DEFINE parts == MarksOf(d, w, n)
  <2>a. PICK c : Children(d, n, c)
    BY <1>0, KidsAre
  <2>1. /\ c \in Nat /\ DOMAIN Kids(d, n) = 1..c
        /\ \A i \in 1..c : Kids(d, n)[i] \in DOMAIN d /\ d[Kids(d, n)[i]].parent = n
    BY <2>a DEF Children
  <2>2. parts = [i \in DOMAIN parts |-> parts[i]] /\ DOMAIN parts = DOMAIN Kids(d, n)
        /\ \A i \in DOMAIN parts : parts[i] = w[Kids(d, n)[i]]
    BY DEF MarksOf
  <2> HIDE DEF parts
  <2>3. \A i \in DOMAIN parts : \E at : Comes(d, Inside(d, Kids(d, n)[i]), parts[i], at)
    BY <1>2, <2>1, <2>2
  <2>4. \E at : Comes(d, InsideKids(d, n), FlattenSeq(parts), at)
    BY <2>2, <2>3, KidsCome
  <2> QED
    BY <2>4 DEF parts
<1>3. ASSUME NEW n \in DOMAIN d, \A k \in DOMAIN d : d[k].parent = n => k \in Good
      PROVE  n \in Good
  <2> SUFFICES \E at : Comes(d, Inside(d, n), w[n], at)
    OBVIOUS
  <2>0. d[n].tag \in Tags /\ n \in Nat /\ n \in Int
    BY <1>0, NodeIs
  <2>1. w[n] = Marking(d, w, n)
    BY <1>1
  <2> HIDE DEF Good
  <2>2. CASE d[n].tag \in Containers
    <3>1. PICK at : Comes(d, InsideKids(d, n), FlattenSeq(MarksOf(d, w, n)), at)
      BY <1>2, <1>3
    <3>2. w[n] = (IF d[n].tag \in BlockTags THEN <<Break>> ELSE <<>>) \o FlattenSeq(MarksOf(d, w, n))
                 \o (IF d[n].tag \in BlockTags THEN <<Break>> ELSE <<>>)
      BY <2>0, <2>1, <2>2, MarkingCases
    <3> HIDE DEF Containers
    <3> DEFINE f == FlattenSeq(MarksOf(d, w, n))
    <3>3. Comes(d, InsideKids(d, n), f, at)
      BY <3>1
    <3> HIDE DEF f
    <3>4. \E all : Comes(d, Inside(d, n), (IF d[n].tag \in BlockTags THEN <<Break>> ELSE <<>>) \o f
                                         \o (IF d[n].tag \in BlockTags THEN <<Break>> ELSE <<>>), all)
      BY <2>2, <3>3, NodeComes
    <3> QED
      BY <3>2, <3>4 DEF f
  <2>3. CASE d[n].tag \in NoText
    <3>1. w[n] = <<>> /\ Inside(d, n) = {}
      BY <2>0, <2>1, <2>3, MarkingCases, InsideSplits
    <3>2. Comes(d, {}, <<>>, <<>>)
      BY DEF Comes
    <3> QED
      BY <3>1, <3>2
  <2>4. CASE d[n].tag \in {"text", "br"}
    <3>1. d[n].tag \notin NoText /\ d[n].tag \notin Containers /\ d[n].tag \notin BlockTags
      BY <2>4 DEF NoText, ScriptTags, Containers, BlockTags
    <3>2. Inside(d, n) = {n}
      BY <3>1, NothingIn, InsideSplits
    <3> DEFINE mark == IF d[n].tag = "text" THEN n ELSE Break
               at == << [node |-> n, end |-> FALSE] >>
    <3>3. w[n] = << mark >> /\ mark \in Int
      BY <2>0, <2>1, <2>4, MarkingCases DEF Break
    <3>4. << mark >> \in Seq(Int) /\ DOMAIN << mark >> = {1} /\ << mark >>[1] = mark
      BY <3>3
    <3>5. at \in [{1} -> [node : {n}, end : BOOLEAN]] /\ at[1].node = n /\ at[1].end = FALSE
      <4> DEFINE r == [node |-> n, end |-> FALSE]
      <4>1. r \in [node : {n}, end : BOOLEAN] /\ r.node = n /\ r.end = FALSE
        OBVIOUS
      <4> HIDE DEF r
      <4>2. << r >> \in [{1} -> [node : {n}, end : BOOLEAN]] /\ << r >>[1] = r
        BY <4>1
      <4> QED
        BY <4>1, <4>2 DEF r
    <3>6. (d[n].tag = "text" /\ mark = n) \/ (d[n].tag = "br" /\ mark = Break)
      BY <2>4
    <3> HIDE DEF mark, at
    <3>7. Comes(d, {n}, << mark >>, at)
      BY <3>1, <3>4, <3>5, <3>6 DEF Comes
    <3> QED
      BY <3>2, <3>3, <3>7
  <2> QED
    BY <2>0, <2>2, <2>3, <2>4, MarkingCases
<1>4. Good = DOMAIN d
  <2>1. Good \subseteq DOMAIN d
    OBVIOUS
  <2> HIDE DEF Good
  <2> QED
    BY <1>0, <1>3, <2>1, FromTheKids
<1>5. \E at : Comes(d, InsideKids(d, root), FlattenSeq(MarksOf(d, w, root)), at)
  <2>1. \A k \in DOMAIN d : k \in Good
    BY <1>4
  <2> HIDE DEF Good
  <2> QED
    BY <1>2, <2>1
<1> QED
  BY <1>1, <1>5, RenderedIs

\* s has its c words, one after another, at those places, and else line breaks.
Placed(s, c, words, place) ==
  /\ c \in Nat /\ s \in Seq(Int)
  /\ words \in [1..c -> Nat \ {0}] /\ place \in [1..c -> DOMAIN s]
  /\ \A k \in 1..c : s[place[k]] = words[k]
  /\ \A k, l \in 1..c : k < l => place[k] < place[l]
  /\ \A j \in DOMAIN s : s[j] = Break \/ \E k \in 1..c : place[k] = j

LEMMA ComesInOrder ==
  ASSUME NEW d, NEW nodes, NEW s, NEW at, Comes(d, nodes, s, at),
         NEW i \in DOMAIN s, NEW k \in DOMAIN s, i < k
  PROVE  /\ ~ at[i].end /\ ~ at[k].end => at[i].node < at[k].node
         /\ at[i].end /\ ~ at[k].end => at[i].node < at[k].node /\ at[i].node \notin Above(d, at[k].node)
         /\ ~ at[i].end /\ at[k].end => at[i].node <= at[k].node \/ at[k].node \in Above(d, at[i].node)
<1>1. Precedes(d, at[i].node, at[i].end, at[k].node, at[k].end)
  BY DEF Comes
<1> QED
  BY <1>1 DEF Precedes

\* A break between two words stands for the end of a line.
LEMMA BreaksAre ==
  ASSUME NEW d, Tree(d), NEW root \in DOMAIN d, NEW s, NEW at, Comes(d, Rendered(d, root), s, at),
         NEW j \in DOMAIN s, NEW l \in DOMAIN s, j < l, s[j] # Break, s[l] # Break
  PROVE  (\E i \in DOMAIN s : j < i /\ i < l /\ s[i] = Break) <=> LineEnds(d, root, s[j], s[l])
<1> DEFINE u == s[j]
           v == s[l]
           nodes == Rendered(d, root)
<1>0. Rooted(d) /\ DOMAIN s \subseteq Nat /\ DOMAIN d \subseteq Nat /\ nodes \subseteq DOMAIN d
  <2>1. s \in Seq(Int) /\ Rooted(d) /\ nodes \subseteq DOMAIN d
    BY DEF Comes, Tree, Rendered
  <2>2. d \in Seq(Nodes)
    BY <2>1 DEF Rooted
  <2> QED
    BY <2>1, <2>2
<1> HIDE DEF nodes
<1>1. /\ at \in [DOMAIN s -> [node : nodes, end : BOOLEAN]]
      /\ \A i \in DOMAIN s :
           \/ d[at[i].node].tag = "text" /\ s[i] = at[i].node /\ ~ at[i].end
           \/ /\ d[at[i].node].tag \in BlockTags \cup {"br"} /\ s[i] = Break
              /\ at[i].end => d[at[i].node].tag \in BlockTags
      /\ \A m \in nodes : /\ d[m].tag \in BlockTags \cup {"text", "br"} => \E i \in DOMAIN s : at[i].node = m /\ ~ at[i].end
                          /\ d[m].tag \in BlockTags => \E i \in DOMAIN s : at[i].node = m /\ at[i].end
  BY DEF Comes, nodes
<1>o. \A i, k \in DOMAIN s : i < k =>
        /\ ~ at[i].end /\ ~ at[k].end => at[i].node < at[k].node
        /\ at[i].end /\ ~ at[k].end => at[i].node < at[k].node /\ at[i].node \notin Above(d, at[k].node)
        /\ ~ at[i].end /\ at[k].end => at[i].node <= at[k].node \/ at[k].node \in Above(d, at[i].node)
  BY ComesInOrder
<1>2. \A i \in DOMAIN s : at[i].node \in nodes /\ at[i].end \in BOOLEAN /\ at[i].node \in Nat
  BY <1>0, <1>1
<1>3. at[j].node = u /\ at[j].end = FALSE /\ d[u].tag = "text" /\ at[l].node = v /\ at[l].end = FALSE /\ d[v].tag = "text"
      /\ u \in DOMAIN d /\ v \in DOMAIN d /\ u \in Nat /\ v \in Nat
  BY <1>0, <1>1, <1>2
<1> HIDE DEF u, v
<1>4. "text" \notin BlockTags \cup {"br"}
  BY DEF BlockTags
<1>5. u < v
  BY <1>3, <1>o
<1>6. ASSUME NEW i \in DOMAIN s, j < i, i < l, s[i] = Break
      PROVE  LineEnds(d, root, u, v)
  <2> DEFINE b == at[i].node
             e == at[i].end
  <2>1. b \in nodes /\ b \in Nat /\ e \in BOOLEAN
    BY <1>2
  <2>2. d[b].tag \in BlockTags \cup {"br"} /\ (e => d[b].tag \in BlockTags)
    <3>1. ~ (d[b].tag = "text" /\ s[i] = b)
      <4>1. b # Break
        BY <2>1 DEF Break
      <4> QED
        BY <1>6, <4>1
    <3> QED
      BY <1>1, <3>1
  <2>3. /\ ~ e => u < b /\ b < v
        /\ e => (u <= b \/ b \in Above(d, u)) /\ b < v /\ b \notin Above(d, v)
    BY <1>3, <1>6, <1>o
  <2> HIDE DEF b, e
  <2>4. u # b /\ v # b
    BY <1>3, <1>4, <2>2
  <2>5. CASE e
    <3>1. (u <= b \/ b \in Above(d, u)) /\ b < v /\ b \notin Above(d, v)
      BY <2>3, <2>5
    <3>2. u < b \/ b \in Above(d, u)
      BY <1>3, <2>1, <2>4, <3>1
    <3> QED
      BY <2>1, <2>2, <2>5, <3>1, <3>2 DEF LineEnds, nodes
  <2>6. CASE ~ e
    <3>1. u < b /\ b < v
      BY <2>3, <2>6
    <3> QED
      BY <2>1, <2>2, <3>1 DEF LineEnds, nodes
  <2> QED
    BY <2>5, <2>6
<1>7. ASSUME LineEnds(d, root, u, v)
      PROVE  \E i \in DOMAIN s : j < i /\ i < l /\ s[i] = Break
  <2>1. PICK b \in nodes : \/ u < b /\ b < v /\ d[b].tag \in BlockTags \cup {"br"}
                           \/ d[b].tag \in BlockTags /\ b \in Above(d, u) \ Above(d, v)
    BY <1>7 DEF LineEnds, nodes
  <2>2. b \in DOMAIN d /\ b \in Nat
    BY <1>0
  <2>3. CASE u < b /\ b < v /\ d[b].tag \in BlockTags \cup {"br"}
    <3>1. PICK i \in DOMAIN s : at[i].node = b /\ ~ at[i].end
      BY <1>1, <2>3
    <3>2. at[i].end = FALSE /\ s[i] = Break
      BY <1>1, <1>2, <1>4, <2>3, <3>1
    <3>3. ~ (i < j)
      <4>1. i < j => b < u
        BY <1>3, <1>o, <3>1
      <4> QED
        BY <1>3, <2>2, <2>3, <4>1
    <3>4. ~ (l < i)
      <4>1. l < i => v < b
        BY <1>3, <1>o, <3>1
      <4> QED
        BY <1>3, <2>2, <2>3, <4>1
    <3>5. i # j /\ i # l
      BY <3>2
    <3> QED
      BY <1>0, <3>2, <3>3, <3>4, <3>5
  <2>4. CASE d[b].tag \in BlockTags /\ b \in Above(d, u) \ Above(d, v)
    <3>1. PICK i \in DOMAIN s : at[i].node = b /\ at[i].end
      BY <1>1, <2>4
    <3>2. at[i].end = TRUE /\ s[i] = Break
      BY <1>1, <1>2, <1>4, <2>4, <3>1
    <3>3. ~ (i < j)
      <4>1. i < j => b \notin Above(d, u)
        BY <1>3, <1>o, <3>1
      <4> QED
        BY <2>4, <4>1
    <3>4. ~ (l < i)
      <4>1. l < i => v <= b \/ b \in Above(d, v)
        BY <1>3, <1>o, <3>1
      <4>2. b <= u
        BY <1>0, <1>3, <2>4, AboveIsEarlier
      <4>3. l < i => v <= b
        BY <2>4, <4>1
      <4> QED
        BY <1>3, <1>5, <2>2, <4>2, <4>3
    <3>5. i # j /\ i # l
      BY <3>2
    <3> QED
      BY <1>0, <3>2, <3>3, <3>4, <3>5
  <2> QED
    BY <2>1, <2>3, <2>4
<1> QED
  BY <1>6, <1>7 DEF u, v

\* The words of the marks are the text that is rendered, first to last, and two of
\* them are next to each other where no line ends.
LEMMA MarksPlaced ==
  ASSUME NEW d, Tree(d), NEW root \in DOMAIN d,
         NEW words, words = InOrder({n \in Rendered(d, root) : d[n].tag = "text"})
  PROVE  \E c, place :
           /\ Placed(Marks(d, root), c, words, place)
           /\ \A k \in 1..c : k + 1 \in 1..c =>
                (place[k + 1] # place[k] + 1 <=> LineEnds(d, root, words[k], words[k + 1]))
<1> DEFINE text == {n \in Rendered(d, root) : d[n].tag = "text"}
           s == Marks(d, root)
           c == Cardinality(text)
<1>0. Rooted(d) /\ Len(d) \in Nat /\ text \subseteq Rendered(d, root) /\ \A n \in text : d[n].tag = "text"
  BY DEF Tree, Rooted
<1>s. text \in SUBSET (1..Len(d)) /\ text \subseteq Nat \ {0}
  <2>1. DOMAIN d = 1..Len(d)
    BY <1>0 DEF Rooted
  <2>2. text \subseteq DOMAIN d
    BY DEF Rendered
  <2> HIDE DEF text
  <2> QED
    BY <1>0, <2>1, <2>2
<1>1. PICK at : Comes(d, Rendered(d, root), s, at)
  BY MarksCome
<1>w. \A n \in Rendered(d, root) : d[n].tag = "text" => n \in text
  OBVIOUS
<1>x. words = InOrder(text)
  OBVIOUS
<1> HIDE DEF s, text, c
<1>2. /\ c \in Nat /\ words \in [1..c -> text]
      /\ \A i \in text : \E k \in 1..c : words[k] = i
      /\ \A k, l \in 1..c : k < l => words[k] < words[l]
  <2>1. /\ Cardinality(text) \in Nat
        /\ InOrder(text) \in [1..Cardinality(text) -> text]
        /\ \A i \in text : \E k \in 1..Cardinality(text) : InOrder(text)[k] = i
        /\ \A k, l \in 1..Cardinality(text) : k < l => InOrder(text)[k] < InOrder(text)[l]
    BY <1>0, <1>s, InOrderLists
  <2> QED
    BY <1>x, <2>1 DEF c
<1>3. /\ s \in Seq(Int) /\ at \in [DOMAIN s -> [node : Rendered(d, root), end : BOOLEAN]]
      /\ \A i \in DOMAIN s :
           \/ d[at[i].node].tag = "text" /\ s[i] = at[i].node /\ ~ at[i].end
           \/ /\ d[at[i].node].tag \in BlockTags \cup {"br"} /\ s[i] = Break
              /\ at[i].end => d[at[i].node].tag \in BlockTags
      /\ \A m \in Rendered(d, root) :
           d[m].tag \in BlockTags \cup {"text", "br"} => \E i \in DOMAIN s : at[i].node = m /\ ~ at[i].end
  BY <1>1 DEF Comes
<1>o. \A i, k \in DOMAIN s : i < k /\ ~ at[i].end /\ ~ at[k].end => at[i].node < at[k].node
  BY <1>1, ComesInOrder
<1>4. \A i \in DOMAIN s : at[i].node \in Rendered(d, root) /\ at[i].end \in BOOLEAN
  BY <1>3
<1>5. "text" \notin BlockTags \cup {"br"}
  BY DEF BlockTags
<1>6. DOMAIN s \subseteq Nat
  BY <1>3
<1> DEFINE place == [k \in 1..c |-> CHOOSE i \in DOMAIN s : at[i].node = words[k] /\ ~ at[i].end]
<1>7. \A k \in 1..c : place[k] \in DOMAIN s /\ at[place[k]].node = words[k] /\ ~ at[place[k]].end
  <2> SUFFICES ASSUME NEW k \in 1..c
               PROVE  place[k] \in DOMAIN s /\ at[place[k]].node = words[k] /\ ~ at[place[k]].end
    OBVIOUS
  <2>1. words[k] \in text
    BY <1>2
  <2>2. \E i \in DOMAIN s : at[i].node = words[k] /\ ~ at[i].end
    BY <1>0, <1>3, <2>1
  <2>3. place[k] = CHOOSE i \in DOMAIN s : at[i].node = words[k] /\ ~ at[i].end
    OBVIOUS
  <2> HIDE DEF place
  <2> QED
    BY <2>2, <2>3
<1>8. place \in [1..c -> DOMAIN s]
  BY <1>7
<1> HIDE DEF place
<1>9. \A k \in 1..c : s[place[k]] = words[k] /\ d[words[k]].tag = "text" /\ words[k] \in Nat \ {0}
                      /\ at[place[k]].end = FALSE
  <2> SUFFICES ASSUME NEW k \in 1..c
               PROVE  s[place[k]] = words[k] /\ d[words[k]].tag = "text" /\ words[k] \in Nat \ {0}
                      /\ at[place[k]].end = FALSE
    OBVIOUS
  <2>1. words[k] \in text /\ d[words[k]].tag = "text"
    BY <1>0, <1>2
  <2>2. words[k] \in Nat \ {0}
    BY <1>s, <2>1
  <2>3. s[place[k]] = words[k]
    BY <1>3, <1>5, <1>7, <2>1
  <2> QED
    BY <1>4, <1>7, <2>1, <2>2, <2>3
<1>10. \A k, l \in 1..c : k < l => place[k] < place[l]
  <2> SUFFICES ASSUME NEW k \in 1..c, NEW l \in 1..c, k < l, ~ (place[k] < place[l]) PROVE FALSE
    OBVIOUS
  <2>1. words[k] < words[l] /\ words[k] \in Nat /\ words[l] \in Nat
    BY <1>2, <1>9
  <2>2. place[k] \in Nat /\ place[l] \in Nat /\ place[k] # place[l]
    BY <1>6, <1>8, <1>9, <2>1
  <2>3. place[l] < place[k]
    BY <2>2
  <2>4. words[l] < words[k]
    BY <1>7, <1>o, <2>3
  <2> QED
    BY <2>1, <2>4
<1>11. ASSUME NEW j \in DOMAIN s, s[j] # Break PROVE \E k \in 1..c : place[k] = j
  <2>1. d[at[j].node].tag = "text" /\ ~ at[j].end /\ at[j].node \in text
    BY <1>3, <1>4, <1>11, <1>w
  <2>2. PICK k \in 1..c : words[k] = at[j].node
    BY <1>2, <2>1
  <2>3. place[k] \in DOMAIN s /\ place[k] \in Nat /\ j \in Nat /\ words[k] \in Nat
    BY <1>6, <1>7, <1>9
  <2>4. at[place[k]].node = words[k] /\ ~ at[place[k]].end /\ at[j].node = words[k]
    BY <1>7, <2>2
  <2>5. ~ (words[k] < words[k])
    BY <2>3
  <2>6. ~ (place[k] < j) /\ ~ (j < place[k])
    BY <1>o, <2>1, <2>3, <2>4, <2>5
  <2> QED
    BY <2>3, <2>6
<1>12. words \in [1..c -> Nat \ {0}]
  BY <1>2, <1>9
<1>13. Placed(s, c, words, place)
  BY <1>2, <1>3, <1>8, <1>9, <1>10, <1>11, <1>12 DEF Placed
<1>14. ASSUME NEW k \in 1..c, k + 1 \in 1..c
       PROVE  place[k + 1] # place[k] + 1 <=> LineEnds(d, root, words[k], words[k + 1])
  <2> DEFINE l == k + 1
             p == place[k]
             q == place[l]
  <2>0. l \in 1..c /\ k < l
    BY <1>2, <1>14
  <2> HIDE DEF l
  <2>1. p \in DOMAIN s /\ q \in DOMAIN s /\ p < q /\ p \in Nat /\ q \in Nat /\ s[p] = words[k] /\ s[q] = words[l]
    <3>1. p \in DOMAIN s /\ q \in DOMAIN s
      BY <1>8, <2>0
    <3>2. p < q
      BY <1>10, <2>0
    <3>3. s[p] = words[k] /\ s[q] = words[l]
      BY <1>9, <2>0
    <3> QED
      BY <1>6, <3>1, <3>2, <3>3
  <2>2. words[k] # Break /\ words[l] # Break
    BY <1>9, <2>0 DEF Break
  <2>3. \A m \in 1..c : place[m] \in Nat /\ (place[m] <= p \/ q <= place[m])
    <3> SUFFICES ASSUME NEW m \in 1..c PROVE place[m] \in Nat /\ (place[m] <= p \/ q <= place[m])
      OBVIOUS
    <3>1. m < k \/ m = k \/ m = l \/ l < m
      BY <1>2 DEF l
    <3>2. place[m] \in Nat /\ (m < k => place[m] < p) /\ (l < m => q < place[m])
      BY <1>6, <1>8, <1>10, <2>0
    <3> QED
      BY <2>1, <3>1, <3>2
  <2> HIDE DEF p, q
  <2>4. (\E i \in DOMAIN s : p < i /\ i < q /\ s[i] = Break) <=> LineEnds(d, root, words[k], words[l])
    BY <1>1, <2>1, <2>2, BreaksAre
  <2>5. q # p + 1 => \E i \in DOMAIN s : p < i /\ i < q /\ s[i] = Break
    <3> SUFFICES ASSUME q # p + 1 PROVE \E i \in DOMAIN s : p < i /\ i < q /\ s[i] = Break
      OBVIOUS
    <3>1. p + 1 \in DOMAIN s /\ p < p + 1 /\ p + 1 < q
      <4>1. DOMAIN s = 1..Len(s) /\ Len(s) \in Nat
        BY <1>3
      <4> QED
        BY <2>1, <4>1
    <3>2. \A m \in 1..c : place[m] # p + 1
      BY <2>1, <2>3, <3>1
    <3> QED
      BY <1>11, <3>1, <3>2
  <2>6. (\E i \in DOMAIN s : p < i /\ i < q) => q # p + 1
    BY <1>6, <2>1
  <2> QED
    BY <2>4, <2>5, <2>6 DEF p, q, l
<1> QED
  BY <1>13, <1>14 DEF s

\* What is put between a word and the next, and the first k words with that between.
Between(place, k) == IF place[k + 1] # place[k] + 1 THEN Newline ELSE Space

Spread(t, k, words, place) ==
  /\ t \in Seq(Int) /\ Len(t) = IF k = 0 THEN 0 ELSE 2 * k - 1
  /\ \A i \in 1..k : t[2 * i - 1] = words[i]
  /\ \A i \in 1..(k - 1) : t[2 * i] = Between(place, i)

LEMMA SpreadOneMore ==
  ASSUME NEW k \in Nat, NEW words, NEW place, NEW t, Spread(t, k, words, place), words[k + 1] \in Int
  PROVE  /\ k = 0 => t = <<>> /\ Spread(Append(t, words[1]), 1, words, place)
         /\ k # 0 => /\ t # <<>> /\ Last(t) = words[k]
                     /\ Spread(Append(Append(t, Between(place, k)), words[k + 1]), k + 1, words, place)
<1>1. /\ t \in Seq(Int) /\ Len(t) = IF k = 0 THEN 0 ELSE 2 * k - 1
      /\ \A i \in 1..k : t[2 * i - 1] = words[i]
      /\ \A i \in 1..(k - 1) : t[2 * i] = Between(place, i)
  BY DEF Spread
<1>2. CASE k = 0
  <2>1. t = <<>>
    BY <1>1, <1>2
  <2> DEFINE u == Append(t, words[1])
  <2>2. u \in Seq(Int) /\ Len(u) = 1 /\ u[1] = words[1]
    BY <1>2, <2>1
  <2> HIDE DEF u
  <2>3. /\ \A i \in 1..1 : i = 1 /\ 2 * i - 1 = 1
        /\ \A i \in 1..(1 - 1) : FALSE
    OBVIOUS
  <2>4. Len(u) = IF 1 = 0 THEN 0 ELSE 2 * 1 - 1
    BY <2>2
  <2>5. Spread(u, 1, words, place)
    BY <2>2, <2>3, <2>4 DEF Spread
  <2> QED
    BY <1>2, <2>1, <2>5 DEF u
<1>3. CASE k # 0
  <2> DEFINE n == 2 * k - 1
             sep == Between(place, k)
             u == Append(Append(t, sep), words[k + 1])
  <2>1. n \in Nat /\ n >= 1 /\ Len(t) = n
    BY <1>1, <1>3
  <2>2. sep \in Int
    BY DEF Between, Newline, Space
  <2> HIDE DEF sep
  <2>3. u \in Seq(Int) /\ Len(u) = n + 2 /\ (\A y \in 1..n : u[y] = t[y]) /\ u[n + 1] = sep /\ u[n + 2] = words[k + 1]
    <3> HIDE DEF n
    <3> QED
      BY <1>1, <2>1, <2>2
  <2>4. t # <<>> /\ Last(t) = words[k]
    <3>1. k \in 1..k /\ 2 * k - 1 = n
      BY <1>3
    <3>2. t[n] = words[k]
      BY <1>1, <3>1
    <3>3. Last(t) = t[n]
      BY <2>1 DEF Last
    <3>4. t # <<>>
      BY <2>1
    <3> QED
      BY <3>2, <3>3, <3>4
  <2> HIDE DEF u
  <2>5. ASSUME NEW i \in 1..(k + 1) PROVE u[2 * i - 1] = words[i]
    <3>1. CASE i = k + 1
      <4>1. 2 * i - 1 = n + 2
        BY <3>1
      <4> QED
        BY <2>3, <3>1, <4>1
    <3>2. CASE i # k + 1
      <4>1. i \in 1..k /\ 2 * i - 1 \in 1..n
        BY <3>2
      <4> QED
        BY <1>1, <2>3, <4>1
    <3> QED
      BY <3>1, <3>2
  <2>6. ASSUME NEW i \in 1..k PROVE u[2 * i] = Between(place, i)
    <3>1. CASE i = k
      <4>1. 2 * i = n + 1
        BY <3>1
      <4> QED
        BY <2>3, <3>1, <4>1 DEF sep
    <3>2. CASE i # k
      <4>1. i \in 1..(k - 1) /\ 2 * i \in 1..n
        BY <3>2
      <4> QED
        BY <1>1, <2>3, <4>1
    <3> QED
      BY <3>1, <3>2
  <2>7. (k + 1) - 1 = k /\ Len(u) = IF k + 1 = 0 THEN 0 ELSE 2 * (k + 1) - 1
    BY <2>3
  <2>8. Spread(u, k + 1, words, place)
    BY <2>3, <2>5, <2>6, <2>7 DEF Spread
  <2> QED
    BY <1>3, <2>4, <2>8 DEF u, sep
<1> QED
  BY <1>2, <1>3

\* What is out after the first i marks: the words among them, and a newline if a
\* break follows the last of them.
Held(c, words, place, i, out) ==
  \E k \in 0..c : \E t :
    /\ \A x \in 1..c : x <= k <=> place[x] <= i
    /\ Spread(t, k, words, place)
    /\ out = IF k = 0 THEN <<>> ELSE IF place[k] = i THEN t ELSE Append(t, Newline)

LEMMA PutMarkIs ==
  ASSUME NEW s, NEW c, NEW words, NEW place, Placed(s, c, words, place),
         NEW i \in Nat, i + 1 \in DOMAIN s, NEW out, Held(c, words, place, i, out)
  PROVE  Held(c, words, place, i + 1, PutMark(out, s[i + 1]))
<1>1. /\ c \in Nat /\ s \in Seq(Int)
      /\ words \in [1..c -> Nat \ {0}] /\ place \in [1..c -> DOMAIN s]
      /\ \A k \in 1..c : s[place[k]] = words[k]
      /\ \A k, l \in 1..c : k < l => place[k] < place[l]
      /\ \A j \in DOMAIN s : s[j] = Break \/ \E k \in 1..c : place[k] = j
  BY DEF Placed
<1>2. \A x \in 1..c : place[x] \in Nat /\ words[x] \in Nat \ {0}
  BY <1>1
<1>a. PICK k \in 0..c : \E t :
        /\ \A x \in 1..c : x <= k <=> place[x] <= i
        /\ Spread(t, k, words, place)
        /\ out = IF k = 0 THEN <<>> ELSE IF place[k] = i THEN t ELSE Append(t, Newline)
  BY DEF Held
<1>3. PICK t :
        /\ \A x \in 1..c : x <= k <=> place[x] <= i
        /\ Spread(t, k, words, place)
        /\ out = IF k = 0 THEN <<>> ELSE IF place[k] = i THEN t ELSE Append(t, Newline)
  BY <1>a
<1>4. t \in Seq(Int) /\ (k = 0 => t = <<>>) /\ (k # 0 => Len(t) # 0 /\ Len(t) \in Nat /\ t[Len(t)] = words[k])
  <2>1. t \in Seq(Int) /\ Len(t) = (IF k = 0 THEN 0 ELSE 2 * k - 1) /\ \A x \in 1..k : t[2 * x - 1] = words[x]
    BY <1>3 DEF Spread
  <2>2. k # 0 => k \in 1..k /\ 2 * k - 1 # 0 /\ 2 * k - 1 \in Nat
    BY <1>1
  <2> QED
    BY <2>1, <2>2
<1>5. k # 0 => k \in 1..c /\ Last(t) = words[k] /\ Last(t) # Newline /\ t # <<>>
  <2>1. k # 0 => k \in 1..c
    BY <1>1
  <2> QED
    BY <1>2, <1>4, <2>1 DEF Last, Newline
<1>6. Last(Append(t, Newline)) = Newline /\ Append(t, Newline) # <<>> /\ Newline \in Int
  <2>1. Newline \in Int
    BY DEF Newline
  <2>a. t \in Seq(Int)
    BY <1>4
  <2>b. \A nl \in Int : Append(t, nl) # <<>> /\ Len(Append(t, nl)) = Len(t) + 1 /\ Append(t, nl)[Len(t) + 1] = nl
    BY <2>a
  <2>2. Append(t, Newline) # <<>> /\ Len(Append(t, Newline)) = Len(t) + 1 /\ Append(t, Newline)[Len(t) + 1] = Newline
    BY <2>1, <2>b
  <2>3. Last(Append(t, Newline)) = Append(t, Newline)[Len(Append(t, Newline))]
    BY DEF Last
  <2> QED
    BY <2>1, <2>2, <2>3
<1>7. CASE s[i + 1] = Break
  <2>1. \A x \in 1..c : place[x] # i + 1
    BY <1>1, <1>2, <1>7 DEF Break
  <2>2. \A x \in 1..c : x <= k <=> place[x] <= i + 1
    <3> SUFFICES ASSUME NEW x \in 1..c PROVE x <= k <=> place[x] <= i + 1
      OBVIOUS
    <3>1. place[x] <= i <=> place[x] <= i + 1
      BY <1>2, <2>1
    <3> QED
      BY <1>3, <3>1
  <2>3. PutMark(out, Break) = IF out = <<>> \/ Last(out) = Newline THEN out ELSE Append(out, Newline)
    BY DEF PutMark
  <2>4. PutMark(out, Break) = IF k = 0 THEN <<>> ELSE IF place[k] = i + 1 THEN t ELSE Append(t, Newline)
    <3>1. CASE k = 0
      BY <1>3, <2>3, <3>1
    <3>2. CASE k # 0 /\ place[k] = i
      BY <1>3, <1>5, <2>1, <2>3, <3>2
    <3>3. CASE k # 0 /\ place[k] # i
      BY <1>3, <1>5, <1>6, <2>1, <2>3, <3>3
    <3> QED
      BY <3>1, <3>2, <3>3
  <2> QED
    BY <1>3, <1>7, <2>2, <2>4 DEF Held
<1>8. CASE \E x \in 1..c : place[x] = i + 1
  <2>1. PICK x \in 1..c : place[x] = i + 1
    BY <1>8
  <2>2. x = k + 1
    <3>1. ~ (x <= k)
      BY <1>3, <2>1
    <3>2. ASSUME k + 1 < x PROVE FALSE
      <4>1. k + 1 \in 1..c /\ ~ (k + 1 <= k)
        BY <1>1, <3>2
      <4>2. place[k + 1] < i + 1 /\ place[k + 1] \in Nat
        BY <1>1, <1>2, <2>1, <3>2, <4>1, SMTT(60)
      <4>3. place[k + 1] <= i
        BY <4>2
      <4> QED
        BY <1>3, <4>1, <4>3
    <3> QED
      BY <1>1, <3>1, <3>2
  <2>3. k + 1 \in 1..c /\ place[k + 1] = i + 1 /\ k + 1 \in 0..c /\ k + 1 # 0
    BY <2>1, <2>2
  <2>4. s[i + 1] = words[k + 1] /\ words[k + 1] \in Nat \ {0} /\ words[k + 1] # Break /\ words[k + 1] \in Int
    <3>1. s[i + 1] = words[k + 1] /\ words[k + 1] \in Nat \ {0}
      BY <1>1, <1>2, <2>3
    <3> QED
      BY <3>1 DEF Break
  <2>5. \A y \in 1..c : y <= k + 1 <=> place[y] <= i + 1
    <3> SUFFICES ASSUME NEW y \in 1..c PROVE y <= k + 1 <=> place[y] <= i + 1
      OBVIOUS
    <3>1. y < k + 1 \/ y = k + 1 \/ k + 1 < y
      BY <2>3
    <3>2. (y < k + 1 => place[y] < i + 1) /\ (k + 1 < y => i + 1 < place[y]) /\ place[y] \in Nat
      BY <1>1, <1>2, <2>3
    <3> QED
      BY <2>3, <3>1, <3>2
  <2> DEFINE w == words[k + 1]
  <2>6. PutMark(out, w) = IF out = <<>> \/ Last(out) = Newline THEN Append(out, w) ELSE out \o << Space, w >>
    BY <2>4 DEF PutMark
  <2> DEFINE u == IF k = 0 THEN Append(t, words[1]) ELSE Append(Append(t, Between(place, k)), w)
  <2>7. Spread(u, k + 1, words, place)
    <3>1. k \in Nat
      BY <1>1
    <3> QED
      BY <1>3, <2>4, <3>1, SpreadOneMore
  <2>8. PutMark(out, w) = u
    <3>1. CASE k = 0
      BY <1>3, <1>4, <2>6, <3>1
    <3>2. CASE k # 0 /\ place[k] = i
      <4>1. out = t /\ Between(place, k) = Space
        BY <1>3, <2>3, <3>2 DEF Between
      <4>2. t \o << Space, w >> = Append(Append(t, Space), w)
        <5> HIDE DEF w
        <5>1. Space \in Int /\ w \in Int
          BY <2>4 DEF Space, w
        <5> QED
          BY <1>4, <5>1
      <4> QED
        BY <1>5, <2>6, <3>2, <4>1, <4>2
    <3>3. CASE k # 0 /\ place[k] # i
      <4>1. out = Append(t, Newline) /\ Between(place, k) = Newline
        <5>1. place[k + 1] # place[k] + 1
          BY <1>2, <1>5, <2>3, <3>3
        <5> QED
          BY <1>3, <3>3, <5>1 DEF Between
      <4> QED
        BY <1>6, <2>6, <3>3, <4>1
    <3> QED
      BY <3>1, <3>2, <3>3
  <2> HIDE DEF u
  <2>9. u = IF k + 1 = 0 THEN <<>> ELSE IF place[k + 1] = i + 1 THEN u ELSE Append(u, Newline)
    BY <2>3
  <2>10. Held(c, words, place, i + 1, u)
    BY <2>3, <2>5, <2>7, <2>9 DEF Held
  <2> QED
    BY <2>4, <2>8, <2>10
<1> QED
  BY <1>1, <1>7, <1>8

\* The recursion of out has a solution on every sequence of marks.
LEMMA OutIs ==
  ASSUME NEW marks \in Seq(Int)
  PROVE  \E out : /\ Put(marks) = out[Len(marks)] /\ out[0] = <<>>
                  /\ \A i \in 1..Len(marks) : out[i] = PutMark(out[i - 1], marks[i])
<1> DEFINE N == Len(marks)
           Solves(f, n) == f = [i \in 0..n |-> IF i = 0 THEN <<>> ELSE PutMark(f[i - 1], marks[i])]
           bad == {n \in 0..N : ~ \E f : Solves(f, n)}
<1>1. N \in Nat
  OBVIOUS
<1> HIDE DEF N
<1>2. bad = {}
  <2> SUFFICES ASSUME bad # {} PROVE FALSE
    OBVIOUS
  <2>1. PICK n \in bad : \A m \in bad : n <= m
    <3>1. bad \subseteq Nat
      <4> HIDE DEF Solves
      <4> QED
        BY <1>1
    <3> HIDE DEF bad
    <3> QED
      BY <3>1, LeastNumber
  <2>2. n \in 0..N /\ n \in Nat /\ ~ \E f : Solves(f, n)
    <3> HIDE DEF Solves
    <3> QED
      BY <1>1, <2>1
  <2>3. CASE n = 0
    <3> DEFINE f == [i \in 0..0 |-> <<>>]
    <3>1. f = [i \in 0..0 |-> IF i = 0 THEN <<>> ELSE PutMark(f[i - 1], marks[i])]
      <4>1. \A i \in 0..0 : i = 0
        OBVIOUS
      <4> QED
        BY <4>1
    <3> QED
      BY <2>2, <2>3, <3>1
  <2>4. CASE n # 0
    <3>1. n - 1 \in 0..N /\ ~ (n <= n - 1) /\ n - 1 \in Nat
      BY <1>1, <2>2, <2>4
    <3>2. n - 1 \notin bad
      <4> HIDE DEF bad
      <4> QED
        BY <2>1, <3>1
    <3>3. PICK f : Solves(f, n - 1)
      BY <3>1, <3>2
    <3> DEFINE g == [i \in 0..n |-> IF i = n THEN PutMark(f[i - 1], marks[i]) ELSE f[i]]
    <3>4. \A i \in 0..(n - 1) : g[i] = f[i] /\ f[i] = IF i = 0 THEN <<>> ELSE PutMark(f[i - 1], marks[i])
      <4> SUFFICES ASSUME NEW i \in 0..(n - 1)
                   PROVE  g[i] = f[i] /\ f[i] = IF i = 0 THEN <<>> ELSE PutMark(f[i - 1], marks[i])
        OBVIOUS
      <4>1. i \in 0..n /\ i # n
        BY <3>1
      <4>2. g[i] = f[i]
        BY <4>1
      <4> HIDE DEF g
      <4>3. f[i] = IF i = 0 THEN <<>> ELSE PutMark(f[i - 1], marks[i])
        BY <3>3
      <4> QED
        BY <4>2, <4>3
    <3>5. \A i \in 0..n : g[i] = IF i = 0 THEN <<>> ELSE PutMark(g[i - 1], marks[i])
      <4> SUFFICES ASSUME NEW i \in 0..n
                   PROVE  g[i] = IF i = 0 THEN <<>> ELSE PutMark(g[i - 1], marks[i])
        OBVIOUS
      <4>1. i # 0 => i - 1 \in 0..(n - 1)
        BY <2>2
      <4>2. i # 0 => g[i - 1] = f[i - 1]
        BY <3>4, <4>1
      <4>3. g[i] = IF i = 0 THEN <<>> ELSE PutMark(f[i - 1], marks[i])
        <5>1. CASE i = n
          BY <2>4, <5>1
        <5>2. CASE i # n
          <6>1. i \in 0..(n - 1)
            BY <2>2, <5>2
          <6> QED
            BY <3>4, <6>1
        <5> QED
          BY <5>1, <5>2
      <4> HIDE DEF g
      <4> QED
        BY <4>2, <4>3
    <3>6. Solves(g, n)
      BY <3>5
    <3> QED
      BY <2>2, <3>6
  <2> QED
    BY <2>3, <2>4
<1> DEFINE out == CHOOSE f : Solves(f, N)
<1>3. Solves(out, N)
  <2>1. N \in 0..N /\ N \notin bad
    <3> HIDE DEF bad
    <3> QED
      BY <1>1, <1>2
  <2> QED
    BY <2>1
<1>4. Put(marks) = out[N]
  BY DEF Put, N
<1> HIDE DEF out
<1>5. out[0] = <<>> /\ \A i \in 1..N : out[i] = PutMark(out[i - 1], marks[i])
  <2>1. \A i \in 0..N : out[i] = IF i = 0 THEN <<>> ELSE PutMark(out[i - 1], marks[i])
    BY <1>3
  <2>2. 0 \in 0..N /\ \A i \in 1..N : i \in 0..N /\ i # 0
    BY <1>1
  <2> QED
    BY <2>1, <2>2
<1> QED
  BY <1>4, <1>5 DEF N

\* What is put of marks that have their words at those places, but for a newline
\* at the end.
LEMMA PutIs ==
  ASSUME NEW s, NEW c, NEW words, NEW place, Placed(s, c, words, place)
  PROVE  \E t : /\ Spread(t, c, words, place)
                /\ (IF Put(s) # <<>> /\ Last(Put(s)) = Newline THEN Front(Put(s)) ELSE Put(s)) = t
<1> DEFINE N == Len(s)
<1>1. /\ c \in Nat /\ s \in Seq(Int) /\ words \in [1..c -> Nat \ {0}] /\ place \in [1..c -> DOMAIN s]
  BY DEF Placed
<1>2. N \in Nat /\ DOMAIN s = 1..N
  BY <1>1
<1>3. PICK out : /\ Put(s) = out[N] /\ out[0] = <<>>
                 /\ \A i \in 1..N : out[i] = PutMark(out[i - 1], s[i])
  BY <1>1, OutIs
<1> HIDE DEF N
<1> DEFINE off == {i \in 0..N : ~ Held(c, words, place, i, out[i])}
<1>4. off = {}
  <2> SUFFICES ASSUME off # {} PROVE FALSE
    OBVIOUS
  <2>1. PICK n \in off : \A m \in off : n <= m
    <3>1. off \subseteq Nat
      BY <1>2
    <3> HIDE DEF off
    <3> QED
      BY <3>1, LeastNumber
  <2>2. n \in 0..N /\ n \in Nat /\ ~ Held(c, words, place, n, out[n])
    BY <1>2, <2>1
  <2>3. CASE n = 0
    <3>1. Spread(<<>>, 0, words, place)
      <4>1. Len(<<>>) = (IF 0 = 0 THEN 0 ELSE 2 * 0 - 1) /\ (\A i \in 1..0 : FALSE) /\ (\A i \in 1..(0 - 1) : FALSE)
            /\ <<>> \in Seq(Int)
        OBVIOUS
      <4> QED
        BY <4>1 DEF Spread
    <3>2. \A x \in 1..c : x <= 0 <=> place[x] <= 0
      <4> SUFFICES ASSUME NEW x \in 1..c PROVE ~ (x <= 0) /\ ~ (place[x] <= 0)
        OBVIOUS
      <4>1. place[x] \in 1..N
        BY <1>1, <1>2
      <4> QED
        BY <1>1, <1>2, <4>1
    <3>3. 0 \in 0..c
      BY <1>1
    <3>4. Held(c, words, place, 0, <<>>)
      BY <3>1, <3>2, <3>3 DEF Held
    <3> QED
      BY <1>3, <2>2, <2>3, <3>4
  <2>4. CASE n # 0
    <3> DEFINE i == n - 1
    <3>1. i \in 0..N /\ i \in Nat /\ ~ (n <= i) /\ i + 1 = n /\ n \in 1..N
      BY <1>2, <2>2, <2>4
    <3> HIDE DEF i
    <3>2. Held(c, words, place, i, out[i])
      BY <2>1, <3>1
    <3>3. out[n] = PutMark(out[i], s[n])
      BY <1>3, <3>1 DEF i
    <3>4. Held(c, words, place, i + 1, PutMark(out[i], s[i + 1]))
      BY <1>2, <3>1, <3>2, PutMarkIs
    <3> QED
      BY <2>2, <3>1, <3>3, <3>4
  <2> QED
    BY <2>3, <2>4
<1>5. Held(c, words, place, N, Put(s))
  <2>1. N \in 0..N
    BY <1>2
  <2> QED
    BY <1>3, <1>4, <2>1
<1>a. PICK k \in 0..c : \E t :
        /\ \A x \in 1..c : x <= k <=> place[x] <= N
        /\ Spread(t, k, words, place)
        /\ Put(s) = IF k = 0 THEN <<>> ELSE IF place[k] = N THEN t ELSE Append(t, Newline)
  BY <1>5 DEF Held
<1>6. PICK t :
        /\ \A x \in 1..c : x <= k <=> place[x] <= N
        /\ Spread(t, k, words, place)
        /\ Put(s) = IF k = 0 THEN <<>> ELSE IF place[k] = N THEN t ELSE Append(t, Newline)
  BY <1>a
<1>7. k = c
  <2>1. c \in 1..c => place[c] \in 1..N
    BY <1>1, <1>2
  <2>2. c \in 1..c => c <= k
    BY <1>2, <1>6, <2>1
  <2> QED
    BY <1>1, <2>2
<1>8. t \in Seq(Int) /\ (c = 0 => t = <<>>) /\ (c # 0 => Len(t) # 0 /\ Len(t) \in Nat /\ t[Len(t)] \in Nat \ {0})
  <2>1. t \in Seq(Int) /\ Len(t) = (IF c = 0 THEN 0 ELSE 2 * c - 1) /\ \A x \in 1..c : t[2 * x - 1] = words[x]
    BY <1>6, <1>7 DEF Spread
  <2>2. c # 0 => c \in 1..c /\ 2 * c - 1 # 0 /\ 2 * c - 1 \in Nat /\ words[c] \in Nat \ {0}
    BY <1>1
  <2> QED
    BY <2>1, <2>2
<1>9. CASE c = 0
  BY <1>6, <1>7, <1>8, <1>9
<1>10. CASE c # 0 /\ place[c] = N
  <2>1. Put(s) = t /\ Last(t) # Newline
    BY <1>6, <1>7, <1>8, <1>10 DEF Last, Newline
  <2> QED
    BY <1>6, <1>7, <2>1
<1>11. CASE c # 0 /\ place[c] # N
  <2>1. Put(s) = Append(t, Newline)
    BY <1>6, <1>7, <1>11
  <2>2. Newline \in Int
    BY DEF Newline
  <2>3. \A nl \in Int : Append(t, nl) # <<>> /\ Len(Append(t, nl)) = Len(t) + 1 /\ Append(t, nl)[Len(t) + 1] = nl
                       /\ SubSeq(Append(t, nl), 1, Len(t)) = t
    <3>1. t \in Seq(Int)
      BY <1>8
    <3> QED
      BY <3>1
  <2>4. Len(t) \in Nat /\ (Len(t) + 1) - 1 = Len(t)
    BY <1>8
  <2>5. Front(Append(t, Newline)) = t
    BY <2>2, <2>3, <2>4 DEF Front
  <2>6. Last(Append(t, Newline)) = Newline
    BY <2>2, <2>3 DEF Last
  <2> QED
    BY <1>6, <1>7, <2>1, <2>2, <2>3, <2>5, <2>6
<1> QED
  BY <1>9, <1>10, <1>11

\* read_text is the words of the rendered text and what is between them.
LEMMA TextIs ==
  ASSUME NEW d, Tree(d), NEW root \in DOMAIN d,
         NEW words, words = InOrder({n \in Rendered(d, root) : d[n].tag = "text"})
  PROVE  InnerText(d, root) =
           [i \in 1..(IF words = <<>> THEN 0 ELSE 2 * Len(words) - 1) |->
              IF i % 2 = 1 THEN words[(i + 1) \div 2]
              ELSE IF LineEnds(d, root, words[i \div 2], words[i \div 2 + 1]) THEN Newline ELSE Space]
<1>1. PICK c, place :
        /\ Placed(Marks(d, root), c, words, place)
        /\ \A k \in 1..c : k + 1 \in 1..c =>
             (place[k + 1] # place[k] + 1 <=> LineEnds(d, root, words[k], words[k + 1]))
  BY MarksPlaced
<1>2. c \in Nat /\ words \in [1..c -> Nat \ {0}]
  BY <1>1 DEF Placed
<1>3. Len(words) = c /\ (words = <<>> <=> c = 0)
  <2>1. words \in Seq(Nat \ {0}) /\ Len(words) = c
    BY <1>2, BuiltSeq
  <2> QED
    BY <2>1
<1>4. PICK t : /\ Spread(t, c, words, place)
               /\ (IF Put(Marks(d, root)) # <<>> /\ Last(Put(Marks(d, root))) = Newline
                   THEN Front(Put(Marks(d, root))) ELSE Put(Marks(d, root))) = t
  BY <1>1, PutIs
<1>5. InnerText(d, root) = t
  BY <1>4 DEF InnerText
<1> DEFINE n == IF c = 0 THEN 0 ELSE 2 * c - 1
           Mark(i) == IF i % 2 = 1 THEN words[(i + 1) \div 2]
                      ELSE IF LineEnds(d, root, words[i \div 2], words[i \div 2 + 1]) THEN Newline ELSE Space
<1>6. /\ t \in Seq(Int) /\ Len(t) = n
      /\ \A i \in 1..c : t[2 * i - 1] = words[i]
      /\ \A i \in 1..(c - 1) : t[2 * i] = Between(place, i)
  BY <1>4 DEF Spread
<1>7. t = [i \in 1..n |-> t[i]]
  <2> HIDE DEF n
  <2> QED
    BY <1>6
<1>8. ASSUME NEW i \in 1..n PROVE t[i] = Mark(i)
  <2>1. i \in Nat
    BY <1>2
  <2>2. CASE i % 2 = 1
    <3> DEFINE x == (i + 1) \div 2
    <3>1. i = 2 * x - 1 /\ x \in 1..c
      BY <1>2, <2>1, <2>2
    <3> HIDE DEF x
    <3>2. t[i] = words[x]
      BY <1>6, <3>1
    <3> QED
      BY <2>2, <3>2 DEF x
  <2>3. CASE i % 2 # 1
    <3> DEFINE x == i \div 2
    <3>1. i = 2 * x /\ x \in 1..(c - 1) /\ x \in 1..c /\ x + 1 \in 1..c
      BY <1>2, <2>1, <2>3
    <3> HIDE DEF x
    <3>2. t[i] = Between(place, x)
      BY <1>6, <3>1
    <3>3. Between(place, x) = IF LineEnds(d, root, words[x], words[x + 1]) THEN Newline ELSE Space
      BY <1>1, <3>1 DEF Between
    <3> QED
      BY <2>3, <3>2, <3>3 DEF x
  <2> QED
    BY <2>2, <2>3
<1>9. n = IF words = <<>> THEN 0 ELSE 2 * Len(words) - 1
  BY <1>3
<1> HIDE DEF n
<1>10. t = [i \in 1..n |-> Mark(i)]
  <2> HIDE DEF Mark
  <2> QED
    BY <1>7, <1>8
<1> QED
  BY <1>5, <1>9, <1>10

---------------------------------------------------------------------------
(* Documents as they are read, node by node.                                *)

\* A node added to a document changes nothing above the others.
LEMMA AboveGrows ==
  ASSUME NEW d, Rooted(d), NEW node \in Nodes, Rooted(Append(d, node))
  PROVE  \A n \in DOMAIN d : Above(Append(d, node), n) = Above(d, n)
<1> DEFINE e == Append(d, node)
           Good == {n \in DOMAIN d : Above(e, n) = Above(d, n)}
<1>1. DOMAIN d \subseteq DOMAIN e /\ (\A n \in DOMAIN d : e[n] = d[n]) /\ Rooted(e)
  BY DEF Rooted
<1> HIDE DEF e
<1>2. ASSUME NEW n \in DOMAIN d, d[n].parent # 0 => d[n].parent \in Good
      PROVE  n \in Good
  <2>1. /\ Above(d, n) = {n} \cup (IF d[n].parent = 0 THEN {} ELSE Above(d, d[n].parent))
        /\ Above(e, n) = {n} \cup (IF d[n].parent = 0 THEN {} ELSE Above(e, d[n].parent))
    <3>1. Above(d, n) = {n} \cup (IF d[n].parent = 0 THEN {} ELSE Above(d, d[n].parent))
      BY AboveIs
    <3>2. Above(e, n) = {n} \cup (IF e[n].parent = 0 THEN {} ELSE Above(e, e[n].parent))
      BY <1>1, AboveIs
    <3> QED
      BY <1>1, <3>1, <3>2
  <2> QED
    BY <1>2, <2>1
<1>3. Good = DOMAIN d
  <2>1. Good \subseteq DOMAIN d
    OBVIOUS
  <2> HIDE DEF Good
  <2> QED
    BY <1>2, <2>1, FromTheTop
<1> QED
  BY <1>3 DEF e

LEMMA TreeBegins ==
  Tree(<< [tag |-> "body", parent |-> 0] >>)
<1> DEFINE d == << [tag |-> "body", parent |-> 0] >>
<1>1. d \in Seq(Nodes)
  BY DEF Nodes, Tags, BlockTags
<1>2. DOMAIN d = {1} /\ d[1].parent = 0
  OBVIOUS
<1> QED
  BY <1>1, <1>2 DEF Tree, Rooted

LEMMA TreeGrows ==
  ASSUME NEW d, Tree(d), d # <<>>, NEW p \in Above(d, Len(d)), d[p].tag \in Containers, NEW t \in Tags
  PROVE  Tree(Append(d, [tag |-> t, parent |-> p]))
<1> DEFINE node == [tag |-> t, parent |-> p]
           e == Append(d, node)
<1>1. d \in Seq(Nodes) /\ Len(d) \in Nat /\ DOMAIN d = 1..Len(d) /\ Len(d) \in DOMAIN d /\ Rooted(d)
  BY DEF Tree, Rooted
<1>2. p \in DOMAIN d /\ p <= Len(d) /\ p \in Nat
  BY <1>1, AboveIsEarlier
<1>3. node \in Nodes /\ node.parent = p
  BY <1>2 DEF Nodes
<1> HIDE DEF node
<1>4. /\ e \in Seq(Nodes) /\ DOMAIN e = 1..(Len(d) + 1) /\ e[Len(d) + 1] = node
      /\ \A n \in DOMAIN d : e[n] = d[n]
  BY <1>1, <1>3
<1> HIDE DEF e
<1>5. Rooted(e)
  <2>1. ASSUME NEW n \in DOMAIN e PROVE e[n].parent \in 0..(n - 1)
    <3>1. CASE n \in DOMAIN d
      BY <1>4, <3>1 DEF Tree, Rooted
    <3>2. CASE n = Len(d) + 1
      BY <1>1, <1>2, <1>3, <1>4, <3>2
    <3> QED
      BY <1>1, <1>4, <3>1, <3>2
  <2> QED
    BY <1>4, <2>1 DEF Rooted
<1>6. \A n \in DOMAIN d : Above(e, n) = Above(d, n)
  BY <1>1, <1>3, <1>5, AboveGrows DEF e
<1>7. ASSUME NEW n \in DOMAIN e, n # 1
      PROVE  e[n].parent \in Above(e, n - 1) /\ e[e[n].parent].tag \in Containers
  <2>1. CASE n \in DOMAIN d
    <3>1. n - 1 \in DOMAIN d
      BY <1>1, <1>7, <2>1
    <3>2. d[n].parent \in Above(d, n - 1) /\ d[d[n].parent].tag \in Containers
      BY <1>7, <2>1 DEF Tree
    <3>3. d[n].parent \in DOMAIN d
      BY <1>1, <3>1, <3>2, AboveIsEarlier
    <3> QED
      BY <1>4, <1>6, <2>1, <3>1, <3>2, <3>3
  <2>2. CASE n = Len(d) + 1
    <3>1. n - 1 = Len(d) /\ e[n] = node
      BY <1>1, <1>4, <2>2
    <3>2. Above(e, n - 1) = Above(d, Len(d)) /\ e[p] = d[p] /\ e[n].parent = p
      BY <1>1, <1>2, <1>3, <1>4, <1>6, <3>1
    <3> QED
      BY <3>2
  <2> QED
    BY <1>1, <1>4, <2>1, <2>2
<1>8. Tree(e)
  BY <1>5, <1>7 DEF Tree
<1> QED
  BY <1>8 DEF e, node

---------------------------------------------------------------------------
(* The accounts.                                                            *)

RunTags == {"inline script", "external script"}
Reasons == {"skipped", "no tab", "failed", "eval failed", "terminal"}
Stats == [scripts : Nat, skipped : Nat, errors : Seq(Reasons), count : Nat]

\* Every script element of a document is to be run or skipped, and not both.
LEMMA EachIsRunOrSkipped ==
  ASSUME NEW d \in Seq(Nodes)
  PROVE  /\ Scripts(d) \in Seq(RunTags) /\ SkippedScripts(d) \in Nat
         /\ Cardinality(ScriptElements(d)) = Len(Scripts(d)) + SkippedScripts(d)
<1> DEFINE skipped == {n \in DOMAIN d : d[n].tag \in {"module script", "bad script"}}
           N == Cardinality(ToRun(d))
<1>1. Len(d) \in Nat /\ DOMAIN d = 1..Len(d) /\ IsFiniteSet(DOMAIN d)
  BY FS_Interval
<1>2. ToRun(d) \in SUBSET (1..Len(d)) /\ skipped \in SUBSET (1..Len(d))
  BY <1>1 DEF ToRun
<1>3. IsFiniteSet(ToRun(d)) /\ IsFiniteSet(skipped) /\ Cardinality(skipped) \in Nat
  BY <1>1, <1>2, FS_Subset, FS_CardinalityType
<1>4. ScriptElements(d) = ToRun(d) \cup skipped /\ ToRun(d) \cap skipped = {}
  BY DEF ScriptElements, ToRun, ScriptTags
<1>5. Cardinality(ScriptElements(d)) = Cardinality(ToRun(d)) + Cardinality(skipped)
  <2> HIDE DEF skipped
  <2>1. Cardinality(ScriptElements(d)) =
          Cardinality(ToRun(d)) + Cardinality(skipped) - Cardinality(ToRun(d) \cap skipped)
    BY <1>3, <1>4, FS_Union
  <2> QED
    <3> SUFFICES Cardinality(ToRun(d)) \in Nat /\ Cardinality(skipped) \in Nat
                 /\ Cardinality(ToRun(d) \cap skipped) = 0
      BY <2>1
    <3> QED
      BY <1>3, <1>4, FS_EmptySet, FS_CardinalityType
<1>6. N \in Nat /\ InOrder(ToRun(d)) \in [1..N -> ToRun(d)]
  BY <1>1, <1>2, InOrderLists
<1>7. \A n \in ToRun(d) : d[n].tag \in RunTags
  BY DEF ToRun, RunTags
<1> HIDE DEF skipped, N
<1>8. Scripts(d) \in [1..N -> RunTags]
  BY <1>6, <1>7 DEF Scripts
<1>9. Scripts(d) \in Seq(RunTags) /\ Len(Scripts(d)) = N
  BY <1>6, <1>8, BuiltSeq
<1> QED
  BY <1>3, <1>5, <1>9 DEF SkippedScripts, skipped, N

\* What the variables hold: a document or the beginning of one, scripts to be run, and
\* counts.
Kept ==
  /\ doc = <<>> \/ Tree(doc)
  /\ phase = "fetching" => doc # <<>>
  /\ phase \in {"loading", "fetching", "stays", "navigates", "done", "given up"}
  /\ units \in Seq(RunTags) /\ sources \in Seq(RunTags) /\ externals \in Nat
  /\ pass \in Stats /\ total \in Stats
  /\ told \in [elements : Nat, clean : Nat] /\ faults \in BOOLEAN

\* The scripts of a document that is being fetched are those that are skipped so far,
\* those that are there and those that are still to come.
Account ==
  ~ faults =>
    /\ total.count = total.skipped /\ total.scripts = told.clean
    /\ phase # "fetching" => total.scripts + total.skipped = told.elements
    /\ phase = "fetching" =>
         /\ total.scripts + total.skipped + pass.skipped + Len(units) + Len(sources) = told.elements
         /\ pass.scripts = 0 /\ Len(pass.errors) = pass.skipped

\* What is there of the records.
LEMMA StatsHave ==
  ASSUME NEW stats \in Stats
  PROVE  /\ stats.scripts \in Nat /\ stats.skipped \in Nat /\ stats.count \in Nat
         /\ stats.errors \in Seq(Reasons) /\ Len(stats.errors) \in Nat
<1>1. stats.scripts \in Nat /\ stats.skipped \in Nat /\ stats.count \in Nat /\ stats.errors \in Seq(Reasons)
  BY DEF Stats
<1> QED
  BY <1>1

Changed(stats, n, skips, reasons) == [stats EXCEPT !.scripts = n, !.skipped = skips, !.errors = reasons]

LEMMA StatsChanged ==
  ASSUME NEW stats \in Stats, NEW n \in Nat, NEW skips \in Nat, NEW reasons \in Seq(Reasons)
  PROVE  /\ Changed(stats, n, skips, reasons) \in Stats
         /\ Changed(stats, n, skips, reasons).scripts = n
         /\ Changed(stats, n, skips, reasons).skipped = skips
         /\ Changed(stats, n, skips, reasons).errors = reasons
<1> DEFINE R == Seq(Reasons)
           new == Changed(stats, n, skips, reasons)
<1>1. stats \in [scripts : Nat, skipped : Nat, errors : R, count : Nat] /\ reasons \in R
  BY DEF Stats
<1> HIDE DEF R
<1>2. new \in [scripts : Nat, skipped : Nat, errors : R, count : Nat]
  BY <1>1 DEF Changed
<1>3. new.scripts = n /\ new.skipped = skips /\ new.errors = reasons
  BY <1>1 DEF Changed
<1> QED
  BY <1>2, <1>3 DEF Stats, R

LEMMA OneReasonMore ==
  ASSUME NEW errors \in Seq(Reasons), NEW reason \in Reasons
  PROVE  /\ Append(errors, reason) \in Seq(Reasons)
         /\ Len(Append(errors, reason)) = Len(errors) + 1
  OBVIOUS

LEMMA SkipIs ==
  ASSUME NEW stats \in Stats
  PROVE  /\ Skip(stats) \in Stats /\ Skip(stats).scripts = stats.scripts
         /\ Skip(stats).skipped = stats.skipped + 1 /\ Len(Skip(stats).errors) = Len(stats.errors) + 1
<1> DEFINE all == Append(stats.errors, "skipped")
           R == Seq(Reasons)
<1>1. "skipped" \in Reasons
  BY DEF Reasons
<1>2. all \in R /\ Len(all) = Len(stats.errors) + 1
  BY <1>1, StatsHave, OneReasonMore
<1>3. Skip(stats) = [stats EXCEPT !.skipped = @ + 1, !.errors = all]
  BY DEF Skip
<1>4. stats \in [scripts : Nat, skipped : Nat, errors : R, count : Nat]
  BY DEF Stats
<1> HIDE DEF all, R
<1>7. stats.skipped + 1 \in Nat
  BY StatsHave
<1>5. Skip(stats) \in [scripts : Nat, skipped : Nat, errors : R, count : Nat]
  BY <1>2, <1>3, <1>4, <1>7
<1>6. Skip(stats).scripts = stats.scripts /\ Skip(stats).skipped = stats.skipped + 1 /\ Skip(stats).errors = all
  BY <1>3, <1>4
<1> QED
  BY <1>2, <1>5, <1>6 DEF Stats, R

LEMMA KeptHas ==
  ASSUME Kept
  PROVE  /\ pass \in Stats /\ total \in Stats
         /\ told \in [elements : Nat, clean : Nat] /\ told.elements \in Nat /\ told.clean \in Nat
         /\ units \in Seq(RunTags) /\ sources \in Seq(RunTags) /\ Len(units) \in Nat /\ Len(sources) \in Nat
         /\ externals \in Nat
<1>1. pass \in Stats /\ total \in Stats /\ externals \in Nat
  BY DEF Kept
<1>2. told \in [elements : Nat, clean : Nat]
  BY DEF Kept
<1>3. told.elements \in Nat /\ told.clean \in Nat
  BY <1>2
<1>4. units \in Seq(RunTags) /\ sources \in Seq(RunTags)
  BY DEF Kept
<1>5. Len(units) \in Nat /\ Len(sources) \in Nat
  BY <1>4
<1> QED
  BY <1>1, <1>2, <1>3, <1>4, <1>5

LEMMA TruncatedIs ==
  ASSUME NEW errors \in Seq(Reasons), NEW n \in Nat
  PROVE  Truncated(errors, n) \in Seq(Reasons) /\ Len(Truncated(errors, n)) <= n
<1> DEFINE m == IF Len(errors) < n THEN Len(errors) ELSE n
<1>1. m \in Nat /\ m <= n /\ m <= Len(errors)
  OBVIOUS
<1> HIDE DEF m
<1>2. SubSeq(errors, 1, m) \in Seq(Reasons) /\ Len(SubSeq(errors, 1, m)) = m
  BY <1>1
<1> QED
  BY <1>1, <1>2 DEF Truncated, m

LEMMA RepeatedIs ==
  ASSUME NEW n \in Nat, NEW reason \in Reasons
  PROVE  [i \in 1..n |-> reason] \in Seq(Reasons) /\ Len([i \in 1..n |-> reason]) = n
<1>1. [i \in 1..n |-> reason] \in [1..n -> Reasons]
  OBVIOUS
<1> QED
  BY <1>1, BuiltSeq


LEMMA Initially ==
  Init => Kept /\ Account
<1> SUFFICES ASSUME Init PROVE Kept /\ Account
  OBVIOUS
<1>1. NoStats \in Stats /\ NoStats.scripts = 0 /\ NoStats.skipped = 0 /\ NoStats.count = 0
  BY DEF NoStats, Stats
<1>2. [elements |-> 0, clean |-> 0] \in [elements : Nat, clean : Nat]
  OBVIOUS
<1>3. <<>> \in Seq(RunTags) /\ 0 \in Nat
  OBVIOUS
<1>5. Kept
  BY <1>1, <1>2, <1>3 DEF Init, Kept
<1>4. Account
  BY <1>1 DEF Init, Account
<1> QED
  BY <1>4, <1>5

\* The scripts that failed are counted with the skipped and not with the run.
LEMMA OutOfOnePlaceInAnother ==
  ASSUME NEW run \in Nat, NEW before \in Nat, NEW skipped \in Nat, NEW n \in Nat, NEW failed \in Nat
  PROVE  run + (n - failed) + (before + (skipped + failed)) = run + before + skipped + n
OBVIOUS

\* What a pass adds to the render.
LEMMA AddIs ==
  ASSUME Kept, NEW stats \in Stats
  PROVE  /\ Add(stats) \in Stats
         /\ Add(stats).scripts = total.scripts + stats.scripts
         /\ Add(stats).skipped = total.skipped + stats.skipped
         /\ Add(stats).count = total.count + Len(stats.errors)
<1>1. /\ total.scripts \in Nat /\ total.skipped \in Nat /\ total.count \in Nat /\ total.errors \in Seq(Reasons)
      /\ stats.scripts \in Nat /\ stats.skipped \in Nat /\ stats.errors \in Seq(Reasons)
  BY DEF Kept, Stats
<1>2. Truncated(stats.errors, MaxErrors) \in Seq(Reasons)
  BY <1>1, LimitsOK, TruncatedIs
<1>3. total.errors \o Truncated(stats.errors, MaxErrors) \in Seq(Reasons)
  BY <1>1, <1>2
<1>4. total.scripts + stats.scripts \in Nat /\ total.skipped + stats.skipped \in Nat
      /\ total.count + Len(stats.errors) \in Nat
  <2>1. total.scripts + stats.scripts \in Nat /\ total.skipped + stats.skipped \in Nat
    BY <1>1
  <2>2. Len(stats.errors) \in Nat /\ total.count \in Nat
    BY <1>1
  <2> QED
    BY <2>1, <2>2
<1>5. Add(stats) = [scripts |-> total.scripts + stats.scripts, skipped |-> total.skipped + stats.skipped,
                    errors |-> total.errors \o Truncated(stats.errors, MaxErrors),
                    count |-> total.count + Len(stats.errors)]
  BY DEF Add
<1>6. Add(stats) \in Stats
  BY <1>3, <1>4, <1>5 DEF Stats
<1>7. /\ Add(stats).scripts = total.scripts + stats.scripts
      /\ Add(stats).skipped = total.skipped + stats.skipped
      /\ Add(stats).count = total.count + Len(stats.errors)
  <2> HIDE DEF Add
  <2> QED
    BY <1>5
<1> QED
  BY <1>6, <1>7, Zenon

\* What the end of the render leaves of it.
LEMMA FinishIs ==
  ASSUME NEW stats \in Stats, Finish(stats)
  PROVE  /\ phase' = "done" /\ total' \in Stats /\ Len(total'.errors) <= MaxErrors
         /\ total'.scripts = stats.scripts /\ total'.skipped = stats.skipped /\ total'.count = stats.count
<1>1. stats.errors \in Seq(Reasons)
  BY DEF Stats
<1>2. Truncated(stats.errors, MaxErrors) \in Seq(Reasons) /\ Len(Truncated(stats.errors, MaxErrors)) <= MaxErrors
  BY <1>1, LimitsOK, TruncatedIs
<1> QED
  BY <1>2 DEF Finish, Stats

\* The reasons of a render that gives up.
LEMMA CutIs ==
  ASSUME NEW errors \in Seq(Reasons)
  PROVE  Cut(errors) \in Seq(Reasons) /\ Len(Cut(errors)) <= MaxErrors /\ Last(Cut(errors)) = "terminal"
<1> DEFINE kept == Truncated(errors, MaxErrors - 1)
<1>1. kept \in Seq(Reasons) /\ Len(kept) <= MaxErrors - 1
  BY LimitsOK, TruncatedIs
<1> HIDE DEF kept
<1>2. "terminal" \in Reasons
  BY DEF Reasons
<1>3. Append(kept, "terminal") \in Seq(Reasons) /\ Len(Append(kept, "terminal")) = Len(kept) + 1
      /\ Append(kept, "terminal")[Len(kept) + 1] = "terminal" /\ Len(kept) \in Nat
  BY <1>1, <1>2
<1> QED
  BY <1>1, <1>3, LimitsOK DEF Cut, Last, kept

\* What the harness reports of a pass.
LEMMA RanIs ==
  ASSUME Kept, NEW failed \in 0..Len(sources), NEW threw \in BOOLEAN
  PROVE  /\ Ran(failed, threw) \in Stats
         /\ ~ threw => /\ Ran(failed, threw).scripts = Len(sources) - failed
                       /\ Ran(failed, threw).skipped = pass.skipped + failed
                       /\ Len(Ran(failed, threw).errors) = Len(pass.errors) + failed
<1> DEFINE errs == failed + IF threw THEN 1 ELSE 0
           more == [i \in 1..errs |-> "failed"]
           n == Len(sources)
           ran == IF n > errs THEN n - errs ELSE 0
<1>1. /\ pass.scripts \in Nat /\ pass.skipped \in Nat /\ pass.count \in Nat /\ pass.errors \in Seq(Reasons)
      /\ pass \in Stats
  BY DEF Kept, Stats
<1>2. n \in Nat /\ failed \in Nat /\ failed <= n
  <2>1. sources \in Seq(RunTags)
    BY DEF Kept
  <2> QED
    BY <2>1
<1>3. errs \in Nat /\ ran \in Nat /\ (~ threw => errs = failed /\ ran = n - failed)
  BY <1>2
<1>4. "failed" \in Reasons
  BY DEF Reasons
<1> HIDE DEF errs
<1>5. more \in Seq(Reasons) /\ Len(more) = errs
  BY <1>3, <1>4, RepeatedIs
<1> HIDE DEF more, ran, n
<1>6. pass.errors \o more \in Seq(Reasons) /\ Len(pass.errors \o more) = Len(pass.errors) + errs
  BY <1>1, <1>5
<1>7. Ran(failed, threw) = [pass EXCEPT !.scripts = ran, !.skipped = @ + errs, !.errors = @ \o more]
  BY DEF Ran, errs, more, n, ran
<1>8. /\ Ran(failed, threw) \in Stats /\ Ran(failed, threw).scripts = ran
      /\ Ran(failed, threw).skipped = pass.skipped + errs /\ Ran(failed, threw).errors = pass.errors \o more
  <2>1. pass.skipped + errs \in Nat
    BY <1>1, <1>3
  <2> DEFINE all == pass.errors \o more
             skips == pass.skipped + errs
  <2>2. all \in Seq(Reasons) /\ skips \in Nat
    BY <1>6, <2>1
  <2>3. Ran(failed, threw) = Changed(pass, ran, skips, all)
    BY <1>7 DEF Changed
  <2> HIDE DEF all, skips
  <2>4. /\ Ran(failed, threw) \in Stats /\ Ran(failed, threw).scripts = ran
        /\ Ran(failed, threw).skipped = skips /\ Ran(failed, threw).errors = all
    BY <1>1, <1>3, <2>2, <2>3, StatsChanged
  <2> QED
    BY <2>4 DEF all, skips
<1> QED
  BY <1>1, <1>3, <1>6, <1>8 DEF n

\* No step is left out of the accounts.
LEMMA Accounted ==
  Kept /\ Account /\ [Next]_vars => Kept' /\ Account'
<1> SUFFICES ASSUME Kept, Account, [Next]_vars PROVE Kept' /\ Account'
  OBVIOUS
<1>a. pass \in Stats /\ total \in Stats /\ told \in [elements : Nat, clean : Nat] /\ faults \in BOOLEAN
  BY KeptHas DEF Kept
<1>b. "no tab" \in Reasons /\ "skipped" \in Reasons /\ "eval failed" \in Reasons
  BY DEF Reasons
<1>n. /\ total.scripts \in Nat /\ total.skipped \in Nat /\ total.count \in Nat
      /\ pass.scripts \in Nat /\ pass.skipped \in Nat /\ Len(pass.errors) \in Nat
      /\ told.elements \in Nat /\ told.clean \in Nat
      /\ Len(units) \in Nat /\ Len(sources) \in Nat /\ externals \in Nat
  BY KeptHas, StatsHave
<1>q. total.errors \in Seq(Reasons) /\ pass.errors \in Seq(Reasons)
  BY <1>a, StatsHave
<1>u. units \in Seq(RunTags)
  BY KeptHas
<1>s. sources \in Seq(RunTags)
  BY KeptHas
<1>1. CASE UNCHANGED vars
  BY <1>1 DEF vars, Kept, Account, Tree, Rooted
<1>2. CASE AddNode
  <2>1. doc' = <<>> \/ Tree(doc')
    <3>1. CASE doc = <<>>
      BY <1>2, <3>1, TreeBegins DEF AddNode
    <3>2. CASE doc # <<>>
      <4>1. PICK p \in Above(doc, Len(doc)), t \in DocTags :
              /\ doc[p].tag \in {"body", "block", "hidden", "span", "svg"}
              /\ doc' = Append(doc, [tag |-> t, parent |-> p])
        BY <1>2, <3>2 DEF AddNode
      <4>2. t \in Tags /\ Tree(doc) /\ doc[p].tag \in Containers
        BY <3>2, <4>1, DocTagsOK DEF Kept, Containers
      <4> QED
        BY <3>2, <4>1, <4>2, TreeGrows
    <3> QED
      BY <3>1, <3>2
  <2>2. phase = "loading" /\ phase' = phase /\ units' = units /\ externals' = externals /\ sources' = sources /\ pass' = pass /\ total' = total /\ hops' = hops /\ told' = told /\ faults' = faults
    BY <1>2 DEF AddNode
  <2>3. Kept'
    BY <2>1, <2>2 DEF Kept
  <2> QED
    BY <2>2, <2>3 DEF Account
<1>3. CASE Collect
  <2>1. doc \in Seq(Nodes)
    BY <1>3 DEF Collect, Kept, Tree, Rooted
  <2>2. /\ Scripts(doc) \in Seq(RunTags) /\ SkippedScripts(doc) \in Nat
        /\ Cardinality(ScriptElements(doc)) = Len(Scripts(doc)) + SkippedScripts(doc)
    BY <2>1, EachIsRunOrSkipped
  <2> DEFINE more == [i \in 1..SkippedScripts(doc) |-> "skipped"]
  <2>3. more \in Seq(Reasons) /\ Len(more) = SkippedScripts(doc)
    BY <2>2, RepeatedIs DEF Reasons
  <2>4. pass' = [NoStats EXCEPT !.skipped = SkippedScripts(doc), !.errors = more]
    BY <1>3 DEF Collect
  <2> HIDE DEF more
  <2>5. pass' \in Stats /\ pass'.scripts = 0 /\ pass'.skipped = SkippedScripts(doc)
        /\ Len(pass'.errors) = SkippedScripts(doc)
    BY <2>2, <2>3, <2>4 DEF NoStats, Stats
  <2>6. /\ doc # <<>> /\ phase = "loading" /\ phase' = "fetching" /\ units' = Scripts(doc) /\ externals' = 0 /\ sources' = <<>>
        /\ told' = [told EXCEPT !.elements = @ + Cardinality(ScriptElements(doc))]
        /\ doc' = doc /\ total' = total /\ hops' = hops /\ faults' = faults
    BY <1>3 DEF Collect
  <2>7. told' \in [elements : Nat, clean : Nat] /\ told'.clean = told.clean
        /\ told'.elements = told.elements + Len(Scripts(doc)) + SkippedScripts(doc) /\ Len(Scripts(doc)) \in Nat
    <3>1. Len(Scripts(doc)) \in Nat
      BY <2>2
    <3>2. Cardinality(ScriptElements(doc)) \in Nat
      BY <2>2, <3>1
    <3>3. told' \in [elements : Nat, clean : Nat] /\ told'.clean = told.clean
          /\ told'.elements = told.elements + Cardinality(ScriptElements(doc))
      <4>1. told.elements + Cardinality(ScriptElements(doc)) \in Nat
        BY <1>n, <3>2
      <4> QED
        BY <1>a, <2>6, <4>1
    <3> QED
      BY <1>n, <2>2, <3>1, <3>3
  <2>8. Kept'
    BY <2>2, <2>5, <2>6, <2>7 DEF Kept
  <2>9. Account'
    <3>1. Len(units') = Len(Scripts(doc)) /\ Len(sources') = 0
      BY <2>6
    <3> QED
      BY <1>n, <2>2, <2>5, <2>6, <2>7, <3>1 DEF Account
  <2> QED
    BY <2>8, <2>9
<1>4. CASE NoTab
  <2>1. Append(total.errors, "no tab") \in Seq(Reasons)
    BY <1>b, <1>q, OneReasonMore
  <2>2. Truncated(Append(total.errors, "no tab"), MaxErrors) \in Seq(Reasons)
    BY <2>1, LimitsOK, TruncatedIs
  <2>3. total' \in Stats /\ faults' /\ faults' \in BOOLEAN /\ phase' = "done"
        /\ doc' = doc /\ units' = units /\ externals' = externals /\ sources' = sources /\ pass' = pass /\ hops' = hops /\ told' = told
    BY <1>4, <1>a, <2>2 DEF NoTab, Stats
  <2> QED
    BY <2>3 DEF Kept, Account
<1>5. CASE FetchUnit
  <2>1. /\ phase = "fetching" /\ units # <<>> /\ units' = Tail(units)
        /\ externals' = IF Head(units) = "external script" THEN externals + 1 ELSE externals
        /\ doc' = doc /\ phase' = phase /\ total' = total /\ hops' = hops /\ told' = told /\ faults' = faults
        /\ \/ sources' = Append(sources, Head(units)) /\ UNCHANGED pass
           \/ pass' = Skip(pass) /\ UNCHANGED sources
    BY <1>5 DEF FetchUnit
  <2>2. units' \in Seq(RunTags) /\ Len(units') = Len(units) - 1 /\ Head(units) \in RunTags
    <3>1. Tail(units) \in Seq(RunTags) /\ Len(Tail(units)) = Len(units) - 1 /\ Head(units) \in RunTags
      BY <1>u, <2>1, HeadTailProperties
    <3> QED
      BY <2>1, <3>1
  <2>3. externals' \in Nat
    <3>1. externals' = externals \/ externals' = externals + 1
      BY <2>1
    <3>2. externals + 1 \in Nat
      BY <1>n
    <3> QED
      BY <1>n, <3>1, <3>2
  <2>4. \/ /\ pass' = pass /\ sources' \in Seq(RunTags) /\ Len(sources') = Len(sources) + 1
        \/ /\ pass' \in Stats /\ pass'.skipped = pass.skipped + 1 /\ pass'.scripts = pass.scripts
           /\ Len(pass'.errors) = Len(pass.errors) + 1 /\ sources' = sources
    <3>1. CASE sources' = Append(sources, Head(units)) /\ UNCHANGED pass
      BY <1>s, <2>2, <3>1
    <3>2. CASE pass' = Skip(pass) /\ UNCHANGED sources
      BY <1>a, <3>2, SkipIs
    <3> QED
      BY <2>1, <3>1, <3>2
  <2>5. Kept'
    BY <2>1, <2>2, <2>3, <2>4 DEF Kept
  <2>6. Account'
    <3> SUFFICES ASSUME ~ faults PROVE Account'
      BY <2>1 DEF Account
    <3>1. /\ total.count = total.skipped /\ total.scripts = told.clean
          /\ total.scripts + total.skipped + pass.skipped + Len(units) + Len(sources) = told.elements
          /\ pass.scripts = 0 /\ Len(pass.errors) = pass.skipped
      BY <2>1 DEF Account
    <3>2. Len(units') = Len(units) - 1
      BY <2>2
    <3>3. /\ pass.skipped + Len(sources) + 1 = pass'.skipped + Len(sources')
          /\ pass'.scripts = 0 /\ Len(pass'.errors) = pass'.skipped
          /\ pass'.skipped \in Nat /\ Len(sources') \in Nat
      <4>1. CASE pass' = pass /\ Len(sources') = Len(sources) + 1
        <5>1. pass'.skipped = pass.skipped /\ pass'.scripts = pass.scripts /\ Len(pass'.errors) = Len(pass.errors)
          BY <4>1
        <5>2. Len(sources) + 1 \in Nat /\ pass.skipped + Len(sources) + 1 = pass.skipped + (Len(sources) + 1)
          BY <1>n
        <5> QED
          BY <1>n, <3>1, <4>1, <5>1, <5>2
      <4>2. CASE pass'.skipped = pass.skipped + 1 /\ pass'.scripts = pass.scripts
                 /\ Len(pass'.errors) = Len(pass.errors) + 1 /\ sources' = sources
        <5>1. pass.skipped + 1 \in Nat /\ pass.skipped + Len(sources) + 1 = (pass.skipped + 1) + Len(sources)
          BY <1>n
        <5>2. Len(sources') = Len(sources) /\ Len(pass'.errors) = pass.skipped + 1
          BY <3>1, <4>2
        <5> QED
          BY <1>n, <3>1, <4>2, <5>1, <5>2
      <4> QED
        BY <2>4, <4>1, <4>2
    <3>4. total.scripts + total.skipped + pass'.skipped + (Len(units) - 1) + Len(sources') = told.elements
      <4> DEFINE a == total.scripts  b == total.skipped  c == pass.skipped  d == Len(sources)  u == Len(units)
                 e == pass'.skipped  f == Len(sources')
      <4>1. a \in Nat /\ b \in Nat /\ c \in Nat /\ d \in Nat /\ u \in Nat /\ e \in Nat /\ f \in Nat
        BY <1>n, <3>3
      <4>2. a + b + c + u + d = told.elements /\ c + d + 1 = e + f
        BY <3>1, <3>3
      <4> HIDE DEF a, b, c, d, u, e, f
      <4>3. a + b + e + (u - 1) + f = told.elements
        BY <4>1, <4>2
      <4> QED
        BY <4>3 DEF a, b, c, d, u, e, f
    <3>5. phase' = "fetching" /\ total' = total /\ told' = told
      BY <2>1
    <3> QED
      BY <3>1, <3>2, <3>3, <3>4, <3>5 DEF Account
  <2> QED
    BY <2>5, <2>6
<1>6. CASE NothingToRun
  <2>1. Finish(Add(pass)) /\ phase = "fetching" /\ Len(units) = 0 /\ Len(sources) = 0
        /\ doc' = doc /\ units' = units /\ externals' = externals /\ sources' = sources /\ pass' = pass /\ hops' = hops /\ told' = told /\ faults' = faults
    BY <1>6 DEF NothingToRun
  <2>2. /\ Add(pass) \in Stats /\ Add(pass).scripts = total.scripts + pass.scripts
        /\ Add(pass).skipped = total.skipped + pass.skipped
        /\ Add(pass).count = total.count + Len(pass.errors)
    BY <1>a, AddIs
  <2>3. /\ phase' = "done" /\ total' \in Stats /\ total'.scripts = total.scripts + pass.scripts
        /\ total'.skipped = total.skipped + pass.skipped /\ total'.count = total.count + Len(pass.errors)
    BY <2>1, <2>2, FinishIs
  <2> QED
    <3>1. Kept'
      BY <2>1, <2>3 DEF Kept
    <3>2. ASSUME ~ faults
          PROVE  /\ total'.count = total'.skipped /\ total'.scripts = told.clean
                 /\ total'.scripts + total'.skipped = told.elements
      <4>1. /\ total.count = total.skipped /\ total.scripts = told.clean
            /\ total.scripts + total.skipped + pass.skipped + 0 + 0 = told.elements
            /\ pass.scripts = 0 /\ Len(pass.errors) = pass.skipped
        BY <2>1, <3>2 DEF Account
      <4>2. total'.count = total'.skipped
        BY <2>3, <4>1
      <4>3. total'.scripts = total.scripts
        BY <1>n, <2>3, <4>1
      <4>4. total.scripts + (total.skipped + pass.skipped) = told.elements
        BY <1>n, <4>1
      <4> QED
        BY <2>3, <4>1, <4>2, <4>3, <4>4
    <3> QED
      BY <2>1, <2>3, <3>1, <3>2 DEF Account
<1>7. CASE Eval
  <2>1. /\ phase = "fetching" /\ Len(units) = 0 /\ phase' \in {"stays", "navigates"}
        /\ doc' = doc /\ units' = units /\ externals' = externals /\ sources' = sources /\ pass' = pass /\ hops' = hops
    BY <1>7 DEF Eval
  <2>2. CASE \E failed \in 0..Len(sources), threw \in BOOLEAN :
               /\ total' = Add(Ran(failed, threw))
               /\ told' = [told EXCEPT !.clean = @ + Len(sources) - failed]
               /\ faults' = (faults \/ threw)
    <3>1. PICK failed \in 0..Len(sources), threw \in BOOLEAN :
            /\ total' = Add(Ran(failed, threw))
            /\ told' = [told EXCEPT !.clean = @ + Len(sources) - failed]
            /\ faults' = (faults \/ threw)
      BY <2>2
    <3>2. /\ Ran(failed, threw) \in Stats
          /\ ~ threw => /\ Ran(failed, threw).scripts = Len(sources) - failed
                        /\ Ran(failed, threw).skipped = pass.skipped + failed
                        /\ Len(Ran(failed, threw).errors) = Len(pass.errors) + failed
      BY RanIs
    <3>3. /\ total' \in Stats
          /\ ~ threw => /\ total'.scripts = total.scripts + (Len(sources) - failed)
                        /\ total'.skipped = total.skipped + (pass.skipped + failed)
                        /\ total'.count = total.count + (Len(pass.errors) + failed)
      BY <3>1, <3>2, AddIs
    <3>4. /\ told' \in [elements : Nat, clean : Nat] /\ told'.elements = told.elements
          /\ told'.clean = told.clean + (Len(sources) - failed) /\ failed \in Nat /\ failed <= Len(sources)
      <4>1. failed \in Nat /\ failed <= Len(sources) /\ told.clean + Len(sources) - failed \in Nat
            /\ told.clean + Len(sources) - failed = told.clean + (Len(sources) - failed)
        BY <1>n
      <4>2. told' \in [elements : Nat, clean : Nat] /\ told'.elements = told.elements
            /\ told'.clean = told.clean + Len(sources) - failed
        BY <1>a, <3>1, <4>1
      <4> QED
        BY <4>1, <4>2
    <3>5. faults' \in BOOLEAN /\ (~ faults' => ~ faults /\ ~ threw)
      BY <3>1 DEF Kept
    <3>6. Kept'
      BY <2>1, <3>3, <3>4, <3>5 DEF Kept
    <3>7. Account'
      <4> SUFFICES ASSUME ~ faults' PROVE Account'
        BY DEF Account
      <4>1. /\ total'.scripts = total.scripts + (Len(sources) - failed)
            /\ total'.skipped = total.skipped + (pass.skipped + failed)
            /\ total'.count = total.count + (Len(pass.errors) + failed)
        BY <3>3, <3>5
      <4>2. /\ total.count = total.skipped /\ total.scripts = told.clean
            /\ total.scripts + total.skipped + pass.skipped + Len(units) + Len(sources) = told.elements
            /\ Len(pass.errors) = pass.skipped
        BY <2>1, <3>5 DEF Account
      <4>3. total'.count = total'.skipped /\ total'.scripts = told'.clean
            /\ total'.scripts + total'.skipped = told'.elements
        <5>1. failed \in Nat /\ told'.clean = told.clean + (Len(sources) - failed) /\ told'.elements = told.elements
          BY <3>4
        <5>2. total'.count = total'.skipped
          BY <4>1, <4>2
        <5>3. total'.scripts = told'.clean
          BY <4>1, <4>2, <5>1
        <5>4. total.scripts + total.skipped + pass.skipped + Len(sources) = told.elements
          BY <1>n, <2>1, <4>2
        <5>5. total.scripts + (Len(sources) - failed) + (total.skipped + (pass.skipped + failed)) = told.elements
          <6>1. /\ total.scripts \in Nat /\ total.skipped \in Nat /\ pass.skipped \in Nat
                /\ Len(sources) \in Nat /\ failed \in Nat
            BY <1>n, <5>1
          <6> QED
            BY <5>4, <6>1, OutOfOnePlaceInAnother
        <5> QED
          BY <4>1, <5>1, <5>2, <5>3, <5>5
      <4> QED
        BY <2>1, <4>3 DEF Account
    <3> QED
      BY <3>6, <3>7
  <2>3. CASE /\ total' = Add([pass EXCEPT !.errors = Append(@, "eval failed")])
             /\ faults' = TRUE
             /\ UNCHANGED told
    <3>1. [pass EXCEPT !.errors = Append(@, "eval failed")] \in Stats
      <4>1. Append(pass.errors, "eval failed") \in Seq(Reasons)
        BY <1>b, <1>q, OneReasonMore
      <4> DEFINE all == Append(pass.errors, "eval failed")
                 R == Seq(Reasons)
      <4>2. pass \in [scripts : Nat, skipped : Nat, errors : R, count : Nat] /\ all \in R
        BY <1>a, <4>1 DEF Stats
      <4> HIDE DEF all, R
      <4>3. [pass EXCEPT !.errors = all] \in [scripts : Nat, skipped : Nat, errors : R, count : Nat]
        BY <4>2
      <4> QED
        BY <4>3 DEF Stats, all, R
    <3>2. total' \in Stats
      BY <2>3, <3>1, AddIs
    <3> QED
      BY <2>1, <2>3, <3>2 DEF Kept, Account
  <2> QED
    BY <1>7, <2>2, <2>3 DEF Eval
<1>8. CASE Stays
  <2>1. Finish(total) /\ phase # "fetching"
        /\ doc' = doc /\ units' = units /\ externals' = externals /\ sources' = sources /\ pass' = pass /\ hops' = hops /\ told' = told /\ faults' = faults
    BY <1>8 DEF Stays
  <2>2. /\ phase' = "done" /\ total' \in Stats /\ total'.scripts = total.scripts
        /\ total'.skipped = total.skipped /\ total'.count = total.count
    BY <1>a, <2>1, FinishIs
  <2> QED
    BY <2>1, <2>2 DEF Kept, Account
<1>9. CASE GivesUp
  <2>1. Cut(total.errors) \in Seq(Reasons)
    BY <1>q, CutIs
  <2>2. /\ phase # "fetching" /\ phase' = "given up" /\ total' = [total EXCEPT !.errors = Cut(@)]
        /\ doc' = doc /\ units' = units /\ externals' = externals /\ sources' = sources /\ pass' = pass /\ hops' = hops /\ told' = told /\ faults' = faults
    BY <1>9 DEF GivesUp
  <2>3. /\ total' \in Stats /\ total'.scripts = total.scripts
        /\ total'.skipped = total.skipped /\ total'.count = total.count
    BY <1>a, <2>1, <2>2 DEF Stats
  <2> QED
    BY <2>2, <2>3 DEF Kept, Account
<1>10. CASE Follows
  <2>1. /\ phase # "fetching" /\ phase' = "loading" /\ doc' = <<>>
        /\ units' = units /\ externals' = externals /\ sources' = sources /\ pass' = pass /\ total' = total /\ told' = told /\ faults' = faults
    BY <1>10 DEF Follows
  <2> QED
    BY <2>1 DEF Kept, Account
<1> QED
  BY <1>1, <1>2, <1>3, <1>4, <1>5, <1>6, <1>7, <1>8, <1>9, <1>10 DEF Next

LEMMA AccountsHold ==
  Spec => [](Kept /\ Account)
<1>1. Init => Kept /\ Account
  BY Initially
<1>2. Kept /\ Account /\ [Next]_vars => (Kept /\ Account)'
  BY Accounted
<1> QED
  BY <1>1, <1>2, PTL DEF Spec

\* Every script element of every document rendered ran clean or was skipped with a
\* reason, and the reasons that were cut are counted (render_pass and its callers).
THEOREM ScriptsAccounted ==
  Spec => []ScriptsAccountedFor
<1>1. Kept /\ Account => ScriptsAccountedFor
  BY DEF Account, ScriptsAccountedFor
<1> QED
  BY <1>1, AccountsHold, PTL

\* The caps cut the reasons on the way to an end and never after it.
LEMMA ReasonsKept ==
  Kept /\ TerminalReasonSurvives /\ [Next]_vars => TerminalReasonSurvives'
<1> SUFFICES ASSUME Kept, TerminalReasonSurvives, [Next]_vars PROVE TerminalReasonSurvives'
  OBVIOUS
<1>a. total \in Stats /\ total.errors \in Seq(Reasons) /\ pass \in Stats
  BY KeptHas, StatsHave
<1>1. CASE phase' = phase /\ total' = total
  BY <1>1 DEF TerminalReasonSurvives
<1>2. CASE phase' \notin {"done", "given up"}
  BY <1>2 DEF TerminalReasonSurvives
<1>3. CASE NoTab
  <2>1. Append(total.errors, "no tab") \in Seq(Reasons)
    BY <1>a, OneReasonMore DEF Reasons
  <2>2. Len(Truncated(Append(total.errors, "no tab"), MaxErrors)) <= MaxErrors
    BY <2>1, LimitsOK, TruncatedIs
  <2>3. phase' = "done" /\ total'.errors = Truncated(Append(total.errors, "no tab"), MaxErrors)
    BY <1>3, <1>a DEF NoTab, Stats
  <2> QED
    BY <2>2, <2>3 DEF TerminalReasonSurvives
<1>4. CASE NothingToRun \/ Stays
  <2>1. Add(pass) \in Stats
    BY <1>a, AddIs
  <2>2. phase' = "done" /\ Len(total'.errors) <= MaxErrors
    BY <1>4, <1>a, <2>1, FinishIs DEF NothingToRun, Stays
  <2> QED
    BY <2>2 DEF TerminalReasonSurvives
<1>5. CASE GivesUp
  <2>1. total'.errors = Cut(total.errors)
    BY <1>5, <1>a DEF GivesUp, Stats
  <2> QED
    BY <1>a, <2>1, CutIs DEF TerminalReasonSurvives
<1>6. AddNode \/ FetchUnit \/ UNCHANGED vars => phase' = phase /\ total' = total
  BY DEF AddNode, FetchUnit, vars
<1>7. Collect \/ Eval \/ Follows => phase' \notin {"done", "given up"}
  BY DEF Collect, Eval, Follows
<1> QED
  BY <1>1, <1>2, <1>3, <1>4, <1>5, <1>6, <1>7 DEF Next

\* A render that was not followed to its end says so last, however many reasons there
\* were before, and no render gives more reasons than the cap (render_tab).
THEOREM TerminalReasonKept ==
  Spec => []TerminalReasonSurvives
<1>1. Init => TerminalReasonSurvives
  BY DEF Init, TerminalReasonSurvives
<1>2. Kept /\ Kept' /\ TerminalReasonSurvives /\ [Next]_vars => TerminalReasonSurvives'
  BY ReasonsKept
<1> QED
  BY <1>1, <1>2, AccountsHold, PTL DEF Spec

\* While the scripts of a document are fetched, its snapshot lists exactly the visible
\* elements of the subtree that is asked for, in order, with their depths
\* (read_snapshot and walk of se-dom).
THEOREM SnapshotExact ==
  Spec => []SnapshotListsVisible
<1>1. ASSUME Kept PROVE SnapshotListsVisible
  <2> SUFFICES ASSUME phase = "fetching",
                      NEW selected \in {0} \cup {n \in DOMAIN doc : doc[n].tag # "text"}
               PROVE  LET visible == Visible(doc, IF selected = 0 THEN 1 ELSE selected)
                          order == InOrder(visible)
                      IN ReadSnapshot(doc, selected) =
                           [i \in DOMAIN order |->
                              [node |-> order[i], depth |-> Cardinality(Above(doc, order[i]) \cap visible) - 1]]
    BY DEF SnapshotListsVisible
  <2> DEFINE top == IF selected = 0 THEN 1 ELSE selected
  <2>1. Tree(doc) /\ doc # <<>>
    BY <1>1 DEF Kept
  <2>2. doc \in Seq(Nodes)
    BY <2>1 DEF Tree, Rooted
  <2>3. 1 \in DOMAIN doc
    BY <2>1, <2>2
  <2>4. top \in DOMAIN doc
    BY <2>3
  <2>5. ReadSnapshot(doc, selected) = Walk(doc, top)
    BY DEF ReadSnapshot
  <2> HIDE DEF top
  <2>6. Walk(doc, top) =
          [i \in DOMAIN InOrder(Visible(doc, top)) |->
             [node |-> InOrder(Visible(doc, top))[i],
              depth |-> Cardinality(Above(doc, InOrder(Visible(doc, top))[i]) \cap Visible(doc, top)) - 1]]
    BY <2>1, <2>4, SnapshotIs
  <2> QED
    BY <2>5, <2>6 DEF top
<1> QED
  BY <1>1, AccountsHold, PTL

\* While the scripts of a document are fetched, its text is the rendered words in
\* order, with one newline between two of them exactly where a line break or the
\* edge of a block lies between them (inner_text_node and text_block_boundary of se-dom).
THEOREM TextExact ==
  Spec => []TextBreaksAtBlocks
<1>1. ASSUME Kept PROVE TextBreaksAtBlocks
  <2> SUFFICES ASSUME phase = "fetching",
                      NEW selected \in {0} \cup {n \in DOMAIN doc : doc[n].tag # "text"}
               PROVE  LET root == IF selected = 0 THEN 1 ELSE selected
                          words == InOrder({n \in Rendered(doc, root) : doc[n].tag = "text"})
                      IN ReadText(doc, selected) =
                           [i \in 1..(IF words = <<>> THEN 0 ELSE 2 * Len(words) - 1) |->
                              IF i % 2 = 1 THEN words[(i + 1) \div 2]
                              ELSE IF LineEnds(doc, root, words[i \div 2], words[i \div 2 + 1]) THEN Newline ELSE Space]
    BY DEF TextBreaksAtBlocks
  <2> DEFINE root == IF selected = 0 THEN 1 ELSE selected
             words == InOrder({n \in Rendered(doc, root) : doc[n].tag = "text"})
  <2>1. Tree(doc) /\ doc # <<>>
    BY <1>1 DEF Kept
  <2>2. doc \in Seq(Nodes)
    BY <2>1 DEF Tree, Rooted
  <2>3. 1 \in DOMAIN doc
    BY <2>1, <2>2
  <2>4. root \in DOMAIN doc
    BY <2>3
  <2>5. ReadText(doc, selected) = InnerText(doc, root)
    BY DEF ReadText
  <2> HIDE DEF root
  <2>6. InnerText(doc, root) =
          [i \in 1..(IF words = <<>> THEN 0 ELSE 2 * Len(words) - 1) |->
             IF i % 2 = 1 THEN words[(i + 1) \div 2]
             ELSE IF LineEnds(doc, root, words[i \div 2], words[i \div 2 + 1]) THEN Newline ELSE Space]
    BY <2>1, <2>4, TextIs
  <2> QED
    BY <2>5, <2>6 DEF root
<1> QED
  BY <1>1, AccountsHold, PTL

=============================================================================
