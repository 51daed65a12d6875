-------------------------- MODULE FileAccessProofs --------------------------
(***************************************************************************)
(* Proofs about FileAccess, for a card of any size, any names and files,   *)
(* and any sequence of the calls outside Misuse.  A chain is followed with *)
(* Ahead, a recursive function: that it is defined, that a chain comes     *)
(* round or ends within the table, and what linking new clusters behind    *)
(* one of its own makes of it, are shown by induction stated on sets of    *)
(* numbers.                                                                *)
(***************************************************************************)
EXTENDS FileAccess, FiniteSetTheorems, TLAPS

(* Numbers and their sets.                                                  *)

LEMMA LeastNumber ==
  ASSUME NEW B \in SUBSET Nat, B # {}
  PROVE  \E m \in B : \A n \in B : m <= n
<1> DEFINE T == {0 .. n : n \in B}
<1>1. T # {} /\ T \subseteq FiniteSubsetsOf(Nat)
  <2>1. \A n \in B : IsFiniteSet(0 .. n) /\ 0 .. n \in SUBSET Nat
    BY FS_Interval
  <2> QED
    BY <2>1 DEF FiniteSubsetsOf
<1>2. PICK x \in T : \A y \in T : <<y, x>> \notin StrictSubsetOrdering(Nat)
  <2> HIDE DEF T
  <2> QED
    BY <1>1, WFMin, FS_StrictSubsetOrderingWellFounded
<1>3. PICK m \in B : x = 0 .. m
  OBVIOUS
<1>4. ASSUME NEW n \in B, n < m
      PROVE  FALSE
  <2>1. m \in 0 .. m /\ m \notin 0 .. n
    BY <1>4
  <2>2. 0 .. n \subseteq 0 .. m /\ 0 .. n # 0 .. m /\ 0 .. n \in T
    BY <1>4, <2>1
  <2>3. <<0 .. n, 0 .. m>> \in StrictSubsetOrdering(Nat)
    BY <2>2 DEF StrictSubsetOrdering
  <2> QED
    BY <1>2, <1>3, <2>2, <2>3
<1> QED
  BY <1>4

LEMMA Induction ==
  ASSUME NEW G \in SUBSET Nat, 0 \in G, \A n \in G : n + 1 \in G
  PROVE  G = Nat
<1> SUFFICES ASSUME Nat \ G # {}
             PROVE  FALSE
  OBVIOUS
<1>1. PICK m \in Nat \ G : \A n \in Nat \ G : m <= n
  BY LeastNumber
<1>2. m # 0 /\ m - 1 \in Nat
  BY <1>1
<1>3. m - 1 \in G /\ (m - 1) + 1 = m
  BY <1>1, <1>2
<1> QED
  BY <1>1, <1>3

LEMMA MinIs ==
  ASSUME NEW S \in SUBSET Nat, S # {}
  PROVE  Min(S) \in S /\ \A n \in S : Min(S) <= n
<1>1. \E m \in S : \A n \in S : m <= n
  BY LeastNumber
<1> QED
  BY <1>1 DEF Min

LEMMA MaxIs ==
  ASSUME NEW S \in SUBSET Nat, S # {}, NEW b \in Nat, \A n \in S : n <= b
  PROVE  Max(S) \in S /\ \A n \in S : n <= Max(S)
<1> DEFINE B == {b - n : n \in S}
<1>1. PICK m \in B : \A n \in B : m <= n
  <2>1. \A n \in S : b - n \in Nat
    OBVIOUS
  <2>2. B \in SUBSET Nat /\ B # {}
    BY <2>1
  <2> HIDE DEF B
  <2> QED
    BY <2>2, LeastNumber
<1>2. PICK k \in S : m = b - k
  OBVIOUS
<1>3. \A n \in S : n <= k
  <2>1. ASSUME NEW n \in S
        PROVE  n <= k
    <3>1. b - k <= b - n
      BY <1>1, <1>2
    <3> QED
      BY <3>1
  <2> QED
    BY <2>1
<1> QED
  BY <1>3 DEF Max

LEMMA MaxTwo ==
  ASSUME NEW a \in Int, NEW b \in Int
  PROVE  Max({a, b}) = IF a >= b THEN a ELSE b
<1>1. \E x \in {a, b} : \A y \in {a, b} : x >= y
  OBVIOUS
<1>2. Max({a, b}) \in {a, b} /\ \A y \in {a, b} : Max({a, b}) >= y
  BY <1>1 DEF Max
<1> QED
  BY <1>2

LEMMA MinTwo ==
  ASSUME NEW a \in Int, NEW b \in Int
  PROVE  Min({a, b}) = IF a <= b THEN a ELSE b
<1>1. \E x \in {a, b} : \A y \in {a, b} : x =< y
  OBVIOUS
<1>2. Min({a, b}) \in {a, b} /\ \A y \in {a, b} : Min({a, b}) =< y
  BY <1>1 DEF Min
<1> QED
  BY <1>2

-----------------------------------------------------------------------------
(* Following a chain.                                                       *)

Walk(h, f, c, k) == h = [i \in 0 .. k |-> IF i = 0 THEN c ELSE NextCluster(f, h[i - 1])]

LEMMA WalkExists ==
  ASSUME NEW f, NEW c, NEW k \in Nat
  PROVE  \E h : Walk(h, f, c, k)
<1> DEFINE G == {n \in Nat : \E h : Walk(h, f, c, n)}
<1>1. 0 \in G
  <2>1. Walk([i \in 0 .. 0 |-> c], f, c, 0)
    BY DEF Walk
  <2> QED
    BY <2>1
<1>2. ASSUME NEW n \in G
      PROVE  n + 1 \in G
  <2>1. n \in Nat /\ n + 1 \in Nat
    OBVIOUS
  <2>2. PICK h : Walk(h, f, c, n)
    OBVIOUS
  <2> DEFINE g == [i \in 0 .. n + 1 |-> IF i = n + 1 THEN NextCluster(f, h[n]) ELSE h[i]]
  <2>3. \A i \in 0 .. n : g[i] = h[i] /\ h[i] = IF i = 0 THEN c ELSE NextCluster(f, h[i - 1])
    BY <2>1, <2>2 DEF Walk
  <2>4. ASSUME NEW i \in 0 .. n + 1
        PROVE  g[i] = IF i = 0 THEN c ELSE NextCluster(f, g[i - 1])
    <3>1. CASE i = n + 1
      <4>1. g[i] = NextCluster(f, h[n]) /\ n \in 0 .. n /\ i - 1 = n
        BY <2>1, <3>1
      <4>2. g[n] = h[n]
        BY <2>3, <4>1
      <4> HIDE DEF g
      <4> QED
        BY <2>1, <3>1, <4>1, <4>2
    <3>2. CASE i # n + 1
      <4>1. i \in 0 .. n /\ (i # 0 => i - 1 \in 0 .. n)
        BY <2>1, <3>2
      <4> HIDE DEF g
      <4> QED
        BY <2>3, <4>1
    <3> QED
      BY <3>1, <3>2
  <2>5. Walk(g, f, c, n + 1)
    <3>1. g = [i \in 0 .. n + 1 |-> g[i]]
      OBVIOUS
    <3> HIDE DEF g
    <3> QED
      BY <2>4, <3>1 DEF Walk
  <2> QED
    BY <2>1, <2>5
<1>3. G = Nat
  <2> HIDE DEF G
  <2>1. G \in SUBSET Nat
    BY DEF G
  <2> QED
    BY <1>1, <1>2, <2>1, Induction
<1> QED
  BY <1>3

LEMMA WalksAgree ==
  ASSUME NEW f, NEW c, NEW k \in Nat, NEW l \in Nat, NEW g, NEW h,
         Walk(g, f, c, k), Walk(h, f, c, l), NEW i \in Nat, i <= k, i <= l
  PROVE  g[i] = h[i]
<1> DEFINE G == {n \in Nat : n <= k /\ n <= l => g[n] = h[n]}
<1>1. 0 \in G
  BY DEF Walk
<1>2. ASSUME NEW n \in G
      PROVE  n + 1 \in G
  <2>1. CASE n + 1 <= k /\ n + 1 <= l
    <3>1. g[n] = h[n] /\ n + 1 \in 0 .. k /\ n + 1 \in 0 .. l /\ n + 1 # 0 /\ (n + 1) - 1 = n
      BY <2>1
    <3> QED
      BY <3>1 DEF Walk
  <2>2. CASE ~(n + 1 <= k /\ n + 1 <= l)
    BY <2>2
  <2> QED
    BY <2>1, <2>2
<1>3. G = Nat
  <2> HIDE DEF G
  <2>1. G \in SUBSET Nat
    BY DEF G
  <2> QED
    BY <1>1, <1>2, <2>1, Induction
<1> QED
  BY <1>3

LEMMA AheadWalks ==
  ASSUME NEW f, NEW c, NEW k \in Nat
  PROVE  \E h : Walk(h, f, c, k) /\ h[k] = Ahead(f, c, k)
<1> DEFINE at == CHOOSE h : Walk(h, f, c, k)
<1>1. Walk(at, f, c, k)
  BY WalkExists
<1>2. Ahead(f, c, k) = at[k]
  BY DEF Ahead, Walk
<1> QED
  BY <1>1, <1>2

LEMMA AheadZero ==
  ASSUME NEW f, NEW c
  PROVE  Ahead(f, c, 0) = c
<1>1. PICK h : Walk(h, f, c, 0) /\ h[0] = Ahead(f, c, 0)
  BY AheadWalks
<1> QED
  BY <1>1 DEF Walk

LEMMA AheadStep ==
  ASSUME NEW f, NEW c, NEW k \in Nat
  PROVE  Ahead(f, c, k + 1) = NextCluster(f, Ahead(f, c, k))
<1>1. PICK g : Walk(g, f, c, k) /\ g[k] = Ahead(f, c, k)
  BY AheadWalks
<1>2. PICK h : Walk(h, f, c, k + 1) /\ h[k + 1] = Ahead(f, c, k + 1)
  BY AheadWalks
<1>3. g[k] = h[k]
  BY <1>1, <1>2, WalksAgree
<1>4. k + 1 \in 0 .. k + 1 /\ k + 1 # 0 /\ (k + 1) - 1 = k
  OBVIOUS
<1>5. h[k + 1] = NextCluster(f, h[k])
  BY <1>2, <1>4 DEF Walk
<1> QED
  BY <1>1, <1>2, <1>3, <1>5

\* To go on i and then j clusters is to go on i + j.
LEMMA AheadAdds ==
  ASSUME NEW f, NEW c, NEW i \in Nat, NEW j \in Nat
  PROVE  Ahead(f, Ahead(f, c, i), j) = Ahead(f, c, i + j)
<1> DEFINE G == {n \in Nat : Ahead(f, Ahead(f, c, i), n) = Ahead(f, c, i + n)}
<1>1. 0 \in G
  <2>1. i + 0 = i
    OBVIOUS
  <2> QED
    BY <2>1, AheadZero
<1>2. ASSUME NEW n \in G
      PROVE  n + 1 \in G
  <2>1. i + (n + 1) = (i + n) + 1 /\ i + n \in Nat /\ n \in Nat /\ n + 1 \in Nat
    OBVIOUS
  <2>2. Ahead(f, Ahead(f, c, i), n) = Ahead(f, c, i + n)
    OBVIOUS
  <2> QED
    BY <2>1, <2>2, AheadStep
<1>3. G = Nat
  <2> HIDE DEF G
  <2>1. G \in SUBSET Nat
    BY DEF G
  <2> QED
    BY <1>1, <1>2, <2>1, Induction
<1> QED
  BY <1>3

\* What is no cluster leads to the end, and the end to itself.
LEMMA EndStays ==
  ASSUME NEW f, NEW k \in Nat
  PROVE  Ahead(f, End, k) = End
<1> DEFINE G == {n \in Nat : Ahead(f, End, n) = End}
<1>1. 0 \in G
  BY AheadZero
<1>2. ASSUME NEW n \in G
      PROVE  n + 1 \in G
  <2>1. End \notin Cluster
    BY FileAssumption DEF End, Cluster
  <2>2. Ahead(f, End, n + 1) = NextCluster(f, End)
    BY AheadStep
  <2> QED
    BY <2>1, <2>2 DEF NextCluster
<1>3. G = Nat
  <2> HIDE DEF G
  <2>1. G \in SUBSET Nat
    BY DEF G
  <2> QED
    BY <1>1, <1>2, <2>1, Induction
<1> QED
  BY <1>3

LEMMA EndedFrom ==
  ASSUME NEW f, NEW c, NEW i \in Nat, NEW j \in Nat, i <= j, Ahead(f, c, i) = End
  PROVE  Ahead(f, c, j) = End
<1>1. j - i \in Nat /\ i + (j - i) = j
  OBVIOUS
<1>2. Ahead(f, Ahead(f, c, i), j - i) = Ahead(f, c, j)
  BY <1>1, AheadAdds
<1> QED
  BY <1>1, <1>2, EndStays

\* Before a cluster of the chain there are only clusters.
LEMMA ClustersBefore ==
  ASSUME NEW f, NEW c, NEW l \in Nat, Ahead(f, c, l) \in Cluster, NEW i \in Nat, i <= l
  PROVE  Ahead(f, c, i) \in Cluster
<1> SUFFICES ASSUME Ahead(f, c, i) \notin Cluster
             PROVE  FALSE
  OBVIOUS
<1>1. i < l
  OBVIOUS
<1>2. Ahead(f, c, i + 1) = End
  BY AheadStep DEF NextCluster
<1>3. Ahead(f, c, l) = End
  BY <1>1, <1>2, EndedFrom
<1> QED
  BY <1>3, FileAssumption DEF End, Cluster

\* A chain that comes back to where it was goes round for ever.
LEMMA ComesRound ==
  ASSUME NEW f, NEW c, NEW i \in Nat, NEW l \in Nat, i < l, Ahead(f, c, i) = Ahead(f, c, l),
         NEW k \in Nat
  PROVE  \E j \in 0 .. l - 1 : Ahead(f, c, k) = Ahead(f, c, j)
<1> DEFINE G == {n \in Nat : \E j \in 0 .. l - 1 : Ahead(f, c, n) = Ahead(f, c, j)}
<1>1. 0 \in G
  OBVIOUS
<1>2. ASSUME NEW n \in G
      PROVE  n + 1 \in G
  <2>1. PICK j \in 0 .. l - 1 : Ahead(f, c, n) = Ahead(f, c, j)
    OBVIOUS
  <2>2. n \in Nat /\ n + 1 \in Nat /\ j \in Nat
    OBVIOUS
  <2>3. Ahead(f, c, n + 1) = Ahead(f, c, j + 1)
    BY <2>1, <2>2, AheadStep
  <2>4. \E m \in 0 .. l - 1 : Ahead(f, c, j + 1) = Ahead(f, c, m)
    <3>1. CASE j + 1 = l
      BY <3>1
    <3>2. CASE j + 1 # l
      <4>1. j + 1 \in 0 .. l - 1
        BY <3>2
      <4> QED
        BY <4>1
    <3> QED
      BY <3>1, <3>2
  <2> QED
    BY <2>2, <2>3, <2>4
<1>3. G = Nat
  <2> HIDE DEF G
  <2>1. G \in SUBSET Nat
    BY DEF G
  <2> QED
    BY <1>1, <1>2, <2>1, Induction
<1> QED
  BY <1>3

\* A chain that ends passes no cluster twice.
LEMMA PassesOnce ==
  ASSUME NEW f, NEW c, NEW m \in Nat, Ahead(f, c, m) = End,
         NEW i \in Nat, NEW l \in Nat, i < l, Ahead(f, c, l) \in Cluster
  PROVE  Ahead(f, c, i) # Ahead(f, c, l)
<1> SUFFICES ASSUME Ahead(f, c, i) = Ahead(f, c, l)
             PROVE  FALSE
  OBVIOUS
<1>1. PICK j \in 0 .. l - 1 : Ahead(f, c, m) = Ahead(f, c, j)
  BY ComesRound
<1>2. Ahead(f, c, j) \in Cluster
  <2>1. j \in Nat /\ j <= l
    OBVIOUS
  <2> QED
    BY <2>1, ClustersBefore
<1> QED
  BY <1>1, <1>2, FileAssumption DEF End, Cluster

\* The clusters there are on the way from c.
Reach(f, c) == {Ahead(f, c, j) : j \in Nat} \cap Cluster

LEMMA ReachStart ==
  ASSUME NEW f, NEW c \in Cluster
  PROVE  c \in Reach(f, c)
<1>1. Ahead(f, c, 0) = c
  BY AheadZero
<1> QED
  BY <1>1 DEF Reach

LEMMA ReachNext ==
  ASSUME NEW f, NEW c, NEW d \in Reach(f, c), f[d] \in Cluster
  PROVE  f[d] \in Reach(f, c)
<1>1. PICK j \in Nat : d = Ahead(f, c, j)
  BY DEF Reach
<1>2. Ahead(f, c, j + 1) = f[d]
  BY <1>1, AheadStep DEF NextCluster, Reach
<1> QED
  BY <1>2 DEF Reach

\* A set with c in it that no step leaves holds them all.
LEMMA ReachLeast ==
  ASSUME NEW f, NEW c, NEW X, c \in Cluster => c \in X,
         \A d \in X \cap Cluster : f[d] \in Cluster => f[d] \in X
  PROVE  Reach(f, c) \subseteq X
<1> DEFINE G == {n \in Nat : Ahead(f, c, n) \in Cluster => Ahead(f, c, n) \in X}
<1>1. 0 \in G
  BY AheadZero
<1>2. ASSUME NEW n \in G
      PROVE  n + 1 \in G
  <2>1. Ahead(f, c, n + 1) = NextCluster(f, Ahead(f, c, n))
    BY AheadStep
  <2>2. End \notin Cluster
    BY FileAssumption DEF End, Cluster
  <2> QED
    BY <2>1, <2>2 DEF NextCluster
<1>3. G = Nat
  <2> HIDE DEF G
  <2>1. G \in SUBSET Nat
    BY DEF G
  <2> QED
    BY <1>1, <1>2, <2>1, Induction
<1> QED
  BY <1>3 DEF Reach

\* As many steps as the table has entries see them all.
LEMMA ReachShort ==
  ASSUME NEW f, NEW c
  PROVE  Reach(f, c) = {Ahead(f, c, j) : j \in 0 .. NumClusters} \cap Cluster
<1>1. NumClusters \in Nat
  BY FileAssumption
<1> SUFFICES ASSUME NEW k \in Nat, Ahead(f, c, k) \in Cluster
             PROVE  \E j \in 0 .. NumClusters : Ahead(f, c, k) = Ahead(f, c, j)
  <2>1. 0 .. NumClusters \subseteq Nat
    BY <1>1
  <2> QED
    BY <2>1 DEF Reach
<1>2. CASE \E i \in 0 .. NumClusters : Ahead(f, c, i) \notin Cluster
  <2>1. PICK i \in 0 .. NumClusters : Ahead(f, c, i) \notin Cluster
    BY <1>2
  <2>2. i \in Nat
    BY <1>1
  <2>3. ~(i <= k)
    BY <2>1, <2>2, ClustersBefore
  <2>4. k \in 0 .. NumClusters
    BY <1>1, <2>3
  <2> QED
    BY <2>4
<1>3. CASE \A i \in 0 .. NumClusters : Ahead(f, c, i) \in Cluster
  <2> DEFINE h == [i \in 0 .. NumClusters |-> Ahead(f, c, i)]
  <2>1. /\ IsFiniteSet(0 .. NumClusters) /\ IsFiniteSet(Cluster)
        /\ Cardinality(Cluster) < Cardinality(0 .. NumClusters)
    <3>1. 0 \in Int /\ 1 \in Int /\ NumClusters \in Int
      BY <1>1
    <3>2. /\ IsFiniteSet(0 .. NumClusters)
          /\ Cardinality(0 .. NumClusters) = NumClusters + 1
      BY <1>1, <3>1, FS_Interval
    <3>3. IsFiniteSet(Cluster) /\ Cardinality(Cluster) = NumClusters
      <4>1. /\ IsFiniteSet(1 .. NumClusters)
            /\ Cardinality(1 .. NumClusters) = IF 1 > NumClusters THEN 0 ELSE NumClusters - 1 + 1
        BY <3>1, FS_Interval
      <4> QED
        BY <1>1, <4>1 DEF Cluster
    <3> QED
      BY <1>1, <3>2, <3>3
  <2>2. h \in [0 .. NumClusters -> Cluster]
    BY <1>3
  <2>3. \E x, y \in 0 .. NumClusters : x # y /\ h[x] = h[y]
    <3> HIDE DEF h
    <3> QED
      BY <2>1, <2>2, FS_PigeonHole
  <2>4. PICK x \in 0 .. NumClusters, y \in 0 .. NumClusters :
               x < y /\ Ahead(f, c, x) = Ahead(f, c, y)
    <3>1. PICK x \in 0 .. NumClusters, y \in 0 .. NumClusters : x # y /\ h[x] = h[y]
      BY <2>3
    <3>2. Ahead(f, c, x) = Ahead(f, c, y)
      BY <3>1
    <3>3. x < y \/ y < x
      BY <1>1, <3>1
    <3> QED
      BY <3>2, <3>3
  <2>5. x \in Nat /\ y \in Nat
    BY <1>1
  <2>6. PICK j \in 0 .. y - 1 : Ahead(f, c, k) = Ahead(f, c, j)
    BY <2>4, <2>5, ComesRound
  <2>7. j \in 0 .. NumClusters
    BY <1>1, <2>5
  <2> QED
    BY <2>6, <2>7
<1> QED
  BY <1>2, <1>3

\* The clusters Chain collects are those.
LEMMA ChainReaches ==
  ASSUME NEW c
  PROVE  Chain(c) = Reach(fat, c)
<1> DEFINE N == NumClusters
           U(i) == {Ahead(fat, c, j) : j \in 0 .. i} \cap Cluster
           Grow(X) == X \cup ({fat[d] : d \in X} \cap Cluster)
           Fills(h) == h = [i \in 0 .. N |-> IF i = 0 THEN {c} \cap Cluster ELSE Grow(h[i - 1])]
           u == [i \in 0 .. N |-> U(i)]
<1>1. N \in Nat
  BY FileAssumption
<1>2. U(0) = {c} \cap Cluster
  <2>1. Ahead(fat, c, 0) = c
    BY AheadZero
  <2>2. 0 .. 0 = {0}
    OBVIOUS
  <2> QED
    BY <2>1, <2>2
<1>3. ASSUME NEW i \in Nat
      PROVE  U(i + 1) = Grow(U(i))
  <2>1. \A j \in Nat : Ahead(fat, c, j + 1) = IF Ahead(fat, c, j) \in Cluster
                                              THEN fat[Ahead(fat, c, j)] ELSE End
    BY AheadStep DEF NextCluster
  <2>2. End \notin Cluster
    BY <1>1 DEF End, Cluster
  <2>3. ASSUME NEW d \in U(i + 1)
        PROVE  d \in Grow(U(i))
    <3>1. PICK j \in 0 .. i + 1 : d = Ahead(fat, c, j) /\ d \in Cluster
      OBVIOUS
    <3>2. CASE j \in 0 .. i
      BY <3>1, <3>2
    <3>3. CASE j \notin 0 .. i
      <4>1. j = i + 1 /\ i \in 0 .. i
        BY <3>3
      <4>2. Ahead(fat, c, i) \in Cluster /\ d = fat[Ahead(fat, c, i)]
        BY <2>1, <2>2, <3>1, <4>1
      <4>3. Ahead(fat, c, i) \in U(i)
        BY <4>1, <4>2
      <4> QED
        BY <3>1, <4>2, <4>3
    <3> QED
      BY <3>2, <3>3
  <2>4. ASSUME NEW d \in Grow(U(i))
        PROVE  d \in U(i + 1)
    <3>1. CASE d \in U(i)
      <4>1. PICK j \in 0 .. i : d = Ahead(fat, c, j) /\ d \in Cluster
        BY <3>1
      <4>2. j \in 0 .. i + 1
        OBVIOUS
      <4> QED
        BY <4>1, <4>2
    <3>2. CASE d \notin U(i)
      <4>1. PICK e \in U(i) : d = fat[e] /\ d \in Cluster
        BY <3>2
      <4>2. PICK j \in 0 .. i : e = Ahead(fat, c, j) /\ e \in Cluster
        OBVIOUS
      <4>3. j \in Nat /\ j + 1 \in 0 .. i + 1
        OBVIOUS
      <4>4. d = Ahead(fat, c, j + 1)
        BY <2>1, <4>1, <4>2, <4>3
      <4> QED
        BY <4>1, <4>3, <4>4
    <3> QED
      BY <3>1, <3>2
  <2> QED
    BY <2>3, <2>4
<1> HIDE DEF U, Grow
<1>4. Fills(u)
  <2>1. \A i \in 0 .. N : i # 0 => i - 1 \in Nat /\ i - 1 \in 0 .. N /\ (i - 1) + 1 = i
    BY <1>1
  <2>2. ASSUME NEW i \in 0 .. N
        PROVE  U(i) = IF i = 0 THEN {c} \cap Cluster ELSE Grow(u[i - 1])
    <3>1. CASE i = 0
      BY <1>2, <3>1
    <3>2. CASE i # 0
      <4>1. u[i - 1] = U(i - 1)
        BY <2>1, <3>2
      <4>2. U((i - 1) + 1) = Grow(U(i - 1))
        BY <1>3, <2>1, <3>2
      <4> QED
        BY <2>1, <3>2, <4>1, <4>2
    <3> QED
      BY <3>1, <3>2
  <2> QED
    BY <2>2
<1> DEFINE upTo == CHOOSE h : Fills(h)
<1>5. Fills(upTo)
  <2> HIDE DEF Fills, u
  <2> QED
    BY <1>4
<1> HIDE DEF upTo
<1>6. upTo[N] = U(N)
  <2> DEFINE G == {n \in Nat : n <= N => upTo[n] = U(n)}
  <2>1. 0 \in G
    BY <1>1, <1>2, <1>5
  <2>2. ASSUME NEW n \in G
        PROVE  n + 1 \in G
    <3>1. CASE n + 1 <= N
      <4>1. n \in Nat /\ upTo[n] = U(n) /\ n + 1 \in 0 .. N /\ n + 1 # 0 /\ (n + 1) - 1 = n
        BY <1>1, <3>1
      <4>2. upTo[n + 1] = Grow(upTo[(n + 1) - 1])
        <5> DEFINE k == n + 1
        <5>1. k \in 0 .. N /\ k # 0
          BY <4>1
        <5> HIDE DEF k
        <5>2. upTo[k] = Grow(upTo[k - 1])
          BY <1>5, <5>1
        <5> QED
          BY <5>2 DEF k
      <4>3. upTo[n + 1] = U(n + 1)
        BY <1>3, <4>1, <4>2
      <4> QED
        BY <4>3
    <3>2. CASE ~(n + 1 <= N)
      BY <3>2
    <3> QED
      BY <3>1, <3>2
  <2>3. G = Nat
    <3> HIDE DEF G
    <3>1. G \in SUBSET Nat
      BY DEF G
    <3> QED
      BY <2>1, <2>2, <3>1, Induction
  <2> QED
    BY <1>1, <2>3
<1>7. Chain(c) = upTo[N]
  BY DEF Chain, upTo, Fills, Grow
<1> QED
  BY <1>6, <1>7, ReachShort DEF U

-----------------------------------------------------------------------------
(* Changing the table.                                                      *)

\* Two tables agree on the first l clusters of a chain.
Agree(f, g, c, l) ==
    \A i \in Nat : i < l /\ Ahead(f, c, i) \in Cluster => g[Ahead(f, c, i)] = f[Ahead(f, c, i)]

LEMMA AgreeUpTo ==
  ASSUME NEW f, NEW g, NEW c, NEW l \in Nat, Agree(f, g, c, l),
         NEW k \in Nat, k <= l
  PROVE  Ahead(g, c, k) = Ahead(f, c, k)
<1> DEFINE G == {n \in Nat : n <= l => Ahead(g, c, n) = Ahead(f, c, n)}
<1>1. 0 \in G
  BY AheadZero
<1>2. ASSUME NEW n \in G
      PROVE  n + 1 \in G
  <2>1. CASE n + 1 <= l
    <3>1. n \in Nat /\ n < l /\ Ahead(g, c, n) = Ahead(f, c, n)
      BY <2>1
    <3>2. NextCluster(g, Ahead(g, c, n)) = NextCluster(f, Ahead(f, c, n))
      BY <3>1 DEF NextCluster, Agree
    <3> QED
      BY <3>1, <3>2, AheadStep
  <2>2. CASE ~(n + 1 <= l)
    BY <2>2
  <2> QED
    BY <2>1, <2>2
<1>3. G = Nat
  <2> HIDE DEF G
  <2>1. G \in SUBSET Nat
    BY DEF G
  <2> QED
    BY <1>1, <1>2, <2>1, Induction
<1> QED
  BY <1>3

\* A table changed elsewhere has the same chain.
LEMMA ChangedElsewhere ==
  ASSUME NEW f, NEW g, NEW c, \A d \in Reach(f, c) : g[d] = f[d]
  PROVE  /\ \A k \in Nat : Ahead(g, c, k) = Ahead(f, c, k)
         /\ Reach(g, c) = Reach(f, c)
<1>1. ASSUME NEW k \in Nat
      PROVE  Ahead(g, c, k) = Ahead(f, c, k)
  <2>1. Agree(f, g, c, k)
    BY DEF Reach, Agree
  <2>2. k <= k
    OBVIOUS
  <2> QED
    BY <2>1, <2>2, AgreeUpTo
<1> QED
  BY <1>1 DEF Reach

LEMMA Clusters ==
  /\ IsFiniteSet(Cluster) /\ Cluster \subseteq Nat /\ End \notin Cluster /\ 0 \notin Cluster
  /\ End \in Nat /\ End # 0 /\ \A c \in Cluster : c <= NumClusters
<1>1. NumClusters \in Nat
  BY FileAssumption
<1>2. IsFiniteSet(1 .. NumClusters)
  BY <1>1, FS_Interval
<1> QED
  BY <1>1, <1>2 DEF Cluster, End

\* What Link does to each entry.
LEMMA Linked ==
  ASSUME NEW f, NEW last, NEW taken \in SUBSET Cluster, NEW c \in Cluster
  PROVE  /\ c \notin taken /\ c # last => Link(f, last, taken)[c] = f[c]
         /\ c \in taken \/ c = last =>
                \/ Successors(taken, c) = {} /\ Link(f, last, taken)[c] = End
                \/ /\ Link(f, last, taken)[c] \in Successors(taken, c)
                   /\ \A d \in Successors(taken, c) : Link(f, last, taken)[c] <= d
<1>1. Successors(taken, c) \in SUBSET Nat
  BY Clusters DEF Successors
<1>2. Successors(taken, c) # {} => /\ Min(Successors(taken, c)) \in Successors(taken, c)
                                   /\ \A d \in Successors(taken, c) : Min(Successors(taken, c)) <= d
  BY <1>1, MinIs
<1> QED
  BY <1>2 DEF Link

\* From the last cluster of a chain, the clusters taken are passed, each once.
LEMMA TakenEnds ==
  ASSUME NEW f, NEW taken \in SUBSET Cluster, NEW last \in Cluster, last \notin taken
  PROVE  /\ Cardinality(taken) \in Nat
         /\ Ahead(Link(f, last, taken), last, Cardinality(taken) + 1) = End
<1> DEFINE g == Link(f, last, taken)
           k == Cardinality(taken)
           Left(c) == Cardinality(Successors(taken, c))
           OnTheWay(n) == /\ Ahead(g, last, n) \in taken \cup {last}
                          /\ Left(Ahead(g, last, n)) + n <= k
           G == {n \in Nat : Ahead(g, last, n) = End \/ OnTheWay(n)}
<1>1. IsFiniteSet(taken) /\ k \in Nat
  BY Clusters, FS_Subset, FS_CardinalityType
<1>2. \A c : IsFiniteSet(Successors(taken, c)) /\ Left(c) \in Nat
  <2>1. \A c : Successors(taken, c) \in SUBSET taken
    BY DEF Successors
  <2> QED
    BY <1>1, <2>1, FS_Subset, FS_CardinalityType
<1>3. 0 \in G
  <2>1. Ahead(g, last, 0) = last
    BY AheadZero
  <2>2. Successors(taken, last) = taken
    BY DEF Successors
  <2>3. Left(last) + 0 <= k
    BY <1>1, <2>2
  <2> QED
    BY <2>1, <2>3
<1>4. ASSUME NEW n \in G
      PROVE  n + 1 \in G
  <2> DEFINE x == Ahead(g, last, n)
             y == Ahead(g, last, n + 1)
  <2>1. n \in Nat /\ n + 1 \in Nat /\ (x = End \/ OnTheWay(n))
    OBVIOUS
  <2>2. y = NextCluster(g, x)
    BY <2>1, AheadStep
  <2>3. CASE x = End
    BY <2>1, <2>2, <2>3, Clusters DEF NextCluster
  <2>4. CASE x # End
    <3>1. x \in taken \cup {last} /\ Left(x) + n <= k
      BY <2>1, <2>4
    <3>2. x \in Cluster /\ y = g[x]
      BY <2>2, <3>1 DEF NextCluster
    <3> HIDE DEF x
    <3>3. \/ Successors(taken, x) = {} /\ y = End
          \/ y \in Successors(taken, x) /\ \A d \in Successors(taken, x) : y <= d
      <4>1. x \in taken \/ x = last
        BY <3>1
      <4> QED
        BY <3>2, <4>1, Linked
    <3> HIDE DEF y
    <3>4. CASE y = End
      BY <2>1, <3>4 DEF y
    <3>5. CASE y \in Successors(taken, x)
      <4>1. y \in taken /\ taken \subseteq Nat
        BY <3>5, Clusters DEF Successors
      <4>2. Successors(taken, y) \subseteq Successors(taken, x) \ {y}
        <5>1. ASSUME NEW d \in taken, d > y
              PROVE  d \in Successors(taken, x) \ {y}
          <6>1. y \in Nat /\ d \in Nat
            BY <4>1
          <6>2. CASE x \in taken
            <7>1. x \in Nat /\ y > x
              BY <3>5, <4>1, <6>2 DEF Successors
            <7> QED
              BY <5>1, <6>1, <6>2, <7>1 DEF Successors
          <6>3. CASE x \notin taken
            BY <5>1, <6>1, <6>3 DEF Successors
          <6> QED
            BY <6>2, <6>3
        <5> QED
          BY <4>1, <5>1 DEF Successors
      <4>3. Left(y) <= Left(x) - 1
        <5>1. /\ IsFiniteSet(Successors(taken, x) \ {y})
              /\ Cardinality(Successors(taken, x) \ {y}) = Left(x) - 1
          BY <1>2, <3>5, FS_RemoveElement
        <5> QED
          BY <4>2, <5>1, FS_Subset
      <4>4. Left(y) \in Nat /\ Left(x) \in Nat
        BY <1>2
      <4>5. Left(y) + (n + 1) <= k
        <5> HIDE DEF Left
        <5> QED
          BY <1>1, <2>1, <3>1, <4>3, <4>4
      <4>6. OnTheWay(n + 1)
        BY <4>1, <4>5 DEF y
      <4> HIDE DEF OnTheWay
      <4> QED
        BY <2>1, <4>6
    <3> QED
      BY <3>3, <3>4, <3>5
  <2> QED
    BY <2>3, <2>4
<1>5. G = Nat
  <2> HIDE DEF G
  <2>1. G \in SUBSET Nat
    BY DEF G
  <2> QED
    BY <1>3, <1>4, <2>1, Induction
<1>6. k + 1 \in G
  BY <1>1, <1>5
<1>7. ~OnTheWay(k + 1)
  <2>1. Left(Ahead(g, last, k + 1)) \in Nat
    BY <1>2
  <2> HIDE DEF Left
  <2> QED
    BY <1>1, <2>1
<1> QED
  BY <1>1, <1>6, <1>7

\* A chain whose cluster number l is linked to clusters that were not its own.
LEMMA Extended ==
  ASSUME NEW f, NEW a, NEW m \in Nat, Ahead(f, a, m) = End,
         NEW l \in Nat, Ahead(f, a, l) \in Cluster,
         NEW taken \in SUBSET Cluster, taken \cap Reach(f, a) = {}
  PROVE  LET g == Link(f, Ahead(f, a, l), taken) IN
         /\ \A i \in 0 .. l : Ahead(g, a, i) = Ahead(f, a, i)
         /\ Cardinality(taken) \in Nat
         /\ Ahead(g, a, l + 1 + Cardinality(taken)) = End
         /\ Reach(g, a) \subseteq Reach(f, a) \cup taken
         /\ (\A d \in Reach(f, a) : f[d] # 0) => \A d \in Reach(g, a) : g[d] # 0
<1> DEFINE last == Ahead(f, a, l)
           g == Link(f, last, taken)
           k == Cardinality(taken)
<1>1. last \in Reach(f, a) /\ last \notin taken /\ last \in Cluster
  BY DEF Reach
<1>2. ASSUME NEW i \in Nat, i <= l
      PROVE  Ahead(g, a, i) = Ahead(f, a, i)
  <2>1. ASSUME NEW j \in Nat, j < l, Ahead(f, a, j) \in Cluster
        PROVE  g[Ahead(f, a, j)] = f[Ahead(f, a, j)]
    <3>1. Ahead(f, a, j) # last
      BY <2>1, PassesOnce
    <3>2. Ahead(f, a, j) \notin taken
      BY <2>1 DEF Reach
    <3> QED
      BY <2>1, <3>1, <3>2, Linked
  <2> HIDE DEF g
  <2>2. Agree(f, g, a, l)
    BY <2>1 DEF Agree
  <2> QED
    BY <1>2, <2>2, AgreeUpTo
<1>3. k \in Nat /\ Ahead(g, last, k + 1) = End
  BY <1>1, TakenEnds
<1>4. Ahead(g, a, l + 1 + k) = End
  <2>1. Ahead(g, a, l) = last
    BY <1>2
  <2>2. l + (k + 1) = l + 1 + k /\ k + 1 \in Nat
    BY <1>3
  <2>3. Ahead(g, Ahead(g, a, l), k + 1) = Ahead(g, a, l + (k + 1))
    <3> HIDE DEF g
    <3> QED
      BY <2>2, AheadAdds
  <2> QED
    BY <1>3, <2>1, <2>2, <2>3
<1>5. \A d \in taken \cup {last} : g[d] \in taken \cup {End}
  <2>1. ASSUME NEW d \in taken \cup {last}
        PROVE  g[d] \in taken \cup {End}
    <3>1. d \in Cluster /\ (d \in taken \/ d = last)
      BY <1>1
    <3>2. Successors(taken, d) \subseteq taken
      BY DEF Successors
    <3> HIDE DEF g
    <3>3. g[d] = End \/ g[d] \in Successors(taken, d)
      BY <3>1, Linked DEF g
    <3> QED
      BY <3>2, <3>3
  <2> QED
    BY <2>1
<1>6. \A d \in Reach(f, a) : d \in Cluster /\ (d # last => g[d] = f[d])
  <2>1. ASSUME NEW d \in Reach(f, a)
        PROVE  d \in Cluster /\ (d # last => g[d] = f[d])
    <3>1. d \in Cluster /\ d \notin taken
      BY DEF Reach
    <3> QED
      BY <3>1, Linked
  <2> QED
    BY <2>1
<1>7. Reach(g, a) \subseteq Reach(f, a) \cup taken
  <2> DEFINE X == Reach(f, a) \cup taken
  <2>1. a \in Cluster => a \in X
    BY ReachStart
  <2>2. ASSUME NEW d \in X, g[d] \in Cluster
        PROVE  g[d] \in X
    <3>1. CASE d \in taken \cup {last}
      BY <1>5, <2>2, <3>1, Clusters
    <3>2. CASE d \notin taken \cup {last}
      <4>1. d \in Reach(f, a) /\ g[d] = f[d]
        BY <1>6, <3>2
      <4> QED
        BY <2>2, <4>1, ReachNext
    <3> QED
      BY <3>1, <3>2
  <2> HIDE DEF X, g
  <2>3. \A d \in X \cap Cluster : g[d] \in Cluster => g[d] \in X
    BY <2>2
  <2>4. Reach(g, a) \subseteq X
    BY <2>1, <2>3, ReachLeast
  <2> QED
    BY <2>4 DEF X
<1>8. ASSUME \A d \in Reach(f, a) : f[d] # 0, NEW d \in Reach(g, a)
      PROVE  g[d] # 0
  <2>1. CASE d \in taken \cup {last}
    BY <1>5, <2>1, Clusters
  <2>2. CASE d \notin taken \cup {last}
    BY <1>6, <1>7, <1>8, <2>2
  <2> QED
    BY <2>1, <2>2
<1>9. \A i \in 0 .. l : Ahead(g, a, i) = Ahead(f, a, i)
  BY <1>2
<1> QED
  BY <1>3, <1>4, <1>7, <1>8, <1>9

\* No more clusters are taken than are asked for, and only free ones.
LEMMA FewTaken ==
  ASSUME NEW n \in Nat
  PROVE  /\ Lowest(n) \in SUBSET Cluster /\ \A c \in Lowest(n) : fat[c] = 0
         /\ Cardinality(Lowest(n)) <= n
<1>1. FreeClusters \subseteq Cluster /\ Lowest(n) \subseteq FreeClusters
  BY DEF FreeClusters, Lowest
<1>2. IsFiniteSet(FreeClusters) /\ IsFiniteSet(Lowest(n))
  BY <1>1, Clusters, FS_Subset
<1>3. Cardinality(Lowest(n)) \in Nat
  BY <1>2, FS_CardinalityType
<1>4. CASE Lowest(n) = {}
  BY <1>4, FS_EmptySet DEF FreeClusters
<1>5. CASE Lowest(n) # {}
  <2> DEFINE c == Max(Lowest(n))
             B == {d \in FreeClusters : d < c}
  <2>1. c \in Lowest(n) /\ \A d \in Lowest(n) : d <= c
    <3>1. Lowest(n) \in SUBSET Nat /\ \A d \in Lowest(n) : d <= NumClusters
      BY <1>1, Clusters
    <3>2. NumClusters \in Nat
      BY FileAssumption
    <3> QED
      BY <1>5, <3>1, <3>2, MaxIs
  <2> HIDE DEF c
  <2>2. IsFiniteSet(B) /\ Cardinality(B) \in Nat /\ Cardinality(B) < n
    <3>1. Cardinality(B) < n
      BY <2>1 DEF Lowest
    <3>2. B \in SUBSET FreeClusters
      OBVIOUS
    <3> QED
      BY <1>2, <3>1, <3>2, FS_Subset, FS_CardinalityType
  <2>3. Lowest(n) \ {c} \subseteq B
    <3>1. Lowest(n) \subseteq Nat
      BY <1>1, Clusters
    <3>2. \A d \in Lowest(n) \ {c} : d < c
      BY <2>1, <3>1
    <3> QED
      BY <1>1, <3>2
  <2>4. Cardinality(Lowest(n) \ {c}) = Cardinality(Lowest(n)) - 1
    BY <1>2, <2>1, FS_RemoveElement
  <2>5. Cardinality(Lowest(n) \ {c}) <= Cardinality(B)
    BY <2>2, <2>3, FS_Subset
  <2> HIDE DEF B
  <2>6. Cardinality(Lowest(n)) <= n
    BY <1>3, <2>2, <2>4, <2>5
  <2> QED
    BY <1>1, <2>6 DEF FreeClusters
<1> QED
  BY <1>4, <1>5

-----------------------------------------------------------------------------
(* Clusters for a number of bytes.                                          *)

\* The clusters a file of a size has at most: an empty one has one.
Limit(size) == Max({1, ClustersFor(size)})

LEMMA Division ==
  ASSUME NEW d \in Nat \ {0}, NEW m \in Nat, NEW n \in Nat
  PROVE  /\ n \div d \in Nat
         /\ n = d * (n \div d) + (n % d) /\ n % d \in 0 .. d - 1
         /\ m <= n => m \div d <= n \div d
<1> DEFINE p == m \div d
           q == n \div d
<1>1. /\ n = d * q + (n % d) /\ n % d \in 0 .. d - 1 /\ q \in Nat
      /\ m = d * p + (m % d) /\ m % d \in 0 .. d - 1 /\ p \in Nat
  OBVIOUS
<1> HIDE DEF p, q
<1>2. ASSUME p > q
      PROVE  m > n
  <2>1. p - (q + 1) \in Nat
    BY <1>1, <1>2
  <2>2. d * p = d * q + d + d * (p - (q + 1)) /\ d * (p - (q + 1)) \in Nat
    BY <1>1, <2>1
  <2>3. d * p \in Int /\ d * q \in Int /\ n % d < d /\ m % d >= 0
    BY <1>1
  <2> QED
    BY <1>1, <2>2, <2>3
<1>3. m <= n => p <= q
  BY <1>1, <1>2
<1> QED
  BY <1>1, <1>3 DEF p, q

LEMMA Limits ==
  ASSUME NEW m \in Nat, NEW n \in Nat
  PROVE  /\ Index(n) \in Nat /\ ClustersFor(n) \in Nat /\ Limit(n) \in Nat \ {0}
         /\ Limit(n) <= Index(n) + 1 /\ ClustersFor(n) <= Limit(n)
         /\ m <= n => Index(m) <= Index(n) /\ Limit(m) <= Limit(n)
         /\ ClustersFor(m) <= ClustersFor(n) => Limit(m) <= Limit(n)
<1> DEFINE d == ClusterSize
           q == n \div d
           r == (n + d - 1) \div d
           s == (m + d - 1) \div d
<1>1. d \in Nat \ {0} /\ m + d - 1 \in Nat /\ n + d - 1 \in Nat
  BY FileAssumption
<1>2. /\ q \in Nat /\ n = d * q + (n % d) /\ n % d \in 0 .. d - 1
      /\ m <= n => m \div d <= q
  BY <1>1, Division
<1>3. /\ r \in Nat /\ n + d - 1 = d * r + ((n + d - 1) % d) /\ (n + d - 1) % d \in 0 .. d - 1
      /\ s \in Nat /\ (m <= n => s <= r)
  <2>1. m <= n => m + d - 1 <= n + d - 1
    BY <1>1
  <2> QED
    BY <1>1, <2>1, Division
<1> HIDE DEF q, r, s
<1>4. r <= q + 1
  <2>1. SUFFICES ASSUME r > q + 1
                 PROVE  FALSE
    BY <1>2, <1>3
  <2>2. r - (q + 2) \in Nat
    BY <1>2, <1>3, <2>1
  <2>3. d * r = d * q + d + d + d * (r - (q + 2)) /\ d * (r - (q + 2)) \in Nat
    BY <1>1, <1>2, <1>3, <2>2
  <2>4. d * r \in Int /\ d * q \in Int
    BY <1>1, <1>2, <1>3
  <2> QED
    BY <1>1, <1>2, <1>3, <2>3, <2>4
<1>5. /\ Index(n) = q /\ ClustersFor(n) = r /\ ClustersFor(m) = s /\ Index(m) = m \div d
  BY DEF Index, ClustersFor, q, r, s
<1>6. /\ Limit(n) = (IF 1 >= r THEN 1 ELSE r)
      /\ Limit(m) = (IF 1 >= s THEN 1 ELSE s)
  BY <1>3, <1>5, MaxTwo DEF Limit
<1> QED
  BY <1>2, <1>3, <1>4, <1>5, <1>6

-----------------------------------------------------------------------------
(* Files and descriptors.                                                   *)

OnChain(f, a) == Reach(f, a) \cup {End}

\* A file's chain is of clusters in use, and ends within what its size needs.
FileSound(f, e) ==
    /\ e.first \in Cluster
    /\ \A c \in Reach(f, e.first) : f[c] # 0
    /\ Ahead(f, e.first, Limit(e.size)) = End

FilesSound(f, d) ==
    /\ f \in [Cluster -> 0 .. End] /\ d \in [Slot -> Entry]
    /\ \A s \in Slot : IF d[s].name = NoName THEN d[s] = Empty ELSE FileSound(f, d[s])
    /\ \A s, t \in Slot : s # t => Reach(f, d[s].first) \cap Reach(f, d[t].first) = {}

\* The descriptor of name p stands in the file of its entry, or at its end.
OpenSound(f, d, p, fd) ==
    /\ fd \in Descriptor
    /\ fd # Closed =>
          /\ fd.slot \in Slot
          /\ d[fd.slot] = [name |-> p, first |-> fd.first, size |-> fd.size]
          /\ fd.cur \in OnChain(f, fd.first)

FilesInvariant ==
    /\ TypeOK
    /\ FilesSound(fat, dir)
    /\ \A p \in Names : OpenSound(fat, dir, p, fds[p])

\* Going on along a chain, one stays on it or comes to its end.
LEMMA StaysOnChain ==
  ASSUME NEW f \in [Cluster -> 0 .. End], NEW a \in Cluster,
         \A c \in Reach(f, a) : f[c] # 0, NEW x \in OnChain(f, a), NEW k \in Nat
  PROVE  Ahead(f, x, k) \in OnChain(f, a)
<1> DEFINE G == {n \in Nat : Ahead(f, x, n) \in OnChain(f, a)}
<1>1. 0 \in G
  BY AheadZero
<1>2. ASSUME NEW n \in G
      PROVE  n + 1 \in G
  <2>1. Ahead(f, x, n + 1) = NextCluster(f, Ahead(f, x, n))
    BY AheadStep
  <2>2. CASE Ahead(f, x, n) = End
    BY <2>1, <2>2, Clusters DEF NextCluster, OnChain
  <2>3. CASE Ahead(f, x, n) # End
    <3> DEFINE y == Ahead(f, x, n)
    <3>1. y \in Reach(f, a) /\ y \in Cluster
      BY <2>3 DEF OnChain, Reach
    <3> HIDE DEF y
    <3>2. f[y] \in 0 .. End /\ f[y] # 0
      BY <3>1
    <3>3. f[y] = End \/ f[y] \in Cluster
      BY <3>2, FileAssumption DEF End, Cluster
    <3>4. f[y] \in OnChain(f, a)
      BY <3>1, <3>3, ReachNext DEF OnChain
    <3> QED
      BY <2>1, <3>1, <3>4 DEF NextCluster, y
  <2> QED
    BY <2>2, <2>3
<1>3. G = Nat
  <2> HIDE DEF G
  <2>1. G \in SUBSET Nat
    BY DEF G
  <2> QED
    BY <1>1, <1>2, <2>1, Induction
<1> QED
  BY <1>3

LEMMA NothingReached ==
  ASSUME NEW f, NEW c, c \notin Cluster
  PROVE  Reach(f, c) = {}
<1>1. /\ c \in Cluster => c \in {}
      /\ \A d \in {} \cap Cluster : f[d] \in Cluster => f[d] \in {}
  OBVIOUS
<1>2. Reach(f, c) \subseteq {}
  BY <1>1, ReachLeast
<1> QED
  BY <1>2

\* An entry and its chain change, no other's does.
LEMMA Replaced ==
  ASSUME NEW f, NEW d, FilesSound(f, d), NEW s \in Slot,
         NEW g \in [Cluster -> 0 .. End], NEW e \in Entry,
         \A t \in Slot \ {s} : \A c \in Reach(f, d[t].first) : g[c] = f[c],
         \/ e = Empty
         \/ /\ e.name # NoName /\ FileSound(g, e)
            /\ \A t \in Slot \ {s} : Reach(g, e.first) \cap Reach(f, d[t].first) = {}
  PROVE  /\ FilesSound(g, [d EXCEPT ![s] = e])
         /\ \A p \in Names : \A fd : OpenSound(f, d, p, fd) /\ (fd = Closed \/ fd.slot # s)
                                    => OpenSound(g, [d EXCEPT ![s] = e], p, fd)
<1> DEFINE h == [d EXCEPT ![s] = e]
<1>1. h \in [Slot -> Entry] /\ h[s] = e /\ \A t \in Slot \ {s} : h[t] = d[t]
  BY DEF FilesSound
<1> HIDE DEF h
<1>2. ASSUME NEW t \in Slot \ {s}
      PROVE  /\ \A k \in Nat : Ahead(g, d[t].first, k) = Ahead(f, d[t].first, k)
             /\ Reach(g, d[t].first) = Reach(f, d[t].first)
  BY ChangedElsewhere
<1>3. ASSUME NEW t \in Slot
      PROVE  IF h[t].name = NoName THEN h[t] = Empty ELSE FileSound(g, h[t])
  <2>1. CASE t = s
    BY <1>1, <2>1 DEF Empty
  <2>2. CASE t # s
    <3>1. h[t] = d[t]
      BY <1>1, <2>2
    <3>2. CASE d[t].name = NoName
      BY <3>1, <3>2 DEF FilesSound
    <3>3. CASE d[t].name # NoName
      <4>1. FileSound(f, d[t]) /\ d[t].size \in Nat
        BY <3>3 DEF FilesSound, Entry
      <4>2. Limit(d[t].size) \in Nat
        BY <4>1, Limits
      <4>3. FileSound(g, d[t])
        BY <1>2, <2>2, <4>1, <4>2 DEF FileSound
      <4> QED
        BY <3>1, <3>3, <4>3
    <3> QED
      BY <3>2, <3>3
  <2> QED
    BY <2>1, <2>2
<1>4. ASSUME NEW t \in Slot \ {s}
      PROVE  Reach(g, e.first) \cap Reach(g, d[t].first) = {}
  <2>1. CASE e = Empty
    BY <2>1, Clusters, NothingReached DEF Empty
  <2>2. CASE e # Empty
    BY <1>2, <2>2
  <2> QED
    BY <2>1, <2>2
<1>5. ASSUME NEW t \in Slot, NEW u \in Slot, t # u
      PROVE  Reach(g, h[t].first) \cap Reach(g, h[u].first) = {}
  <2>1. CASE t = s
    BY <1>1, <1>4, <1>5, <2>1
  <2>2. CASE u = s
    BY <1>1, <1>4, <1>5, <2>2
  <2>3. CASE t # s /\ u # s
    BY SMTT(40), <1>1, <1>2, <1>5, <2>3 DEF FilesSound
  <2> QED
    BY <2>1, <2>2, <2>3
<1>6. FilesSound(g, h)
  BY <1>1, <1>3, <1>5 DEF FilesSound
<1>7. ASSUME NEW p \in Names, NEW fd, OpenSound(f, d, p, fd), fd = Closed \/ fd.slot # s
      PROVE  OpenSound(g, h, p, fd)
  <2>1. CASE fd = Closed
    BY <1>7, <2>1 DEF OpenSound
  <2>2. CASE fd # Closed
    <3>1. /\ fd \in Descriptor /\ fd.slot \in Slot \ {s}
          /\ d[fd.slot] = [name |-> p, first |-> fd.first, size |-> fd.size]
          /\ fd.cur \in OnChain(f, fd.first)
      BY <1>7, <2>2 DEF OpenSound
    <3>2. d[fd.slot].first = fd.first /\ h[fd.slot] = d[fd.slot]
      BY <1>1, <3>1
    <3>3. OnChain(g, fd.first) = OnChain(f, fd.first)
      BY <1>2, <3>1, <3>2 DEF OnChain
    <3> QED
      BY <3>1, <3>2, <3>3 DEF OpenSound
  <2> QED
    BY <2>1, <2>2
<1> QED
  BY <1>6, <1>7 DEF h

-----------------------------------------------------------------------------
(* Seeking and extending.                                                   *)

\* A call on the file of slot s leaves the descriptors of other files sound.
OthersStay(s, g, d) ==
    \A q \in Names : \A fe : OpenSound(fat, dir, q, fe) /\ (fe = Closed \/ fe.slot # s)
                               => OpenSound(g, d, q, fe)

\* The descriptor fd of p is open and sound.
Stands(p, fd) == p \in Names /\ OpenSound(fat, dir, p, fd) /\ fd # Closed

LEMMA OpenFile ==
  ASSUME FilesSound(fat, dir), NEW p, NEW fd, Stands(p, fd)
  PROVE  /\ fd.slot \in Slot /\ fd.first \in Cluster /\ fd.size \in Nat /\ fd.off \in Nat
         /\ fd.write \in BOOLEAN /\ fd.cur \in 0 .. NoCluster
         /\ dir[fd.slot] = [name |-> p, first |-> fd.first, size |-> fd.size]
         /\ fd.cur \in OnChain(fat, fd.first)
         /\ \A c \in Reach(fat, fd.first) : fat[c] # 0
         /\ Ahead(fat, fd.first, Limit(fd.size)) = End
         /\ fat \in [Cluster -> 0 .. End]
<1>1. /\ fd \in Descriptor /\ fd.slot \in Slot
      /\ dir[fd.slot] = [name |-> p, first |-> fd.first, size |-> fd.size]
      /\ fd.cur \in OnChain(fat, fd.first)
  BY DEF Stands, OpenSound
<1>2. dir[fd.slot].name = p /\ dir[fd.slot].first = fd.first /\ dir[fd.slot].size = fd.size
  BY <1>1
<1>3. p # NoName
  BY FileAssumption DEF Stands
<1>4. FileSound(fat, dir[fd.slot]) /\ fat \in [Cluster -> 0 .. End]
  BY <1>1, <1>2, <1>3 DEF FilesSound
<1> QED
  BY <1>1, <1>2, <1>4 DEF FileSound, Descriptor

\* A seek leads to a cluster of the file or to its end.
LEMMA SoughtOnChain ==
  ASSUME FilesSound(fat, dir), NEW p, NEW fd, Stands(p, fd), NEW new \in Nat
  PROVE  SeekSteps(fd, new) \in Nat /\ Sought(fd, new) \in OnChain(fat, fd.first)
<1>1. Index(new) \in Nat /\ Index(fd.off) \in Nat
  BY OpenFile, Limits
<1>2. SeekSteps(fd, new) \in Nat
  BY <1>1 DEF SeekSteps, Forward
<1>3. SeekStart(fd, new) \in OnChain(fat, fd.first)
  <2>1. fd.first \in OnChain(fat, fd.first)
    BY OpenFile, ReachStart DEF OnChain
  <2> QED
    BY <2>1, OpenFile DEF SeekStart
<1>4. /\ fat \in [Cluster -> 0 .. End] /\ fd.first \in Cluster
      /\ \A c \in Reach(fat, fd.first) : fat[c] # 0
  BY OpenFile
<1> QED
  BY <1>2, <1>3, <1>4, StaysOnChain DEF Sought

\* Where y is a cluster of the chain, x does not lie behind it.
NotBehind(a, x, y) ==
    y \in Cluster => \E l \in Nat : /\ y = Ahead(fat, a, l)
                                    /\ x = End \/ \E i \in 0 .. l : x = Ahead(fat, a, i)

\* The cluster that a seek to the end of the file comes to is never in front of
\* the descriptor's: backwards only the last one can be found.
LEMMA EndNotBehind ==
  ASSUME FilesSound(fat, dir), NEW p, NEW fd, Stands(p, fd)
  PROVE  NotBehind(fd.first, fd.cur, Sought(fd, fd.size))
<1> DEFINE y == Sought(fd, fd.size)
           k == SeekSteps(fd, fd.size)
<1> SUFFICES ASSUME y \in Cluster
             PROVE  \E l \in Nat : /\ y = Ahead(fat, fd.first, l)
                                   /\ \/ fd.cur = End
                                      \/ \E i \in 0 .. l : fd.cur = Ahead(fat, fd.first, i)
  BY DEF NotBehind
<1>1. fd.cur # End => \E j \in Nat : fd.cur = Ahead(fat, fd.first, j) /\ fd.cur \in Cluster
  BY OpenFile DEF OnChain, Reach
<1>2. fd.size \in Nat /\ k \in Nat /\ Ahead(fat, fd.first, Limit(fd.size)) = End
  BY OpenFile, SoughtOnChain
<1>3. CASE Forward(fd, fd.size)
  <2>1. y = Ahead(fat, fd.cur, k)
    BY <1>3 DEF Sought, SeekStart
  <2>2. fd.cur # End
    BY <1>2, <2>1, EndStays, Clusters
  <2>3. PICK j \in Nat : fd.cur = Ahead(fat, fd.first, j) /\ fd.cur \in Cluster
    BY <1>1, <2>2
  <2>4. y = Ahead(fat, fd.first, j + k)
    BY <1>2, <2>1, <2>3, AheadAdds
  <2>5. j + k \in Nat /\ j \in 0 .. j + k
    BY <1>2
  <2> QED
    BY <2>3, <2>4, <2>5
<1>4. CASE ~Forward(fd, fd.size)
  <2>1. y = Ahead(fat, fd.first, Index(fd.size)) /\ Index(fd.size) \in Nat
    <3>1. Index(fd.size) \in Nat /\ Index(fd.size) - 0 = Index(fd.size)
      BY <1>2, Limits
    <3> QED
      BY <1>4, <3>1 DEF Sought, SeekStart, SeekSteps
  <2>2. Limit(fd.size) \in Nat /\ Limit(fd.size) <= Index(fd.size) + 1
    BY <1>2, Limits
  <2>3. CASE fd.cur = End
    BY <2>1, <2>3
  <2>4. CASE fd.cur # End
    <3>1. PICK j \in Nat : fd.cur = Ahead(fat, fd.first, j) /\ fd.cur \in Cluster
      BY <1>1, <2>4
    <3>2. j < Limit(fd.size)
      <4>1. SUFFICES ASSUME Limit(fd.size) <= j
                     PROVE  FALSE
        BY <2>2
      <4>2. Ahead(fat, fd.first, j) = End
        BY <1>2, <2>2, <4>1, EndedFrom
      <4> QED
        BY <2>4, <3>1, <4>2
    <3>3. j \in 0 .. Index(fd.size)
      BY <2>1, <2>2, <3>2
    <3> QED
      BY <2>1, <3>1, <3>3
  <2> QED
    BY <2>3, <2>4
<1> QED
  BY <1>3, <1>4

\* The entry of fd with another size.
Resized(fd, size) == [dir EXCEPT ![fd.slot] = [@ EXCEPT !.size = size]]

LEMMA LinkTyped ==
  ASSUME NEW f \in [Cluster -> 0 .. End], NEW last, NEW taken \in SUBSET Cluster
  PROVE  Link(f, last, taken) \in [Cluster -> 0 .. End]
<1>1. Cluster \subseteq 0 .. End /\ End \in 0 .. End
  BY FileAssumption DEF Cluster, End
<1>2. \A c : Successors(taken, c) \subseteq taken
  BY DEF Successors
<1>3. \A c \in Cluster : Link(f, last, taken)[c] \in 0 .. End
  <2>1. ASSUME NEW c \in Cluster
        PROVE  Link(f, last, taken)[c] \in 0 .. End
    <3>1. \/ Link(f, last, taken)[c] = f[c] \/ Link(f, last, taken)[c] = End
          \/ Link(f, last, taken)[c] \in taken
      BY <1>2, Linked
    <3> QED
      BY <1>1, <3>1
  <2> QED
    BY <2>1
<1>4. Link(f, last, taken) = [c \in Cluster |-> Link(f, last, taken)[c]]
  BY DEF Link
<1> QED
  BY <1>3, <1>4

\* The file of fd, with another size and another chain, is sound and so are all
\* others.
LEMMA OneFileChanged ==
  ASSUME FilesSound(fat, dir), NEW p, NEW fd, Stands(p, fd),
         NEW g \in [Cluster -> 0 .. End], NEW size \in Nat,
         Reach(g, fd.first) \subseteq Reach(fat, fd.first) \cup FreeClusters,
         \A c \in Cluster : fat[c] # 0 /\ c \notin Reach(fat, fd.first) => g[c] = fat[c],
         \A c \in Reach(g, fd.first) : g[c] # 0,
         Ahead(g, fd.first, Limit(size)) = End
  PROVE  /\ FilesSound(g, Resized(fd, size))
         /\ OthersStay(fd.slot, g, Resized(fd, size))
         /\ Resized(fd, size)[fd.slot] = [name |-> p, first |-> fd.first, size |-> size]
<1> DEFINE s == fd.slot
           e == [dir[s] EXCEPT !.size = size]
<1>1. /\ s \in Slot /\ dir[s] = [name |-> p, first |-> fd.first, size |-> fd.size]
      /\ fd.first \in Cluster
  BY OpenFile
<1>2. e = [name |-> p, first |-> fd.first, size |-> size]
  BY <1>1
<1>3. p \in Names /\ p # NoName
  BY FileAssumption DEF Stands
<1>4. e \in Entry /\ e.name = p /\ e.first = fd.first /\ e.size = size
  <2>1. fd.first \in 0 .. NoCluster
    BY <1>1, FileAssumption DEF Cluster, NoCluster
  <2> QED
    BY <1>2, <1>3, <2>1 DEF Entry
<1>5. Resized(fd, size) = [dir EXCEPT ![s] = e]
  BY DEF Resized
<1>6. dir \in [Slot -> Entry] /\ [dir EXCEPT ![s] = e][s] = e
  BY <1>1 DEF FilesSound
<1> HIDE DEF e, s
<1>7. FileSound(g, e)
  BY <1>1, <1>4 DEF FileSound
<1>8. ASSUME NEW t \in Slot \ {s}
      PROVE  /\ \A c \in Reach(fat, dir[t].first) : c \in Cluster /\ fat[c] # 0 /\ g[c] = fat[c]
             /\ Reach(g, e.first) \cap Reach(fat, dir[t].first) = {}
  <2>1. Reach(fat, dir[t].first) \cap Reach(fat, fd.first) = {}
    <3>1. dir[s].first = fd.first
      BY <1>1
    <3> QED
      BY <1>1, <3>1 DEF FilesSound
  <2>2. \A c \in Reach(fat, dir[t].first) : c \in Cluster /\ fat[c] # 0
    <3>1. CASE dir[t].name = NoName
      <4>1. dir[t].first = 0
        BY <3>1 DEF FilesSound, Empty
      <4> QED
        BY <4>1, Clusters, NothingReached
    <3>2. CASE dir[t].name # NoName
      BY <3>2 DEF FilesSound, FileSound, Reach
    <3> QED
      BY <3>1, <3>2
  <2>3. \A c \in Reach(fat, dir[t].first) : g[c] = fat[c]
    BY <2>1, <2>2
  <2>4. Reach(g, e.first) \cap Reach(fat, dir[t].first) = {}
    BY <1>4, <2>1, <2>2 DEF FreeClusters
  <2> QED
    BY <2>2, <2>3, <2>4
<1>9. /\ \A t \in Slot \ {s} : \A c \in Reach(fat, dir[t].first) : g[c] = fat[c]
      /\ \A t \in Slot \ {s} : Reach(g, e.first) \cap Reach(fat, dir[t].first) = {}
  BY <1>8
<1>10. /\ FilesSound(g, [dir EXCEPT ![s] = e])
       /\ OthersStay(s, g, [dir EXCEPT ![s] = e])
  <2>1. e.name # NoName
    BY <1>3, <1>4
  <2> QED
    BY <1>1, <1>4, <1>7, <1>9, <2>1, Replaced DEF OthersStay
<1> QED
  BY <1>2, <1>5, <1>6, <1>10 DEF s

\* A table that has not changed: only the size does, to one that needs no less.
LEMMA OnlyResized ==
  ASSUME FilesSound(fat, dir), NEW p, NEW fd, Stands(p, fd),
         NEW size \in Nat, Limit(fd.size) <= Limit(size)
  PROVE  /\ FilesSound(fat, Resized(fd, size))
         /\ OthersStay(fd.slot, fat, Resized(fd, size))
         /\ Resized(fd, size)[fd.slot] = [name |-> p, first |-> fd.first, size |-> size]
<1>1. /\ \A c \in Reach(fat, fd.first) : fat[c] # 0
      /\ Ahead(fat, fd.first, Limit(fd.size)) = End
      /\ fat \in [Cluster -> 0 .. End]
      /\ Limit(fd.size) \in Nat /\ Limit(size) \in Nat
  BY OpenFile, Limits
<1>2. Ahead(fat, fd.first, Limit(size)) = End
  BY <1>1, EndedFrom
<1> QED
  BY <1>1, <1>2, OneFileChanged

\* Every other chain and every place not behind the new end is as it was, when
\* the file of fd is extended or only grows within its last cluster.
GrowthKept(fd, n) ==
    LET g == GrownFat(fd, n)  size == Grown(fd, n).size
    IN  /\ g \in [Cluster -> 0 .. End]
        /\ FilesSound(g, Resized(fd, size))
        /\ OthersStay(fd.slot, g, Resized(fd, size))
        /\ Resized(fd, size)[fd.slot].size = size
        /\ \A c \in Reach(g, fd.first) : g[c] # 0
        /\ \A x \in OnChain(fat, fd.first) :
              NotBehind(fd.first, x, Sought(fd, fd.size)) => x \in OnChain(g, fd.first)

LEMMA NewSize ==
  ASSUME FilesSound(fat, dir), NEW p, NEW fd, Stands(p, fd), NEW n \in Nat
  PROVE  /\ Grown(fd, n).size \in Nat /\ fd.size <= Grown(fd, n).size
         /\ Grown(fd, n).size = IF Grows(fd, n) THEN fd.off + n ELSE fd.size
         /\ Added(fd, fd.off + n) = ClustersFor(fd.off + n) - Limit(fd.size)
<1>1. fd \in Descriptor /\ fd.size \in Nat /\ fd.off \in Nat /\ fd.off + n \in Nat
  BY OpenFile DEF Stands, OpenSound
<1>2. Grown(fd, n).size = Max({fd.size, fd.off + n})
  BY <1>1 DEF Grown, Descriptor
<1>3. Max({fd.size, fd.off + n}) = IF fd.size >= fd.off + n THEN fd.size ELSE fd.off + n
  BY <1>1, MaxTwo
<1> QED
  BY <1>1, <1>2, <1>3 DEF Grows, Added, Limit

LEMMA GrowthKeeps ==
  ASSUME FilesSound(fat, dir), NEW p, NEW fd, Stands(p, fd), NEW n \in Nat,
         ~WriteWild(fd, n), ~GrowFails(fd, n)
  PROVE  GrowthKept(fd, n)
<1> DEFINE g == GrownFat(fd, n)
           size == Grown(fd, n).size
           last == Sought(fd, fd.size)
           more == Added(fd, fd.off + n)
           taken == Lowest(more)
           a == fd.first
<1>1. /\ a \in Cluster /\ fd.size \in Nat /\ fd.off \in Nat /\ fd.off + n \in Nat
      /\ \A c \in Reach(fat, a) : fat[c] # 0
      /\ Ahead(fat, a, Limit(fd.size)) = End
      /\ fat \in [Cluster -> 0 .. End]
  <2>1. fd.off \in Nat
    BY OpenFile
  <2>2. fd.off + n \in Nat
    BY <2>1
  <2> QED
    BY <2>2, OpenFile
<1>2. /\ size \in Nat /\ fd.size <= size
      /\ size = (IF Grows(fd, n) THEN fd.off + n ELSE fd.size)
      /\ more = ClustersFor(fd.off + n) - Limit(fd.size)
  BY NewSize
<1>3. /\ Limit(fd.size) \in Nat \ {0} /\ Limit(size) \in Nat /\ ClustersFor(fd.off + n) \in Nat
      /\ Limit(fd.size) <= Limit(size) /\ ClustersFor(fd.off + n) <= Limit(fd.off + n)
  BY <1>1, <1>2, Limits
<1>4. CASE ~Extends(fd, n)
  <2>1. g = fat
    BY <1>4 DEF GrownFat
  <2> HIDE DEF g, size
  <2>2. /\ FilesSound(fat, Resized(fd, size))
        /\ OthersStay(fd.slot, fat, Resized(fd, size))
        /\ Resized(fd, size)[fd.slot] = [name |-> p, first |-> fd.first, size |-> size]
    BY <1>2, <1>3, OnlyResized
  <2>3. Resized(fd, size)[fd.slot].size = size
    BY <2>2
  <2> QED
    BY <1>1, <2>1, <2>2, <2>3 DEF GrowthKept, g, size
<1>5. CASE Extends(fd, n)
  <2>1. more \in Nat /\ more > 0 /\ Grows(fd, n) /\ g = Link(fat, last, taken)
    BY <1>2, <1>3, <1>5 DEF Extends, GrownFat
  <2>2. last \in Cluster
    BY <1>5 DEF WriteWild
  <2> HIDE DEF last, more
  <2>3. /\ taken \in SUBSET Cluster /\ \A c \in taken : fat[c] = 0
        /\ Cardinality(taken) <= more
    BY <2>1, FewTaken
  <2> HIDE DEF taken
  <2>4. taken \cap Reach(fat, a) = {} /\ taken \subseteq FreeClusters
    BY <1>1, <2>3 DEF FreeClusters
  <2>5. ASSUME NEW l \in Nat, last = Ahead(fat, a, l)
        PROVE  /\ \A i \in 0 .. l : Ahead(g, a, i) = Ahead(fat, a, i)
               /\ Cardinality(taken) \in Nat
               /\ Ahead(g, a, l + 1 + Cardinality(taken)) = End
               /\ Reach(g, a) \subseteq Reach(fat, a) \cup taken
               /\ \A d \in Reach(g, a) : g[d] # 0
    <3>1. Limit(fd.size) \in Nat /\ Ahead(fat, a, l) \in Cluster /\ taken \in SUBSET Cluster
      BY <1>3, <2>2, <2>3, <2>5
    <3> HIDE DEF a, g
    <3> QED
      BY <1>1, <2>1, <2>4, <2>5, <3>1, Extended
  <2>6. PICK l \in Nat : last = Ahead(fat, a, l)
    <3>1. last \in OnChain(fat, a)
      BY <1>1, SoughtOnChain DEF last
    <3> QED
      BY <2>2, <3>1, Clusters DEF OnChain, Reach
  <2>7. Ahead(g, a, Limit(size)) = End
    <3>1. l + 1 <= Limit(fd.size)
      <4>1. SUFFICES ASSUME Limit(fd.size) <= l
                     PROVE  FALSE
        BY <1>3
      <4>2. Ahead(fat, a, l) = End
        BY <1>1, <1>3, <4>1, EndedFrom
      <4> QED
        BY <2>2, <2>6, <4>2, Clusters
    <3>2. Cardinality(taken) \in Nat /\ Ahead(g, a, l + 1 + Cardinality(taken)) = End
      BY <2>5, <2>6
    <3>3. size = fd.off + n
      BY <1>2, <2>1
    <3>4. /\ l + 1 + Cardinality(taken) \in Nat
          /\ l + 1 + Cardinality(taken) <= Limit(size)
      BY <1>2, <1>3, <2>1, <2>3, <3>1, <3>2, <3>3
    <3> HIDE DEF g, a, size
    <3> QED
      BY <1>3, <3>2, <3>4, EndedFrom
  <2>8. /\ Reach(g, a) \subseteq Reach(fat, a) \cup FreeClusters
        /\ \A c \in Reach(g, a) : g[c] # 0
    BY <2>4, <2>5, <2>6
  <2>9. \A c \in Cluster : fat[c] # 0 /\ c \notin Reach(fat, a) => g[c] = fat[c]
    <3>1. last \in Reach(fat, a)
      BY <2>2, <2>6 DEF Reach
    <3> QED
      BY <2>1, <2>3, <3>1, Linked
  <2>10. g \in [Cluster -> 0 .. End]
    BY <1>1, <2>1, <2>3, LinkTyped
  <2>11. /\ FilesSound(g, Resized(fd, size))
         /\ OthersStay(fd.slot, g, Resized(fd, size))
         /\ Resized(fd, size)[fd.slot] = [name |-> p, first |-> fd.first, size |-> size]
    <3> HIDE DEF g, size
    <3> QED
      BY <1>2, <2>7, <2>8, <2>9, <2>10, OneFileChanged
  <2>12. ASSUME NEW x \in OnChain(fat, a), NotBehind(a, x, last)
         PROVE  x \in OnChain(g, a)
    <3>1. CASE x = End
      BY <3>1 DEF OnChain
    <3>2. CASE x # End
      <4>1. PICK m \in Nat : last = Ahead(fat, a, m) /\ \E i \in 0 .. m : x = Ahead(fat, a, i)
        BY <2>2, <2>12, <3>2 DEF NotBehind
      <4>2. PICK i \in 0 .. m : x = Ahead(fat, a, i)
        BY <4>1
      <4>3. Ahead(g, a, i) = x /\ i \in Nat
        BY <2>5, <4>1, <4>2
      <4>4. x \in Cluster
        BY <2>12, <3>2 DEF OnChain, Reach
      <4> QED
        BY <4>3, <4>4 DEF OnChain, Reach
    <3> QED
      BY <3>1, <3>2
  <2>13. Resized(fd, size)[fd.slot].size = size
    <3> HIDE DEF size
    <3> QED
      BY <2>11
  <2> QED
    BY <2>8, <2>10, <2>11, <2>12, <2>13 DEF GrowthKept, last
<1> QED
  BY <1>4, <1>5

-----------------------------------------------------------------------------
(* Reading and writing.                                                     *)

LEMMA OnChainTyped ==
  ASSUME NEW f, NEW a
  PROVE  OnChain(f, a) \subseteq 0 .. NoCluster
BY FileAssumption DEF OnChain, Reach, Cluster, End, NoCluster

\* A transfer moves over a number of clusters, and the offset is a number again.
LEMMA Transfers ==
  ASSUME NEW f, NEW fe, fe.off \in Nat, NEW n \in Nat
  PROVE  /\ Reached(f, fe, n) \in Nat
         /\ fe.off + (IF Transferred(f, fe, n) THEN n
                      ELSE FirstPart(fe, n) + ClusterSize * Reached(f, fe, n)) \in Nat
<1> DEFINE first == FirstPart(fe, n)
           moves == Moves(fe, n)
           reached == Reached(f, fe, n)
           S == {k \in 0 .. moves : k = 0 \/ ~Wild(Ahead(f, fe.cur, k))}
<1>1. ClusterSize \in Nat \ {0} /\ fe.off \in Nat
  BY FileAssumption
<1>2. first \in Nat /\ first <= n
  <2>1. ClusterSize - (fe.off % ClusterSize) \in Nat
    BY <1>1
  <2> DEFINE r == ClusterSize - (fe.off % ClusterSize)
  <2>2. first = Min({r, n})
    BY DEF FirstPart
  <2> HIDE DEF r, first
  <2>3. r \in Nat
    BY <2>1 DEF r
  <2>4. first = IF r <= n THEN r ELSE n
    BY <2>2, <2>3, MinTwo
  <2> QED
    BY <2>3, <2>4
<1> HIDE DEF first
<1>3. moves \in Nat
  <2>1. n - first \in Nat
    BY <1>2
  <2> QED
    BY <2>1, Limits DEF Moves, first
<1> HIDE DEF moves
<1>4. reached \in Nat
  <2>1. S \in SUBSET Nat /\ S # {} /\ \A k \in S : k <= moves
    BY <1>3
  <2> HIDE DEF S
  <2>2. Max(S) \in S
    BY <1>3, <2>1, MaxIs
  <2>3. reached = Max(S)
    BY DEF S, Reached, moves
  <2> QED
    BY <2>1, <2>2, <2>3
<1> HIDE DEF reached
<1>5. ClusterSize * reached \in Nat
  BY <1>1, <1>4
<1>6. fe.off + (IF Transferred(f, fe, n) THEN n ELSE first + ClusterSize * reached) \in Nat
  BY <1>1, <1>2, <1>5
<1> QED
  BY <1>4, <1>6 DEF first, reached

\* A transfer leaves the descriptor on its chain.
LEMMA MovedStays ==
  ASSUME NEW f \in [Cluster -> 0 .. End], NEW a \in Cluster, \A c \in Reach(f, a) : f[c] # 0,
         NEW fe \in Descriptor, fe.cur \in OnChain(f, a), NEW n \in Nat
  PROVE  /\ Moved(f, fe, n) \in Descriptor /\ Moved(f, fe, n).cur \in OnChain(f, a)
         /\ Moved(f, fe, n).slot = fe.slot /\ Moved(f, fe, n).first = fe.first
         /\ Moved(f, fe, n).size = fe.size /\ Moved(f, fe, n).write = fe.write
<1> DEFINE reached == Reached(f, fe, n)
           off == fe.off + IF Transferred(f, fe, n) THEN n
                           ELSE FirstPart(fe, n) + ClusterSize * Reached(f, fe, n)
<1>1. reached \in Nat /\ off \in Nat
  BY Transfers DEF Descriptor
<1>2. Moved(f, fe, n) = [fe EXCEPT !.cur = Ahead(f, fe.cur, reached), !.off = off]
  BY DEF Moved, Descriptor
<1> HIDE DEF off, reached
<1>3. Ahead(f, fe.cur, reached) \in OnChain(f, a)
  BY <1>1, StaysOnChain
<1>4. Ahead(f, fe.cur, reached) \in 0 .. NoCluster
  BY <1>3, OnChainTyped
<1> QED
  BY <1>1, <1>2, <1>3, <1>4 DEF Descriptor

\* What a write of n bytes leaves.
WriteKept(p, fd, n, refused) ==
    LET w == Written(fd, n, refused)
    IN  /\ FilesSound(w.fat, w.dir)
        /\ OpenSound(w.fat, w.dir, p, w.fd)
        /\ w.fd # Closed /\ w.fd.slot = fd.slot /\ w.fd.first = fd.first
        /\ w.fd.write = fd.write /\ w.result \in {-1, 0}
        /\ OthersStay(fd.slot, w.fat, w.dir)
        /\ \A x \in OnChain(fat, fd.first) :
              NotBehind(fd.first, x, Sought(fd, fd.size)) => x \in OnChain(w.fat, fd.first)

LEMMA SlotIsOpen ==
  ASSUME NEW fe, fe.slot \in Slot
  PROVE  fe # Closed
BY DEF Closed, Slot

\* The descriptor grown, before anything is transferred.
LEMMA GrownStands ==
  ASSUME FilesSound(fat, dir), NEW p, NEW fd, Stands(p, fd), NEW n \in Nat, GrowthKept(fd, n)
  PROVE  LET h == Grown(fd, n) IN
         /\ h \in Descriptor /\ h.slot = fd.slot /\ h.first = fd.first /\ h.write = fd.write
         /\ h.cur \in OnChain(GrownFat(fd, n), fd.first)
<1> DEFINE g == GrownFat(fd, n)
           h == Grown(fd, n)
           a == fd.first
           cur == IF AtEnd(fd, n) THEN NextCluster(g, fd.cur) ELSE fd.cur
<1>1. fd \in Descriptor /\ a \in Cluster /\ fd.cur \in OnChain(fat, a)
  BY OpenFile DEF Stands, OpenSound
<1>2. /\ g \in [Cluster -> 0 .. End] /\ \A c \in Reach(g, a) : g[c] # 0
      /\ fd.cur \in OnChain(g, a)
  BY <1>1, EndNotBehind DEF GrowthKept
<1> HIDE DEF g
<1>3. cur \in OnChain(g, a)
  <2>1. Ahead(g, fd.cur, 0) = fd.cur
    BY AheadZero
  <2>2. Ahead(g, fd.cur, 0 + 1) = NextCluster(g, fd.cur)
    BY <2>1, AheadStep
  <2>3. 0 + 1 \in Nat
    OBVIOUS
  <2>4. Ahead(g, fd.cur, 0 + 1) \in OnChain(g, a)
    BY <1>1, <1>2, <2>3, StaysOnChain
  <2> QED
    BY <1>2, <2>2, <2>4
<1> HIDE DEF cur
<1>4. h.size \in Nat
  BY NewSize
<1>5. h = [fd EXCEPT !.size = h.size, !.cur = cur]
  BY <1>1 DEF Grown, cur, g, Descriptor
<1>6. cur \in 0 .. NoCluster
  BY <1>3, OnChainTyped
<1> HIDE DEF h
<1>7. /\ h \in Descriptor /\ h.slot = fd.slot /\ h.first = fd.first /\ h.write = fd.write
      /\ h.cur = cur
  <2> DEFINE z == h.size
  <2>1. z \in Nat /\ h = [fd EXCEPT !.size = z, !.cur = cur]
    BY <1>4, <1>5
  <2> HIDE DEF z
  <2> QED
    BY <1>1, <1>6, <2>1 DEF Descriptor
<1> QED
  BY <1>3, <1>7 DEF h, g

LEMMA WriteKeeps ==
  ASSUME FilesSound(fat, dir), NEW p, NEW fd, Stands(p, fd), NEW n \in Nat,
         ~WriteWild(fd, n), NEW refused \in BOOLEAN
  PROVE  WriteKept(p, fd, n, refused)
<1> DEFINE w == Written(fd, n, refused)
           g == GrownFat(fd, n)
           h == Grown(fd, n)
           a == fd.first
<1>1. CASE GrowFails(fd, n)
  <2>1. w.fat = fat /\ w.dir = dir /\ w.fd = fd /\ w.result = -1
    BY <1>1 DEF Written
  <2> QED
    BY <2>1 DEF WriteKept, Stands, OthersStay
<1>2. CASE ~GrowFails(fd, n)
  <2>1. GrowthKept(fd, n)
    BY <1>2, GrowthKeeps
  <2>2. /\ h \in Descriptor /\ h.slot = fd.slot /\ h.first = a /\ h.write = fd.write
        /\ h.cur \in OnChain(g, a)
    BY <2>1, GrownStands
  <2>3. /\ fd.slot \in Slot /\ a \in Cluster
        /\ dir[fd.slot] = [name |-> p, first |-> a, size |-> fd.size]
        /\ dir \in [Slot -> Entry]
    BY OpenFile DEF FilesSound
  <2>4. Resized(fd, h.size) = IF Grows(fd, n) THEN Updated(h) ELSE dir
    <3>1. CASE Grows(fd, n)
      <4>1. a # NoCluster
        BY <2>3, FileAssumption DEF Cluster, NoCluster
      <4> HIDE DEF h
      <4> QED
        BY <2>2, <3>1, <4>1 DEF Resized, Updated
    <3>2. CASE ~Grows(fd, n)
      <4>1. h.size = fd.size
        BY <3>2, NewSize
      <4>2. [dir[fd.slot] EXCEPT !.size = fd.size] = dir[fd.slot]
        BY <2>3
      <4>3. [dir EXCEPT ![fd.slot] = dir[fd.slot]] = dir
        BY <2>3
      <4> QED
        BY <3>2, <4>1, <4>2, <4>3 DEF Resized
    <3> QED
      BY <3>1, <3>2
  <2> DEFINE stops == refused /\ Wild(h.cur)
             after == IF stops THEN h ELSE Moved(g, h, n)
  <2>5. /\ w.fat = g /\ w.dir = Resized(fd, h.size) /\ w.fd = after
        /\ w.result \in {-1, 0}
    BY <1>2, <2>4 DEF Written
  <2> HIDE DEF w
  <2>6. /\ g \in [Cluster -> 0 .. End] /\ \A c \in Reach(g, a) : g[c] # 0
        /\ Resized(fd, h.size)[fd.slot].size = h.size
        /\ FilesSound(g, Resized(fd, h.size))
        /\ OthersStay(fd.slot, g, Resized(fd, h.size))
        /\ \A x \in OnChain(fat, a) :
              NotBehind(a, x, Sought(fd, fd.size)) => x \in OnChain(g, a)
    BY <2>1 DEF GrowthKept
  <2> HIDE DEF g, h
  <2>7. /\ after \in Descriptor /\ after.slot = fd.slot /\ after.first = a
        /\ after.write = fd.write /\ after.size = h.size /\ after.cur \in OnChain(g, a)
    <3>1. /\ Moved(g, h, n) \in Descriptor /\ Moved(g, h, n).cur \in OnChain(g, a)
          /\ Moved(g, h, n).slot = h.slot /\ Moved(g, h, n).first = h.first
          /\ Moved(g, h, n).size = h.size /\ Moved(g, h, n).write = h.write
      BY <2>2, <2>3, <2>6, MovedStays
    <3> QED
      BY <2>2, <3>1
  <2> HIDE DEF after
  <2>8. Resized(fd, h.size)[fd.slot] = [name |-> p, first |-> a, size |-> h.size]
    BY <2>2, <2>3 DEF Resized, Descriptor
  <2>9. OpenSound(w.fat, w.dir, p, w.fd) /\ w.fd # Closed
    BY <2>3, <2>5, <2>7, <2>8, SlotIsOpen DEF OpenSound
  <2>10. /\ FilesSound(w.fat, w.dir)
         /\ OthersStay(fd.slot, w.fat, w.dir)
         /\ \A x \in OnChain(fat, a) :
              NotBehind(a, x, Sought(fd, fd.size)) => x \in OnChain(w.fat, a)
    BY <2>5, <2>6
  <2>11. w.fd.slot = fd.slot /\ w.fd.first = a /\ w.fd.write = fd.write /\ w.result \in {-1, 0}
    BY <2>5, <2>7
  <2> QED
    BY <2>9, <2>10, <2>11 DEF WriteKept, w
<1> QED
  BY <1>1, <1>2

(* The calls.                                                               *)

\* A call that changes at most the file of slot s, and the descriptor of p.
LEMMA OneCall ==
  ASSUME FilesInvariant, NEW p \in Names, NEW s \in Slot, dir[s].name \in {p, NoName},
         NEW fe, FilesSound(fat', dir'), OpenSound(fat', dir', p, fe),
         OthersStay(s, fat', dir'),
         fds' = [fds EXCEPT ![p] = fe],
         phase' \in {"defined", "undefined"}, result' \in {-1, 0}
  PROVE  FilesInvariant'
<1>1. ASSUME NEW q \in Names PROVE OpenSound(fat', dir', q, fds'[q])
  <2>1. fds'[q] = IF q = p THEN fe ELSE fds[q]
    BY DEF FilesInvariant, TypeOK
  <2>2. OpenSound(fat, dir, q, fds[q])
    BY DEF FilesInvariant
  <2>3. q # p /\ fds[q] # Closed => fds[q].slot # s
    <3> SUFFICES ASSUME q # p, fds[q] # Closed, fds[q].slot = s PROVE FALSE
      OBVIOUS
    <3>1. dir[s].name = q
      BY <2>2 DEF OpenSound
    <3> QED BY <3>1, FileAssumption
  <2> QED BY <2>1, <2>2, <2>3 DEF OthersStay
<1>2. fds' \in [Names -> Descriptor]
  <2>1. fe \in Descriptor
    BY DEF OpenSound
  <2> QED BY <2>1 DEF FilesInvariant, TypeOK
<1>3. fat' \in [Cluster -> 0 .. End] /\ dir' \in [Slot -> Entry]
  BY DEF FilesSound
<1> QED BY <1>1, <1>2, <1>3 DEF FilesInvariant, TypeOK

\* A call that moves or closes a descriptor.
LEMMA OneDescriptor ==
  ASSUME FilesInvariant, NEW p \in Names, NEW fe, OpenSound(fat, dir, p, fe),
         fds' = [fds EXCEPT ![p] = fe], UNCHANGED <<fat, dir>>,
         phase' \in {"defined", "undefined"}, result' \in {-1, 0}
  PROVE  FilesInvariant'
<1>1. ASSUME NEW q \in Names PROVE OpenSound(fat', dir', q, fds'[q])
  <2>1. fds'[q] = IF q = p THEN fe ELSE fds[q]
    BY DEF FilesInvariant, TypeOK
  <2>2. OpenSound(fat, dir, q, fds[q])
    BY DEF FilesInvariant
  <2> QED BY <2>1, <2>2
<1>2. fds' \in [Names -> Descriptor]
  <2>1. fe \in Descriptor
    BY DEF OpenSound
  <2> QED BY <2>1 DEF FilesInvariant, TypeOK
<1>3. FilesSound(fat', dir')
  BY DEF FilesInvariant
<1> QED BY <1>1, <1>2, <1>3 DEF FilesInvariant, TypeOK

LEMMA ClosedSound ==
  ASSUME NEW f, NEW d, NEW p
  PROVE  OpenSound(f, d, p, Closed)
<1>1. Closed \in Descriptor
  <2>1. 0 \in 0 .. NumSlots /\ 0 \in 0 .. NoCluster
    BY FileAssumption DEF NoCluster
  <2> QED BY <2>1 DEF Closed, Descriptor
<1> QED BY <1>1 DEF OpenSound

LEMMA OpenOne ==
  ASSUME FilesInvariant, NEW p \in Names, IsOpen(p)
  PROVE  FilesSound(fat, dir) /\ Stands(p, fds[p])
BY DEF FilesInvariant, Stands, IsOpen

\* The descriptor open prepares stands at the start of its file.
LEMMA FoundStands ==
  ASSUME FilesInvariant, NEW p \in Names, SlotsOf(p) # {}, NEW write \in BOOLEAN
  PROVE  Stands(p, Found(p, write))
<1> DEFINE s == Min(SlotsOf(p))
           fd == Found(p, write)
<1>1. s \in Slot /\ dir[s].name = p
  <2>1. SlotsOf(p) \subseteq Nat
    BY DEF SlotsOf, Slot
  <2>2. s \in SlotsOf(p)
    BY <2>1, MinIs
  <2> QED BY <2>2 DEF SlotsOf
<1> HIDE DEF s
<1>2. fd = [slot |-> s, first |-> dir[s].first, cur |-> dir[s].first, off |-> 0,
            size |-> dir[s].size, write |-> write]
  BY DEF Found, s
<1> HIDE DEF fd
<1>3. FileSound(fat, dir[s]) /\ dir[s] \in Entry
  BY <1>1, FileAssumption DEF FilesInvariant, FilesSound
<1>4. dir[s].first \in Reach(fat, dir[s].first)
  BY <1>3, ReachStart DEF FileSound
<1>5. fd \in Descriptor
  BY <1>1, <1>2, <1>3 DEF Descriptor, Entry, Slot
<1>6. dir[s] = [name |-> p, first |-> fd.first, size |-> fd.size]
  BY <1>1, <1>2, <1>3 DEF Entry
<1>7. fd.slot \in Slot
  BY <1>1, <1>2
<1>8. fd # Closed
  BY <1>7, SlotIsOpen
<1>9. OpenSound(fat, dir, p, fd)
  BY <1>2, <1>4, <1>5, <1>6, <1>7 DEF OpenSound, OnChain
<1> QED BY <1>8, <1>9 DEF Stands, fd

\* Seeking keeps a descriptor on its chain.
LEMMA AtStands ==
  ASSUME FilesSound(fat, dir), NEW p, NEW fd, Stands(p, fd), NEW new \in Nat
  PROVE  /\ Stands(p, At(fd, new)) /\ At(fd, new).slot = fd.slot /\ At(fd, new).first = fd.first
         /\ At(fd, new).size = fd.size /\ At(fd, new).off = new
         /\ At(fd, new).cur = Sought(fd, new)
<1> DEFINE x == Sought(fd, new)
<1>1. x \in OnChain(fat, fd.first) /\ x \in 0 .. NoCluster
  BY SoughtOnChain, OnChainTyped
<1> HIDE DEF x
<1>2. fd \in Descriptor
  BY DEF Stands, OpenSound
<1>3. At(fd, new) = [fd EXCEPT !.off = new, !.cur = x]
  BY DEF At, x
<1> DEFINE e == At(fd, new)
<1>4. /\ e \in Descriptor /\ e.slot = fd.slot /\ e.first = fd.first /\ e.size = fd.size
      /\ e.off = new /\ e.cur = x
  BY <1>1, <1>2, <1>3 DEF Descriptor
<1> HIDE DEF e
<1>5. OpenSound(fat, dir, p, e)
  BY <1>1, <1>4 DEF OpenSound, Stands
<1>6. e # Closed
  BY <1>4, SlotIsOpen DEF Stands, OpenSound
<1> QED BY <1>4, <1>5, <1>6 DEF Stands, e, x

LEMMA FilesInitially == Init => FilesInvariant
<1> SUFFICES ASSUME Init PROVE FilesInvariant
  OBVIOUS
<1>1. Empty \in Entry /\ Empty.name = NoName /\ Empty.first = 0
  BY FileAssumption DEF Empty, Entry, NoCluster
<1>2. dir \in [Slot -> Entry] /\ \A s \in Slot : dir[s] = Empty
  BY <1>1 DEF Init
<1>3. fat \in [Cluster -> 0 .. End]
  BY Clusters DEF Init
<1>4. Reach(fat, 0) = {}
  BY NothingReached, Clusters
<1>5. FilesSound(fat, dir)
  BY <1>1, <1>2, <1>3, <1>4 DEF FilesSound
<1>6. \A p \in Names : fds[p] = Closed
  BY DEF Init
<1>7. \A p \in Names : OpenSound(fat, dir, p, fds[p])
  BY <1>6, ClosedSound
<1>8. Closed \in Descriptor
  BY ClosedSound DEF OpenSound
<1>9. TypeOK
  BY <1>2, <1>3, <1>8 DEF Init, TypeOK
<1> QED BY <1>5, <1>7, <1>9 DEF FilesInvariant

LEMMA OpenKeeps ==
  ASSUME FilesInvariant, NEW p \in Names, NEW write \in BOOLEAN, NEW append \in BOOLEAN,
         Open(p, write, append)
  PROVE  FilesInvariant'
<1> DEFINE fd == Found(p, write)
<1>1. CASE Fail \/ Undefined
  BY <1>1 DEF Fail, Undefined, FilesInvariant, TypeOK
<1>2. CASE /\ fds' = [fds EXCEPT ![p] = IF append THEN At(fd, fd.size) ELSE fd]
           /\ result' = 0 /\ UNCHANGED <<fat, dir, phase>>
  <2>1. Stands(p, fd) /\ FilesSound(fat, dir)
    BY FoundStands DEF Open, FilesInvariant
  <2>2. fd.size \in Nat
    BY <2>1, OpenFile
  <2>3. Stands(p, At(fd, fd.size))
    BY <2>1, <2>2, AtStands
  <2> DEFINE fe == IF append THEN At(fd, fd.size) ELSE fd
  <2>4. OpenSound(fat, dir, p, fe) /\ fds' = [fds EXCEPT ![p] = fe]
    BY <1>2, <2>1, <2>3 DEF Stands
  <2> HIDE DEF fe
  <2>5. UNCHANGED <<fat, dir>> /\ phase' \in {"defined", "undefined"} /\ result' \in {-1, 0}
    BY <1>2 DEF FilesInvariant, TypeOK
  <2> QED
    BY <2>4, <2>5, OneDescriptor
<1> QED
  BY <1>1, <1>2 DEF Open

LEMMA LseekKeeps ==
  ASSUME FilesInvariant, NEW p \in Names, NEW new \in Nat, Lseek(p, new)
  PROVE  FilesInvariant'
<1>1. CASE Fail \/ Undefined
  BY <1>1 DEF Fail, Undefined, FilesInvariant, TypeOK
<1>2. CASE /\ fds' = [fds EXCEPT ![p] = At(@, new)] /\ result' = 0
           /\ UNCHANGED <<fat, dir, phase>>
  <2>1. FilesSound(fat, dir) /\ Stands(p, fds[p])
    BY OpenOne DEF Lseek
  <2>2. OpenSound(fat, dir, p, At(fds[p], new))
    BY <2>1, AtStands DEF Stands
  <2> DEFINE fe == At(fds[p], new)
  <2>3. fds' = [fds EXCEPT ![p] = fe]
    BY <1>2
  <2> HIDE DEF fe
  <2>4. UNCHANGED <<fat, dir>> /\ phase' \in {"defined", "undefined"} /\ result' \in {-1, 0}
    BY <1>2 DEF FilesInvariant, TypeOK
  <2> QED
    BY <2>2, <2>3, <2>4, OneDescriptor DEF fe
<1> QED
  BY <1>1, <1>2 DEF Lseek

LEMMA ReadKeeps ==
  ASSUME FilesInvariant, NEW p \in Names, NEW n \in Nat, Read(p, n)
  PROVE  FilesInvariant'
<1> DEFINE fd == fds[p]
           m == Readable(fd, n)
           twice == IF Moves(fd, m) > 0 THEN m ELSE 0
           moved == Moved(fat, fd, m)
           after == [moved EXCEPT !.off = @ + twice]
<1>1. CASE Fail \/ Undefined
  BY <1>1 DEF Fail, Undefined, FilesInvariant, TypeOK
<1>2. CASE /\ fds' = [fds EXCEPT ![p] = after] \/ fds' = [fds EXCEPT ![p] = moved]
           /\ result' \in {-1, 0} /\ UNCHANGED <<fat, dir, phase>>
  <2>1. FilesSound(fat, dir) /\ Stands(p, fd)
    BY OpenOne DEF Read
  <2>2. /\ fd.first \in Cluster /\ \A c \in Reach(fat, fd.first) : fat[c] # 0
        /\ fat \in [Cluster -> 0 .. End] /\ fd.off \in Nat /\ fd.size \in Nat
        /\ fd.cur \in OnChain(fat, fd.first) /\ fd.slot \in Slot
        /\ dir[fd.slot] = [name |-> p, first |-> fd.first, size |-> fd.size]
    BY <2>1, OpenFile
  <2>3. fd \in Descriptor
    BY <2>1 DEF Stands, OpenSound
  <2> HIDE DEF fd
  <2>4. m \in Nat
    <3>1. fd.off <= fd.size => fd.size - fd.off \in Nat
      BY <2>2
    <3>2. fd.off <= fd.size => Min({n, fd.size - fd.off}) \in Nat
      BY <3>1, MinTwo
    <3> QED
      BY <2>2, <3>2 DEF Readable
  <2> HIDE DEF m
  <2>5. /\ moved \in Descriptor /\ moved.cur \in OnChain(fat, fd.first)
        /\ moved.slot = fd.slot /\ moved.first = fd.first /\ moved.size = fd.size
    BY ZenonT(90), <2>2, <2>3, <2>4, MovedStays
  <2> HIDE DEF moved
  <2>6. twice \in Nat
    BY <2>4
  <2> HIDE DEF twice
  <2>7. /\ after \in Descriptor /\ after.cur = moved.cur
        /\ after.slot = fd.slot /\ after.first = fd.first /\ after.size = fd.size
    <3>1. moved.off \in Nat
      BY <2>5 DEF Descriptor
    <3>2. moved.off + twice \in Nat
      BY <3>1, <2>6
    <3> QED
      BY <2>5, <3>2 DEF Descriptor
  <2> HIDE DEF after
  <2>8. OpenSound(fat, dir, p, moved) /\ OpenSound(fat, dir, p, after)
    BY <2>2, <2>5, <2>7 DEF OpenSound
  <2>9. UNCHANGED <<fat, dir>> /\ phase' \in {"defined", "undefined"} /\ result' \in {-1, 0}
    BY <1>2 DEF FilesInvariant, TypeOK
  <2> QED
    BY <1>2, <2>8, <2>9, OneDescriptor
<1> QED
  BY <1>1, <1>2 DEF Read

LEMMA WriteCallKeeps ==
  ASSUME FilesInvariant, NEW p \in Names, NEW n \in Nat, Write(p, n)
  PROVE  FilesInvariant'
<1>1. CASE Undefined
  BY <1>1 DEF Undefined, FilesInvariant, TypeOK
<1>2. CASE /\ ~WriteWild(fds[p], n)
           /\ \E refused \in BOOLEAN :
                LET w == Written(fds[p], n, refused)
                IN /\ fat' = w.fat /\ dir' = w.dir
                   /\ fds' = [fds EXCEPT ![p] = w.fd] /\ result' = w.result
           /\ UNCHANGED phase
  <2> DEFINE fd == fds[p]
  <2>1. FilesSound(fat, dir) /\ Stands(p, fd)
    BY OpenOne DEF Write, Writable
  <2>2. PICK refused \in BOOLEAN :
                LET w == Written(fd, n, refused)
                IN /\ fat' = w.fat /\ dir' = w.dir
                   /\ fds' = [fds EXCEPT ![p] = w.fd] /\ result' = w.result
    BY <1>2
  <2> DEFINE w == Written(fd, n, refused)
  <2>3. WriteKept(p, fd, n, refused)
    BY <1>2, <2>1, WriteKeeps
  <2>4. fd.slot \in Slot /\ dir[fd.slot].name = p
    <3>1. /\ fd.slot \in Slot
          /\ dir[fd.slot] = [name |-> p, first |-> fd.first, size |-> fd.size]
      BY <2>1, OpenFile
    <3> QED
      BY <3>1
  <2>5. /\ FilesSound(w.fat, w.dir) /\ OpenSound(w.fat, w.dir, p, w.fd)
        /\ OthersStay(fd.slot, w.fat, w.dir)
        /\ w.result \in {-1, 0}
    BY <2>3 DEF WriteKept
  <2>6. /\ fat' = w.fat /\ dir' = w.dir /\ fds' = [fds EXCEPT ![p] = w.fd]
        /\ result' = w.result /\ phase' \in {"defined", "undefined"}
    BY <1>2, <2>2 DEF FilesInvariant, TypeOK
  <2> HIDE DEF w
  <2> QED
    BY <2>4, <2>5, <2>6, OneCall
<1> QED
  BY <1>1, <1>2 DEF Write

LEMMA FtruncateUpKeeps ==
  ASSUME FilesInvariant, NEW p \in Names, NEW new \in Nat, FtruncateUp(p, new)
  PROVE  FilesInvariant'
<1> DEFINE fd == fds[p]
           n == new - fd.size
           sought == IF SeekFails(fd, fd.size) THEN fd ELSE At(fd, fd.size)
<1>1. CASE Undefined
  BY <1>1 DEF Undefined, FilesInvariant, TypeOK
<1>2. CASE /\ ~WriteWild(sought, n)
           /\ \E refused \in BOOLEAN :
                 LET w == Written(sought, n, refused)
                 IN /\ fat' = w.fat /\ dir' = w.dir
                    /\ fds' = [fds EXCEPT ![p] = [w.fd EXCEPT !.off = fd.off, !.cur = fd.cur]]
                    /\ result' = w.result
           /\ UNCHANGED phase
  <2>1. FilesSound(fat, dir) /\ Stands(p, fd)
    BY OpenOne DEF FtruncateUp, Writable
  <2>2. /\ fd.slot \in Slot /\ dir[fd.slot].name = p /\ fd.size \in Nat /\ fd.off \in Nat
        /\ fd.cur \in OnChain(fat, fd.first) /\ fd.cur \in 0 .. NoCluster
    <3>1. /\ fd.slot \in Slot /\ fd.size \in Nat /\ fd.off \in Nat
          /\ dir[fd.slot] = [name |-> p, first |-> fd.first, size |-> fd.size]
          /\ fd.cur \in OnChain(fat, fd.first) /\ fd.cur \in 0 .. NoCluster
      BY SMTT(40), <2>1, OpenFile
    <3> QED
      BY <3>1
  <2>3. n \in Nat
    <3>1. new > fd.size
      BY DEF FtruncateUp
    <3> HIDE DEF fd
    <3> QED
      BY SMTT(40), <2>2, <3>1
  <2>4. /\ Stands(p, sought) /\ sought.slot = fd.slot /\ sought.first = fd.first
        /\ sought.size = fd.size
    BY ZenonT(90), <2>1, <2>2, AtStands
  <2>5. NotBehind(fd.first, fd.cur, Sought(sought, sought.size))
    <3>1. NotBehind(fd.first, fd.cur, Sought(fd, fd.size))
      BY <2>1, EndNotBehind
    <3>2. CASE SeekFails(fd, fd.size)
      BY <3>1, <3>2
    <3>3. CASE ~SeekFails(fd, fd.size)
      <4> DEFINE z == At(fd, fd.size)
      <4>1. z.off = fd.size /\ z.size = fd.size /\ z.cur = Sought(fd, fd.size)
        BY ZenonT(90), <2>1, <2>2, AtStands
      <4>2. sought = z
        BY <3>3
      <4> HIDE DEF z
      <4>3. Index(fd.size) \in Nat
        BY <2>2, Limits
      <4>4. SeekStart(z, z.size) = z.cur /\ SeekSteps(z, z.size) = 0
        BY <4>1, <4>3 DEF SeekStart, SeekSteps, Forward
      <4>5. Sought(z, z.size) = z.cur
        BY <4>4, AheadZero DEF Sought
      <4> QED
        BY <3>1, <4>1, <4>2, <4>5
    <3> QED
      BY <3>2, <3>3
  <2>6. PICK refused \in BOOLEAN :
                 LET w == Written(sought, n, refused)
                 IN /\ fat' = w.fat /\ dir' = w.dir
                    /\ fds' = [fds EXCEPT ![p] = [w.fd EXCEPT !.off = fd.off, !.cur = fd.cur]]
                    /\ result' = w.result
    BY <1>2
  <2> HIDE DEF sought, n
  <2> DEFINE w == Written(sought, n, refused)
             e == [w.fd EXCEPT !.off = fd.off, !.cur = fd.cur]
  <2>7. WriteKept(p, sought, n, refused)
    BY <1>2, <2>1, <2>3, <2>4, WriteKeeps
  <2>8. /\ FilesSound(w.fat, w.dir) /\ OpenSound(w.fat, w.dir, p, w.fd)
        /\ w.fd # Closed /\ w.fd.slot = fd.slot /\ w.fd.first = fd.first
        /\ OthersStay(fd.slot, w.fat, w.dir)
        /\ w.result \in {-1, 0}
        /\ fd.cur \in OnChain(w.fat, fd.first)
    BY <2>2, <2>4, <2>5, <2>7 DEF WriteKept
  <2>9. /\ fat' = w.fat /\ dir' = w.dir /\ fds' = [fds EXCEPT ![p] = e]
        /\ result' = w.result /\ phase' \in {"defined", "undefined"}
    BY <1>2, <2>6 DEF FilesInvariant, TypeOK
  <2> HIDE DEF w
  <2>10. /\ w.fd \in Descriptor /\ w.fd.slot \in Slot
         /\ w.dir[w.fd.slot] = [name |-> p, first |-> w.fd.first, size |-> w.fd.size]
    BY <2>8 DEF OpenSound
  <2>11. /\ e \in Descriptor /\ e.slot = w.fd.slot /\ e.first = w.fd.first
         /\ e.size = w.fd.size /\ e.cur = fd.cur
    BY <2>2, <2>10 DEF Descriptor
  <2> HIDE DEF e
  <2>12. OpenSound(w.fat, w.dir, p, e)
    BY <2>8, <2>10, <2>11 DEF OpenSound
  <2> QED
    BY <2>2, <2>8, <2>9, <2>12, OneCall
<1> QED
  BY <1>1, <1>2 DEF FtruncateUp

\* Making a file smaller, where no cluster is to be freed.
LEMMA ShrinksInPlace ==
  ASSUME FilesSound(fat, dir), NEW p, NEW fd, Stands(p, fd), NEW new \in Nat,
         ~(Removed(fd, Kept(new)) > 0), Kept(new) <= fd.size
  PROVE  LET d == Updated(Shrunk(fd, new))
             e == Shrunk(fd, new)
         IN /\ ShrunkFat(fd, Kept(new)) = fat /\ FilesSound(fat, d)
            /\ OthersStay(fd.slot, fat, d)
            /\ OpenSound(fat, d, p, e)
            /\ OpenSound(fat, d, p, [e EXCEPT !.off = 0, !.cur = fd.first])
<1> DEFINE k == Kept(new)
           d == Updated(Shrunk(fd, new))
           e == Shrunk(fd, new)
           back == [e EXCEPT !.off = 0, !.cur = fd.first]
<1>1. k \in Nat
  BY MaxTwo DEF Kept
<1>2. /\ fd.slot \in Slot /\ fd.first \in Cluster /\ fd.size \in Nat
      /\ fd.cur \in OnChain(fat, fd.first)
  BY OpenFile
<1>3. fd \in Descriptor
  BY DEF Stands, OpenSound
<1>4. /\ ClustersFor(fd.size) \in Nat /\ ClustersFor(k) \in Nat
      /\ ClustersFor(k) <= ClustersFor(fd.size)
  <2>1. ClustersFor(fd.size) \in Nat /\ ClustersFor(k) \in Nat
    BY <1>1, <1>2, Limits
  <2>2. ClusterSize \in Nat \ {0}
    BY FileAssumption
  <2>3. k + ClusterSize - 1 \in Nat /\ fd.size + ClusterSize - 1 \in Nat
    BY <1>1, <1>2, <2>2
  <2>4. k + ClusterSize - 1 <= fd.size + ClusterSize - 1
    BY <1>1, <1>2, <2>2
  <2> QED
    BY <2>1, <2>2, <2>3, <2>4, Division DEF ClustersFor
<1>5. Removed(fd, k) = 0
  BY <1>4 DEF Removed
<1>6. ShrunkFat(fd, k) = fat
  BY <1>5 DEF ShrunkFat
<1>7. Limit(fd.size) <= Limit(k)
  <2>1. ClustersFor(fd.size) <= ClustersFor(k)
    BY <1>4, <1>5 DEF Removed
  <2> QED
    BY <1>1, <1>2, <2>1, Limits
<1>8. e = [fd EXCEPT !.size = k]
  BY DEF Shrunk
<1> HIDE DEF k, e
<1>9. /\ e \in Descriptor /\ e.size = k /\ e.slot = fd.slot /\ e.first = fd.first
      /\ e.cur = fd.cur
  BY <1>1, <1>3, <1>8 DEF Descriptor
<1>10. d = Resized(fd, k)
  <2>1. fd.first # NoCluster
    BY <1>2, FileAssumption DEF Cluster, NoCluster
  <2> QED
    BY <1>9, <2>1 DEF Updated, Resized, e
<1> HIDE DEF d
<1>11. /\ FilesSound(fat, d)
       /\ OthersStay(fd.slot, fat, d)
       /\ d[fd.slot] = [name |-> p, first |-> fd.first, size |-> k]
  BY <1>1, <1>7, <1>10, OnlyResized
<1>12. OpenSound(fat, d, p, e)
  BY <1>2, <1>9, <1>11 DEF OpenSound
<1>13. OpenSound(fat, d, p, back)
  <2>1. fd.first \in OnChain(fat, fd.first) /\ fd.first \in 0 .. NoCluster
    BY <1>2, ReachStart, OnChainTyped DEF OnChain
  <2>2. /\ back \in Descriptor /\ back.size = k /\ back.slot = fd.slot
        /\ back.first = fd.first /\ back.cur = fd.first
    BY <1>9, <2>1 DEF Descriptor
  <2> HIDE DEF back
  <2> QED
    BY <1>2, <1>11, <2>1, <2>2 DEF OpenSound
<1> QED
  BY <1>6, <1>11, <1>12, <1>13 DEF k, d, e

LEMMA OpenTruncatedKeeps ==
  ASSUME Misuse = {}, FilesInvariant, NEW p \in Names, OpenTruncated(p)
  PROVE  FilesInvariant'
<1> DEFINE fd == Found(p, TRUE)
<1>1. CASE Fail \/ Undefined
  BY <1>1 DEF Fail, Undefined, FilesInvariant, TypeOK
<1>2. CASE /\ ~ShrinkFails(fd, 1)
           /\ Removed(fd, 1) > 0 => "shrink" \in Misuse
           /\ fat' = ShrunkFat(fd, 1) /\ dir' = Updated(Shrunk(fd, 1))
           /\ fds' = [fds EXCEPT ![p] = Shrunk(fd, 1)]
           /\ result' = 0 /\ UNCHANGED phase
  <2>1. Stands(p, fd) /\ FilesSound(fat, dir)
    BY FoundStands DEF OpenTruncated, FilesInvariant
  <2>2. Kept(1) = 1
    BY MaxTwo DEF Kept
  <2>3. ~(Removed(fd, 1) > 0) /\ ~(fd.size < 1)
    BY <1>2 DEF ShrinkFails
  <2> HIDE DEF fd
  <2>4. 1 <= fd.size
    <3>1. fd.size \in Nat
      BY <2>1, OpenFile
    <3> QED
      BY <2>3, <3>1
  <2>5. fd.slot \in Slot /\ dir[fd.slot].name = p
    <3>1. /\ fd.slot \in Slot
          /\ dir[fd.slot] = [name |-> p, first |-> fd.first, size |-> fd.size]
      BY <2>1, OpenFile
    <3> QED
      BY <3>1
  <2> DEFINE d == Updated(Shrunk(fd, 1))
             e == Shrunk(fd, 1)
  <2>6. /\ ShrunkFat(fd, 1) = fat /\ FilesSound(fat, d)
        /\ OthersStay(fd.slot, fat, d)
        /\ OpenSound(fat, d, p, e)
    <3>1. 1 \in Nat
      OBVIOUS
    <3> QED
      BY <2>1, <2>2, <2>3, <2>4, <3>1, ShrinksInPlace
  <2>7. /\ fat' = fat /\ dir' = d /\ fds' = [fds EXCEPT ![p] = e]
        /\ phase' \in {"defined", "undefined"} /\ result' \in {-1, 0}
    BY <1>2, <2>6 DEF FilesInvariant, TypeOK
  <2> HIDE DEF d, e
  <2> QED
    BY <2>5, <2>6, <2>7, OneCall
<1> QED
  BY <1>1, <1>2 DEF OpenTruncated

LEMMA FtruncateDownKeeps ==
  ASSUME Misuse = {}, FilesInvariant, NEW p \in Names, NEW new \in Nat, FtruncateDown(p, new)
  PROVE  FilesInvariant'
<1> DEFINE fd == fds[p]
           kept == Kept(new)
           fails == ShrinkFails(fd, kept)
           after == IF fails THEN fd ELSE Shrunk(fd, new)
           e == IF fd.off >= new THEN [after EXCEPT !.off = 0, !.cur = fd.first] ELSE after
           d == IF fails THEN dir ELSE Updated(after)
<1>1. CASE Undefined
  BY <1>1 DEF Undefined, FilesInvariant, TypeOK
<1>2. CASE /\ ~fails /\ Removed(fd, kept) > 0 => "shrink" \in Misuse
           /\ fat' = (IF fails THEN fat ELSE ShrunkFat(fd, kept))
           /\ dir' = d
           /\ fds' = [fds EXCEPT ![p] = e]
           /\ result' = (IF fails THEN -1 ELSE 0) /\ UNCHANGED phase
  <2>1. FilesSound(fat, dir) /\ Stands(p, fd)
    BY OpenOne DEF FtruncateDown, Writable
  <2>2. /\ fd.slot \in Slot /\ fd.first \in Cluster /\ fd.size \in Nat
        /\ dir[fd.slot] = [name |-> p, first |-> fd.first, size |-> fd.size]
    BY <2>1, OpenFile
  <2>3. fd \in Descriptor /\ OpenSound(fat, dir, p, fd)
    BY <2>1 DEF Stands, OpenSound
  <2>4. phase' \in {"defined", "undefined"} /\ result' \in {-1, 0}
    BY <1>2 DEF FilesInvariant, TypeOK
  <2> HIDE DEF fd
  <2>5. CASE fails
    <3> DEFINE back == [fd EXCEPT !.off = 0, !.cur = fd.first]
    <3>1. e = (IF fd.off >= new THEN back ELSE fd)
      BY <2>5
    <3>2. OpenSound(fat, dir, p, back)
      <4>1. fd.first \in OnChain(fat, fd.first) /\ fd.first \in 0 .. NoCluster
        BY <2>2, ReachStart, OnChainTyped DEF OnChain
      <4>2. /\ back \in Descriptor /\ back.size = fd.size /\ back.slot = fd.slot
            /\ back.first = fd.first /\ back.cur = fd.first
        BY <2>3, <4>1 DEF Descriptor
      <4> HIDE DEF back
      <4> QED
        BY <2>2, <4>1, <4>2 DEF OpenSound
    <3>3. OpenSound(fat, dir, p, e)
      BY <2>3, <3>1, <3>2
    <3>4. UNCHANGED <<fat, dir>> /\ fds' = [fds EXCEPT ![p] = e]
      BY <1>2, <2>5
    <3> HIDE DEF e
    <3> QED
      BY <2>4, <3>3, <3>4, OneDescriptor
  <2>6. CASE ~fails
    <3>1. kept <= fd.size
      <4>1. kept \in Nat
        BY MaxTwo DEF Kept
      <4>2. ~(fd.size < kept)
        BY <2>6 DEF ShrinkFails
      <4> HIDE DEF kept
      <4> QED
        BY <2>2, <4>1, <4>2
    <3>2. ~(Removed(fd, kept) > 0)
      BY <1>2, <2>6
    <3> DEFINE shrunk == Shrunk(fd, new)
               dd == Updated(shrunk)
               back == [shrunk EXCEPT !.off = 0, !.cur = fd.first]
    <3>3. /\ ShrunkFat(fd, kept) = fat /\ FilesSound(fat, dd)
          /\ OthersStay(fd.slot, fat, dd)
          /\ OpenSound(fat, dd, p, shrunk) /\ OpenSound(fat, dd, p, back)
      BY <2>1, <3>1, <3>2, ShrinksInPlace
    <3>4. e = (IF fd.off >= new THEN back ELSE shrunk) /\ d = dd
      BY <2>6
    <3>5. fat' = fat /\ dir' = dd /\ fds' = [fds EXCEPT ![p] = e]
      BY <1>2, <2>6, <3>3, <3>4
    <3> HIDE DEF dd, shrunk, back, e, kept, d
    <3>6. OpenSound(fat, dd, p, e)
      BY <3>3, <3>4
    <3>7. dir[fd.slot].name = p
      BY <2>2
    <3> QED
      BY <2>2, <2>4, <3>3, <3>5, <3>6, <3>7, OneCall
  <2> QED
    BY <2>5, <2>6
<1> QED
  BY <1>1, <1>2 DEF FtruncateDown

\* Removing a file frees clusters of its own chain only.
LEMMA FremoveKeeps ==
  ASSUME FilesInvariant, NEW p \in Names, Fremove(p)
  PROVE  FilesInvariant'
<1> DEFINE fd == fds[p]
           s == fd.slot
           g == ShrunkFat(fd, 0)
<1>1. CASE Undefined
  BY <1>1 DEF Undefined, FilesInvariant, TypeOK
<1>2. CASE fds' = [fds EXCEPT ![p] = Closed] /\ result' = -1 /\ UNCHANGED <<fat, dir, phase>>
  <2>1. phase' \in {"defined", "undefined"} /\ result' \in {-1, 0} /\ UNCHANGED <<fat, dir>>
    BY <1>2 DEF FilesInvariant, TypeOK
  <2> QED
    BY <1>2, <2>1, ClosedSound, OneDescriptor
<1>3. CASE /\ fds' = [fds EXCEPT ![p] = Closed] /\ fat' = g
           /\ dir' = [dir EXCEPT ![s] = Empty] /\ result' = 0 /\ UNCHANGED phase
  <2>1. FilesSound(fat, dir) /\ Stands(p, fd)
    BY OpenOne DEF Fremove, Writable
  <2>2. /\ s \in Slot /\ fd.first \in Cluster /\ fd.size \in Nat
        /\ dir[s] = [name |-> p, first |-> fd.first, size |-> fd.size]
        /\ fd.cur \in OnChain(fat, fd.first)
        /\ \A c \in Reach(fat, fd.first) : fat[c] # 0
        /\ fat \in [Cluster -> 0 .. End]
    BY <2>1, OpenFile
  <2>3. dir[s].name = p /\ dir[s].first = fd.first
    BY <2>2
  <2>4. phase' \in {"defined", "undefined"} /\ result' \in {-1, 0}
    BY <1>3 DEF FilesInvariant, TypeOK
  <2> HIDE DEF fd, s
  <2>5. Tail(fd, 0) \subseteq OnChain(fat, fd.first)
    <3>1. Sought(fd, 0) \in OnChain(fat, fd.first)
      BY <2>1, SoughtOnChain
    <3> SUFFICES ASSUME NEW i \in 1 .. TailLength(fd, 0)
                 PROVE  Ahead(fat, Sought(fd, 0), i) \in OnChain(fat, fd.first)
      BY DEF Tail
    <3>2. i \in Nat
      OBVIOUS
    <3> QED
      BY <2>2, <3>1, <3>2, StaysOnChain
  <2>6. g \in [Cluster -> 0 .. End]
    <3>1. 0 \in 0 .. End
      BY Clusters
    <3> QED
      BY <2>2, <3>1 DEF ShrunkFat
  <2>7. ASSUME NEW c \in Cluster, c \notin Reach(fat, fd.first) PROVE g[c] = fat[c]
    <3>1. c # End
      BY Clusters
    <3>2. c \notin OnChain(fat, fd.first)
      BY <2>7, <3>1 DEF OnChain
    <3>3. c \notin Tail(fd, 0) /\ c # EndedAt(fd, 0)
      BY <2>2, <2>5, <3>2 DEF EndedAt
    <3> QED
      BY <3>3 DEF ShrunkFat
  <2>8. ASSUME NEW t \in Slot \ {s}, NEW c \in Reach(fat, dir[t].first) PROVE g[c] = fat[c]
    <3>1. c \in Cluster /\ c \notin Reach(fat, fd.first)
      BY <2>1, <2>2, <2>3, <2>8 DEF FilesSound, Reach
    <3> QED
      BY <2>7, <3>1
  <2>9. Empty \in Entry
    BY FileAssumption DEF Empty, Entry, NoCluster
  <2> HIDE DEF g
  <2> DEFINE d == [dir EXCEPT ![s] = Empty]
  <2>10. /\ FilesSound(g, d)
         /\ OthersStay(s, g, d)
    BY <2>1, <2>2, <2>6, <2>8, <2>9, Replaced DEF OthersStay
  <2>11. fat' = g /\ dir' = d
    BY <1>3
  <2>12. fds' = [fds EXCEPT ![p] = Closed]
    BY <1>3
  <2> HIDE DEF d
  <2>13. OpenSound(g, d, p, Closed)
    BY ClosedSound
  <2> QED
    BY <2>2, <2>3, <2>4, <2>10, <2>11, <2>12, <2>13, OneCall
<1> QED
  BY <1>1, <1>2, <1>3 DEF Fremove

\* A new file's cluster is the lowest that is free.
LEMMA FirstTaken ==
  ASSUME fat \in [Cluster -> 0 .. End], FreeClusters # {}
  PROVE  /\ Min(FreeClusters) \in FreeClusters
         /\ Link(fat, 0, Lowest(1)) = [fat EXCEPT ![Min(FreeClusters)] = End]
<1> DEFINE a == Min(FreeClusters)
           below(c) == {d \in FreeClusters : d < c}
<1>1. FreeClusters \subseteq Cluster /\ FreeClusters \subseteq Nat
  BY Clusters DEF FreeClusters
<1>2. a \in FreeClusters /\ \A n \in FreeClusters : a <= n
  BY <1>1, MinIs
<1> HIDE DEF a
<1>3. ASSUME NEW c \in FreeClusters PROVE (Cardinality(below(c)) < 1) <=> c = a
  <2>1. IsFiniteSet(below(c))
    BY <1>1, Clusters, FS_Subset
  <2>2. Cardinality(below(c)) \in Nat /\ (Cardinality(below(c)) = 0 <=> below(c) = {})
    BY <2>1, FS_CardinalityType, FS_EmptySet
  <2>3. below(c) = {} <=> c = a
    <3>1. c \in Nat /\ a \in Nat /\ a <= c
      BY <1>1, <1>2
    <3>2. c # a => a \in below(c)
      BY <1>2, <3>1
    <3>3. ASSUME c = a, NEW d \in below(c) PROVE FALSE
      <4>1. d \in FreeClusters /\ d < a
        BY <3>3
      <4>2. d \in Nat /\ a <= d
        BY <1>1, <1>2, <4>1
      <4> QED
        BY <3>1, <4>1, <4>2
    <3> HIDE DEF below
    <3> QED
      BY <3>2, <3>3
  <2> QED
    BY <2>2, <2>3
<1>4. Lowest(1) = {a}
  BY <1>2, <1>3 DEF Lowest
<1>5. Successors({a}, a) = {}
  BY <1>1, <1>2 DEF Successors
<1>6. Link(fat, 0, {a}) = [fat EXCEPT ![a] = End]
  <2>1. \A c \in Cluster : c \in {a} \/ c = 0 <=> c = a
    BY Clusters
  <2> QED
    BY <1>5, <2>1 DEF Link
<1> QED
  BY <1>2, <1>4, <1>6 DEF a

LEMMA CreateKeeps ==
  ASSUME Misuse = {}, FilesInvariant, NEW p \in Names, Create(p)
  PROVE  FilesInvariant'
<1> DEFINE a == Min(FreeClusters)
           s == Min(SlotsOf(NoName))
           g == Link(fat, 0, Lowest(1))
           e == [name |-> p, first |-> a, size |-> 0]
           fe == [Closed EXCEPT !.slot = s, !.first = a, !.cur = a, !.write = TRUE]
<1>1. CASE Undefined
  BY <1>1 DEF Undefined, FilesInvariant, TypeOK
<1>2. CASE /\ SlotsOf(NoName) # {} /\ fat' = g
           /\ dir' = [dir EXCEPT ![s] = e]
           /\ fds' = [fds EXCEPT ![p] = fe]
           /\ result' = 0 /\ UNCHANGED phase
  <2>1. /\ FilesSound(fat, dir) /\ fat \in [Cluster -> 0 .. End]
        /\ phase' \in {"defined", "undefined"} /\ result' \in {-1, 0}
    BY <1>2 DEF FilesInvariant, TypeOK
  <2>2. FreeClusters # {}
    BY DEF Create
  <2>3. a \in Cluster /\ fat[a] = 0 /\ g = [fat EXCEPT ![a] = End]
    BY <2>1, <2>2, FirstTaken DEF FreeClusters
  <2>4. s \in Slot /\ dir[s].name = NoName
    <3>1. SlotsOf(NoName) \subseteq Nat
      BY DEF SlotsOf, Slot
    <3>2. s \in SlotsOf(NoName)
      BY <1>2, <3>1, MinIs
    <3> QED
      BY <3>2 DEF SlotsOf
  <2> DEFINE d == [dir EXCEPT ![s] = e]
  <2>5. fat' = g /\ dir' = d /\ fds' = [fds EXCEPT ![p] = fe]
    BY <1>2
  <2> HIDE DEF a, s, g
  <2>6. g \in [Cluster -> 0 .. End] /\ g[a] = End /\ \A c \in Cluster : c # a => g[c] = fat[c]
    BY <2>1, <2>3, Clusters
  <2>7. Reach(g, a) \subseteq {a}
    <3>1. g[a] \notin Cluster
      BY <2>6, Clusters
    <3>2. \A c \in {a} \cap Cluster : g[c] \in Cluster => g[c] \in {a}
      BY <3>1
    <3>3. a \in Cluster => a \in {a}
      OBVIOUS
    <3> HIDE DEF d, e, fe
    <3> QED
      BY ONLY <3>2, <3>3, ReachLeast
  <2>8. FileSound(g, e)
    <3>1. Limit(0) = 1
      <4>1. ClustersFor(0) <= 0 /\ ClustersFor(0) \in Nat
        <5>1. Limit(0) \in Nat \ {0} /\ ClustersFor(0) \in Nat /\ ClusterSize \in Nat \ {0}
          BY Limits, FileAssumption
        <5>2. ClusterSize - 1 \in Nat /\ ClusterSize - 1 < ClusterSize
          BY <5>1
        <5>3. /\ (ClusterSize - 1) \div ClusterSize \in Nat
              /\ ClusterSize - 1 = ClusterSize * ((ClusterSize - 1) \div ClusterSize)
                                    + ((ClusterSize - 1) % ClusterSize)
              /\ (ClusterSize - 1) % ClusterSize \in 0 .. ClusterSize - 1
          BY <5>1, <5>2, Division
        <5> DEFINE q == (ClusterSize - 1) \div ClusterSize
                   r == (ClusterSize - 1) % ClusterSize
        <5>4. q \in Nat /\ ClusterSize - 1 = ClusterSize * q + r /\ r \in Nat
          BY <5>1, <5>3
        <5>5. ClustersFor(0) = q
          <6>1. 0 + ClusterSize - 1 = ClusterSize - 1
            BY <5>1
          <6> QED
            BY <6>1 DEF ClustersFor
        <5> HIDE DEF q, r
        <5>6. q <= 0
          BY <5>1, <5>4
        <5> QED
          BY <5>1, <5>5, <5>6
      <4>2. ClustersFor(0) = 0
        BY <4>1
      <4> QED
        BY <4>2, MaxTwo DEF Limit
    <3>2. Ahead(g, a, 0 + 1) = End
      <4>1. Ahead(g, a, 0) = a
        BY AheadZero
      <4>2. Ahead(g, a, 0 + 1) = NextCluster(g, a)
        BY <4>1, AheadStep
      <4> QED
        BY <2>3, <2>6, <4>2 DEF NextCluster
    <3>3. \A c \in Reach(g, a) : g[c] # 0
      BY <2>6, <2>7, Clusters
    <3>4. e.first = a /\ e.size = 0
      OBVIOUS
    <3>5. Ahead(g, a, Limit(0)) = End
      BY <3>1, <3>2
    <3> HIDE DEF e
    <3> QED
      BY <2>3, <3>3, <3>4, <3>5 DEF FileSound
  <2>9. ASSUME NEW t \in Slot \ {s} PROVE a \notin Reach(fat, dir[t].first)
    <3>1. CASE dir[t].name = NoName
      <4>1. dir[t].first = 0
        BY <2>1, <3>1 DEF FilesSound, Empty
      <4> QED
        BY <4>1, NothingReached, Clusters
    <3>2. CASE dir[t].name # NoName
      <4>1. FileSound(fat, dir[t])
        BY <2>1, <3>2 DEF FilesSound
      <4> QED
        BY <2>3, <4>1 DEF FileSound
    <3> QED
      BY <3>1, <3>2
  <2>10. ASSUME NEW t \in Slot \ {s}
         PROVE  /\ \A c \in Reach(fat, dir[t].first) : g[c] = fat[c]
                /\ Reach(g, e.first) \cap Reach(fat, dir[t].first) = {}
    <3>1. a \notin Reach(fat, dir[t].first)
      BY <2>9
    <3>2. Reach(fat, dir[t].first) \subseteq Cluster
      BY DEF Reach
    <3> QED
      BY <2>6, <2>7, <3>1, <3>2
  <2>11. e \in Entry /\ e.name # NoName
    BY <2>3, FileAssumption DEF Entry, Cluster, NoCluster
  <2>12. fe \in Descriptor /\ fe.slot = s /\ fe.first = a /\ fe.cur = a /\ fe.size = 0
    <3>1. a \in 0 .. NoCluster /\ s \in 0 .. NumSlots
      BY <2>3, <2>4, FileAssumption DEF Slot, Cluster, NoCluster
    <3>2. Closed \in Descriptor /\ Closed.size = 0
      BY ClosedSound DEF OpenSound, Closed
    <3> QED
      BY <3>1, <3>2 DEF Descriptor
  <2>13. e = [name |-> p, first |-> fe.first, size |-> fe.size]
    BY <2>12
  <2> HIDE DEF e, fe
  <2>14. /\ FilesSound(g, d)
         /\ OthersStay(s, g, d)
    BY <2>1, <2>4, <2>6, <2>8, <2>10, <2>11, Replaced DEF OthersStay
  <2>15. d[s] = e
    BY <2>1, <2>4 DEF FilesSound
  <2> HIDE DEF d
  <2>16. OpenSound(g, d, p, fe)
    <3>1. a \in OnChain(g, a)
      BY <2>3, ReachStart DEF OnChain
    <3> QED
      BY <2>4, <2>12, <2>13, <2>15, <3>1 DEF OpenSound
  <2> QED
    BY <2>1, <2>4, <2>5, <2>14, <2>16, OneCall
<1> QED
  BY <1>1, <1>2 DEF Create

LEMMA RenameKeeps ==
  ASSUME Misuse = {}, FilesInvariant, NEW p \in Names, NEW q \in Names, Rename(p, q)
  PROVE  FilesInvariant'
<1> DEFINE s == Min(SlotsOf(p))
           e == [dir[s] EXCEPT !.name = q]
<1>1. CASE Fail
  BY <1>1 DEF Fail, FilesInvariant, TypeOK
<1>2. CASE /\ SlotsOf(p) # {} /\ dir' = [dir EXCEPT ![s].name = q] /\ result' = 0
           /\ UNCHANGED <<fat, fds, phase>>
  <2>1. /\ FilesSound(fat, dir) /\ fat \in [Cluster -> 0 .. End] /\ dir \in [Slot -> Entry]
        /\ phase' \in {"defined", "undefined"} /\ result' \in {-1, 0} /\ fat' = fat
    BY <1>2 DEF FilesInvariant, TypeOK
  <2>2. s \in Slot /\ dir[s].name = p
    <3>1. SlotsOf(p) \subseteq Nat
      BY DEF SlotsOf, Slot
    <3>2. s \in SlotsOf(p)
      BY <1>2, <3>1, MinIs
    <3> QED
      BY <3>2 DEF SlotsOf
  <2>3. fds[p] = Closed
    BY DEF Rename, IsOpen
  <2> DEFINE d == [dir EXCEPT ![s] = e]
  <2>4. dir' = d
    BY <1>2
  <2>5. fds' = [fds EXCEPT ![p] = Closed]
    BY <1>2, <2>3 DEF FilesInvariant, TypeOK
  <2> HIDE DEF s
  <2>6. /\ e \in Entry /\ e.name = q /\ e.first = dir[s].first /\ e.size = dir[s].size
    BY <2>1, <2>2 DEF Entry
  <2>7. FileSound(fat, dir[s]) /\ p # NoName /\ q # NoName
    BY <2>1, <2>2, FileAssumption DEF FilesSound
  <2> HIDE DEF e
  <2>8. FileSound(fat, e)
    BY <2>6, <2>7 DEF FileSound
  <2>9. \A t \in Slot \ {s} : Reach(fat, e.first) \cap Reach(fat, dir[t].first) = {}
    BY <2>1, <2>2, <2>6 DEF FilesSound
  <2>10. /\ FilesSound(fat, d)
         /\ OthersStay(s, fat, d)
    BY <2>1, <2>2, <2>6, <2>7, <2>8, <2>9, Replaced DEF OthersStay
  <2> HIDE DEF d
  <2>11. OpenSound(fat, d, p, Closed)
    BY ClosedSound
  <2> QED
    BY <2>1, <2>2, <2>4, <2>5, <2>10, <2>11, OneCall
<1> QED
  BY <1>1, <1>2 DEF Rename

LEMMA FilesKept ==
  ASSUME Misuse = {}, FilesInvariant, [Next]_vars
  PROVE  FilesInvariant'
<1>1. CASE UNCHANGED vars \/ Halted
  BY <1>1 DEF vars, Halted, FilesInvariant, TypeOK
<1>2. CASE ProgramExits
  <2>1. \A p \in Names : fds'[p] = Closed
    BY <1>2 DEF ProgramExits
  <2>2. \A p \in Names : OpenSound(fat', dir', p, fds'[p])
    BY <2>1, ClosedSound
  <2>3. fds' \in [Names -> Descriptor]
    <3>1. Closed \in Descriptor
      BY ClosedSound DEF OpenSound
    <3> QED
      BY <1>2, <3>1 DEF ProgramExits
  <2> QED
    BY <1>2, <2>2, <2>3 DEF ProgramExits, FilesInvariant, TypeOK
<1>3. ASSUME NEW p \in Names, Call(p) PROVE FilesInvariant'
  <2>1. CASE \E write, append \in BOOLEAN : Open(p, write, append)
    BY <2>1, OpenKeeps
  <2>2. CASE OpenTruncated(p)
    BY <2>2, OpenTruncatedKeeps
  <2>3. CASE Create(p)
    BY <2>3, CreateKeeps
  <2>4. CASE OpenFails(p) \/ NotWritable(p) \/ FtruncateSame(p)
    BY <2>4 DEF OpenFails, NotWritable, FtruncateSame, Fail, FilesInvariant, TypeOK
  <2>5. CASE Close(p)
    <3>1. phase' \in {"defined", "undefined"} /\ result' \in {-1, 0}
      BY <2>5 DEF Close, FilesInvariant, TypeOK
    <3> QED
      BY <2>5, <3>1, ClosedSound, OneDescriptor DEF Close
  <2>6. CASE Fremove(p)
    BY <2>6, FremoveKeeps
  <2>7. CASE \E n \in 0 .. MaxSize : Lseek(p, n) \/ FtruncateDown(p, n) \/ FtruncateUp(p, n)
    <3>1. PICK n \in 0 .. MaxSize : Lseek(p, n) \/ FtruncateDown(p, n) \/ FtruncateUp(p, n)
      BY <2>7
    <3>2. n \in Nat
      BY FileAssumption
    <3> QED
      BY <3>1, <3>2, LseekKeeps, FtruncateDownKeeps, FtruncateUpKeeps
  <2>8. CASE \E n \in 1 .. MaxSize : Read(p, n) \/ Write(p, n)
    <3>1. PICK n \in 1 .. MaxSize : Read(p, n) \/ Write(p, n)
      BY <2>8
    <3>2. n \in Nat
      BY FileAssumption
    <3> QED
      BY <3>1, <3>2, ReadKeeps, WriteCallKeeps
  <2>9. CASE \E q \in Names \ {p} : Rename(p, q)
    BY <2>9, RenameKeeps
  <2> QED
    BY <1>3, <2>1, <2>2, <2>3, <2>4, <2>5, <2>6, <2>7, <2>8, <2>9 DEF Call
<1> QED
  BY <1>1, <1>2, <1>3 DEF Next

(* What holds of the files in every state.                                  *)

\* As long as no file is made smaller by a cluster, renamed while it is open or
\* created on a full card: every file's chain consists of clusters in use that
\* no other file's chain comes to, ends within the clusters its size needs, and
\* holds the position of the descriptor that is open on it.
THEOREM FilesCorrect == Misuse = {} /\ Spec => []FilesInvariant
<1> SUFFICES ASSUME Misuse = {} PROVE Spec => []FilesInvariant
  OBVIOUS
<1>1. Init => FilesInvariant
  BY FilesInitially
<1>2. FilesInvariant /\ [Next]_vars => FilesInvariant'
  BY FilesKept
<1> QED
  BY <1>1, <1>2, PTL DEF Spec

LEMMA OwnedOnce == FilesInvariant => ClustersOwnedOnce
<1> SUFFICES ASSUME FilesInvariant PROVE ClustersOwnedOnce
  OBVIOUS
<1>1. FilesSound(fat, dir)
  BY DEF FilesInvariant
<1>2. \A c : Chain(c) = Reach(fat, c)
  BY ChainReaches
<1>3. ASSUME NEW s \in Slot
      PROVE  \/ dir[s].name = NoName /\ dir[s].first = 0
             \/ FileSound(fat, dir[s]) /\ dir[s].first \in Reach(fat, dir[s].first)
  <2>1. CASE dir[s].name = NoName
    BY <1>1, <2>1 DEF FilesSound, Empty
  <2>2. CASE dir[s].name # NoName
    BY <1>1, <2>2, ReachStart DEF FilesSound, FileSound
  <2> QED
    BY <2>1, <2>2
<1>4. ASSUME NEW a \in Firsts PROVE a = 0 \/ \E s \in Slot : a = dir[s].first
  <2>1. CASE \E s \in Slot : a = dir[s].first
    BY <2>1
  <2>2. CASE \E p \in Names : a = fds[p].first
    <3>1. PICK p \in Names : a = fds[p].first
      BY <2>2
    <3>2. OpenSound(fat, dir, p, fds[p])
      BY DEF FilesInvariant
    <3>3. CASE fds[p] = Closed
      BY <3>1, <3>3 DEF Closed
    <3>4. CASE fds[p] # Closed
      <4>1. fds[p].slot \in Slot /\ dir[fds[p].slot].first = fds[p].first
        BY <3>2, <3>4 DEF OpenSound
      <4> QED
        BY <3>1, <4>1
    <3> QED
      BY <3>3, <3>4
  <2> QED
    BY <2>1, <2>2 DEF Firsts
<1>5. Reach(fat, 0) = {}
  BY NothingReached, Clusters
<1>6. ASSUME NEW a \in Firsts, NEW b \in Firsts, a # b PROVE Chain(a) \cap Chain(b) = {}
  <2>1. CASE a = 0 \/ b = 0
    BY <1>2, <1>5, <2>1
  <2>2. CASE a # 0 /\ b # 0
    <3>1. PICK s \in Slot, t \in Slot : a = dir[s].first /\ b = dir[t].first
      BY <1>4, <2>2
    <3>2. s # t
      BY <1>6, <3>1
    <3>3. Reach(fat, a) \cap Reach(fat, b) = {}
      BY <1>1, <3>1, <3>2 DEF FilesSound
    <3> QED
      BY <1>2, <3>3
  <2> QED
    BY <2>1, <2>2
<1>7. ASSUME NEW a \in Firsts, NEW c \in Chain(a) PROVE fat[c] # 0
  <2>1. c \in Reach(fat, a)
    BY <1>2
  <2>2. a # 0
    BY <1>5, <2>1
  <2>3. PICK s \in Slot : a = dir[s].first
    BY <1>4, <2>2
  <2>4. FileSound(fat, dir[s])
    BY <1>3, <2>2, <2>3
  <2> QED
    BY <2>1, <2>3, <2>4 DEF FileSound
<1>8. ASSUME NEW s \in Slot, NEW t \in Slot, s # t, dir[s].name # NoName
      PROVE  dir[s].first # dir[t].first
  <2>1. dir[s].first \in Reach(fat, dir[s].first)
    BY <1>3, <1>8
  <2>2. Reach(fat, dir[s].first) \cap Reach(fat, dir[t].first) = {}
    BY <1>1, <1>8 DEF FilesSound
  <2> QED
    BY <2>1, <2>2
<1> QED
  BY <1>6, <1>7, <1>8 DEF ClustersOwnedOnce

\* Files that grow and disappear on a card that fills up never share a cluster,
\* and none of theirs is given away again: the lowest free clusters are linked
\* behind the last one of a single file, and removing it frees its own only.
THEOREM NoClusterShared == Misuse = {} /\ Spec => []ClustersOwnedOnce
BY FilesCorrect, OwnedOnce, PTL

\* A descriptor's cluster is one of its own file's, or the end of its chain: a
\* seek from the cluster at hand, a transfer that stops short and a write that
\* links new clusters all leave it there.
THEOREM PositionsInFiles == Misuse = {} /\ Spec => []PositionInFile
<1>1. FilesInvariant => PositionInFile
  <2> SUFFICES ASSUME FilesInvariant, NEW p \in Names, IsOpen(p)
               PROVE  fds[p].cur \in Chain(fds[p].first) \/ Wild(fds[p].cur)
    BY DEF PositionInFile
  <2>1. fds[p].cur \in OnChain(fat, fds[p].first)
    BY DEF FilesInvariant, OpenSound, IsOpen
  <2>2. Wild(End)
    BY Clusters DEF Wild
  <2> QED
    BY <2>1, <2>2, ChainReaches DEF OnChain
<1> QED
  BY <1>1, FilesCorrect, PTL

-----------------------------------------------------------------------------
(* Descriptors and entries, when files may also shrink.  No chain is needed: *)
(* a descriptor has a slot of its own because entries have names, and these  *)
(* stay as they are while the file is open.                                 *)

IsDescriptor(fd) ==
    fd \in [slot : {fd.slot}, first : {fd.first}, cur : {fd.cur}, off : Nat, size : Nat,
            write : {fd.write}]

IsEntry(e) ==
    /\ e = [name |-> e.name, first |-> e.first, size |-> e.size]
    /\ e.first # NoCluster /\ e.size \in Nat

Copies(d, p, fd) ==
    /\ fd.slot \in Slot /\ fd.first # NoCluster
    /\ d[fd.slot] = [name |-> p, first |-> fd.first, size |-> fd.size]

EntriesInvariant ==
    /\ dir = [s \in Slot |-> dir[s]] /\ \A s \in Slot : IsEntry(dir[s])
    /\ fds = [p \in Names |-> fds[p]]
    /\ \A p \in Names : IsDescriptor(fds[p]) /\ (IsOpen(p) => Copies(dir, p, fds[p]))

\* A call that changes at most one entry and one descriptor.
LEMMA OneEntry ==
  ASSUME EntriesInvariant, NEW p \in Names, NEW s \in Slot, dir[s].name \in {p, NoName},
         NEW e, IsEntry(e), dir' = [dir EXCEPT ![s] = e] \/ dir' = dir,
         NEW fe, IsDescriptor(fe), fe # Closed => Copies(dir', p, fe),
         fds' = [fds EXCEPT ![p] = fe]
  PROVE  EntriesInvariant'
<1>1. /\ dir' = [t \in Slot |-> dir'[t]]
      /\ \A t \in Slot : IsEntry(dir'[t]) /\ (t # s => dir'[t] = dir[t])
  BY DEF EntriesInvariant
<1>2. fds' = [q \in Names |-> fds'[q]] /\ \A q \in Names : fds'[q] = IF q = p THEN fe ELSE fds[q]
  BY DEF EntriesInvariant
<1>3. ASSUME NEW q \in Names, q # p, fds[q] # Closed
      PROVE  fds[q].slot # s
  <2>1. Copies(dir, q, fds[q])
    BY <1>3 DEF EntriesInvariant, IsOpen
  <2>2. dir[fds[q].slot].name = q
    BY <2>1 DEF Copies
  <2> QED
    BY <1>3, <2>2, FileAssumption
<1>4. ASSUME NEW q \in Names
      PROVE  IsDescriptor(fds'[q]) /\ (fds'[q] # Closed => Copies(dir', q, fds'[q]))
  <2>1. CASE q = p
    BY <1>2, <2>1
  <2>2. CASE q # p
    BY <1>1, <1>2, <1>3, <2>2 DEF EntriesInvariant, IsOpen, Copies
  <2> QED
    BY <2>1, <2>2
<1> QED
  BY <1>1, <1>2, <1>4 DEF EntriesInvariant, IsOpen

\* A call that changes a descriptor at most.
LEMMA OneMoved ==
  ASSUME EntriesInvariant, NEW p \in Names, UNCHANGED dir,
         NEW fe, IsDescriptor(fe), fe # Closed => Copies(dir, p, fe),
         fds' = [fds EXCEPT ![p] = fe]
  PROVE  EntriesInvariant'
<1>1. fds' = [q \in Names |-> fds'[q]] /\ \A q \in Names : fds'[q] = IF q = p THEN fe ELSE fds[q]
  BY DEF EntriesInvariant
<1> QED
  BY <1>1 DEF EntriesInvariant, IsOpen

LEMMA ClosedIsOne == IsDescriptor(Closed)
BY DEF IsDescriptor, Closed

\* A descriptor that stands elsewhere in its file, or is of another size.
Placed(fd, cur, off, size) == [fd EXCEPT !.cur = cur, !.off = off, !.size = size]

LEMMA Elsewhere ==
  ASSUME NEW fd, IsDescriptor(fd), NEW cur, NEW off \in Nat, NEW size \in Nat
  PROVE  LET g == Placed(fd, cur, off, size)
         IN  IsDescriptor(g) /\ g.slot = fd.slot /\ g.first = fd.first /\ g.size = size
<1> DEFINE g == Placed(fd, cur, off, size)
           slot == fd.slot
           first == fd.first
           was == fd.cur
           write == fd.write
<1>1. fd \in [slot : {slot}, first : {first}, cur : {was}, off : Nat, size : Nat, write : {write}]
  BY DEF IsDescriptor
<1> HIDE DEF slot, first, was, write
<1>2. /\ g \in [slot : {slot}, first : {first}, cur : {cur}, off : Nat, size : Nat, write : {write}]
      /\ g.size = size
  BY <1>1 DEF Placed
<1> HIDE DEF g
<1>3. /\ g.slot = slot /\ g.first = first /\ g.write = write /\ g.cur = cur
  BY <1>2
<1>4. IsDescriptor(g)
  BY <1>2, <1>3 DEF IsDescriptor
<1> QED
  BY <1>2, <1>3, <1>4 DEF g, slot, first

LEMMA AtElsewhere ==
  ASSUME NEW fd, IsDescriptor(fd), NEW new \in Nat
  PROVE  /\ IsDescriptor(At(fd, new)) /\ At(fd, new).slot = fd.slot
         /\ At(fd, new).first = fd.first /\ At(fd, new).size = fd.size
<1> DEFINE cur == Sought(fd, new)
<1>1. At(fd, new) = [fd EXCEPT !.off = new, !.cur = cur]
  BY DEF At
<1> HIDE DEF cur
<1>2. At(fd, new) = Placed(fd, cur, new, fd.size) /\ fd.size \in Nat
  BY <1>1 DEF Placed, IsDescriptor
<1> QED
  BY <1>2, Elsewhere

LEMMA MovedElsewhere ==
  ASSUME NEW f, NEW fd, IsDescriptor(fd), NEW n \in Nat
  PROVE  /\ IsDescriptor(Moved(f, fd, n)) /\ Moved(f, fd, n).slot = fd.slot
         /\ Moved(f, fd, n).first = fd.first /\ Moved(f, fd, n).size = fd.size
         /\ Moved(f, fd, n).off \in Nat
<1> DEFINE cur == Ahead(f, fd.cur, Reached(f, fd, n))
           off == fd.off + IF Transferred(f, fd, n) THEN n
                           ELSE FirstPart(fd, n) + ClusterSize * Reached(f, fd, n)
<1>1. off \in Nat
  BY Transfers DEF IsDescriptor
<1>2. Moved(f, fd, n) = [fd EXCEPT !.cur = cur, !.off = off]
  BY DEF Moved, IsDescriptor
<1> HIDE DEF off, cur
<1>3. Moved(f, fd, n) = Placed(fd, cur, off, fd.size) /\ fd.size \in Nat
  BY <1>2 DEF Placed, IsDescriptor
<1>4. Moved(f, fd, n).off = off
  BY <1>2 DEF IsDescriptor
<1> QED
  BY <1>1, <1>3, <1>4, Elsewhere

\* A file of another size, in its descriptor and in its entry.
LEMMA SizeWritten ==
  ASSUME EntriesInvariant, NEW p, NEW fd, IsDescriptor(fd), fd.slot \in Slot,
         fd.first # NoCluster, dir[fd.slot].name = p, dir[fd.slot].first = fd.first
  PROVE  /\ \E e : IsEntry(e) /\ Updated(fd) = [dir EXCEPT ![fd.slot] = e]
         /\ Copies(Updated(fd), p, fd)
<1> DEFINE e == [name |-> p, first |-> fd.first, size |-> fd.size]
<1>1. IsEntry(dir[fd.slot])
  BY DEF EntriesInvariant
<1>2. [dir[fd.slot] EXCEPT !.size = fd.size] = e
  BY <1>1 DEF IsEntry
<1>3. Updated(fd) = [dir EXCEPT ![fd.slot] = e]
  BY <1>2 DEF Updated
<1>4. IsEntry(e)
  BY DEF IsEntry, IsDescriptor
<1> HIDE DEF e
<1>5. Updated(fd)[fd.slot] = e
  BY <1>3 DEF EntriesInvariant
<1> QED
  BY <1>3, <1>4, <1>5 DEF Copies, e

\* Writing keeps a descriptor true, whatever it makes of the chain.
LEMMA WrittenCopies ==
  ASSUME EntriesInvariant, NEW p \in Names, NEW fd, IsDescriptor(fd), Copies(dir, p, fd),
         NEW n \in Nat, NEW refused \in BOOLEAN
  PROVE  LET w == Written(fd, n, refused)
         IN  /\ IsDescriptor(w.fd) /\ Copies(w.dir, p, w.fd)
             /\ \E e : IsEntry(e) /\ w.dir \in {dir, [dir EXCEPT ![fd.slot] = e]}
<1> DEFINE w == Written(fd, n, refused)
           f == GrownFat(fd, n)
           g == Grown(fd, n)
           size == Max({fd.size, fd.off + n})
           cur == IF AtEnd(fd, n) THEN NextCluster(f, fd.cur) ELSE fd.cur
<1>1. /\ fd.slot \in Slot /\ fd.first # NoCluster /\ fd.size \in Nat /\ fd.off \in Nat
      /\ dir[fd.slot] = [name |-> p, first |-> fd.first, size |-> fd.size]
  BY DEF Copies, IsDescriptor
<1>2. IsEntry(dir[fd.slot]) /\ dir = [dir EXCEPT ![fd.slot] = dir[fd.slot]]
  BY <1>1 DEF EntriesInvariant
<1>3. CASE GrowFails(fd, n)
  <2>1. w.dir = dir /\ w.fd = fd
    BY <1>3 DEF Written
  <2> QED
    BY <1>2, <2>1
<1>4. CASE ~GrowFails(fd, n)
  <2>1. size = IF Grows(fd, n) THEN fd.off + n ELSE fd.size
    BY <1>1, MaxTwo DEF Grows
  <2>2. g = [fd EXCEPT !.size = size, !.cur = cur]
    BY DEF Grown, IsDescriptor
  <2> HIDE DEF size, cur, g
  <2>3. /\ IsDescriptor(g) /\ g.slot = fd.slot /\ g.first = fd.first /\ g.size = size
    <3>1. size \in Nat
      BY <1>1, <2>1
    <3>2. g = Placed(fd, cur, fd.off, size)
      BY <2>2 DEF Placed, IsDescriptor
    <3> QED
      BY <1>1, <3>1, <3>2, Elsewhere
  <2> DEFINE stops == refused /\ Wild(g.cur)
             after == IF stops THEN g ELSE Moved(f, g, n)
             d == IF Grows(fd, n) THEN Updated(g) ELSE dir
  <2>4. w.dir = d /\ w.fd = after
    BY <1>4 DEF Written, g
  <2> HIDE DEF f, w
  <2>5. Copies(d, p, g) /\ \E e : IsEntry(e) /\ d \in {dir, [dir EXCEPT ![fd.slot] = e]}
    <3>1. CASE Grows(fd, n)
      <4>1. dir[g.slot].name = p /\ dir[g.slot].first = g.first
        BY <1>1, <2>3
      <4>2. /\ \E e : IsEntry(e) /\ Updated(g) = [dir EXCEPT ![g.slot] = e]
            /\ Copies(Updated(g), p, g)
        BY <1>1, <2>3, <4>1, SizeWritten
      <4> QED
        BY <2>3, <3>1, <4>2
    <3>2. CASE ~Grows(fd, n)
      BY <1>1, <1>2, <2>1, <2>3, <3>2 DEF Copies
    <3> QED
      BY <3>1, <3>2
  <2> HIDE DEF d
  <2>6. /\ IsDescriptor(after) /\ after.slot = g.slot /\ after.first = g.first
        /\ after.size = g.size
    BY <2>3, MovedElsewhere
  <2> HIDE DEF after
  <2>7. Copies(d, p, after)
    BY <2>5, <2>6 DEF Copies
  <2> QED
    BY <2>4, <2>5, <2>6, <2>7 DEF w
<1> QED
  BY <1>3, <1>4

\* An open file's descriptor.
LEMMA OpenCopies ==
  ASSUME EntriesInvariant, NEW p \in Names, IsOpen(p)
  PROVE  /\ IsDescriptor(fds[p]) /\ Copies(dir, p, fds[p])
         /\ fds[p].slot \in Slot /\ dir[fds[p].slot].name = p
         /\ dir[fds[p].slot].first = fds[p].first /\ fds[p].first # NoCluster
         /\ fds[p].size \in Nat /\ fds[p].off \in Nat
<1>1. IsDescriptor(fds[p]) /\ Copies(dir, p, fds[p])
  BY DEF EntriesInvariant
<1> QED
  BY <1>1 DEF Copies, IsDescriptor

\* The first entry of a name.
LEMMA FirstSlot ==
  ASSUME EntriesInvariant, NEW name, SlotsOf(name) # {}
  PROVE  LET s == Min(SlotsOf(name))
         IN  s \in Slot /\ IsEntry(dir[s]) /\ dir[s].name = name
<1>1. SlotsOf(name) \subseteq Nat
  BY DEF SlotsOf, Slot
<1>2. Min(SlotsOf(name)) \in SlotsOf(name)
  BY <1>1, MinIs
<1> QED
  BY <1>2 DEF SlotsOf, EntriesInvariant

LEMMA FoundCopies ==
  ASSUME EntriesInvariant, NEW p \in Names, NEW write, SlotsOf(p) # {}
  PROVE  LET fd == Found(p, write)
         IN  /\ IsDescriptor(fd) /\ Copies(dir, p, fd) /\ fd.slot \in Slot
             /\ dir[fd.slot].name = p /\ dir[fd.slot].first = fd.first
             /\ fd.first # NoCluster /\ fd.size \in Nat
<1> DEFINE s == Min(SlotsOf(p))
           fd == Found(p, write)
<1>1. s \in Slot /\ IsEntry(dir[s]) /\ dir[s].name = p
  BY FirstSlot
<1>2. fd = [slot |-> s, first |-> dir[s].first, cur |-> dir[s].first, off |-> 0,
            size |-> dir[s].size, write |-> write]
  BY DEF Found
<1> HIDE DEF s, fd
<1>3. /\ IsDescriptor(fd) /\ fd.slot = s /\ fd.first = dir[s].first /\ fd.size = dir[s].size
  BY <1>1, <1>2 DEF IsDescriptor, IsEntry
<1>4. Copies(dir, p, fd)
  BY <1>1, <1>3 DEF Copies, IsEntry
<1> QED
  BY <1>1, <1>3, <1>4 DEF IsEntry, fd

\* A descriptor of a smaller file.
LEMMA SmallerCopies ==
  ASSUME EntriesInvariant, NEW p \in Names, NEW fd, IsDescriptor(fd), Copies(dir, p, fd),
         NEW new \in Nat
  PROVE  /\ IsDescriptor(Shrunk(fd, new)) /\ Shrunk(fd, new).first = fd.first
         /\ Shrunk(fd, new).slot = fd.slot /\ Copies(Updated(Shrunk(fd, new)), p, Shrunk(fd, new))
         /\ \E e : IsEntry(e) /\ Updated(Shrunk(fd, new)) = [dir EXCEPT ![fd.slot] = e]
<1> DEFINE kept == Kept(new)
           g == Shrunk(fd, new)
<1>1. kept \in Nat
  BY MaxTwo DEF Kept
<1>2. g = [fd EXCEPT !.size = kept]
  BY DEF Shrunk
<1> HIDE DEF kept, g
<1>3. IsDescriptor(g) /\ g.slot = fd.slot /\ g.first = fd.first
  BY <1>1, <1>2 DEF IsDescriptor
<1>4. g.slot \in Slot /\ g.first # NoCluster /\ dir[g.slot].name = p /\ dir[g.slot].first = g.first
  BY <1>3 DEF Copies
<1>5. /\ \E e : IsEntry(e) /\ Updated(g) = [dir EXCEPT ![g.slot] = e]
      /\ Copies(Updated(g), p, g)
  BY <1>3, <1>4, SizeWritten
<1> QED
  BY <1>3, <1>5 DEF g

-----------------------------------------------------------------------------
(* The calls, on descriptors and entries alone.                             *)

LEMMA OpenCallCopies ==
  ASSUME EntriesInvariant, NEW p \in Names, NEW write \in BOOLEAN, NEW append \in BOOLEAN,
         Open(p, write, append)
  PROVE  EntriesInvariant'
<1> DEFINE fd == Found(p, write)
           fe == IF append THEN At(fd, fd.size) ELSE fd
<1>1. CASE Fail \/ Undefined
  BY <1>1 DEF Fail, Undefined, EntriesInvariant, IsOpen
<1>2. CASE fds' = [fds EXCEPT ![p] = fe] /\ UNCHANGED dir
  <2>1. IsDescriptor(fd) /\ Copies(dir, p, fd) /\ fd.size \in Nat
    BY FoundCopies DEF Open
  <2> HIDE DEF fd
  <2>2. /\ IsDescriptor(fe) /\ fe.slot = fd.slot /\ fe.first = fd.first /\ fe.size = fd.size
    BY <2>1, AtElsewhere
  <2> HIDE DEF fe
  <2>3. Copies(dir, p, fe)
    BY <2>1, <2>2 DEF Copies
  <2> QED
    BY <1>2, <2>2, <2>3, OneMoved
<1> QED
  BY <1>1, <1>2 DEF Open

LEMMA OpenTruncatedCopies ==
  ASSUME EntriesInvariant, NEW p \in Names, OpenTruncated(p)
  PROVE  EntriesInvariant'
<1> DEFINE fd == Found(p, TRUE)
           fe == Shrunk(fd, 1)
<1>1. CASE Fail \/ Undefined
  BY <1>1 DEF Fail, Undefined, EntriesInvariant, IsOpen
<1>2. CASE dir' = Updated(fe) /\ fds' = [fds EXCEPT ![p] = fe]
  <2>1. /\ IsDescriptor(fd) /\ Copies(dir, p, fd) /\ fd.slot \in Slot
        /\ dir[fd.slot].name = p
    BY FoundCopies DEF OpenTruncated
  <2> HIDE DEF fd
  <2>2. /\ IsDescriptor(fe) /\ Copies(Updated(fe), p, fe)
        /\ \E e : IsEntry(e) /\ Updated(fe) = [dir EXCEPT ![fd.slot] = e]
    BY <2>1, SmallerCopies
  <2> HIDE DEF fe
  <2> QED
    BY <1>2, <2>1, <2>2, OneEntry
<1> QED
  BY <1>1, <1>2 DEF OpenTruncated

LEMMA CreateCopies ==
  ASSUME EntriesInvariant, "createFull" \notin Misuse, NEW p \in Names, Create(p)
  PROVE  EntriesInvariant'
<1> DEFINE first == IF FreeClusters = {} THEN NoCluster ELSE Min(FreeClusters)
           slot == Min(SlotsOf(NoName))
           e == [name |-> p, first |-> first, size |-> 0]
           fe == [Closed EXCEPT !.slot = slot, !.first = first, !.cur = first, !.write = TRUE]
<1>1. CASE Undefined
  BY <1>1 DEF Undefined, EntriesInvariant, IsOpen
<1>2. CASE /\ SlotsOf(NoName) # {} /\ dir' = [dir EXCEPT ![slot] = e]
           /\ fds' = [fds EXCEPT ![p] = fe]
  <2>1. slot \in Slot /\ dir[slot].name = NoName
    BY <1>2, FirstSlot
  <2>2. first \in Cluster
    <3>1. FreeClusters # {}
      BY DEF Create
    <3>2. FreeClusters \subseteq Cluster /\ FreeClusters \subseteq Nat
      BY Clusters DEF FreeClusters
    <3> QED
      BY <3>1, <3>2, MinIs
  <2>3. first # NoCluster
    BY <2>2, FileAssumption DEF Cluster, NoCluster
  <2> HIDE DEF first, slot
  <2>4. IsEntry(e)
    BY <2>3 DEF IsEntry
  <2> DEFINE yes == TRUE
  <2>5. fe = [Closed EXCEPT !.slot = slot, !.first = first, !.cur = first, !.write = yes]
    OBVIOUS
  <2> HIDE DEF fe, yes
  <2>6. IsDescriptor(fe) /\ fe.slot = slot /\ fe.first = first /\ fe.size = 0
    <3>1. /\ fe \in [slot : {slot}, first : {first}, cur : {first}, off : Nat, size : Nat,
                      write : {yes}]
          /\ fe.size = 0
      BY <2>5 DEF Closed
    <3>2. fe.slot = slot /\ fe.first = first /\ fe.cur = first /\ fe.write = yes
      BY <3>1
    <3> QED
      BY <3>1, <3>2 DEF IsDescriptor
  <2>7. dir'[slot] = e
    BY <1>2, <2>1 DEF EntriesInvariant
  <2>8. Copies(dir', p, fe)
    BY <2>1, <2>3, <2>6, <2>7 DEF Copies
  <2> HIDE DEF e
  <2> QED
    BY <1>2, <2>1, <2>4, <2>6, <2>8, OneEntry
<1> QED
  BY <1>1, <1>2 DEF Create

LEMMA LseekCopies ==
  ASSUME EntriesInvariant, NEW p \in Names, NEW new \in Nat, Lseek(p, new)
  PROVE  EntriesInvariant'
<1> DEFINE fe == At(fds[p], new)
<1>1. CASE Fail \/ Undefined
  BY <1>1 DEF Fail, Undefined, EntriesInvariant, IsOpen
<1>2. CASE fds' = [fds EXCEPT ![p] = At(@, new)] /\ UNCHANGED dir
  <2>1. IsDescriptor(fds[p]) /\ Copies(dir, p, fds[p])
    BY OpenCopies DEF Lseek
  <2>2. /\ IsDescriptor(fe) /\ fe.slot = fds[p].slot /\ fe.first = fds[p].first
        /\ fe.size = fds[p].size
    BY <2>1, AtElsewhere
  <2>3. fds' = [fds EXCEPT ![p] = fe]
    BY <1>2 DEF EntriesInvariant
  <2> HIDE DEF fe
  <2>4. Copies(dir, p, fe)
    BY <2>1, <2>2 DEF Copies
  <2> QED
    BY <1>2, <2>2, <2>3, <2>4, OneMoved
<1> QED
  BY <1>1, <1>2 DEF Lseek

LEMMA ReadCopies ==
  ASSUME EntriesInvariant, NEW p \in Names, NEW n \in Nat, Read(p, n)
  PROVE  EntriesInvariant'
<1> DEFINE fd == fds[p]
           m == Readable(fd, n)
           twice == IF Moves(fd, m) > 0 THEN m ELSE 0
           moved == Moved(fat, fd, m)
           after == [moved EXCEPT !.off = @ + twice]
<1>1. CASE Fail \/ Undefined
  BY <1>1 DEF Fail, Undefined, EntriesInvariant, IsOpen
<1>2. CASE UNCHANGED dir /\ \E fe \in {after, moved} : fds' = [fds EXCEPT ![p] = fe]
  <2>1. IsDescriptor(fd) /\ Copies(dir, p, fd) /\ fd.size \in Nat /\ fd.off \in Nat
    BY OpenCopies DEF Read
  <2> HIDE DEF fd
  <2>2. m \in Nat
    BY <2>1, MinTwo DEF Readable
  <2>3. twice \in Nat
    BY <2>2
  <2>4. /\ IsDescriptor(moved) /\ moved.slot = fd.slot
        /\ moved.first = fd.first /\ moved.size = fd.size /\ moved.off \in Nat
    BY <2>1, <2>2, MovedElsewhere
  <2> HIDE DEF m, twice, moved
  <2>5. /\ IsDescriptor(after) /\ after.slot = fd.slot
        /\ after.first = fd.first /\ after.size = fd.size
    BY <2>3, <2>4 DEF IsDescriptor
  <2> HIDE DEF after
  <2>6. Copies(dir, p, moved) /\ Copies(dir, p, after)
    BY <2>1, <2>4, <2>5 DEF Copies
  <2> QED
    BY <1>2, <2>4, <2>5, <2>6, OneMoved
<1> QED
  BY <1>1, <1>2 DEF Read

LEMMA WriteCopies ==
  ASSUME EntriesInvariant, NEW p \in Names, NEW n \in Nat, Write(p, n)
  PROVE  EntriesInvariant'
<1>1. CASE Undefined
  BY <1>1 DEF Undefined, EntriesInvariant, IsOpen
<1>2. ASSUME NEW refused \in BOOLEAN,
             dir' = Written(fds[p], n, refused).dir,
             fds' = [fds EXCEPT ![p] = Written(fds[p], n, refused).fd]
      PROVE  EntriesInvariant'
  <2> DEFINE w == Written(fds[p], n, refused)
  <2>1. /\ IsDescriptor(fds[p]) /\ Copies(dir, p, fds[p])
        /\ fds[p].slot \in Slot /\ dir[fds[p].slot].name = p
    BY OpenCopies DEF Write, Writable
  <2>2. /\ IsDescriptor(w.fd) /\ Copies(w.dir, p, w.fd)
        /\ \E e : IsEntry(e) /\ w.dir \in {dir, [dir EXCEPT ![fds[p].slot] = e]}
    BY <2>1, WrittenCopies
  <2>3. dir' = w.dir /\ fds' = [fds EXCEPT ![p] = w.fd]
    BY SMTT(40), <1>2
  <2> HIDE DEF w
  <2> QED
    BY ZenonT(90), <2>1, <2>2, <2>3, OneEntry
<1> QED
  BY <1>1, <1>2 DEF Write

LEMMA FtruncateUpCopies ==
  ASSUME EntriesInvariant, NEW p \in Names, NEW new \in Nat, FtruncateUp(p, new)
  PROVE  EntriesInvariant'
<1> DEFINE fd == fds[p]
           n == new - fd.size
           sought == IF SeekFails(fd, fd.size) THEN fd ELSE At(fd, fd.size)
<1>1. CASE Undefined
  BY <1>1 DEF Undefined, EntriesInvariant, IsOpen
<1>2. ASSUME NEW refused \in BOOLEAN,
             dir' = Written(sought, n, refused).dir,
             fds' = [fds EXCEPT ![p] = [Written(sought, n, refused).fd
                                           EXCEPT !.off = fd.off, !.cur = fd.cur]]
      PROVE  EntriesInvariant'
  <2> DEFINE w == Written(sought, n, refused)
             fe == [w.fd EXCEPT !.off = fd.off, !.cur = fd.cur]
  <2>1. /\ IsDescriptor(fd) /\ Copies(dir, p, fd)
        /\ fd.slot \in Slot /\ dir[fd.slot].name = p /\ fd.size \in Nat /\ fd.off \in Nat
        /\ new > fd.size
    BY OpenCopies DEF FtruncateUp, Writable
  <2>2. fds' = [fds EXCEPT ![p] = fe] /\ dir' = w.dir
    BY <1>2
  <2> HIDE DEF fd
  <2>3. n \in Nat
    BY <2>1
  <2>4. IsDescriptor(sought) /\ sought.slot = fd.slot /\ Copies(dir, p, sought)
    BY <2>1, AtElsewhere DEF Copies
  <2> HIDE DEF sought, n
  <2>5. /\ IsDescriptor(w.fd) /\ Copies(w.dir, p, w.fd)
        /\ \E e : IsEntry(e) /\ w.dir \in {dir, [dir EXCEPT ![fd.slot] = e]}
    BY <2>3, <2>4, WrittenCopies
  <2> HIDE DEF w
  <2>6. /\ IsDescriptor(fe) /\ fe.slot = w.fd.slot /\ fe.first = w.fd.first
        /\ fe.size = w.fd.size
    <3> DEFINE cur == fd.cur
               off == fd.off
    <3>1. off \in Nat /\ fe = [w.fd EXCEPT !.off = off, !.cur = cur]
      BY <2>1
    <3> HIDE DEF cur, off, fe
    <3>2. fe = Placed(w.fd, cur, off, w.fd.size) /\ w.fd.size \in Nat
      BY <2>5, <3>1 DEF Placed, IsDescriptor
    <3> QED
      BY <2>5, <3>1, <3>2, Elsewhere
  <2> HIDE DEF fe
  <2>7. Copies(w.dir, p, fe)
    BY <2>5, <2>6 DEF Copies
  <2> QED
    BY <2>1, <2>2, <2>5, <2>6, <2>7, OneEntry
<1> QED
  BY ZenonT(90), <1>1, <1>2 DEF FtruncateUp

LEMMA FtruncateDownCopies ==
  ASSUME EntriesInvariant, NEW p \in Names, NEW new \in Nat, FtruncateDown(p, new)
  PROVE  EntriesInvariant'
<1> DEFINE fd == fds[p]
           fails == ShrinkFails(fd, Kept(new))
           after == IF fails THEN fd ELSE Shrunk(fd, new)
           fe == IF fd.off >= new THEN [after EXCEPT !.off = 0, !.cur = fd.first] ELSE after
<1>1. CASE Undefined
  BY <1>1 DEF Undefined, EntriesInvariant, IsOpen
<1>2. CASE /\ dir' = IF fails THEN dir ELSE Updated(after)
           /\ fds' = [fds EXCEPT ![p] = fe]
  <2>1. /\ IsDescriptor(fd) /\ Copies(dir, p, fd)
        /\ fd.slot \in Slot /\ dir[fd.slot].name = p
    BY OpenCopies DEF FtruncateDown, Writable
  <2>2. IsEntry(dir[fd.slot])
    BY <2>1 DEF EntriesInvariant
  <2> HIDE DEF fd
  <2>3. /\ IsDescriptor(after) /\ Copies(dir', p, after) /\ after.first = fd.first
        /\ \E e : IsEntry(e) /\ (dir' = [dir EXCEPT ![fd.slot] = e] \/ dir' = dir)
    <3>1. CASE fails
      BY <1>2, <2>1, <2>2, <3>1
    <3>2. CASE ~fails
      <4>1. after = Shrunk(fd, new) /\ dir' = Updated(Shrunk(fd, new))
        BY <1>2, <3>2
      <4> QED
        BY <2>1, <4>1, SmallerCopies
    <3> QED
      BY <3>1, <3>2
  <2> HIDE DEF fails, after
  <2>4. IsDescriptor(fe) /\ Copies(dir', p, fe)
    <3> DEFINE cur == fd.first
               zero == 0
               g == Placed(after, cur, zero, after.size)
    <3>1. fe = (IF fd.off >= new THEN [after EXCEPT !.off = zero, !.cur = cur] ELSE after)
      OBVIOUS
    <3>2. zero \in Nat
      OBVIOUS
    <3> HIDE DEF fe, zero, cur
    <3>3. g = [after EXCEPT !.off = zero, !.cur = cur] /\ after.size \in Nat
      BY <2>3, <3>2 DEF Placed, IsDescriptor
    <3>4. IsDescriptor(g) /\ g.slot = after.slot /\ g.first = after.first /\ g.size = after.size
      BY <2>3, <3>2, <3>3, Elsewhere
    <3> HIDE DEF g
    <3> QED
      BY <2>3, <3>1, <3>3, <3>4 DEF Copies
  <2> HIDE DEF fe
  <2> QED
    BY <1>2, <2>1, <2>3, <2>4, OneEntry
<1> QED
  BY <1>1, <1>2 DEF FtruncateDown

LEMMA FremoveCopies ==
  ASSUME EntriesInvariant, NEW p \in Names, Fremove(p)
  PROVE  EntriesInvariant'
<1>1. CASE Undefined
  BY <1>1 DEF Undefined, EntriesInvariant, IsOpen
<1>2. CASE /\ fds' = [fds EXCEPT ![p] = Closed]
           /\ dir' = [dir EXCEPT ![fds[p].slot] = Empty] \/ dir' = dir
  <2>1. fds[p].slot \in Slot /\ dir[fds[p].slot].name = p
    BY OpenCopies DEF Fremove, Writable
  <2>2. IsEntry(Empty)
    BY FileAssumption DEF IsEntry, Empty, NoCluster
  <2> QED
    BY <1>2, <2>1, <2>2, ClosedIsOne, OneEntry
<1> QED
  BY <1>1, <1>2 DEF Fremove

LEMMA RenameCopies ==
  ASSUME EntriesInvariant, "renameOpen" \notin Misuse, NEW p \in Names, NEW q \in Names,
         Rename(p, q)
  PROVE  EntriesInvariant'
<1> DEFINE s == Min(SlotsOf(p))
           e == [dir[s] EXCEPT !.name = q]
<1>1. CASE Fail
  BY <1>1 DEF Fail, EntriesInvariant, IsOpen
<1>2. CASE /\ SlotsOf(p) # {} /\ dir' = [dir EXCEPT ![s].name = q] /\ UNCHANGED fds
  <2>1. s \in Slot /\ IsEntry(dir[s]) /\ dir[s].name = p
    BY <1>2, FirstSlot
  <2>2. IsEntry(e)
    BY <2>1 DEF IsEntry
  <2>3. dir' = [dir EXCEPT ![s] = e]
    BY <1>2, <2>1 DEF EntriesInvariant
  <2>4. fds[p] = Closed /\ fds' = [fds EXCEPT ![p] = Closed]
    BY <1>2 DEF Rename, IsOpen, EntriesInvariant
  <2> HIDE DEF e, s
  <2> QED
    BY <2>1, <2>2, <2>3, <2>4, ClosedIsOne, OneEntry
<1> QED
  BY <1>1, <1>2 DEF Rename

LEMMA EntriesKept ==
  ASSUME Misuse \subseteq {"shrink"}, EntriesInvariant, [Next]_vars
  PROVE  EntriesInvariant'
<1>1. MaxSize \in Nat /\ "createFull" \notin Misuse /\ "renameOpen" \notin Misuse
  BY FileAssumption
<1>2. ASSUME NEW p \in Names, Call(p)
      PROVE  EntriesInvariant'
  <2>1. CASE \E write, append \in BOOLEAN : Open(p, write, append)
    BY <2>1, OpenCallCopies
  <2>2. CASE OpenTruncated(p)
    BY <2>2, OpenTruncatedCopies
  <2>3. CASE Create(p)
    BY <1>1, <2>3, CreateCopies
  <2>4. CASE OpenFails(p) \/ NotWritable(p) \/ FtruncateSame(p)
    BY <2>4 DEF OpenFails, NotWritable, FtruncateSame, Fail, EntriesInvariant, IsOpen
  <2>5. CASE Close(p)
    BY <2>5, ClosedIsOne, OneMoved DEF Close
  <2>6. CASE Fremove(p)
    BY <2>6, FremoveCopies
  <2>7. CASE \E n \in 0 .. MaxSize : Lseek(p, n) \/ FtruncateDown(p, n) \/ FtruncateUp(p, n)
    BY <1>1, <2>7, LseekCopies, FtruncateDownCopies, FtruncateUpCopies
  <2>8. CASE \E n \in 1 .. MaxSize : Read(p, n) \/ Write(p, n)
    BY <1>1, <2>8, ReadCopies, WriteCopies
  <2>9. CASE \E q \in Names \ {p} : Rename(p, q)
    BY <1>1, <2>9, RenameCopies
  <2> QED
    BY <1>2, <2>1, <2>2, <2>3, <2>4, <2>5, <2>6, <2>7, <2>8, <2>9 DEF Call
<1>3. CASE ProgramExits
  BY <1>3, ClosedIsOne DEF ProgramExits, EntriesInvariant, IsOpen
<1>4. CASE Halted \/ UNCHANGED vars
  BY <1>4 DEF Halted, vars, EntriesInvariant, IsOpen
<1> QED
  BY <1>2, <1>3, <1>4 DEF Next

\* An open descriptor's copy of its directory entry (its place on the card, the
\* first cluster and the size) is what the directory holds, whatever is done
\* with other files, and also when files are made smaller.  Two calls are left
\* out: the rename of a file that is open, which does part the two, and the
\* creation of a file on a full card, whose entry the next write deletes.
THEOREM DescriptorsTrue == Misuse \subseteq {"shrink"} /\ Spec => []DescriptorsAgree
<1> SUFFICES ASSUME Misuse \subseteq {"shrink"} PROVE Spec => []DescriptorsAgree
  OBVIOUS
<1>1. Init => EntriesInvariant
  BY ClosedIsOne, FileAssumption DEF Init, EntriesInvariant, IsOpen, IsEntry, Empty, NoCluster
<1>2. EntriesInvariant /\ [Next]_vars => EntriesInvariant'
  BY EntriesKept
<1>3. EntriesInvariant => DescriptorsAgree
  BY DEF EntriesInvariant, Copies, DescriptorsAgree
<1> QED
  BY <1>1, <1>2, <1>3, PTL DEF Spec

=============================================================================
