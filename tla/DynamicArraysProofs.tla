------------------------ MODULE DynamicArraysProofs ------------------------
(***************************************************************************)
(* Proofs about BlockHeap and DynamicArrays: the allocator for a region of *)
(* any size and any requests, the sorted arrays for any entries and any    *)
(* length.  The search is a recursive function: that it is defined, and    *)
(* what it returns, is shown by induction on the width of its bounds, with *)
(* the induction stated on sets of numbers.                                *)
(***************************************************************************)
EXTENDS DynamicArrays, SequenceTheorems, FiniteSetTheorems, WellFoundedInduction, TLAPS

-----------------------------------------------------------------------------
(* The heap.                                                                *)

Blocks == 0 .. Words - 1

HeapTypes ==
    /\ control \in [Blocks -> Word]
    /\ held \subseteq [start : Nat, size : Nat \ {0}]

\* The words c say exactly what the allocations H own.
Owned(c, H) ==
    /\ \A h \in H :
          /\ h.start + h.size <= Total
          /\ c[h.start] = "start"
          /\ \A i \in h.start + 1 .. h.start + h.size - 1 : c[i] \in {"middle", "end"}
    /\ \A g, h \in H : g # h => Span(g) \cap Span(h) = {}
    /\ \A b \in Blocks : (\A h \in H : b \notin Span(h)) => c[b] = "free"

LEMMA OwnedOnce == BlocksOwnedOnce <=> Owned(control, held)
BY DEF BlocksOwnedOnce, Owned, Blocks

\* The words with a span of blocks freed.
Cleared(c, span) == [i \in Blocks |-> IF i \in span THEN "free" ELSE c[i]]

LEMMA SpanBlocks ==
  ASSUME NEW c, NEW H \in SUBSET [start : Nat, size : Nat \ {0}], Owned(c, H), NEW h \in H
  PROVE  /\ Span(h) \subseteq 0 .. Total - 1 /\ Span(h) \subseteq Blocks
         /\ \A i \in Span(h) : c[i] # "free"
         /\ h.start \in Span(h)
<1>1. /\ h.start \in Nat /\ h.size \in Nat \ {0} /\ h.start + h.size <= Total
      /\ Span(h) = h.start .. h.start + h.size - 1
  BY DEF Owned, Span
<1>2. Total \in Nat /\ Words \in Nat /\ Words > Total
  BY HeapAssumption
<1>3. ASSUME NEW i \in Span(h)
      PROVE  i = h.start \/ i \in h.start + 1 .. h.start + h.size - 1
  BY <1>1, <1>3
<1> QED
  BY <1>1, <1>2, <1>3 DEF Owned, Blocks

\* A free's loop clears the allocation it starts at, all of it and no more.
LEMMA FreedSpan ==
  ASSUME HeapTypes, BlocksOwnedOnce, NEW h \in held
  PROVE  Freed(h.start) = Span(h)
<1>1. /\ h.start \in Nat /\ h.size \in Nat \ {0} /\ h.start + h.size <= Total
      /\ Span(h) = h.start .. h.start + h.size - 1
  BY DEF HeapTypes, BlocksOwnedOnce, Span
<1>2. Total \in Nat /\ Words \in Nat /\ Words > Total
  BY HeapAssumption
<1> DEFINE e == h.start + h.size
<1>3. control[e] \in {"start", "free"}
  <2>1. e \in Blocks
    BY <1>1, <1>2 DEF Blocks
  <2>2. CASE \A g \in held : e \notin Span(g)
    BY <2>1, <2>2 DEF BlocksOwnedOnce, Blocks
  <2>3. CASE \E g \in held : e \in Span(g)
    <3>1. PICK g \in held : e \in Span(g)
      BY <2>3
    <3>2. g.start \in Nat /\ g.size \in Nat \ {0} /\ Span(g) = g.start .. g.start + g.size - 1
      BY DEF HeapTypes, Span
    <3>3. e \notin Span(h) /\ e - 1 \in Span(h)
      BY <1>1
    <3>4. g # h
      BY <3>1, <3>3
    <3>5. e - 1 \notin Span(g)
      BY <3>3, <3>4 DEF BlocksOwnedOnce
    <3>6. e = g.start
      BY <1>1, <3>1, <3>2, <3>5
    <3> QED
      BY <3>6 DEF BlocksOwnedOnce
  <2> QED
    BY <2>2, <2>3
<1>4. ASSUME NEW i \in h.start + 1 .. e - 1
      PROVE  control[i] \notin {"start", "free"}
  <2>1. control[i] \in {"middle", "end"}
    BY <1>1 DEF BlocksOwnedOnce
  <2> QED
    BY <2>1
<1>5. ASSUME NEW c \in h.start .. Words - 1
      PROVE  (\A i \in h.start + 1 .. c : control[i] \notin {"start", "free"}) <=> c <= e - 1
  <2>1. CASE c <= e - 1
    BY <1>1, <1>4, <2>1
  <2>2. CASE c > e - 1
    <3>1. e \in h.start + 1 .. c
      BY <1>1, <1>2, <2>2
    <3> QED
      BY <1>3, <2>2, <3>1
  <2> QED
    BY <1>1, <1>2, <2>1, <2>2
<1>6. Freed(h.start) = {c \in h.start .. Words - 1 : c <= e - 1}
  BY <1>5 DEF Freed
<1> QED
  BY <1>1, <1>2, <1>6

\* Marking free blocks for a new allocation.
LEMMA MarkOwned ==
  ASSUME HeapTypes, BlocksOwnedOnce, NEW b \in Nat, NEW n \in Nat \ {0}, Fits(b, n)
  PROVE  LET h == [start |-> b, size |-> n] IN
         /\ Marked(b, n) \in [Blocks -> Word]
         /\ Owned(Marked(b, n), held \cup {h})
         /\ h \notin held
         /\ Span(h) \subseteq Blocks
         /\ \A i \in Span(h) : control[i] = "free" /\ Marked(b, n)[i] # "free"
         /\ \A i \in Blocks : i \notin Span(h) => Marked(b, n)[i] = control[i]
<1> DEFINE h == [start |-> b, size |-> n]
           m == Marked(b, n)
<1>1. Total \in Nat /\ Words \in Nat /\ Words > Total
  BY HeapAssumption
<1>2. /\ b + n <= Total /\ Span(h) = b .. b + n - 1
      /\ h.start = b /\ h.size = n
  BY DEF Fits, Span
<1>3. Span(h) \subseteq Blocks /\ \A i \in Span(h) : control[i] = "free"
  BY <1>1, <1>2 DEF Blocks, Fits
<1>4. \A i \in Blocks : m[i] = IF i = b THEN "start"
                               ELSE IF i \in b + 1 .. b + n - 2 THEN "middle"
                               ELSE IF i = b + n - 1 THEN "end" ELSE control[i]
  BY DEF Marked, Blocks
<1>5. m \in [Blocks -> Word]
  BY DEF Marked, Blocks, HeapTypes, Word
<1>6. ASSUME NEW i \in Span(h)
      PROVE  /\ i = b => m[i] = "start"
             /\ i # b => m[i] \in {"middle", "end"}
  BY <1>1, <1>2, <1>3, <1>4, <1>6
<1>7. ASSUME NEW i \in Blocks, i \notin Span(h)
      PROVE  m[i] = control[i]
  BY <1>1, <1>2, <1>4, <1>7
<1>8. ASSUME NEW g \in held
      PROVE  Span(g) \cap Span(h) = {} /\ Span(g) \subseteq Blocks /\ g.start \in Span(g)
  <2>1. /\ Span(g) \subseteq Blocks /\ g.start \in Span(g)
        /\ \A i \in Span(g) : control[i] # "free"
    BY SpanBlocks, OwnedOnce DEF HeapTypes
  <2> QED
    BY <1>3, <2>1
<1>9. h \notin held
  BY <1>2, <1>8
<1>10. ASSUME NEW g \in held
       PROVE  \A i \in Span(g) : m[i] = control[i]
  BY <1>7, <1>8
<1> HIDE DEF m
<1>11. ASSUME NEW g \in held \cup {h}
       PROVE  /\ g.start + g.size <= Total
              /\ m[g.start] = "start"
              /\ \A i \in g.start + 1 .. g.start + g.size - 1 : m[i] \in {"middle", "end"}
  <2>1. CASE g = h
    <3>1. b \in Span(h) /\ \A i \in b + 1 .. b + n - 1 : i \in Span(h) /\ i # b
      BY <1>2
    <3> QED
      BY <1>2, <1>6, <2>1, <3>1
  <2>2. CASE g \in held
    <3>1. \A i \in g.start + 1 .. g.start + g.size - 1 : i \in Span(g)
      BY <2>2 DEF HeapTypes, Span
    <3> QED
      BY <1>8, <1>10, <2>2, <3>1 DEF BlocksOwnedOnce
  <2> QED
    BY <2>1, <2>2
<1>12. \A f, g \in held \cup {h} : f # g => Span(f) \cap Span(g) = {}
  BY <1>8 DEF BlocksOwnedOnce
<1>13. ASSUME NEW i \in Blocks, \A g \in held \cup {h} : i \notin Span(g)
       PROVE  m[i] = "free"
  BY <1>7, <1>13 DEF BlocksOwnedOnce, Blocks
<1>14. Owned(m, held \cup {h})
  BY <1>11, <1>12, <1>13 DEF Owned
<1> QED
  <2>1. \A i \in Span(h) : m[i] # "free"
    <3>1. ASSUME NEW i \in Span(h)
          PROVE  m[i] # "free"
      BY <1>6
    <3> QED
      BY <3>1
  <2> QED
    BY <1>3, <1>5, <1>7, <1>9, <1>14, <2>1 DEF m

\* Clearing the words of one allocation.
LEMMA ClearOwned ==
  ASSUME NEW c \in [Blocks -> Word], NEW H \in SUBSET [start : Nat, size : Nat \ {0}],
         Owned(c, H), NEW h \in H
  PROVE  /\ Cleared(c, Span(h)) \in [Blocks -> Word]
         /\ Owned(Cleared(c, Span(h)), H \ {h})
<1> DEFINE m == Cleared(c, Span(h))
<1>1. m \in [Blocks -> Word] /\ \A i \in Blocks : m[i] = IF i \in Span(h) THEN "free" ELSE c[i]
  BY DEF Cleared, Word
<1> HIDE DEF m
<1>2. ASSUME NEW g \in H \ {h}
      PROVE  /\ \A i \in Span(g) : m[i] = c[i]
             /\ g.start \in Span(g)
             /\ \A i \in g.start + 1 .. g.start + g.size - 1 : i \in Span(g)
  <2>1. Span(g) \subseteq Blocks /\ Span(g) \cap Span(h) = {} /\ g.start \in Span(g)
    BY SpanBlocks DEF Owned
  <2>2. g.start \in Nat /\ g.size \in Nat
    OBVIOUS
  <2> QED
    BY <1>1, <2>1, <2>2 DEF Span
<1>3. \A g \in H \ {h} : /\ g.start + g.size <= Total
                         /\ m[g.start] = "start"
                         /\ \A i \in g.start + 1 .. g.start + g.size - 1 : m[i] \in {"middle", "end"}
  BY <1>2 DEF Owned
<1>4. \A f, g \in H \ {h} : f # g => Span(f) \cap Span(g) = {}
  BY DEF Owned
<1>5. ASSUME NEW i \in Blocks, \A g \in H \ {h} : i \notin Span(g)
      PROVE  m[i] = "free"
  BY <1>1, <1>5 DEF Owned
<1>6. Owned(m, H \ {h})
  BY <1>3, <1>4, <1>5 DEF Owned
<1> QED
  BY <1>1, <1>6 DEF m

FreeIn(c) == {b \in 0 .. Total - 1 : c[b] = "free"}

\* The words m are c with the span of h, free in c, in use.
Takes(c, m, h) ==
    /\ h \in [start : Nat, size : Nat \ {0}] /\ h.start + h.size <= Total
    /\ \A i \in Span(h) : c[i] = "free" /\ m[i] # "free"
    /\ \A i \in 0 .. Total - 1 : i \notin Span(h) => m[i] = c[i]

\* They differ by its size in the number of their free blocks.
LEMMA SpanCounts ==
  ASSUME NEW c, NEW m, NEW h, Takes(c, m, h)
  PROVE  /\ Cardinality(FreeIn(c)) \in Nat
         /\ Cardinality(FreeIn(m)) = Cardinality(FreeIn(c)) - h.size
         /\ Cardinality(Span(h)) = h.size
<1> USE DEF Takes
<1>1. Total \in Nat
  BY HeapAssumption
<1>2. IsFiniteSet(FreeIn(c)) /\ Cardinality(FreeIn(c)) \in Nat
  <2>1. IsFiniteSet(0 .. Total - 1)
    BY <1>1, FS_Interval
  <2>2. FreeIn(c) \in SUBSET (0 .. Total - 1)
    BY DEF FreeIn
  <2> QED
    BY <2>1, <2>2, FS_Subset, FS_CardinalityType
<1>3. Span(h) = h.start .. h.start + h.size - 1 /\ h.start \in Nat /\ h.size \in Nat \ {0}
  BY DEF Span
<1>4. Cardinality(Span(h)) = h.size
  <2>1. /\ h.start \in Int /\ h.start + h.size - 1 \in Int
        /\ ~(h.start > h.start + h.size - 1)
        /\ (h.start + h.size - 1) - h.start + 1 = h.size
    BY <1>3
  <2> QED
    BY <1>3, <2>1, FS_Interval
<1>5. Span(h) \subseteq 0 .. Total - 1
  BY <1>1, <1>3
<1>6. Span(h) \subseteq FreeIn(c) /\ FreeIn(m) = FreeIn(c) \ Span(h)
  BY <1>5 DEF FreeIn
<1>7. FreeIn(c) \cap Span(h) = Span(h)
  BY <1>6
<1>8. Cardinality(FreeIn(m)) = Cardinality(FreeIn(c)) - Cardinality(Span(h))
  <2>1. Cardinality(FreeIn(c) \ Span(h)) =
          Cardinality(FreeIn(c)) - Cardinality(FreeIn(c) \cap Span(h))
    BY <1>2, FS_Difference
  <2> QED
    BY <1>6, <1>7, <2>1
<1> QED
  BY <1>2, <1>4, <1>8

\* The count of free blocks is that of the words.
FreeCounted == free = Cardinality(FreeIn(control))

HeapInvariant == HeapTypes /\ BlocksOwnedOnce /\ FreeCounted

LEMMA HeapInitially == HeapInit => HeapInvariant
<1> SUFFICES ASSUME HeapInit
             PROVE  HeapInvariant
  OBVIOUS
<1>1. HeapTypes /\ BlocksOwnedOnce
  BY DEF HeapInit, HeapTypes, BlocksOwnedOnce, Blocks, Word
<1>2. Total \in Nat /\ Words \in Nat /\ Words > Total
  BY HeapAssumption
<1>3. FreeIn(control) = 0 .. Total - 1
  BY <1>2 DEF HeapInit, FreeIn
<1>4. Cardinality(0 .. Total - 1) = Total
  <2>1. 0 \in Int /\ Total - 1 \in Int /\ ~(0 > Total - 1) /\ (Total - 1) - 0 + 1 = Total
    BY HeapAssumption
  <2> QED
    BY <2>1, FS_Interval
<1> QED
  BY <1>1, <1>3, <1>4 DEF HeapInit, HeapInvariant, FreeCounted

\* An allocation takes free blocks and leaves everything else as it was.
LEMMA AllocKeeps ==
  ASSUME HeapInvariant, NEW b \in Nat, NEW n \in Nat \ {0}, Fits(b, n),
         control' = Marked(b, n), free' = free - n,
         held' = held \cup {[start |-> b, size |-> n]}
  PROVE  HeapInvariant'
<1> DEFINE h == [start |-> b, size |-> n]
<1>1. /\ Marked(b, n) \in [Blocks -> Word] /\ Owned(Marked(b, n), held \cup {h})
      /\ \A i \in Span(h) : control[i] = "free" /\ Marked(b, n)[i] # "free"
      /\ \A i \in Blocks : i \notin Span(h) => Marked(b, n)[i] = control[i]
  BY MarkOwned DEF HeapInvariant
<1>2. HeapTypes' /\ BlocksOwnedOnce'
  <2>1. HeapTypes'
    BY <1>1 DEF HeapInvariant, HeapTypes
  <2>2. Owned(control', held')
    BY <1>1
  <2> QED
    BY <2>1, <2>2 DEF BlocksOwnedOnce, Owned, Blocks
<1>3. h \in [start : Nat, size : Nat \ {0}] /\ h.start + h.size <= Total /\ h.size = n
  BY DEF Fits
<1>4. \A i \in 0 .. Total - 1 : i \in Blocks
  BY HeapAssumption DEF Blocks
<1> HIDE DEF h
<1>5. Cardinality(FreeIn(Marked(b, n))) = Cardinality(FreeIn(control)) - h.size
  <2>1. Takes(control, Marked(b, n), h)
    BY <1>1, <1>3, <1>4 DEF Takes
  <2> QED
    BY <2>1, SpanCounts
<1> QED
  BY <1>2, <1>3, <1>5 DEF HeapInvariant, FreeCounted

\* A free clears what was held and leaves everything else as it was.
LEMMA FreeKeeps ==
  ASSUME HeapInvariant, NEW h \in held, FreeBlock(h)
  PROVE  HeapInvariant'
<1>1. Freed(h.start) = Span(h)
  BY FreedSpan DEF HeapInvariant
<1>2. control' = Cleared(control, Span(h))
  BY <1>1 DEF FreeBlock, Cleared, Blocks
<1>3. /\ control \in [Blocks -> Word] /\ held \in SUBSET [start : Nat, size : Nat \ {0}]
      /\ Owned(control, held)
  BY OwnedOnce DEF HeapInvariant, HeapTypes
<1>4. control' \in [Blocks -> Word] /\ Owned(control', held \ {h})
  BY <1>2, <1>3, ClearOwned
<1>5. HeapTypes' /\ BlocksOwnedOnce'
  <2>1. held' = held \ {h}
    BY DEF FreeBlock
  <2> QED
    BY <1>3, <1>4, <2>1 DEF HeapTypes, BlocksOwnedOnce, Owned, Blocks
<1>6. /\ Span(h) \subseteq Blocks /\ \A i \in Span(h) : control[i] # "free"
      /\ h.start + h.size <= Total /\ h \in [start : Nat, size : Nat \ {0}]
  BY <1>3, SpanBlocks DEF Owned
<1>7. /\ \A i \in Span(h) : control'[i] = "free"
      /\ \A i \in 0 .. Total - 1 : i \notin Span(h) => control[i] = control'[i]
  BY <1>2, <1>6, HeapAssumption DEF Cleared, Blocks
<1>8. /\ Cardinality(FreeIn(control')) \in Nat /\ h.size \in Nat
      /\ Cardinality(FreeIn(control)) = Cardinality(FreeIn(control')) - h.size
      /\ Cardinality(Span(h)) = h.size
  <2>1. Takes(control', control, h)
    BY <1>6, <1>7 DEF Takes
  <2> QED
    BY <1>6, <2>1, SpanCounts
<1>9. free' = free + h.size
  BY <1>1, <1>8 DEF FreeBlock
<1>10. free' = Cardinality(FreeIn(control'))
  BY <1>8, <1>9 DEF HeapInvariant, FreeCounted
<1> QED
  BY <1>5, <1>10 DEF HeapInvariant, FreeCounted, FreeIn

LEMMA CandidateFits ==
  ASSUME NEW r \in [blocks : Nat \ {0}, align : Nat \ {0}], NEW b \in Candidates(r)
  PROVE  b \in Nat /\ Fits(b, r.blocks)
BY DEF Candidates

\* In a heap used only through it, the allocator hands no block out twice, a
\* free gives back exactly what its allocation got, and the count is right.
THEOREM HeapCorrect == HeapSpec => []HeapInvariant
<1>1. ASSUME HeapInvariant, [HeapNext]_heapVars
      PROVE  HeapInvariant'
  <2>1. ASSUME NEW r \in Requests, NEW b \in 0 .. Total - 1, AllocAt(r, b)
        PROVE  HeapInvariant'
    <3>1. r \in [blocks : Nat \ {0}, align : Nat \ {0}] /\ b \in Candidates(r)
      BY <2>1, HeapAssumption DEF AllocAt
    <3> QED
      BY <1>1, <2>1, <3>1, CandidateFits, AllocKeeps DEF AllocAt
  <2>2. ASSUME NEW h \in held, FreeBlock(h)
        PROVE  HeapInvariant'
    BY <1>1, <2>2, FreeKeeps
  <2>3. CASE UNCHANGED heapVars
    BY <1>1, <2>3 DEF heapVars, HeapInvariant, HeapTypes, BlocksOwnedOnce, FreeCounted, FreeIn
  <2> QED
    BY <1>1, <2>1, <2>2, <2>3 DEF HeapNext, AllocFails, FreeRefused
<1> QED
  BY <1>1, HeapInitially, PTL DEF HeapSpec

\* Every block belongs to one allocation at most, and the words say to which.
THEOREM HeapBlocksOwnedOnce == HeapSpec => []BlocksOwnedOnce
<1>1. HeapInvariant => BlocksOwnedOnce
  BY DEF HeapInvariant
<1> QED
  BY <1>1, HeapCorrect, PTL

-----------------------------------------------------------------------------
(* Induction on sets of numbers.                                            *)

LEMMA LeastNumber ==
  ASSUME NEW B \in SUBSET Nat, B # {}
  PROVE  \E m \in B : \A n \in B : m <= n
<1> DEFINE T == {0 .. n : n \in B}
<1>1. T # {} /\ T \subseteq FiniteSubsetsOf(Nat)
  <2>1. \A n \in B : IsFiniteSet(0 .. n) /\ 0 .. n \in SUBSET Nat
    BY FS_Interval
  <2> QED
    BY <2>1 DEF FiniteSubsetsOf
<1>2. PICK x \in T : \A y \in T : <<y, x>> \notin StrictSubsetOrdering(Nat)
  <2> HIDE DEF T
  <2> QED
    BY <1>1, WFMin, FS_StrictSubsetOrderingWellFounded
<1>3. PICK m \in B : x = 0 .. m
  OBVIOUS
<1>4. ASSUME NEW n \in B, n < m
      PROVE  FALSE
  <2>1. m \in 0 .. m /\ m \notin 0 .. n
    BY <1>4
  <2>2. 0 .. n \subseteq 0 .. m /\ 0 .. n # 0 .. m /\ 0 .. n \in T
    BY <1>4, <2>1
  <2>3. <<0 .. n, 0 .. m>> \in StrictSubsetOrdering(Nat)
    BY <2>2 DEF StrictSubsetOrdering
  <2> QED
    BY <1>2, <1>3, <2>2, <2>3
<1> QED
  BY <1>4

LEMMA Induction ==
  ASSUME NEW G \in SUBSET Nat, 0 \in G, \A n \in G : n + 1 \in G
  PROVE  G = Nat
<1> SUFFICES ASSUME Nat \ G # {}
             PROVE  FALSE
  OBVIOUS
<1>1. PICK m \in Nat \ G : \A n \in Nat \ G : m <= n
  BY LeastNumber
<1>2. m # 0 /\ m - 1 \in Nat
  BY <1>1
<1>3. m - 1 \in G /\ (m - 1) + 1 = m
  BY <1>1, <1>2
<1> QED
  BY <1>1, <1>3

-----------------------------------------------------------------------------
(* The binary search.                                                       *)

Bounds(s) == 0 .. Len(s)

\* One turn of the loop, its continuation taken from f.
Turn(f, s, v, b) ==
    LET left == b[1]  right == b[2]  middle == (left + right) \div 2
    IN  IF left >= right THEN Settled(s, v, left)
        ELSE IF s[middle + 1] < v THEN f[<<middle + 1, right>>]
        ELSE IF s[middle + 1] = v THEN [at |-> middle, found |-> TRUE]
        ELSE IF middle = 0 THEN Settled(s, v, left)
        ELSE f[<<left, middle - 1>>]

Loops(f, s, v) == f = [b \in Bounds(s) \X Bounds(s) |-> Turn(f, s, v, b)]

\* A turn continues only within narrower bounds.
LEMMA TurnNarrows ==
  ASSUME NEW s, Len(s) \in Nat, NEW v, NEW b \in Bounds(s) \X Bounds(s), NEW k \in Nat,
         b[2] - b[1] <= k + 1, NEW f, NEW g,
         \A c \in Bounds(s) \X Bounds(s) : c[2] - c[1] <= k => f[c] = g[c]
  PROVE  Turn(f, s, v, b) = Turn(g, s, v, b)
<1> DEFINE left == b[1]
           right == b[2]
           middle == (left + right) \div 2
<1>1. left \in Nat /\ right \in Nat /\ left <= Len(s) /\ right <= Len(s)
  BY DEF Bounds
<1>2. CASE left >= right
  BY <1>2 DEF Turn
<1>3. CASE left < right
  <2>1. middle \in Nat /\ left <= middle /\ middle < right
    BY <1>1, <1>3
  <2>2. f[<<middle + 1, right>>] = g[<<middle + 1, right>>]
    <3>1. <<middle + 1, right>> \in Bounds(s) \X Bounds(s) /\ right - (middle + 1) <= k
      BY <1>1, <2>1 DEF Bounds
    <3> HIDE DEF middle, left, right
    <3> QED
      BY <3>1
  <2>3. middle # 0 => f[<<left, middle - 1>>] = g[<<left, middle - 1>>]
    <3>1. middle # 0 => /\ <<left, middle - 1>> \in Bounds(s) \X Bounds(s)
                        /\ (middle - 1) - left <= k
      BY <1>1, <2>1 DEF Bounds
    <3> HIDE DEF middle, left, right
    <3> QED
      BY <3>1
  <2> QED
    BY <1>3, <2>2, <2>3 DEF Turn
<1> QED
  BY <1>1, <1>2, <1>3

\* The loop ends: the function that the recursion describes exists.
LEMMA SearchLoops ==
  ASSUME NEW s, Len(s) \in Nat, NEW v
  PROVE  Loops(Search(s, v), s, v)
<1> DEFINE D == Bounds(s) \X Bounds(s)
           Upto(f, k) == /\ f = [b \in D |-> f[b]]
                         /\ \A b \in D : b[2] - b[1] <= k => f[b] = Turn(f, s, v, b)
           G == {k \in Nat : \E f : Upto(f, k)}
<1>1. 0 \in G
  <2> DEFINE f == [b \in D |-> Settled(s, v, b[1])]
  <2>1. f = [b \in D |-> f[b]]
    OBVIOUS
  <2>2. ASSUME NEW b \in D, b[2] - b[1] <= 0
        PROVE  f[b] = Turn(f, s, v, b)
    <3>1. b[1] >= b[2]
      BY <2>2 DEF Bounds
    <3>2. \A h : Turn(h, s, v, b) = Settled(s, v, b[1])
      BY <3>1 DEF Turn
    <3>3. f[b] = Settled(s, v, b[1])
      OBVIOUS
    <3> QED
      BY <3>2, <3>3
  <2> HIDE DEF f
  <2>3. Upto(f, 0)
    BY <2>1, <2>2
  <2> QED
    BY <2>3
<1>2. ASSUME NEW k \in G
      PROVE  k + 1 \in G
  <2>1. PICK f : Upto(f, k)
    OBVIOUS
  <2> DEFINE g == [b \in D |-> IF b[2] - b[1] <= k + 1 THEN Turn(f, s, v, b) ELSE f[b]]
  <2>2. k \in Nat
    OBVIOUS
  <2>3. ASSUME NEW b \in D, b[2] - b[1] <= k
        PROVE  f[b] = g[b]
    <3>1. b[2] - b[1] <= k + 1
      BY <2>2, <2>3 DEF Bounds
    <3>2. g[b] = Turn(f, s, v, b)
      BY <3>1
    <3> QED
      BY <2>1, <2>3, <3>2
  <2>4. g = [b \in D |-> g[b]]
    OBVIOUS
  <2>5. \A b \in D : b[2] - b[1] <= k + 1 => g[b] = Turn(f, s, v, b)
    OBVIOUS
  <2> HIDE DEF g
  <2>6. ASSUME NEW b \in D, b[2] - b[1] <= k + 1
        PROVE  g[b] = Turn(g, s, v, b)
    <3>1. Turn(f, s, v, b) = Turn(g, s, v, b)
      BY <2>2, <2>3, <2>6, TurnNarrows
    <3> QED
      BY <2>5, <2>6, <3>1
  <2>7. Upto(g, k + 1)
    BY <2>4, <2>6
  <2>8. k + 1 \in Nat
    BY <2>2
  <2> HIDE DEF Upto
  <2> QED
    BY <2>7, <2>8
<1>3. G = Nat
  <2> HIDE DEF G
  <2>1. G \in SUBSET Nat
    BY DEF G
  <2> QED
    BY <1>1, <1>2, <2>1, Induction
<1>4. PICK f : Upto(f, Len(s))
  BY <1>3
<1>5. \A b \in D : f[b] = Turn(f, s, v, b)
  <2>1. \A b \in D : b[2] - b[1] <= Len(s)
    BY DEF Bounds
  <2> QED
    BY <1>4, <2>1
<1>6. Loops(f, s, v)
  BY <1>4, <1>5 DEF Loops
<1>7. Search(s, v) = CHOOSE h : Loops(h, s, v)
  BY DEF Search, Loops, Turn, Bounds
<1> QED
  BY <1>6, <1>7

Sorted(s) == \A i, j \in 1 .. Len(s) : i < j => s[i] < s[j]

\* The answer r to the search for v in s: v, or the place that keeps the order.
Finds(r, s, v) ==
    /\ r.at \in 0 .. Len(s) /\ r.found \in BOOLEAN
    /\ r.found <=> \E i \in 1 .. Len(s) : s[i] = v
    /\ r.found => r.at + 1 \in 1 .. Len(s) /\ s[r.at + 1] = v
    /\ \A i \in 1 .. Len(s) : i <= r.at <=> s[i] < v

\* The loop's bounds are around the place.
Around(b, s, v) ==
    /\ b[1] < Len(s) /\ b[2] < Len(s)
    /\ \A i \in 1 .. Len(s) : /\ i <= b[1] => s[i] < v
                              /\ i >= b[2] + 2 => v < s[i]

LEMMA SettlesRight ==
  ASSUME NEW s \in Seq(Int), Sorted(s), NEW v \in Int, NEW left \in Nat, left < Len(s),
         \A i \in 1 .. Len(s) : i <= left => s[i] < v,
         s[left + 1] < v => \A i \in 1 .. Len(s) : i >= left + 2 => v < s[i]
  PROVE  Finds(Settled(s, v, left), s, v)
<1> DEFINE r == Settled(s, v, left)
<1>1. Len(s) \in Nat /\ \A i \in 1 .. Len(s) : s[i] \in Int
  BY LenProperties, ElementOfSeq
<1>2. left + 1 \in 1 .. Len(s)
  BY <1>1
<1>3. CASE s[left + 1] = v
  <2>1. r = [at |-> left, found |-> TRUE]
    BY <1>3 DEF Settled
  <2>2. \A i \in 1 .. Len(s) : i <= left <=> s[i] < v
    <3>1. ASSUME NEW i \in 1 .. Len(s), i > left
          PROVE  ~(s[i] < v)
      <4>1. i = left + 1 \/ s[left + 1] < s[i]
        BY <1>1, <1>2, <3>1 DEF Sorted
      <4> QED
        BY <1>1, <1>2, <1>3, <4>1
    <3> QED
      BY <3>1, <1>1
  <2> QED
    BY <1>1, <1>2, <1>3, <2>1, <2>2 DEF Finds
<1>4. CASE s[left + 1] < v
  <2>1. r = [at |-> left + 1, found |-> FALSE]
    BY <1>1, <1>2, <1>4 DEF Settled
  <2>2. \A i \in 1 .. Len(s) : i <= left + 1 <=> s[i] < v
    <3>1. ASSUME NEW i \in 1 .. Len(s)
          PROVE  i <= left + 1 <=> s[i] < v
      <4>1. CASE i <= left \/ i = left + 1
        BY <1>1, <1>4, <4>1
      <4>2. CASE i >= left + 2
        BY <1>1, <1>4, <4>2
      <4> QED
        BY <1>1, <4>1, <4>2
    <3> QED
      BY <3>1
  <2>3. \A i \in 1 .. Len(s) : s[i] # v
    <3>1. ASSUME NEW i \in 1 .. Len(s)
          PROVE  s[i] # v
      <4>1. CASE i <= left + 1
        BY <1>1, <2>2, <4>1
      <4>2. CASE i >= left + 2
        BY <1>1, <1>4, <4>2
      <4> QED
        BY <1>1, <4>1, <4>2
    <3> QED
      BY <3>1
  <2> QED
    BY <1>1, <1>2, <2>1, <2>2, <2>3 DEF Finds
<1>5. CASE v < s[left + 1]
  <2>1. r = [at |-> left, found |-> FALSE]
    <3>1. s[left + 1] # v /\ ~(s[left + 1] < v)
      BY <1>1, <1>2, <1>5
    <3> QED
      BY <3>1 DEF Settled
  <2>2. ASSUME NEW i \in 1 .. Len(s), i > left
        PROVE  v < s[i]
    <3>1. i = left + 1 \/ s[left + 1] < s[i]
      BY <1>1, <1>2, <2>2 DEF Sorted
    <3> QED
      BY <1>1, <1>2, <1>5, <3>1
  <2>3. \A i \in 1 .. Len(s) : (i <= left <=> s[i] < v) /\ s[i] # v
    BY <1>1, <2>2
  <2> QED
    BY <1>1, <1>2, <2>1, <2>3 DEF Finds
<1> QED
  BY <1>1, <1>2, <1>3, <1>4, <1>5

\* From bounds around the place, the search finds it.
LEMMA SearchFinds ==
  ASSUME NEW s \in Seq(Int), Sorted(s), NEW v \in Int,
         NEW a \in Bounds(s) \X Bounds(s), Around(a, s, v)
  PROVE  Finds(Search(s, v)[a], s, v)
<1> DEFINE D == Bounds(s) \X Bounds(s)
           f == Search(s, v)
           G == {k \in Nat : \A b \in D : b[2] - b[1] <= k /\ Around(b, s, v) => Finds(f[b], s, v)}
<1>1. Len(s) \in Nat /\ \A i \in 1 .. Len(s) : s[i] \in Int
  BY LenProperties, ElementOfSeq
<1>2. \A b \in D : f[b] = Turn(f, s, v, b)
  <2>1. Loops(f, s, v)
    BY <1>1, SearchLoops
  <2> HIDE DEF f
  <2> QED
    BY <2>1 DEF Loops
<1> HIDE DEF f
<1>3. ASSUME NEW b \in D, b[1] >= b[2], Around(b, s, v)
      PROVE  Finds(f[b], s, v)
  <2>1. f[b] = Settled(s, v, b[1])
    BY <1>2, <1>3 DEF Turn
  <2>2. b[1] \in Nat /\ b[2] \in Nat /\ b[1] < Len(s)
    BY <1>3 DEF Bounds, Around
  <2>3. /\ \A i \in 1 .. Len(s) : i <= b[1] => s[i] < v
        /\ \A i \in 1 .. Len(s) : i >= b[1] + 2 => v < s[i]
    BY <1>1, <1>3, <2>2 DEF Around
  <2> QED
    BY <2>1, <2>2, <2>3, SettlesRight
<1>4. 0 \in G
  <2>1. \A b \in D : b[2] - b[1] <= 0 => b[1] >= b[2]
    BY DEF Bounds
  <2> QED
    BY <1>3, <2>1
<1>5. ASSUME NEW k \in G
      PROVE  k + 1 \in G
  <2>1. SUFFICES ASSUME NEW b \in D, b[2] - b[1] <= k + 1, Around(b, s, v), b[1] < b[2]
                 PROVE  Finds(f[b], s, v)
    <3>1. \A b \in D : b[1] < b[2] \/ b[1] >= b[2]
      BY DEF Bounds
    <3> QED
      BY <1>3, <3>1
  <2> DEFINE left == b[1]
             right == b[2]
             middle == (left + right) \div 2
  <2>2. k \in Nat /\ left \in Nat /\ right \in Nat /\ left < Len(s) /\ right < Len(s)
    BY <2>1 DEF Bounds, Around
  <2>3. middle \in Nat /\ left <= middle /\ middle < right
    BY <2>1, <2>2
  <2>4. middle + 1 \in 1 .. Len(s) /\ s[middle + 1] \in Int
    BY <1>1, <2>2, <2>3
  <2>5. f[b] = IF s[middle + 1] < v THEN f[<<middle + 1, right>>]
               ELSE IF s[middle + 1] = v THEN [at |-> middle, found |-> TRUE]
               ELSE IF middle = 0 THEN Settled(s, v, left)
               ELSE f[<<left, middle - 1>>]
    <3>1. ~(left >= right)
      BY <2>1, <2>2
    <3> QED
      BY <1>2, <3>1 DEF Turn
  <2>6. /\ \A i \in 1 .. Len(s) : i <= left => s[i] < v
        /\ \A i \in 1 .. Len(s) : i >= right + 2 => v < s[i]
    BY <2>1 DEF Around
  <2> HIDE DEF middle, left, right
  <2>7. CASE s[middle + 1] < v
    <3> DEFINE c == <<middle + 1, right>>
    <3>1. c \in D /\ c[1] = middle + 1 /\ c[2] = right
      BY <2>2, <2>3, <2>4 DEF Bounds
    <3>2. c[2] - c[1] <= k
      BY <2>1, <2>2, <2>3, <3>1 DEF left, right
    <3>3. \A i \in 1 .. Len(s) : i <= middle + 1 => s[i] < v
      <4>1. ASSUME NEW i \in 1 .. Len(s), i <= middle + 1
            PROVE  s[i] < v
        <5>1. i = middle + 1 \/ s[i] < s[middle + 1]
          BY <2>3, <2>4, <4>1 DEF Sorted
        <5> QED
          BY <1>1, <2>4, <2>7, <5>1
      <4> QED
        BY <4>1
    <3>4. Around(c, s, v)
      BY <2>2, <2>3, <2>6, <3>1, <3>3 DEF Around
    <3> HIDE DEF c
    <3>5. Finds(f[c], s, v)
      BY <3>1, <3>2, <3>4
    <3> QED
      BY <2>5, <2>7, <3>5 DEF c
  <2>8. CASE s[middle + 1] = v
    <3>1. \A i \in 1 .. Len(s) : i <= middle <=> s[i] < v
      <4>1. ASSUME NEW i \in 1 .. Len(s)
            PROVE  i <= middle <=> s[i] < v
        <5>1. /\ i < middle + 1 => s[i] < s[middle + 1]
              /\ i > middle + 1 => s[middle + 1] < s[i]
          BY <2>3, <2>4 DEF Sorted
        <5> QED
          BY <1>1, <2>3, <2>4, <2>8, <5>1
      <4> QED
        BY <4>1
    <3>2. f[b] = [at |-> middle, found |-> TRUE]
      BY <2>4, <2>5, <2>8
    <3> QED
      BY <1>1, <2>3, <2>4, <2>8, <3>1, <3>2 DEF Finds
  <2>9. CASE v < s[middle + 1]
    <3>1. \A i \in 1 .. Len(s) : i >= middle + 1 => v < s[i]
      <4>1. ASSUME NEW i \in 1 .. Len(s), i >= middle + 1
            PROVE  v < s[i]
        <5>1. i = middle + 1 \/ s[middle + 1] < s[i]
          BY <2>3, <2>4, <4>1 DEF Sorted
        <5> QED
          BY <1>1, <2>4, <2>9, <5>1
      <4> QED
        BY <4>1
    <3>2. CASE middle = 0
      <4>1. f[b] = Settled(s, v, left) /\ left = 0
        BY <2>2, <2>3, <2>4, <2>5, <2>9, <3>2
      <4>2. ~(s[left + 1] < v)
        BY <2>4, <2>9, <3>2, <4>1
      <4> QED
        BY <2>2, <2>6, <4>1, <4>2, SettlesRight
    <3>3. CASE middle # 0
      <4> DEFINE c == <<left, middle - 1>>
      <4>1. c \in D /\ c[1] = left /\ c[2] = middle - 1
        <5>1. left \in 0 .. Len(s) /\ middle - 1 \in 0 .. Len(s)
          BY <1>1, <2>2, <2>3, <3>3
        <5> QED
          BY <5>1 DEF Bounds
      <4>2. c[2] - c[1] <= k
        BY <2>1, <2>2, <2>3, <4>1 DEF left, right
      <4>3. Around(c, s, v)
        BY <2>2, <2>3, <2>6, <3>1, <4>1 DEF Around
      <4> HIDE DEF c
      <4>4. Finds(f[c], s, v)
        BY <4>1, <4>2, <4>3
      <4> QED
        BY <2>4, <2>5, <2>9, <3>3, <4>4 DEF c
    <3> QED
      BY <3>2, <3>3
  <2> QED
    BY <2>4, <2>7, <2>8, <2>9
<1>6. G = Nat
  <2>1. G \in SUBSET Nat
    OBVIOUS
  <2> HIDE DEF G
  <2> QED
    BY <1>4, <1>5, <2>1, Induction
<1>7. a[2] - a[1] <= Len(s) /\ a \in D
  BY <1>1 DEF Bounds
<1> QED
  BY <1>1, <1>6, <1>7 DEF f

LEMMA ClosestFinds ==
  ASSUME NEW s \in Seq(Int), Sorted(s), NEW v \in Int
  PROVE  Finds(Closest(s, v), s, v)
<1>1. Len(s) \in Nat
  BY LenProperties
<1>2. CASE s = <<>>
  <2>1. Len(s) = 0
    BY <1>2
  <2>2. Closest(s, v) = [at |-> 0, found |-> FALSE]
    BY <1>2 DEF Closest
  <2> QED
    BY <2>1, <2>2 DEF Finds
<1>3. CASE s # <<>>
  <2> DEFINE a == <<0, Len(s) - 1>>
  <2>1. Len(s) # 0
    BY <1>3, EmptySeq
  <2>2. a \in Bounds(s) \X Bounds(s) /\ a[1] = 0 /\ a[2] = Len(s) - 1
    BY <1>1, <2>1 DEF Bounds
  <2>3. Around(a, s, v)
    BY <1>1, <2>1, <2>2 DEF Around
  <2>4. Closest(s, v) = Search(s, v)[a]
    BY <1>3 DEF Closest
  <2> HIDE DEF a
  <2> QED
    BY <2>2, <2>3, <2>4, SearchFinds
<1> QED
  BY <1>2, <1>3

-----------------------------------------------------------------------------
(* Insertion and removal at the place that the search returns.              *)

LEMMA InsertedAt ==
  ASSUME NEW S, NEW s \in Seq(S), NEW e \in S, NEW p \in 0 .. Len(s)
  PROVE  LET t == InsertAt(s, p + 1, e) IN
         /\ t \in Seq(S) /\ Len(t) = Len(s) + 1
         /\ \A i \in 1 .. Len(s) + 1 :
               t[i] = IF i <= p THEN s[i] ELSE IF i = p + 1 THEN e ELSE s[i - 1]
<1> DEFINE t == InsertAt(s, p + 1, e)
           head == SubSeq(s, 1, p)
           tail == SubSeq(s, p + 1, Len(s))
           front == head \o <<e>>
<1>1. Len(s) \in Nat /\ p \in Nat /\ p <= Len(s) /\ \A i \in 1 .. Len(s) : s[i] \in S
  BY LenProperties, ElementOfSeq
<1>2. /\ head \in Seq(S) /\ Len(head) = p
      /\ \A i \in 1 .. p : head[i] = s[i]
  <2>1. /\ head \in Seq(S) /\ Len(head) = IF 1 <= p THEN p - 1 + 1 ELSE 0
        /\ \A i \in 1 .. p - 1 + 1 : head[i] = s[1 + i - 1]
    <3>1. 1 \in Int /\ p \in Int /\ \A i \in 1 .. p : s[i] \in S
      BY <1>1
    <3> QED
      BY <3>1, SubSeqProperties
  <2> HIDE DEF head
  <2> QED
    BY <1>1, <2>1
<1>3. /\ tail \in Seq(S) /\ Len(tail) = Len(s) - p
      /\ \A i \in 1 .. Len(s) - p : tail[i] = s[p + i]
  <2>1. /\ tail \in Seq(S) /\ Len(tail) = IF p + 1 <= Len(s) THEN Len(s) - (p + 1) + 1 ELSE 0
        /\ \A i \in 1 .. Len(s) - (p + 1) + 1 : tail[i] = s[(p + 1) + i - 1]
    <3>1. p + 1 \in Int /\ Len(s) \in Int /\ \A i \in p + 1 .. Len(s) : s[i] \in S
      BY <1>1
    <3> QED
      BY <3>1, SubSeqProperties
  <2> HIDE DEF tail
  <2> QED
    BY <1>1, <2>1
<1>4. <<e>> \in Seq(S) /\ Len(<<e>>) = 1 /\ <<e>>[1] = e
  OBVIOUS
<1>5. t = front \o tail
  <2>1. (p + 1) - 1 = p
    BY <1>1
  <2> QED
    BY <2>1 DEF InsertAt
<1> HIDE DEF head, tail, t
<1>6. /\ front \in Seq(S) /\ Len(front) = p + 1
      /\ \A i \in 1 .. p + 1 : front[i] = IF i <= p THEN head[i] ELSE <<e>>[i - p]
  BY <1>2, <1>4, ConcatProperties
<1> HIDE DEF front
<1>7. /\ t \in Seq(S) /\ Len(t) = (p + 1) + (Len(s) - p)
      /\ \A i \in 1 .. (p + 1) + (Len(s) - p) :
            t[i] = IF i <= p + 1 THEN front[i] ELSE tail[i - (p + 1)]
  <2>1. /\ t \in Seq(S) /\ Len(t) = Len(front) + Len(tail)
        /\ \A i \in 1 .. Len(front) + Len(tail) :
              t[i] = IF i <= Len(front) THEN front[i] ELSE tail[i - Len(front)]
    BY <1>3, <1>5, <1>6, ConcatProperties
  <2> QED
    BY <1>3, <1>6, <2>1
<1>8. ASSUME NEW i \in 1 .. Len(s) + 1
      PROVE  t[i] = IF i <= p THEN s[i] ELSE IF i = p + 1 THEN e ELSE s[i - 1]
  <2>1. i \in 1 .. (p + 1) + (Len(s) - p)
    BY <1>1
  <2>2. CASE i <= p
    BY <1>1, <1>2, <1>6, <1>7, <2>1, <2>2
  <2>3. CASE i = p + 1
    <3>1. i - p = 1 /\ ~(i <= p) /\ i \in 1 .. p + 1 /\ i <= p + 1
      BY <1>1, <2>3
    <3> QED
      BY <1>4, <1>6, <1>7, <2>1, <2>3, <3>1
  <2>4. CASE i > p + 1
    <3>1. /\ i - (p + 1) \in 1 .. Len(s) - p /\ p + (i - (p + 1)) = i - 1
          /\ ~(i <= p + 1) /\ ~(i <= p) /\ i # p + 1
      BY <1>1, <2>4
    <3>2. t[i] = tail[i - (p + 1)]
      BY <1>7, <2>1, <3>1
    <3>3. tail[i - (p + 1)] = s[p + (i - (p + 1))]
      BY <1>3, <3>1
    <3> QED
      BY <3>1, <3>2, <3>3
  <2> QED
    BY <1>1, <2>2, <2>3, <2>4
<1>9. Len(t) = Len(s) + 1
  BY <1>1, <1>7
<1> QED
  BY <1>7, <1>8, <1>9 DEF t

LEMMA RemovedAt ==
  ASSUME NEW S, NEW s \in Seq(S), NEW p \in 1 .. Len(s)
  PROVE  LET t == RemoveAt(s, p) IN
         /\ t \in Seq(S) /\ Len(t) = Len(s) - 1
         /\ \A i \in 1 .. Len(s) - 1 : t[i] = IF i < p THEN s[i] ELSE s[i + 1]
<1> DEFINE t == RemoveAt(s, p)
           head == SubSeq(s, 1, p - 1)
           tail == SubSeq(s, p + 1, Len(s))
<1>1. Len(s) \in Nat /\ p \in Nat /\ 1 <= p /\ p <= Len(s) /\ \A i \in 1 .. Len(s) : s[i] \in S
  BY LenProperties, ElementOfSeq
<1>2. /\ head \in Seq(S) /\ Len(head) = p - 1
      /\ \A i \in 1 .. p - 1 : head[i] = s[i]
  <2>1. /\ head \in Seq(S) /\ Len(head) = IF 1 <= p - 1 THEN (p - 1) - 1 + 1 ELSE 0
        /\ \A i \in 1 .. (p - 1) - 1 + 1 : head[i] = s[1 + i - 1]
    <3>1. 1 \in Int /\ p - 1 \in Int /\ \A i \in 1 .. p - 1 : s[i] \in S
      BY <1>1
    <3> QED
      BY <3>1, SubSeqProperties
  <2> HIDE DEF head
  <2> QED
    BY <1>1, <2>1
<1>3. /\ tail \in Seq(S) /\ Len(tail) = Len(s) - p
      /\ \A i \in 1 .. Len(s) - p : tail[i] = s[p + i]
  <2>1. /\ tail \in Seq(S) /\ Len(tail) = IF p + 1 <= Len(s) THEN Len(s) - (p + 1) + 1 ELSE 0
        /\ \A i \in 1 .. Len(s) - (p + 1) + 1 : tail[i] = s[(p + 1) + i - 1]
    <3>1. p + 1 \in Int /\ Len(s) \in Int /\ \A i \in p + 1 .. Len(s) : s[i] \in S
      BY <1>1
    <3> QED
      BY <3>1, SubSeqProperties
  <2> HIDE DEF tail
  <2> QED
    BY <1>1, <2>1
<1>4. t = head \o tail
  BY DEF RemoveAt
<1> HIDE DEF head, tail, t
<1>5. /\ t \in Seq(S) /\ Len(t) = (p - 1) + (Len(s) - p)
      /\ \A i \in 1 .. (p - 1) + (Len(s) - p) :
            t[i] = IF i <= p - 1 THEN head[i] ELSE tail[i - (p - 1)]
  <2>1. /\ t \in Seq(S) /\ Len(t) = Len(head) + Len(tail)
        /\ \A i \in 1 .. Len(head) + Len(tail) :
              t[i] = IF i <= Len(head) THEN head[i] ELSE tail[i - Len(head)]
    BY <1>2, <1>3, <1>4, ConcatProperties
  <2> QED
    BY <1>2, <1>3, <2>1
<1>6. ASSUME NEW i \in 1 .. Len(s) - 1
      PROVE  t[i] = IF i < p THEN s[i] ELSE s[i + 1]
  <2>1. i \in 1 .. (p - 1) + (Len(s) - p)
    BY <1>1
  <2>2. CASE i < p
    BY <1>1, <1>2, <1>5, <2>1, <2>2
  <2>3. CASE i >= p
    <3>1. i - (p - 1) \in 1 .. Len(s) - p /\ ~(i <= p - 1) /\ p + (i - (p - 1)) = i + 1
      BY <1>1, <2>3
    <3> QED
      BY <1>1, <1>3, <1>5, <2>1, <2>3, <3>1
  <2> QED
    BY <1>1, <2>2, <2>3
<1>7. Len(t) = Len(s) - 1
  BY <1>1, <1>5
<1> QED
  BY <1>5, <1>6, <1>7 DEF t

\* What is not there yet is inserted where it belongs.
LEMMA InsertKeepsOrder ==
  ASSUME NEW s \in Seq(Values), Sorted(s), NEW v \in Values, ~Closest(s, v).found
  PROVE  LET t == InsertAt(s, Closest(s, v).at + 1, v) IN
         t \in Seq(Values) /\ Len(t) = Len(s) + 1 /\ Sorted(t)
<1> DEFINE p == Closest(s, v).at
           t == InsertAt(s, p + 1, v)
<1>1. Values \subseteq Int /\ s \in Seq(Int) /\ v \in Int
  BY ArrayAssumption, SeqMonotonic
<1>2. Len(s) \in Nat /\ \A i \in 1 .. Len(s) : s[i] \in Int
  BY <1>1, LenProperties, ElementOfSeq
<1>3. /\ p \in 0 .. Len(s)
      /\ \A i \in 1 .. Len(s) : (i <= p <=> s[i] < v) /\ s[i] # v
  BY <1>1, ClosestFinds DEF Finds
<1>4. /\ t \in Seq(Values) /\ Len(t) = Len(s) + 1
      /\ \A i \in 1 .. Len(s) + 1 :
            t[i] = IF i <= p THEN s[i] ELSE IF i = p + 1 THEN v ELSE s[i - 1]
  <2> HIDE DEF p
  <2> QED
    BY <1>3, InsertedAt
<1> HIDE DEF p, t
<1>5. ASSUME NEW i \in 1 .. Len(s) + 1, NEW j \in 1 .. Len(s) + 1, i < j
      PROVE  t[i] < t[j]
  <2>1. /\ i <= p => i \in 1 .. Len(s) /\ s[i] < v
        /\ i > p + 1 => i - 1 \in 1 .. Len(s) /\ v < s[i - 1]
        /\ j <= p => j \in 1 .. Len(s) /\ s[j] < v
        /\ j > p + 1 => j - 1 \in 1 .. Len(s) /\ v < s[j - 1]
    <3>1. \A k \in 1 .. Len(s) : k > p => v < s[k]
      BY <1>1, <1>2, <1>3
    <3> QED
      BY <1>2, <1>3, <3>1
  <2>2. CASE j <= p
    <3>1. i \in 1 .. Len(s) /\ j \in 1 .. Len(s) /\ i <= p
      BY <1>2, <1>3, <1>5, <2>2
    <3>2. s[i] < s[j]
      BY <1>5, <3>1 DEF Sorted
    <3> QED
      BY <1>4, <2>2, <3>1, <3>2
  <2>3. CASE i > p + 1
    <3>1. i - 1 \in 1 .. Len(s) /\ j - 1 \in 1 .. Len(s) /\ i - 1 < j - 1
      BY <1>2, <1>3, <1>5, <2>3
    <3>2. s[i - 1] < s[j - 1]
      BY <3>1 DEF Sorted
    <3> QED
      BY <1>2, <1>3, <1>4, <1>5, <2>3, <3>2
  <2>4. CASE i <= p + 1 /\ j > p
    <3>1. CASE i <= p /\ j = p + 1
      <4>1. s[i] < v /\ ~(j <= p)
        BY <1>3, <2>1, <3>1
      <4>2. t[i] = s[i] /\ t[j] = v
        BY <1>4, <3>1, <4>1
      <4> QED
        BY <4>1, <4>2
    <3>2. CASE i = p + 1 /\ j > p + 1
      BY <1>2, <1>3, <1>4, <2>1, <3>2
    <3>3. CASE i <= p /\ j > p + 1
      <4>1. s[i] < v /\ v < s[j - 1] /\ s[i] \in Int /\ s[j - 1] \in Int
        BY <1>2, <2>1, <3>3
      <4> QED
        BY <1>1, <1>2, <1>3, <1>4, <3>3, <4>1
    <3> QED
      BY <1>2, <1>3, <1>5, <2>4, <3>1, <3>2, <3>3
  <2> QED
    BY <1>2, <1>3, <2>2, <2>3, <2>4
<1>6. Sorted(t)
  BY <1>4, <1>5 DEF Sorted
<1> QED
  BY <1>4, <1>6 DEF p, t

LEMMA RemoveKeepsOrder ==
  ASSUME NEW s \in Seq(Values), Sorted(s), NEW v \in Values, Closest(s, v).found
  PROVE  LET t == RemoveAt(s, Closest(s, v).at + 1) IN
         t \in Seq(Values) /\ Len(t) = Len(s) - 1 /\ Sorted(t)
<1> DEFINE p == Closest(s, v).at + 1
           t == RemoveAt(s, p)
<1>1. Values \subseteq Int /\ s \in Seq(Int) /\ v \in Int
  BY ArrayAssumption, SeqMonotonic
<1>2. Len(s) \in Nat
  BY LenProperties
<1>3. p \in 1 .. Len(s)
  BY <1>1, ClosestFinds DEF Finds
<1>4. /\ t \in Seq(Values) /\ Len(t) = Len(s) - 1
      /\ \A i \in 1 .. Len(s) - 1 : t[i] = IF i < p THEN s[i] ELSE s[i + 1]
  BY <1>3, RemovedAt
<1> HIDE DEF p, t
<1>5. ASSUME NEW i \in 1 .. Len(s) - 1, NEW j \in 1 .. Len(s) - 1, i < j
      PROVE  t[i] < t[j]
  BY <1>2, <1>3, <1>4, <1>5 DEF Sorted
<1>6. Sorted(t)
  BY <1>4, <1>5 DEF Sorted
<1> QED
  BY <1>4, <1>6 DEF p, t

-----------------------------------------------------------------------------
(* The arrays.                                                              *)

ArrayTypes ==
    /\ arrays \in [Arrays -> [entries : Seq(Values), buffer : SUBSET held]]
    /\ \A a \in Arrays : \A g, h \in arrays[a].buffer : g = h
    /\ \A a \in Arrays : Sorted(arrays[a].entries)
    /\ lost \subseteq held

ArraysInvariant == HeapInvariant /\ ArrayTypes /\ BuffersHoldEntries

LEMMA BlocksEnough ==
  ASSUME NEW n \in Nat \ {0}
  PROVE  BlocksFor(n) \in Nat \ {0} /\ n <= BlocksFor(n) * PerBlock
<1>1. PerBlock \in Nat \ {0}
  BY ArrayAssumption
<1> QED
  BY <1>1 DEF BlocksFor

\* The heap through a move: the new allocation is made before the old is freed.
LEMMA MovedKeepsHeap ==
  ASSUME ArraysInvariant, NEW a \in Arrays, NEW entries \in Seq(Values), Len(entries) # 0,
         NEW b \in 0 .. Total - 1, Moved(a, entries, b)
  PROVE  LET h == [start |-> b, size |-> BlocksFor(Len(entries))] IN
         /\ HeapInvariant'
         /\ h \notin held
         /\ held' = (held \cup {h}) \ arrays[a].buffer
         /\ arrays' = [arrays EXCEPT ![a] = [entries |-> entries, buffer |-> {h}]]
         /\ Len(entries) <= h.size * PerBlock
<1> DEFINE n == BlocksFor(Len(entries))
           h == [start |-> b, size |-> n]
           old == arrays[a].buffer
           m == Marked(b, n)
           cleared == UNION {Freed(g.start) : g \in old}
<1>1. n \in Nat \ {0} /\ Len(entries) <= n * PerBlock
  <2>1. Len(entries) \in Nat \ {0}
    BY LenProperties
  <2> QED
    BY <2>1, BlocksEnough
<1>2. b \in Nat /\ Fits(b, n)
  BY DEF Moved, Candidates
<1>3. /\ control' = [i \in Blocks |-> IF i \in cleared THEN "free" ELSE m[i]]
      /\ free' = free - n + Cardinality(cleared)
      /\ held' = (held \cup {h}) \ old
      /\ arrays' = [arrays EXCEPT ![a] = [entries |-> entries, buffer |-> {h}]]
  BY DEF Moved, Blocks
<1> HIDE DEF n
<1>4. /\ m \in [Blocks -> Word] /\ Owned(m, held \cup {h}) /\ h \notin held
      /\ \A i \in Span(h) : control[i] = "free" /\ m[i] # "free"
      /\ \A i \in Blocks : i \notin Span(h) => m[i] = control[i]
  BY <1>1, <1>2, MarkOwned DEF ArraysInvariant, HeapInvariant
<1>5. /\ h \in [start : Nat, size : Nat \ {0}] /\ h.start + h.size <= Total /\ h.size = n
      /\ \A i \in 0 .. Total - 1 : i \in Blocks
  BY <1>1, <1>2, HeapAssumption DEF Fits, Blocks
<1>6. held \cup {h} \in SUBSET [start : Nat, size : Nat \ {0}]
  BY <1>5 DEF ArraysInvariant, HeapInvariant, HeapTypes
<1>7. /\ Cardinality(FreeIn(control)) \in Nat /\ free = Cardinality(FreeIn(control))
      /\ Cardinality(FreeIn(m)) = Cardinality(FreeIn(control)) - n
  <2> HIDE DEF h, m
  <2>1. Takes(control, m, h)
    BY <1>4, <1>5 DEF Takes
  <2> QED
    BY <1>5, <2>1, SpanCounts DEF ArraysInvariant, HeapInvariant, FreeCounted
<1>8. old = {} \/ \E o \in held : old = {o}
  BY DEF ArraysInvariant, ArrayTypes
<1>9. /\ control' \in [Blocks -> Word] /\ Owned(control', held')
      /\ free' = Cardinality(FreeIn(control'))
  <2>1. CASE old = {}
    <3>1. cleared = {} /\ Cardinality(cleared) = 0
      BY <2>1, FS_EmptySet
    <3>2. control' = m /\ held' = held \cup {h} /\ free' = free - n
      <4> HIDE DEF cleared, m, h
      <4>1. control' = [i \in Blocks |-> m[i]]
        BY <1>3, <3>1
      <4>2. control' = m
        BY <1>4, <4>1
      <4>3. free \in Int /\ n \in Int
        BY <1>1, <1>7
      <4> QED
        BY <1>3, <2>1, <3>1, <4>2, <4>3
    <3> QED
      BY <1>4, <1>7, <3>2
  <2>2. ASSUME NEW o \in held, old = {o}
        PROVE  /\ control' \in [Blocks -> Word] /\ Owned(control', held')
               /\ free' = Cardinality(FreeIn(control'))
    <3>1. cleared = Span(o)
      <4>1. Freed(o.start) = Span(o)
        BY FreedSpan DEF ArraysInvariant, HeapInvariant
      <4>2. cleared = Freed(o.start)
        BY <2>2
      <4> QED
        BY <4>1, <4>2
    <3>2. control' = Cleared(m, Span(o)) /\ held' = (held \cup {h}) \ {o}
      BY <1>3, <2>2, <3>1 DEF Cleared
    <3>3. o \in held \cup {h}
      OBVIOUS
    <3> HIDE DEF m, h, cleared
    <3>4. control' \in [Blocks -> Word] /\ Owned(control', held')
      BY <1>4, <1>6, <3>2, <3>3, ClearOwned
    <3>5. /\ Span(o) \subseteq Blocks /\ \A i \in Span(o) : m[i] # "free"
          /\ o.start + o.size <= Total /\ o \in [start : Nat, size : Nat \ {0}]
      BY <1>4, <1>6, <3>3, SpanBlocks DEF Owned
    <3>6. /\ \A i \in Span(o) : control'[i] = "free"
          /\ \A i \in 0 .. Total - 1 : i \notin Span(o) => m[i] = control'[i]
      BY <1>5, <3>2, <3>5 DEF Cleared
    <3>7. /\ Cardinality(FreeIn(control')) \in Nat /\ o.size \in Nat
          /\ Cardinality(FreeIn(m)) = Cardinality(FreeIn(control')) - o.size
          /\ Cardinality(Span(o)) = o.size
      <4>1. Takes(control', m, o)
        BY <3>5, <3>6 DEF Takes
      <4> QED
        BY <3>5, <4>1, SpanCounts
    <3>8. free' = Cardinality(FreeIn(control'))
      BY <1>1, <1>3, <1>7, <3>1, <3>7
    <3> QED
      BY <3>4, <3>8
  <2> QED
    BY <1>8, <2>1, <2>2
<1>10. HeapInvariant'
  <2>1. HeapTypes'
    BY <1>3, <1>6, <1>9 DEF HeapTypes
  <2>2. BlocksOwnedOnce'
    BY <1>9 DEF BlocksOwnedOnce, Owned, Blocks
  <2> QED
    BY <1>9, <2>1, <2>2 DEF HeapInvariant, FreeCounted, FreeIn
<1> QED
  BY <1>1, <1>3, <1>4, <1>10 DEF n

LEMMA MovedKeeps ==
  ASSUME ArraysInvariant, NEW a \in Arrays, NEW entries \in Seq(Values), Len(entries) # 0,
         Sorted(entries), NEW b \in 0 .. Total - 1, Moved(a, entries, b), UNCHANGED lost
  PROVE  ArraysInvariant'
<1> DEFINE h == [start |-> b, size |-> BlocksFor(Len(entries))]
<1>1. /\ HeapInvariant'
      /\ h \notin held
      /\ held' = (held \cup {h}) \ arrays[a].buffer
      /\ arrays' = [arrays EXCEPT ![a] = [entries |-> entries, buffer |-> {h}]]
      /\ Len(entries) <= h.size * PerBlock
  BY MovedKeepsHeap
<1> HIDE DEF h
<1>2. /\ arrays \in [Arrays -> [entries : Seq(Values), buffer : SUBSET held]]
      /\ \A c \in Arrays : arrays[c].buffer \subseteq held \ lost
      /\ \A c, d \in Arrays : c # d => arrays[c].buffer \cap arrays[d].buffer = {}
      /\ lost \subseteq held
  BY DEF ArraysInvariant, ArrayTypes, BuffersHoldEntries
<1>3. /\ arrays'[a] = [entries |-> entries, buffer |-> {h}]
      /\ \A c \in Arrays : c # a => arrays'[c] = arrays[c]
      /\ DOMAIN arrays' = Arrays
  BY <1>1, <1>2
<1>4. h \in held' \ lost /\ lost \subseteq held'
  BY <1>1, <1>2
<1>5. \A c \in Arrays : c # a => arrays[c].buffer \subseteq held' \ lost /\ h \notin arrays[c].buffer
  BY <1>1, <1>2
<1>6. ArrayTypes'
  <2>1. \A c \in Arrays : arrays'[c] \in [entries : Seq(Values), buffer : SUBSET held']
    BY <1>2, <1>3, <1>4, <1>5
  <2>2. arrays' = [c \in Arrays |-> arrays'[c]]
    BY <1>1, <1>2
  <2>3. \A c \in Arrays : \A g, k \in arrays'[c].buffer : g = k
    <3>1. \A c \in Arrays : c # a => \A g, k \in arrays'[c].buffer : g = k
      BY <1>3 DEF ArraysInvariant, ArrayTypes
    <3>2. arrays'[a].buffer = {h}
      BY <1>3
    <3>3. \A g, k \in arrays'[a].buffer : g = k
      BY <3>2
    <3> QED
      BY <3>1, <3>3
  <2>4. \A c \in Arrays : Sorted(arrays'[c].entries)
    BY <1>3 DEF ArraysInvariant, ArrayTypes
  <2> QED
    BY <1>4, <2>1, <2>2, <2>3, <2>4 DEF ArrayTypes, Sorted
<1>7. BuffersHoldEntries'
  <2>1. \A c \in Arrays : arrays'[c].buffer \subseteq held' \ lost
    BY <1>3, <1>4, <1>5
  <2>2. \A c \in Arrays : (arrays'[c].entries = <<>>) = (arrays'[c].buffer = {})
    <3>1. entries # <<>>
      BY EmptySeq
    <3> QED
      BY <1>3, <3>1 DEF ArraysInvariant, BuffersHoldEntries
  <2>3. \A c \in Arrays : \A g \in arrays'[c].buffer : Len(arrays'[c].entries) <= g.size * PerBlock
    BY <1>1, <1>3 DEF ArraysInvariant, BuffersHoldEntries
  <2>4. \A c, d \in Arrays : c # d => arrays'[c].buffer \cap arrays'[d].buffer = {}
    <3>1. arrays'[a].buffer = {h}
      BY <1>3
    <3>2. \A c \in Arrays : c # a => arrays'[c].buffer = arrays[c].buffer /\ h \notin arrays[c].buffer
      BY <1>3, <1>5
    <3> QED
      BY <1>2, <3>1, <3>2
  <2> QED
    BY <1>1, <2>1, <2>2, <2>3, <2>4 DEF BuffersHoldEntries, HeapInvariant, FreeCounted, FreeIn
<1> QED
  BY <1>1, <1>6, <1>7 DEF ArraysInvariant

\* The arrays when the heap changes only outside their buffers.
LEMMA ArraysStay ==
  ASSUME ArraysInvariant, HeapInvariant', Buffers \cup lost \subseteq held',
         UNCHANGED <<arrays, lost>>
  PROVE  ArraysInvariant'
<1>1. \A a \in Arrays : arrays[a].buffer \subseteq Buffers
  BY DEF Buffers
<1>2. ArrayTypes'
  <2>1. \A a \in Arrays : arrays[a] \in [entries : Seq(Values), buffer : SUBSET held']
    BY <1>1 DEF ArraysInvariant, ArrayTypes
  <2>2. arrays \in [Arrays -> [entries : Seq(Values), buffer : SUBSET held']]
    BY <2>1 DEF ArraysInvariant, ArrayTypes
  <2> QED
    BY <2>2 DEF ArraysInvariant, ArrayTypes, Sorted
<1>3. BuffersHoldEntries'
  <2>1. \A a \in Arrays : arrays[a].buffer \subseteq held' \ lost
    BY <1>1 DEF ArraysInvariant, BuffersHoldEntries
  <2> QED
    BY <2>1 DEF ArraysInvariant, BuffersHoldEntries, HeapInvariant, FreeCounted, FreeIn
<1> QED
  BY <1>2, <1>3 DEF ArraysInvariant

\* An array that is emptied: its buffer is lost, or no longer held.
LEMMA Emptied ==
  ASSUME ArraysInvariant, HeapInvariant', NEW a \in Arrays,
         arrays' = [arrays EXCEPT ![a] = Empty],
         lost' \subseteq held', lost' \subseteq lost \cup arrays[a].buffer,
         held \ held' \subseteq arrays[a].buffer, held' \subseteq held
  PROVE  ArraysInvariant'
<1>1. /\ arrays \in [Arrays -> [entries : Seq(Values), buffer : SUBSET held]]
      /\ \A c \in Arrays : arrays[c].buffer \subseteq held \ lost
      /\ \A c, d \in Arrays : c # d => arrays[c].buffer \cap arrays[d].buffer = {}
  BY DEF ArraysInvariant, ArrayTypes, BuffersHoldEntries
<1>2. /\ arrays'[a] = Empty
      /\ \A c \in Arrays : c # a => arrays'[c] = arrays[c]
  BY <1>1
<1>3. Empty.entries = <<>> /\ Empty.buffer = {} /\ <<>> \in Seq(Values) /\ Len(<<>>) = 0
  BY EmptySeq DEF Empty
<1>4. \A c \in Arrays : arrays'[c].buffer \subseteq held' \ lost'
  <2>1. \A c \in Arrays : c # a => arrays[c].buffer \subseteq held' \ lost'
    BY <1>1
  <2> QED
    BY <1>2, <1>3, <2>1
<1>5. ArrayTypes'
  <2>1. \A c \in Arrays : arrays'[c] \in [entries : Seq(Values), buffer : SUBSET held']
    <3>1. Empty \in [entries : Seq(Values), buffer : SUBSET held']
      BY <1>3 DEF Empty
    <3>2. ASSUME NEW c \in Arrays, c # a
          PROVE  arrays[c] \in [entries : Seq(Values), buffer : SUBSET held']
      <4>1. arrays[c].buffer \subseteq held'
        BY <1>2, <1>4, <3>2
      <4> QED
        BY <1>1, <4>1
    <3> QED
      BY <1>2, <3>1, <3>2
  <2>2. arrays' = [c \in Arrays |-> arrays'[c]]
    BY <1>1
  <2>3. \A c \in Arrays : \A g, k \in arrays'[c].buffer : g = k
    BY <1>2, <1>3 DEF ArraysInvariant, ArrayTypes
  <2>4. \A c \in Arrays : Sorted(arrays'[c].entries)
    <3>1. Sorted(<<>>)
      BY DEF Sorted
    <3> QED
      BY <1>2, <1>3, <3>1 DEF ArraysInvariant, ArrayTypes
  <2> QED
    BY <2>1, <2>2, <2>3, <2>4 DEF ArrayTypes, Sorted
<1>6. BuffersHoldEntries'
  <2>1. \A c \in Arrays : (arrays'[c].entries = <<>>) = (arrays'[c].buffer = {})
    BY <1>2, <1>3 DEF ArraysInvariant, BuffersHoldEntries
  <2>2. \A c \in Arrays : \A g \in arrays'[c].buffer : Len(arrays'[c].entries) <= g.size * PerBlock
    BY <1>2, <1>3 DEF ArraysInvariant, BuffersHoldEntries
  <2>3. \A c, d \in Arrays : c # d => arrays'[c].buffer \cap arrays'[d].buffer = {}
    BY <1>1, <1>2, <1>3
  <2> QED
    BY <1>4, <2>1, <2>2, <2>3 DEF BuffersHoldEntries, HeapInvariant, FreeCounted, FreeIn
<1> QED
  BY <1>5, <1>6 DEF ArraysInvariant

LEMMA ArraysInitially == Init => ArraysInvariant
<1> SUFFICES ASSUME Init
             PROVE  ArraysInvariant
  OBVIOUS
<1>1. HeapInvariant
  BY HeapInitially DEF Init
<1>2. Empty.entries = <<>> /\ Empty.buffer = {} /\ <<>> \in Seq(Values) /\ Len(<<>>) = 0
  BY EmptySeq DEF Empty
<1>3. \A a \in Arrays : arrays[a] = Empty
  BY DEF Init
<1>4. ArrayTypes
  <2>1. Empty \in [entries : Seq(Values), buffer : SUBSET held]
    BY <1>2 DEF Empty
  <2>2. arrays \in [Arrays -> [entries : Seq(Values), buffer : SUBSET held]]
    BY <2>1 DEF Init
  <2> QED
    BY <1>2, <1>3, <2>2 DEF Init, ArrayTypes, Sorted
<1>5. BuffersHoldEntries
  BY <1>1, <1>2, <1>3 DEF BuffersHoldEntries, HeapInvariant, FreeCounted, FreeIn
<1> QED
  BY <1>1, <1>4, <1>5 DEF ArraysInvariant

LEMMA ArraysStep ==
  ASSUME ArraysInvariant, [Next]_vars
  PROVE  ArraysInvariant'
<1>1. /\ HeapInvariant /\ ArrayTypes /\ BuffersHoldEntries
      /\ \A a \in Arrays : /\ arrays[a].buffer \subseteq held \ lost
                           /\ arrays[a].entries \in Seq(Values) /\ Sorted(arrays[a].entries)
                           /\ Len(arrays[a].entries) \in Nat
      /\ Buffers \cup lost \subseteq held
  BY LenProperties DEF ArraysInvariant, ArrayTypes, BuffersHoldEntries, Buffers
<1>2. ASSUME NEW a \in Arrays, NEW v \in Values, Insert(a, v)
      PROVE  ArraysInvariant'
  <2> DEFINE s == arrays[a].entries
             t == InsertAt(s, Closest(s, v).at + 1, v)
  <2>1. t \in Seq(Values) /\ Len(t) = Len(s) + 1 /\ Sorted(t)
    BY <1>1, <1>2, InsertKeepsOrder DEF Insert
  <2>2. Len(t) # 0
    BY <1>1, <2>1
  <2>3. CASE \E b \in 0 .. Total - 1 : Moved(a, t, b)
    <3> HIDE DEF t
    <3> QED
      BY <1>2, <2>1, <2>2, <2>3, MovedKeeps DEF Insert
  <2>4. CASE UNCHANGED <<control, free, held, arrays>>
    <3>1. HeapInvariant' /\ held' = held /\ UNCHANGED <<arrays, lost>>
      BY <1>1, <1>2, <2>4
         DEF Insert, HeapInvariant, HeapTypes, BlocksOwnedOnce, FreeCounted, FreeIn
    <3> QED
      BY <1>1, <3>1, ArraysStay
  <2> QED
    BY <1>2, <2>3, <2>4 DEF Insert
<1>3. ASSUME NEW a \in Arrays, NEW v \in Values, RemoveEntry(a, v)
      PROVE  ArraysInvariant'
  <2> DEFINE s == arrays[a].entries
             t == RemoveAt(s, Closest(s, v).at + 1)
  <2>1. t \in Seq(Values) /\ Len(t) = Len(s) - 1 /\ Sorted(t)
    BY <1>1, <1>3, RemoveKeepsOrder DEF RemoveEntry
  <2>2. CASE Len(s) > 1 /\ UNCHANGED lost /\ \E b \in 0 .. Total - 1 : Moved(a, t, b)
    <3>1. Len(t) # 0
      BY <1>1, <2>1, <2>2
    <3> HIDE DEF t
    <3> QED
      BY <2>1, <2>2, <3>1, MovedKeeps
  <2>3. CASE UNCHANGED <<control, free, held, arrays>> /\ UNCHANGED lost
    <3>1. HeapInvariant' /\ held' = held /\ UNCHANGED <<arrays, lost>>
      BY <1>1, <2>3 DEF HeapInvariant, HeapTypes, BlocksOwnedOnce, FreeCounted, FreeIn
    <3> QED
      BY <1>1, <3>1, ArraysStay
  <2>4. CASE /\ arrays' = [arrays EXCEPT ![a] = Empty]
             /\ lost' = lost \cup arrays[a].buffer
             /\ UNCHANGED <<control, free, held>>
    <3>1. HeapInvariant'
      BY <1>1, <2>4 DEF HeapInvariant, HeapTypes, BlocksOwnedOnce, FreeCounted, FreeIn
    <3> QED
      BY <1>1, <2>4, <3>1, Emptied
  <2> QED
    BY <1>3, <2>2, <2>3, <2>4 DEF RemoveEntry
<1>4. ASSUME NEW a \in Arrays, Delete(a)
      PROVE  ArraysInvariant'
  <2>1. arrays' = [arrays EXCEPT ![a] = Empty] /\ lost' = lost
    BY <1>4 DEF Delete
  <2>2. ASSUME NEW h \in arrays[a].buffer, FreeBlock(h)
        PROVE  ArraysInvariant'
    <3>1. h \in held /\ held' = held \ {h} /\ h \notin lost
      BY <1>1, <2>2 DEF FreeBlock
    <3>2. HeapInvariant'
      BY <1>1, <2>2, <3>1, FreeKeeps
    <3>3. lost' \subseteq held' /\ held \ held' \subseteq arrays[a].buffer
      BY <1>1, <2>1, <2>2, <3>1
    <3> QED
      BY <2>1, <3>1, <3>2, <3>3, Emptied
  <2>3. CASE UNCHANGED heapVars
    <3>1. HeapInvariant' /\ held' = held
      BY <1>1, <2>3
         DEF heapVars, HeapInvariant, HeapTypes, BlocksOwnedOnce, FreeCounted, FreeIn
    <3> QED
      BY <1>1, <2>1, <3>1, Emptied
  <2> QED
    BY <1>4, <2>2, <2>3 DEF Delete
<1>5. CASE Others
  <2>1. UNCHANGED <<arrays, lost>>
    BY <1>5 DEF Others
  <2>2. ASSUME NEW r \in Requests, NEW b \in 0 .. Total - 1, AllocAt(r, b)
        PROVE  ArraysInvariant'
    <3>1. r \in [blocks : Nat \ {0}, align : Nat \ {0}] /\ b \in Candidates(r)
      BY <2>2, HeapAssumption DEF AllocAt
    <3>2. HeapInvariant'
      BY <1>1, <2>2, <3>1, CandidateFits, AllocKeeps DEF AllocAt
    <3>3. held \subseteq held'
      BY <2>2 DEF AllocAt
    <3> QED
      BY <1>1, <2>1, <3>2, <3>3, ArraysStay
  <2>3. ASSUME NEW h \in held \ (Buffers \cup lost), FreeBlock(h)
        PROVE  ArraysInvariant'
    <3>1. HeapInvariant'
      BY <1>1, <2>3, FreeKeeps
    <3>2. Buffers \cup lost \subseteq held'
      BY <1>1, <2>3 DEF FreeBlock
    <3> QED
      BY <2>1, <3>1, <3>2, ArraysStay
  <2>4. CASE UNCHANGED heapVars
    <3>1. HeapInvariant' /\ held' = held
      BY <1>1, <2>4
         DEF heapVars, HeapInvariant, HeapTypes, BlocksOwnedOnce, FreeCounted, FreeIn
    <3> QED
      BY <1>1, <2>1, <3>1, ArraysStay
  <2> QED
    BY <1>5, <2>2, <2>3, <2>4 DEF Others, AllocFails, FreeRefused
<1>6. CASE UNCHANGED vars
  <2>1. HeapInvariant' /\ held' = held /\ UNCHANGED <<arrays, lost>>
    BY <1>1, <1>6 DEF vars, HeapInvariant, HeapTypes, BlocksOwnedOnce, FreeCounted, FreeIn
  <2> QED
    BY <1>1, <2>1, ArraysStay
<1> QED
  BY <1>2, <1>3, <1>4, <1>5, <1>6 DEF Next

\* The invariant, for a heap of any size and arrays of any length.
THEOREM ArraysCorrect == Spec => []ArraysInvariant
BY ArraysInitially, ArraysStep, PTL DEF Spec

\* Whatever the arrays and the other users of the heap do, also with two
\* allocations changed in one call, every block has one owner.
THEOREM ArraysOwnBlocksOnce == Spec => []BlocksOwnedOnce
<1>1. ArraysInvariant => BlocksOwnedOnce
  BY DEF ArraysInvariant, HeapInvariant
<1> QED
  BY <1>1, ArraysCorrect, PTL

\* An array's buffer is held, its own and as large as its entries need, and the
\* heap's count of free blocks is right, also after moves that found no room.
THEOREM BuffersLargeEnough == Spec => []BuffersHoldEntries
<1>1. ArraysInvariant => BuffersHoldEntries
  BY DEF ArraysInvariant
<1> QED
  BY <1>1, ArraysCorrect, PTL

\* The arrays stay in order, and the binary search in them finds exactly the
\* values they hold and otherwise the place to insert at.
THEOREM SearchedInOrder == Spec => []SearchKeepsOrder
<1>1. ArraysInvariant => SearchKeepsOrder
  <2> SUFFICES ASSUME ArraysInvariant, NEW a \in Arrays
               PROVE  LET s == arrays[a].entries
                      IN  /\ \A i \in 1 .. Len(s) - 1 : s[i] < s[i + 1]
                          /\ \A v \in Values :
                                /\ Closest(s, v).found = (\E i \in 1 .. Len(s) : s[i] = v)
                                /\ \A i \in 1 .. Len(s) : (i <= Closest(s, v).at) = (s[i] < v)
    BY DEF SearchKeepsOrder
  <2> DEFINE s == arrays[a].entries
  <2>1. s \in Seq(Int) /\ Sorted(s) /\ Len(s) \in Nat
    <3>1. s \in Seq(Values) /\ Sorted(s)
      BY DEF ArraysInvariant, ArrayTypes
    <3> HIDE DEF s
    <3> QED
      BY <3>1, ArrayAssumption, SeqMonotonic, LenProperties
  <2> HIDE DEF s
  <2>2. \A i \in 1 .. Len(s) - 1 : s[i] < s[i + 1]
    BY <2>1 DEF Sorted
  <2>3. ASSUME NEW v \in Values
        PROVE  /\ Closest(s, v).found = (\E i \in 1 .. Len(s) : s[i] = v)
               /\ \A i \in 1 .. Len(s) : (i <= Closest(s, v).at) = (s[i] < v)
    <3>1. Finds(Closest(s, v), s, v)
      BY <2>1, ArrayAssumption, ClosestFinds
    <3>2. /\ Closest(s, v).found \in BOOLEAN
          /\ Closest(s, v).found <=> \E i \in 1 .. Len(s) : s[i] = v
          /\ \A i \in 1 .. Len(s) : i <= Closest(s, v).at <=> s[i] < v
      BY <3>1 DEF Finds
    <3>3. Closest(s, v).found = (\E i \in 1 .. Len(s) : s[i] = v)
      BY <3>2
    <3>4. \A i \in 1 .. Len(s) : (i <= Closest(s, v).at) = (s[i] < v)
      BY <3>2
    <3> QED
      BY <3>3, <3>4
  <2> QED
    BY <2>2, <2>3 DEF s
<1> QED
  BY <1>1, ArraysCorrect, PTL
-----------------------------------------------------------------------------
(* The allocator's scan.                                                    *)

LEMMA Multiple ==
  ASSUME NEW d \in Nat \ {0}, NEW q \in Int
  PROVE  (d * q) % d = 0
<1> DEFINE p == (d * q) \div d
           m == (d * q) % d
<1>1. d * q = d * p + m /\ m \in 0 .. d - 1 /\ p \in Int /\ d * q \in Int
  OBVIOUS
<1> HIDE DEF p, m
<1>2. d * (q - p) = m /\ q - p \in Int
  BY <1>1
<1>3. q - p < 1 /\ q - p > -1
  BY <1>1, <1>2
<1>4. q = p
  BY <1>1, <1>3
<1> QED
  BY <1>2, <1>4 DEF m

\* Two aligned blocks are at least the alignment apart.
LEMMA AlignedApart ==
  ASSUME NEW align \in Nat \ {0}, NEW a \in Nat, NEW b \in Nat, a < b,
         Aligned(a, align), Aligned(b, align)
  PROVE  a + align <= b
<1> DEFINE i == (Start + a) \div align
           j == (Start + b) \div align
<1>1. Start \in Nat
  BY HeapAssumption
<1>2. Start + a = align * i /\ Start + b = align * j /\ i \in Int /\ j \in Int
  BY <1>1 DEF Aligned
<1> HIDE DEF i, j
<1>3. b - a = align * (j - i)
  BY <1>1, <1>2
<1>4. j - i >= 1
  BY <1>2, <1>3
<1>5. align * (j - i) >= align
  BY <1>2, <1>4
<1> QED
  BY <1>2, <1>3, <1>5

\* Rounding up leads to the next aligned block.
LEMMA RoundsUp ==
  ASSUME NEW align \in Nat \ {0}, NEW b \in Nat
  PROVE  /\ RoundUp(b, align) \in b .. b + align - 1
         /\ Aligned(RoundUp(b, align), align)
         /\ \A c \in b .. RoundUp(b, align) - 1 : ~Aligned(c, align)
<1> DEFINE first == (-Start) % align
           p == (-Start) \div align
           x == b - first + align - 1
           q == x \div align
           r == x % align
           at == RoundUp(b, align)
<1>1. Start \in Nat
  BY HeapAssumption
<1>2. first \in 0 .. align - 1 /\ -Start = align * p + first /\ p \in Int
  BY <1>1
<1>3. at = first + align * q
  BY DEF RoundUp
<1> HIDE DEF first, p
<1>4. x \in Int /\ x = align * q + r /\ r \in 0 .. align - 1 /\ q \in Int
  BY <1>2
<1> HIDE DEF q, r, at
<1>5. at = b + align - 1 - r /\ at \in b .. b + align - 1
  BY <1>2, <1>3, <1>4
<1>6. Start + at = align * (q - p)
  BY <1>1, <1>2, <1>3, <1>4
<1>7. Aligned(at, align)
  <2>1. q - p \in Int
    BY <1>2, <1>4
  <2>2. (align * (q - p)) % align = 0
    BY <2>1, Multiple
  <2> QED
    BY <1>6, <2>2 DEF Aligned
<1>8. ASSUME NEW c \in b .. at - 1, Aligned(c, align)
      PROVE  FALSE
  <2>1. c \in Nat /\ at \in Nat /\ c < at /\ at < c + align
    BY <1>5
  <2>2. c + align <= at
    BY <1>7, <1>8, <2>1, AlignedApart
  <2> QED
    BY <2>1, <2>2
<1> QED
  BY <1>5, <1>7, <1>8 DEF at

\* Where the inner loop that starts at a free block stops.
Stops(at, n, c) ==
    /\ \A i \in at + 1 .. c - 1 : i < Total /\ control[i] = "free" /\ i < at + n
    /\ c >= Total \/ c = at + n \/ control[c] # "free"

RunEnd(at, n) == CHOOSE c \in at + 1 .. Words : Stops(at, n, c)

LEMMA RunStops ==
  ASSUME NEW at \in Nat, at < Words, NEW n \in Nat \ {0}
  PROVE  RunEnd(at, n) \in at + 1 .. Words /\ Stops(at, n, RunEnd(at, n))
<1>1. Total \in Nat /\ Words \in Nat /\ Words > Total
  BY HeapAssumption
<1> DEFINE Stop(c) == c >= Total \/ c = at + n \/ control[c] # "free"
           B == {c \in at + 1 .. Words : Stop(c)}
<1>2. B \in SUBSET Nat /\ B # {}
  <2>1. Words \in at + 1 .. Words /\ Stop(Words)
    BY <1>1
  <2> QED
    BY <2>1
<1>3. PICK c \in B : \A d \in B : c <= d
  <2> HIDE DEF B
  <2> QED
    BY <1>2, LeastNumber
<1>4. ASSUME NEW i \in at + 1 .. c - 1
      PROVE  i < Total /\ control[i] = "free" /\ i < at + n
  <2>1. i \notin B /\ i \in at + 1 .. Words
    <3>1. c \in at + 1 .. Words
      BY <1>3
    <3>2. i \in at + 1 .. Words /\ ~(c <= i)
      BY <1>1, <1>4, <3>1
    <3> HIDE DEF B
    <3> QED
      BY <1>3, <3>2
  <2>2. i < Total /\ control[i] = "free" /\ i # at + n
    BY <1>1, <2>1
  <2>3. ASSUME i > at + n
        PROVE  FALSE
    <3>1. at + n \in at + 1 .. Words
      BY <1>1, <2>1, <2>3
    <3>2. at + n \in B
      BY <3>1
    <3> QED
      BY <1>3, <1>4, <2>3, <3>2
  <2> QED
    BY <2>1, <2>2, <2>3
<1>5. c \in at + 1 .. Words /\ Stops(at, n, c)
  BY <1>3, <1>4 DEF Stops
<1> QED
  BY <1>5 DEF RunEnd

\* One turn of the outer loop, what follows it taken from f.
ScanTurn(f, b, n, align) ==
    LET at == RoundUp(b, align)
    IN  IF b >= Total THEN -1
        ELSE IF control[at] # "free" THEN f[at + 1]
        ELSE IF RunEnd(at, n) - at = n THEN at
        ELSE f[RunEnd(at, n) + 1]

ScanLoops(f, n, align) == f = [b \in 0 .. Words + 1 |-> ScanTurn(f, b, n, align)]

\* The words behind the region that the alignment can lead to exist.
LEMMA TurnGoesOn ==
  ASSUME NEW n \in Nat \ {0}, NEW align \in Nat \ {0}, Words >= Total + align - 1,
         NEW b \in 0 .. Total - 1
  PROVE  LET at == RoundUp(b, align)
         IN  /\ at \in b .. Words - 1 /\ at + 1 \in b + 1 .. Words + 1
             /\ RunEnd(at, n) + 1 \in b + 1 .. Words + 1
<1>1. Total \in Nat /\ Words \in Nat /\ Words > Total /\ b \in Nat
  BY HeapAssumption
<1> DEFINE at == RoundUp(b, align)
<1>2. at \in b .. b + align - 1
  BY <1>1, RoundsUp
<1> HIDE DEF at
<1>3. at \in b .. Words - 1 /\ at \in Nat /\ at < Words
  BY <1>1, <1>2
<1>4. RunEnd(at, n) \in at + 1 .. Words
  BY <1>3, RunStops
<1>5. RunEnd(at, n) + 1 \in b + 1 .. Words + 1 /\ at + 1 \in b + 1 .. Words + 1
  BY <1>1, <1>3, <1>4
<1> QED
  BY <1>3, <1>5 DEF at

LEMMA TurnsAgree ==
  ASSUME NEW n \in Nat \ {0}, NEW align \in Nat \ {0}, Words >= Total + align - 1,
         NEW b \in 0 .. Words + 1, NEW f, NEW g,
         \A c \in 0 .. Words + 1 : c > b => f[c] = g[c]
  PROVE  ScanTurn(f, b, n, align) = ScanTurn(g, b, n, align)
<1>1. Total \in Nat /\ Words \in Nat /\ Words > Total
  BY HeapAssumption
<1> DEFINE at == RoundUp(b, align)
           z == RunEnd(at, n)
<1>2. CASE b >= Total
  BY <1>2 DEF ScanTurn
<1>3. CASE b < Total
  <2>1. at + 1 \in b + 1 .. Words + 1 /\ z + 1 \in b + 1 .. Words + 1
    <3>1. b \in 0 .. Total - 1
      BY <1>1, <1>3
    <3> QED
      BY <3>1, TurnGoesOn
  <2> HIDE DEF at, z
  <2>2. f[at + 1] = g[at + 1] /\ f[z + 1] = g[z + 1]
    BY <1>1, <2>1
  <2> QED
    BY <2>2 DEF ScanTurn, at, z
<1> QED
  BY <1>1, <1>2, <1>3

\* The loops end: the function that the recursion describes exists.
LEMMA ScanEnds ==
  ASSUME NEW n \in Nat \ {0}, NEW align \in Nat \ {0}, Words >= Total + align - 1
  PROVE  \E f : ScanLoops(f, n, align) /\ Scan(n, align) = f[(-Start) % align]
<1>1. Total \in Nat /\ Words \in Nat /\ Words > Total
  BY HeapAssumption
<1> DEFINE D == 0 .. Words + 1
           Down(f, k) == /\ f = [b \in D |-> f[b]]
                         /\ \A b \in D : b + k >= Words + 2 => f[b] = ScanTurn(f, b, n, align)
           G == {k \in Nat : \E f : Down(f, k)}
<1>2. 0 \in G
  <2> DEFINE f == [b \in D |-> -1]
  <2>1. f = [b \in D |-> f[b]]
    OBVIOUS
  <2>2. \A b \in D : ~(b + 0 >= Words + 2)
    BY <1>1
  <2> QED
    BY <2>1, <2>2
<1>3. ASSUME NEW k \in G
      PROVE  k + 1 \in G
  <2>1. PICK f : Down(f, k)
    OBVIOUS
  <2> DEFINE g == [b \in D |-> IF b + k + 1 >= Words + 2 THEN ScanTurn(f, b, n, align) ELSE f[b]]
  <2>2. k \in Nat
    OBVIOUS
  <2>3. ASSUME NEW b \in D, b + k >= Words + 2
        PROVE  f[b] = g[b]
    <3>1. b + k + 1 >= Words + 2
      BY <1>1, <2>2, <2>3
    <3>2. g[b] = ScanTurn(f, b, n, align)
      BY <3>1
    <3> QED
      BY <2>1, <2>3, <3>2
  <2>4. g = [b \in D |-> g[b]]
    OBVIOUS
  <2>5. \A b \in D : b + k + 1 >= Words + 2 => g[b] = ScanTurn(f, b, n, align)
    OBVIOUS
  <2> HIDE DEF g
  <2>6. ASSUME NEW b \in D, b + (k + 1) >= Words + 2
        PROVE  g[b] = ScanTurn(g, b, n, align)
    <3>1. b + k + 1 >= Words + 2 /\ \A c \in D : c > b => c + k >= Words + 2
      BY <1>1, <2>2, <2>6
    <3>2. \A c \in D : c > b => f[c] = g[c]
      BY <2>3, <3>1
    <3>3. ScanTurn(f, b, n, align) = ScanTurn(g, b, n, align)
      BY <3>2, TurnsAgree
    <3> QED
      BY <2>5, <3>1, <3>3
  <2>7. Down(g, k + 1) /\ k + 1 \in Nat
    BY <2>2, <2>4, <2>6
  <2> HIDE DEF Down
  <2> QED
    BY <2>7
<1>4. G = Nat
  <2> HIDE DEF G
  <2>1. G \in SUBSET Nat
    BY DEF G
  <2> QED
    BY <1>2, <1>3, <2>1, Induction
<1>5. PICK f : Down(f, Words + 2)
  <2>1. Words + 2 \in G
    <3> HIDE DEF G
    <3> QED
      BY <1>1, <1>4
  <2> HIDE DEF Down
  <2> QED
    BY <2>1
<1>6. \A b \in D : b + (Words + 2) >= Words + 2
  BY <1>1
<1>7. ScanLoops(f, n, align)
  BY <1>5, <1>6 DEF ScanLoops
<1> DEFINE h == CHOOSE g : ScanLoops(g, n, align)
<1>8. Scan(n, align) = h[(-Start) % align]
  BY DEF Scan, ScanLoops, ScanTurn, RunEnd, Stops
<1> QED
  BY <1>7, <1>8

\* The aligned blocks from b on that fit, and what the loops make of them.
FittingFrom(b, n, align) == {c \in b .. Total - 1 : Aligned(c, align) /\ Fits(c, n)}

FirstFrom(b, n, align) ==
    LET fitting == FittingFrom(b, n, align)
        behind  == RoundUp(Total - 1, align)
    IN  IF fitting # {} THEN CHOOSE c \in fitting : \A d \in fitting : c <= d
        ELSE IF b < Total /\ n = 1 /\ behind >= Total /\ control[behind] = "free" THEN behind
        ELSE -1

\* The first aligned block behind a block from which on none is left.
LEMMA Behind ==
  ASSUME NEW align \in Nat \ {0}, NEW b \in 0 .. Total - 1
  PROVE  LET at == RoundUp(b, align)  behind == RoundUp(Total - 1, align)
         IN  /\ at >= Total => at = behind
             /\ at = Total - 1 => behind = Total - 1
<1> DEFINE at == RoundUp(b, align)
           behind == RoundUp(Total - 1, align)
<1>1. Total \in Nat /\ b \in Nat /\ Total - 1 \in Nat /\ b <= Total - 1
  BY HeapAssumption
<1>2. /\ at \in b .. b + align - 1 /\ Aligned(at, align)
      /\ \A c \in b .. at - 1 : ~Aligned(c, align)
  BY <1>1, RoundsUp
<1>3. /\ behind \in Total - 1 .. Total - 1 + align - 1 /\ Aligned(behind, align)
      /\ \A c \in Total - 1 .. behind - 1 : ~Aligned(c, align)
  BY <1>1, RoundsUp
<1> HIDE DEF at, behind
<1>4. at >= Total - 1 => at = behind
  <2>1. ASSUME at >= Total - 1, behind < at
        PROVE  FALSE
    <3>1. behind \in b .. at - 1
      BY <1>1, <1>2, <1>3, <2>1
    <3> QED
      BY <1>2, <1>3, <3>1
  <2>2. ASSUME at >= Total - 1, at < behind
        PROVE  FALSE
    <3>1. at \in Total - 1 .. behind - 1
      BY <1>1, <1>2, <1>3, <2>2
    <3> QED
      BY <1>2, <1>3, <3>1
  <2> QED
    BY <1>1, <1>2, <1>3, <2>1, <2>2
<1> QED
  BY <1>1, <1>2, <1>4 DEF at, behind

\* A run that is too short has no fitting block in it.
LEMMA RunTooShort ==
  ASSUME NEW at \in Nat, at < Words, NEW n \in Nat \ {0}, RunEnd(at, n) - at # n,
         NEW c \in at .. RunEnd(at, n), c < Total
  PROVE  ~Fits(c, n)
<1> DEFINE z == RunEnd(at, n)
<1>1. Total \in Nat /\ Words \in Nat /\ Words > Total
  BY HeapAssumption
<1>2. z \in at + 1 .. Words /\ Stops(at, n, z)
  BY RunStops
<1> HIDE DEF z
<1>3. c \in at .. z /\ z # at + n
  BY <1>2 DEF z
<1>4. z < at + n
  <2>1. z - 1 < at + n
    <3>1. CASE z = at + 1
      BY <3>1
    <3>2. CASE z # at + 1
      <4>1. z - 1 \in at + 1 .. z - 1
        BY <1>2, <3>2
      <4> QED
        BY <1>2, <4>1 DEF Stops
    <3> QED
      BY <3>1, <3>2
  <2> QED
    BY <1>2, <1>3, <2>1
<1>5. SUFFICES ASSUME Fits(c, n)
               PROVE  FALSE
  OBVIOUS
<1>6. z \in c .. c + n - 1 /\ c + n <= Total
  BY <1>1, <1>2, <1>3, <1>4, <1>5 DEF Fits
<1>7. control[z] = "free"
  BY <1>5, <1>6 DEF Fits
<1>8. z < Total
  BY <1>1, <1>2, <1>3, <1>6
<1> QED
  BY <1>1, <1>2, <1>3, <1>7, <1>8 DEF Stops

\* A run that is long enough fits.
LEMMA RunLongEnough ==
  ASSUME NEW at \in Nat, at < Total, NEW n \in Nat \ {0}, RunEnd(at, n) - at = n,
         control[at] = "free"
  PROVE  Fits(at, n)
<1> DEFINE z == RunEnd(at, n)
<1>1. Total \in Nat /\ Words \in Nat /\ Words > Total
  BY HeapAssumption
<1>2. z \in at + 1 .. Words /\ Stops(at, n, z)
  BY <1>1, RunStops
<1>3. z = at + n
  BY <1>2
<1> HIDE DEF z
<1>4. \A i \in at + 1 .. at + n - 1 : i < Total /\ control[i] = "free"
  BY <1>2, <1>3 DEF Stops
<1>5. at + n <= Total
  <2>1. CASE n = 1
    BY <1>1, <2>1
  <2>2. CASE n # 1
    <3>1. at + n - 1 \in at + 1 .. at + n - 1
      BY <2>2
    <3> QED
      BY <1>1, <1>4, <3>1
  <2> QED
    BY <2>1, <2>2
<1>6. ASSUME NEW i \in at .. at + n - 1
      PROVE  control[i] = "free"
  <2>1. i = at \/ i \in at + 1 .. at + n - 1
    BY <1>6
  <2> QED
    BY <1>4, <2>1
<1> QED
  BY <1>5, <1>6 DEF Fits

\* Behind the region and for one block the inner loop does not go round.
LEMMA RunOfOne ==
  ASSUME NEW at \in Nat, at < Words, NEW n \in Nat \ {0}, at >= Total \/ n = 1
  PROVE  RunEnd(at, n) = at + 1
<1> DEFINE z == RunEnd(at, n)
<1>1. Total \in Nat /\ Words \in Nat /\ Words > Total
  BY HeapAssumption
<1>2. z \in at + 1 .. Words /\ Stops(at, n, z)
  BY RunStops
<1> HIDE DEF z
<1>3. SUFFICES ASSUME z # at + 1
               PROVE  FALSE
  BY DEF z
<1>4. at + 1 \in at + 1 .. z - 1
  BY <1>1, <1>2, <1>3
<1>5. at + 1 < Total /\ at + 1 < at + n
  BY <1>2, <1>4 DEF Stops
<1> QED
  BY <1>1, <1>5

\* One turn of the outer loop keeps what the loops are to return.
LEMMA TurnRight ==
  ASSUME NEW n \in Nat \ {0}, NEW align \in Nat \ {0}, Words >= Total + align - 1,
         NEW b \in 0 .. Words + 1, NEW f,
         \A c \in 0 .. Words + 1 : c > b => f[c] = FirstFrom(c, n, align)
  PROVE  ScanTurn(f, b, n, align) = FirstFrom(b, n, align)
<1>1. Total \in Nat /\ Words \in Nat /\ Words > Total
  BY HeapAssumption
<1> DEFINE at == RoundUp(b, align)
           z == RunEnd(at, n)
           behind == RoundUp(Total - 1, align)
           Fitting(c) == FittingFrom(c, n, align)
<1>2. CASE b >= Total
  <2>1. Fitting(b) = {}
    BY <1>1, <1>2 DEF FittingFrom
  <2>2. ScanTurn(f, b, n, align) = -1
    BY <1>2 DEF ScanTurn
  <2> QED
    BY <1>1, <1>2, <2>1, <2>2 DEF FirstFrom
<1>3. CASE b < Total
  <2>1. b \in 0 .. Total - 1 /\ b \in Nat
    BY <1>1, <1>3
  <2>2. /\ at \in b .. Words - 1 /\ at + 1 \in b + 1 .. Words + 1
        /\ z + 1 \in b + 1 .. Words + 1
    BY <2>1, TurnGoesOn
  <2>3. Aligned(at, align) /\ \A c \in b .. at - 1 : ~Aligned(c, align)
    BY <2>1, RoundsUp
  <2>4. (at >= Total => at = behind) /\ (at = Total - 1 => behind = Total - 1)
    BY <2>1, Behind
  <2>5. at \in Nat /\ at < Words
    BY <1>1, <2>1, <2>2
  <2>6. ScanTurn(f, b, n, align) = IF control[at] # "free" THEN f[at + 1]
                                   ELSE IF z - at = n THEN at ELSE f[z + 1]
    BY <1>1, <1>3, <2>1 DEF ScanTurn
  <2>7. f[at + 1] = FirstFrom(at + 1, n, align) /\ f[z + 1] = FirstFrom(z + 1, n, align)
    <3> HIDE DEF at, z
    <3> QED
      BY <1>1, <2>1, <2>2
  <2>8. \A c \in Fitting(b) : c >= at /\ c < Total /\ c \in Nat /\ Fits(c, n)
    <3> HIDE DEF at
    <3> QED
      BY <1>1, <2>1, <2>2, <2>3 DEF FittingFrom
  <2>9. CASE control[at] # "free"
    <3>1. ASSUME NEW c \in Fitting(b)
          PROVE  c >= at + 1
      <4>1. c # at
        <5>1. ~Fits(at, n)
          <6>1. at \in at .. at + n - 1
            BY <2>5
          <6> QED
            BY <2>9, <6>1 DEF Fits
        <5> QED
          BY <2>8, <5>1
      <4> QED
        BY <2>5, <2>8, <4>1
    <3>2. Fitting(b) = Fitting(at + 1)
      <4> HIDE DEF at
      <4> QED
        BY <1>1, <2>1, <2>2, <2>5, <3>1 DEF FittingFrom
    <3>3. (b < Total /\ behind >= Total /\ control[behind] = "free") <=>
          (at + 1 < Total /\ behind >= Total /\ control[behind] = "free")
      <4> HIDE DEF at, behind
      <4> QED
        BY <1>1, <1>3, <2>4, <2>5, <2>9
    <3> HIDE DEF at, z, behind, Fitting
    <3>4. FirstFrom(at + 1, n, align) = FirstFrom(b, n, align)
      BY <3>2, <3>3 DEF FirstFrom, behind, Fitting
    <3> QED
      BY <2>6, <2>7, <2>9, <3>4
  <2>10. CASE control[at] = "free" /\ z - at = n
    <3>1. ScanTurn(f, b, n, align) = at
      BY <2>6, <2>10
    <3>2. CASE at < Total
      <4>1. Fits(at, n)
        BY <2>5, <2>10, <3>2, RunLongEnough
      <4>2. at \in Fitting(b)
        BY <1>1, <2>1, <2>2, <2>3, <3>2, <4>1 DEF FittingFrom
      <4> HIDE DEF at, Fitting
      <4>3. at = CHOOSE c \in Fitting(b) : \A d \in Fitting(b) : c <= d
        <5>1. \A d \in Fitting(b) : at <= d
          BY <2>5, <2>8
        <5>2. ASSUME NEW c \in Fitting(b), \A d \in Fitting(b) : c <= d
              PROVE  c = at
          BY <2>5, <2>8, <4>2, <5>1, <5>2
        <5> QED
          BY <4>2, <5>1, <5>2
      <4> QED
        BY <3>1, <4>2, <4>3 DEF FirstFrom, Fitting
    <3>3. CASE at >= Total
      <4>1. z = at + 1
        BY <2>5, <3>3, RunOfOne
      <4>2. n = 1 /\ behind = at
        BY <2>4, <2>5, <2>10, <3>3, <4>1
      <4> HIDE DEF at, behind
      <4>3. Fitting(b) = {}
        BY <1>1, <2>5, <2>8, <3>3
      <4> QED
        BY <1>3, <2>10, <3>1, <3>3, <4>2, <4>3 DEF FirstFrom, behind, Fitting
    <3> QED
      BY <1>1, <2>5, <3>2, <3>3
  <2>11. CASE control[at] = "free" /\ z - at # n
    <3>1. z \in at + 1 .. Words
      BY <2>5, RunStops
    <3>2. ASSUME NEW c \in Fitting(b)
          PROVE  c >= z + 1
      <4>1. c \notin at .. z
        <5>1. c < Total /\ Fits(c, n)
          BY <2>8
        <5> QED
          BY <2>5, <2>11, <5>1, RunTooShort
      <4> HIDE DEF at, z
      <4> QED
        BY <1>1, <2>5, <2>8, <3>1, <4>1
    <3>3. Fitting(b) = Fitting(z + 1)
      <4> HIDE DEF at, z
      <4> QED
        BY <1>1, <2>1, <2>2, <2>5, <3>1, <3>2 DEF FittingFrom
    <3>4. n # 1
      <4>1. n = 1 => z = at + 1
        BY <2>5, RunOfOne
      <4> QED
        BY <2>5, <2>11, <4>1
    <3> HIDE DEF at, z, behind, Fitting
    <3>5. FirstFrom(z + 1, n, align) = FirstFrom(b, n, align)
      BY <3>3, <3>4 DEF FirstFrom, Fitting
    <3> QED
      BY <2>6, <2>7, <2>11, <3>5
  <2> QED
    BY <2>9, <2>10, <2>11
<1> QED
  BY <1>1, <1>2, <1>3

\* For any number of blocks and any alignment the loops return the first
\* aligned blocks that fit, or else the block behind the region.
THEOREM ScanFindsFirst ==
  ASSUME NEW n \in Nat \ {0}, NEW align \in Nat \ {0}, Words >= Total + align - 1
  PROVE  Scan(n, align) = FirstFrom((-Start) % align, n, align)
<1>1. Total \in Nat /\ Words \in Nat /\ Words > Total /\ Start \in Nat
  BY HeapAssumption
<1>2. PICK f : ScanLoops(f, n, align) /\ Scan(n, align) = f[(-Start) % align]
  BY ScanEnds
<1> DEFINE D == 0 .. Words + 1
           G == {k \in Nat : \A b \in D : b + k >= Words + 2 => f[b] = FirstFrom(b, n, align)}
<1>3. 0 \in G
  BY <1>1
<1>4. ASSUME NEW k \in G
      PROVE  k + 1 \in G
  <2>1. ASSUME NEW b \in D, b + (k + 1) >= Words + 2
        PROVE  f[b] = FirstFrom(b, n, align)
    <3>1. \A c \in D : c > b => f[c] = FirstFrom(c, n, align)
      <4>1. ASSUME NEW c \in D, c > b
            PROVE  c + k >= Words + 2
        BY <1>1, <2>1, <4>1
      <4> QED
        BY <4>1
    <3>2. f[b] = ScanTurn(f, b, n, align)
      BY <1>2 DEF ScanLoops
    <3> QED
      BY <3>1, <3>2, TurnRight
  <2> QED
    BY <2>1
<1>5. G = Nat
  <2> HIDE DEF G
  <2>1. G \in SUBSET Nat
    BY DEF G
  <2> QED
    BY <1>3, <1>4, <2>1, Induction
<1>6. \A b \in D : f[b] = FirstFrom(b, n, align)
  <2>1. Words + 2 \in G
    <3> HIDE DEF G
    <3> QED
      BY <1>1, <1>5
  <2>2. \A b \in D : b + (Words + 2) >= Words + 2
    BY <1>1
  <2> QED
    BY <2>1, <2>2
<1>7. (-Start) % align \in D
  <2>1. (-Start) % align \in 0 .. align - 1
    BY <1>1
  <2> QED
    BY <1>1, <2>1
<1> QED
  BY <1>2, <1>6, <1>7

\* The scan of every heap is first fit, whatever was allocated and freed
\* before, except for the one block behind the region.
THEOREM ScansFirstFit == Spec => []FirstFit
<1>1. FirstFit
  <2> SUFFICES ASSUME NEW n \in 1 .. 3, NEW align \in {1, 2, 4}
               PROVE  LET fitting == {b \in 0 .. Total - 1 : Aligned(b, align) /\ Fits(b, n)}
                          behind == RoundUp(Total - 1, align)
                      IN  Scan(n, align) =
                          IF fitting # {} THEN CHOOSE b \in fitting : \A c \in fitting : b <= c
                          ELSE IF n = 1 /\ behind >= Total /\ control[behind] = "free"
                          THEN behind ELSE -1
    BY DEF FirstFit
  <2> DEFINE first == (-Start) % align
             p == (-Start) \div align
             fitting == {b \in 0 .. Total - 1 : Aligned(b, align) /\ Fits(b, n)}
  <2>1. /\ Total \in Nat /\ Words \in Nat /\ Start \in Nat
        /\ Total >= 4 /\ Words >= Total + 3
        /\ n \in Nat \ {0} /\ align \in Nat \ {0} /\ align <= 4
    BY HeapAssumption, ScanAssumption
  <2>2. first \in 0 .. align - 1 /\ -Start = align * p + first /\ p \in Int
    BY <2>1
  <2>3. Scan(n, align) = FirstFrom(first, n, align)
    BY <2>1, ScanFindsFirst
  <2> HIDE DEF first, p
  <2>4. Aligned(first, align)
    <3>1. Start + first = align * (-p) /\ -p \in Int
      BY <2>1, <2>2
    <3>2. (align * (-p)) % align = 0
      BY <2>1, <3>1, Multiple
    <3> QED
      BY <3>1, <3>2 DEF Aligned
  <2>5. ASSUME NEW c \in fitting
        PROVE  c \in first .. Total - 1
    <3>1. c \in Nat /\ c <= Total - 1 /\ Aligned(c, align)
      BY <2>1
    <3>2. ~(c < first)
      <4>1. c < first => c + align <= first
        BY <2>1, <2>2, <2>4, <3>1, AlignedApart
      <4> QED
        BY <2>1, <2>2, <3>1, <4>1
    <3> QED
      BY <2>1, <2>2, <3>1, <3>2
  <2>6. fitting = FittingFrom(first, n, align)
    BY <2>1, <2>2, <2>5 DEF FittingFrom
  <2>7. first < Total
    BY <2>1, <2>2
  <2> HIDE DEF fitting
  <2> QED
    BY <2>3, <2>6, <2>7 DEF FirstFrom, fitting
<1> QED
  BY <1>1, PTL
=============================================================================
