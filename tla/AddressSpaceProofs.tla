------------------------- MODULE AddressSpaceProofs -------------------------
(***************************************************************************)
(* The memory of the running program, for every number of pages, every set *)
(* of addresses and every set of sizes: it is the program's alone, it is   *)
(* in one piece, and no page of it is mapped twice.                        *)
(***************************************************************************)
EXTENDS AddressSpace, FiniteSetTheorems, WellFoundedInduction, TLAPS

-----------------------------------------------------------------------------
(* Facts about numbers.                                                     *)

\* A non-empty set of natural numbers has a least element: the intervals 0..y
\* are finite sets, and strict inclusion between those is well founded.
LEMMA LeastExists ==
  ASSUME NEW T \in SUBSET Nat, T # {}
  PROVE  \E x \in T : \A y \in T : x <= y
<1> DEFINE Below == {0..y : y \in T}
           R == StrictSubsetOrdering(Nat)
<1>1. IsWellFoundedOn(R, FiniteSubsetsOf(Nat))
  BY FS_StrictSubsetOrderingWellFounded
<1>2. Below \subseteq FiniteSubsetsOf(Nat)
  <2>1. ASSUME NEW y \in T PROVE 0..y \in SUBSET Nat /\ IsFiniteSet(0..y)
    BY FS_Interval
  <2> QED
    BY <2>1 DEF FiniteSubsetsOf
<1>3. Below # {}
  OBVIOUS
<1>4. PICK b \in Below : \A c \in Below : <<c, b>> \notin R
  <2> HIDE DEF Below, R
  <2> QED
    BY <1>1, <1>2, <1>3, WFMin
<1>5. PICK x \in T : b = 0..x
  OBVIOUS
<1>6. ASSUME NEW y \in T, ~(x <= y) PROVE FALSE
  <2>1. 0..y \in SUBSET Nat /\ 0..x \in SUBSET Nat
    OBVIOUS
  <2>2. 0..y \subseteq 0..x
    BY <1>6
  <2>3. x \in 0..x /\ x \notin 0..y
    BY <1>6
  <2>4. <<0..y, 0..x>> \in R
    BY <2>1, <2>2, <2>3 DEF StrictSubsetOrdering
  <2> QED
    BY <1>4, <1>5, <2>4
<1> QED
  BY <1>6

\* ... and a bounded one has a greatest.
LEMMA GreatestExists ==
  ASSUME NEW T \in SUBSET Nat, T # {}, NEW n \in Nat, \A t \in T : t <= n
  PROVE  \E x \in T : \A y \in T : y <= x
<1> DEFINE D == {n - t : t \in T}
<1>1. D \in SUBSET Nat /\ D # {}
  <2>1. ASSUME NEW t \in T PROVE n - t \in Nat
    OBVIOUS
  <2> QED
    BY <2>1
<1>2. PICK d \in D : \A e \in D : d <= e
  <2> HIDE DEF D
  <2> QED
    BY <1>1, LeastExists
<1>3. PICK x \in T : d = n - x
  OBVIOUS
<1>4. ASSUME NEW y \in T PROVE y <= x
  <2>1. n - x <= n - y
    BY <1>2, <1>3
  <2> QED
    BY <2>1
<1> QED
  BY <1>4

-----------------------------------------------------------------------------
(* The page allocator.                                                      *)

\* The free pages that lie below page p, when the bottom k pages are in use.
LEMMA FreeBelow ==
  ASSUME SpaceAssumption, NEW k \in 0..NumPages, used = 0..k - 1
  PROVE  /\ FreePages = k..NumPages - 1
         /\ \A p \in FreePages : Cardinality({q \in FreePages : q < p}) = p - k
<1> USE DEF SpaceAssumption
<1>1. FreePages = k..NumPages - 1
  BY DEF FreePages, Page
<1>2. ASSUME NEW p \in FreePages
      PROVE  Cardinality({q \in FreePages : q < p}) = p - k
  <2>1. p \in Int /\ p >= k /\ p < NumPages
    BY <1>1
  <2>2. {q \in FreePages : q < p} = k..p - 1
    BY <1>1, <2>1
  <2>3. Cardinality(k..p - 1) = IF k > p - 1 THEN 0 ELSE p - 1 - k + 1
    BY <2>1, FS_Interval
  <2>4. Cardinality({q \in FreePages : q < p}) = Cardinality(k..p - 1)
    BY <2>2
  <2>5. (IF k > p - 1 THEN 0 ELSE p - 1 - k + 1) = p - k
    BY <2>1
  <2> QED
    BY <2>3, <2>4, <2>5
<1> QED
  BY <1>1, <1>2

\* What is allocated next is the run of pages from the first free one.
LEMMA LowestRun ==
  ASSUME SpaceAssumption, NEW k \in 0..NumPages, used = 0..k - 1, NEW n \in Nat
  PROVE  /\ Fits(n) <=> k + n <= NumPages
         /\ Lowest(n) = k..(IF k + n <= NumPages THEN k + n ELSE NumPages) - 1
<1> USE DEF SpaceAssumption
<1>1. FreePages = k..NumPages - 1
  BY FreeBelow
<1>2. Cardinality(FreePages) = NumPages - k
  <2>1. NumPages - 1 \in Int /\ k \in Int
    OBVIOUS
  <2>2. Cardinality(k..NumPages - 1)
          = IF k > NumPages - 1 THEN 0 ELSE NumPages - 1 - k + 1
    BY <2>1, FS_Interval
  <2>3. (IF k > NumPages - 1 THEN 0 ELSE NumPages - 1 - k + 1) = NumPages - k
    OBVIOUS
  <2> QED
    BY <1>1, <2>2, <2>3
<1>3. Lowest(n) = {p \in FreePages : p - k < n}
  BY FreeBelow DEF Lowest
<1>4. {p \in FreePages : p - k < n}
        = k..(IF k + n <= NumPages THEN k + n ELSE NumPages) - 1
  BY <1>1
<1> QED
  BY <1>2, <1>3, <1>4 DEF Fits

\* Taking it keeps what is in use the bottom of memory.
LEMMA PackedStep ==
  ASSUME SpaceAssumption, Packed, NEW n \in Nat
  PROVE  /\ \E k \in KernelPages..NumPages : used \cup Lowest(n) = 0..k - 1
         /\ Lowest(n) \cap used = {} /\ Lowest(n) \subseteq Page
         /\ \E a, b \in Int : Lowest(n) = a..b
         /\ Fits(n) => IsFiniteSet(Lowest(n)) /\ Cardinality(Lowest(n)) = n
<1> USE DEF SpaceAssumption
<1>1. PICK k \in KernelPages..NumPages : used = 0..k - 1
  BY DEF Packed
<1> DEFINE m == IF k + n <= NumPages THEN k + n ELSE NumPages
<1>2. k \in 0..NumPages /\ m \in KernelPages..NumPages /\ m >= k
  OBVIOUS
<1>3. Lowest(n) = k..m - 1 /\ (Fits(n) <=> k + n <= NumPages)
  BY <1>1, <1>2, LowestRun
<1>4. used \cup Lowest(n) = 0..m - 1
  BY <1>1, <1>2, <1>3
<1>5. Lowest(n) \cap used = {} /\ Lowest(n) \subseteq Page
  BY <1>1, <1>2, <1>3 DEF Page
<1>6. Fits(n) => IsFiniteSet(Lowest(n)) /\ Cardinality(Lowest(n)) = n
  <2>1. IsFiniteSet(k..m - 1)
        /\ Cardinality(k..m - 1) = IF k > m - 1 THEN 0 ELSE m - 1 - k + 1
    BY <1>2, FS_Interval
  <2>2. k + n <= NumPages => (IF k > m - 1 THEN 0 ELSE m - 1 - k + 1) = n
    BY <1>2
  <2> QED
    BY <1>3, <2>1, <2>2
<1>7. \E j \in KernelPages..NumPages : used \cup Lowest(n) = 0..j - 1
  <2> HIDE DEF m
  <2> QED
    BY <1>2, <1>4
<1>8. \E a, b \in Int : Lowest(n) = a..b
  <2>1. k \in Int /\ m - 1 \in Int
    BY <1>2
  <2> HIDE DEF m
  <2> QED
    BY <1>3, <2>1
<1> QED
  BY <1>5, <1>6, <1>7, <1>8

\* Two allocations in a row are the pages of one, in two runs.
LEMMA TwoRuns ==
  ASSUME SpaceAssumption, Packed, NEW m \in Nat, NEW n \in Nat
  PROVE  /\ Lowest(m) \subseteq Lowest(m + n)
         /\ Fits(m + n) => /\ Fits(m)
                           /\ \E a, b \in Int : Lowest(m + n) \ Lowest(m) = a..b
<1> USE DEF SpaceAssumption
<1>1. PICK k \in KernelPages..NumPages : used = 0..k - 1
  BY DEF Packed
<1>2. k \in 0..NumPages /\ m + n \in Nat
  OBVIOUS
<1> DEFINE Top(j) == IF k + j <= NumPages THEN k + j ELSE NumPages
<1>3. /\ Fits(m) <=> k + m <= NumPages
      /\ Fits(m + n) <=> k + (m + n) <= NumPages
      /\ Lowest(m) = k..Top(m) - 1 /\ Lowest(m + n) = k..Top(m + n) - 1
  BY <1>1, <1>2, LowestRun
<1>4. Lowest(m) \subseteq Lowest(m + n)
  BY <1>3
<1>5. ASSUME Fits(m + n)
      PROVE  Fits(m) /\ Lowest(m + n) \ Lowest(m) = k + m..k + (m + n) - 1
  BY <1>3, <1>5
<1> QED
  BY <1>4, <1>5

-----------------------------------------------------------------------------
(* The sections.                                                            *)

\* A section's size is a number.
LEMMA SizeIsNat ==
  ASSUME Blocks, NEW s \in Starts
  PROVE  IsFiniteSet(sections[s]) /\ Size(s) \in Nat
<1>1. PICK a, b \in Int : sections[s] = a..b
  BY DEF Blocks
<1>2. IsFiniteSet(a..b)
  BY FS_Interval
<1>3. IsFiniteSet(sections[s])
  BY <1>1, <1>2
<1> QED
  BY <1>3, FS_CardinalityType DEF Size

\* Where sections do not overlap, a new one that fits between its neighbours
\* fits between all the others.
LEMMA NeighboursSuffice ==
  ASSUME SpaceAssumption, Blocks, \A s, t \in Mapped : s < t => s + Size(s) <= t,
         NEW s \in Starts, NEW n \in Nat, FitsAt(s, n)
  PROVE  \A t \in Mapped : /\ t > s => s + n <= t
                           /\ t < s => t + Size(t) <= s
<1> USE DEF SpaceAssumption
<1>1. Mapped \subseteq Starts /\ Starts \subseteq Nat /\ s \in Nat
  BY DEF Mapped
<1>2. ASSUME NEW t \in Mapped, t > s PROVE s + n <= t
  <2> DEFINE T == {u \in Mapped : u > s}
  <2>1. T \in SUBSET Nat /\ t \in T
    BY <1>1, <1>2
  <2>2. PICK u \in T : \A v \in T : u <= v
    <3> HIDE DEF T
    <3> QED
      BY <2>1, LeastExists
  <2>3. s + n <= u
    BY <2>2 DEF FitsAt
  <2>4. u <= t /\ u \in Nat /\ t \in Nat
    BY <2>1, <2>2
  <2> QED
    BY <1>1, <2>3, <2>4
<1>3. ASSUME NEW t \in Mapped, t < s PROVE t + Size(t) <= s
  <2> DEFINE T == {u \in Mapped : u < s}
  <2>1. T \in SUBSET Nat /\ t \in T /\ \A u \in T : u <= s
    <3>1. T \in SUBSET Nat /\ t \in T
      BY <1>1, <1>3
    <3>2. ASSUME NEW u \in T PROVE u <= s
      BY <1>1, <3>1
    <3> HIDE DEF T
    <3> QED
      BY <3>1, <3>2
  <2>2. PICK u \in T : \A v \in T : v <= u
    <3> HIDE DEF T
    <3> QED
      BY <1>1, <2>1, GreatestExists
  <2>3. u + Size(u) <= s
    BY <2>2 DEF FitsAt
  <2>4. u \in Nat /\ t \in Nat /\ Size(u) \in Nat /\ Size(t) \in Nat
    BY <1>1, <2>1, SizeIsNat
  <2>5. CASE t = u
    BY <2>3, <2>5
  <2>6. CASE t # u
    <3>1. t < u
      BY <2>1, <2>2, <2>4, <2>6
    <3>2. t + Size(t) <= u
      BY <3>1
    <3> QED
      BY <1>1, <2>3, <2>4, <3>2
  <2> QED
    BY <2>5, <2>6
<1> QED
  BY <1>2, <1>3

-----------------------------------------------------------------------------
(* The invariant is inductive.                                              *)

Inv == TypeOK /\ SpaceInvariant

\* A step that keeps the sections, and takes nothing or the next run of pages.
LEMMA SectionsKept ==
  ASSUME SpaceAssumption, Inv, sections' = sections,
         NEW n \in Nat, used' = used \/ used' = used \cup Lowest(n),
         phase' \in Phases, phase' = "running" => phase = "running", result' \in Nat
  PROVE  Inv'
<1> USE DEF Inv, SpaceInvariant
<1>1. Packed' /\ used \subseteq used' /\ used' \subseteq Page
  <2>1. CASE used' = used
    BY <2>1 DEF Packed, TypeOK
  <2>2. CASE used' = used \cup Lowest(n)
    BY <2>2, PackedStep DEF Packed, TypeOK
  <2> QED
    BY <2>1, <2>2
<1>2. TypeOK'
  BY <1>1 DEF TypeOK, Page
<1>3. Blocks'
  BY DEF Blocks
<1>4. PagesOwnedOnce'
  BY <1>1 DEF PagesOwnedOnce
<1>5. SectionsApart'
  BY DEF SectionsApart, Mapped, Size
<1> QED
  BY <1>1, <1>2, <1>3, <1>4, <1>5

\* A step that unmaps sections and leaves no program running.
LEMMA SectionsUnmapped ==
  ASSUME SpaceAssumption, Inv, used' = used, sections' \in [Starts -> SUBSET Page],
         \A s \in Starts : sections'[s] = {} \/ sections'[s] = sections[s],
         phase' \in Phases, phase' # "running", result' \in Nat
  PROVE  Inv'
<1> USE DEF Inv, SpaceInvariant
<1>1. TypeOK' /\ Packed' /\ SectionsApart'
  BY DEF TypeOK, Packed, SectionsApart, Page
<1>2. Blocks'
  <2> SUFFICES ASSUME NEW s \in Starts
               PROVE  \E a, b \in Int : sections'[s] = a..b
    BY DEF Blocks
  <2>1. CASE sections'[s] = {}
    <3>1. 1..0 = {} /\ 1 \in Int /\ 0 \in Int
      OBVIOUS
    <3> QED
      BY <2>1, <3>1
  <2>2. CASE sections'[s] = sections[s]
    BY <2>2 DEF Blocks
  <2> QED
    BY <2>1, <2>2
<1>3. PagesOwnedOnce'
  BY DEF PagesOwnedOnce
<1> QED
  BY <1>1, <1>2, <1>3

\* A new section: the next run of pages, mapped where it has room.
LEMMA SectionCreated ==
  ASSUME SpaceAssumption, Inv, phase = "running", NEW s \in Starts, s \notin Mapped,
         NEW n \in Nat, Fits(n), FitsAt(s, n), used' = used \cup Lowest(n),
         sections' = [sections EXCEPT ![s] = Lowest(n)],
         phase' = phase, result' \in Nat
  PROVE  Inv'
<1> USE DEF Inv, SpaceInvariant
<1>1. /\ Packed' /\ Lowest(n) \cap used = {} /\ Lowest(n) \subseteq Page
      /\ \E a, b \in Int : Lowest(n) = a..b
      /\ Cardinality(Lowest(n)) = n
  BY PackedStep DEF Packed
<1>2. /\ sections'[s] = Lowest(n)
      /\ \A t \in Starts : t # s => sections'[t] = sections[t]
  BY DEF TypeOK
<1>3. TypeOK'
  BY <1>1 DEF TypeOK, Page
<1>4. Blocks'
  BY <1>1, <1>2 DEF Blocks
<1>5. PagesOwnedOnce'
  BY <1>1, <1>2 DEF PagesOwnedOnce
<1>6. SectionsApart'
  <2>1. \A t \in Mapped : (t > s => s + n <= t) /\ (t < s => t + Size(t) <= s)
    BY NeighboursSuffice DEF SectionsApart
  <2>2. ASSUME NEW t \in Mapped', NEW u \in Mapped', t < u
        PROVE  t + Cardinality(sections'[t]) <= u
    <3>1. CASE t = s
      <4>1. u \in Mapped /\ u > s
        BY <1>2, <2>2, <3>1 DEF Mapped, SpaceAssumption
      <4> QED
        BY <1>1, <1>2, <2>1, <3>1, <4>1
    <3>2. CASE u = s
      <4>1. t \in Mapped /\ sections'[t] = sections[t] /\ t # s
        BY <1>2, <2>2, <3>2 DEF Mapped, SpaceAssumption
      <4> QED
        BY <2>1, <2>2, <3>2, <4>1 DEF Size
    <3>3. CASE t # s /\ u # s
      BY <1>2, <2>2, <3>3 DEF Mapped, SectionsApart, Size
    <3> QED
      BY <3>1, <3>2, <3>3
  <2> QED
    BY <2>2 DEF SectionsApart, Size
<1> QED
  BY <1>1, <1>3, <1>4, <1>5, <1>6

\* Loading a program: whatever comes of it, both allocations are the next run.
LEMMA LoadStep ==
  ASSUME SpaceAssumption, Inv, NEW code \in Starts, NEW stack \in Starts,
         NEW image \in 1..MaxSize, NEW size \in 1..MaxSize,
         NEW stackSize \in 0..MaxSize, Load(code, stack, image, size, stackSize)
  PROVE  Inv'
<1> USE DEF Inv, SpaceInvariant
<1> DEFINE n == size + stackSize
           C == Lowest(size)
           S == Lowest(n) \ C
<1>1. size \in Nat /\ size >= 1 /\ stackSize \in Nat /\ n \in Nat
  BY DEF SpaceAssumption
<1>2. /\ C \subseteq Lowest(n) /\ C \cup S = Lowest(n)
      /\ Fits(n) => Fits(size) /\ \E a, b \in Int : S = a..b
  BY <1>1, TwoRuns
<1>3. used \cup C \cup S = used \cup Lowest(n)
  BY <1>2
<1>4. result \in Nat /\ phase = "load"
  BY DEF TypeOK, Load
<1>5. CASE LoadRefused(C \cup S)
  <2>1. used' = used \cup Lowest(n)
    BY <1>2, <1>5 DEF LoadRefused, Freed
  <2> HIDE DEF n
  <2> QED
    BY <1>1, <1>4, <1>5, <2>1, SectionsKept DEF LoadRefused, Phases
<1>6. CASE used' = used \cup C \cup S /\ Panic
  <2>1. used' = used \cup Lowest(n)
    BY <1>3, <1>6
  <2> HIDE DEF n
  <2> QED
    BY <1>1, <1>4, <1>6, <2>1, SectionsKept DEF Panic, Phases
<1>7. CASE /\ code + 8 * size <= stack /\ Fits(n)
           /\ used' = used \cup C \cup S
           /\ sections' = [Empty EXCEPT ![code] = C, ![stack] = S]
           /\ phase' = "running" /\ UNCHANGED result
  <2>1. /\ Packed' /\ Lowest(n) \cap used = {} /\ Lowest(n) \subseteq Page
        /\ used' = used \cup Lowest(n)
    <3>1. used' = used \cup Lowest(n)
      BY <1>3, <1>7
    <3> HIDE DEF n
    <3> QED
      BY <1>1, <3>1, PackedStep DEF Packed
  <2>2. Cardinality(C) = size /\ \E a, b \in Int : C = a..b
    BY <1>1, <1>2, <1>7, PackedStep
  <2>3. code < stack /\ code + size <= stack
    BY <1>1, <1>7 DEF SpaceAssumption
  <2>4. /\ sections'[code] = C /\ sections'[stack] = S
        /\ \A s \in Starts : s # code /\ s # stack => sections'[s] = {}
    BY <1>7, <2>3 DEF Empty, SpaceAssumption
  <2> HIDE DEF C, S, n
  <2>5. C \subseteq Lowest(n) /\ S \subseteq Lowest(n) /\ C \cap S = {}
    BY <1>2 DEF S
  <2>6. TypeOK'
    BY <1>4, <1>7, <2>1, <2>5 DEF TypeOK, Empty, Phases, Page
  <2>7. Blocks'
    <3> SUFFICES ASSUME NEW s \in Starts
                 PROVE  \E a, b \in Int : sections'[s] = a..b
      BY DEF Blocks
    <3>1. 1..0 = {} /\ 1 \in Int /\ 0 \in Int
      OBVIOUS
    <3>2. CASE s # code /\ s # stack
      BY <2>4, <3>1, <3>2
    <3> QED
      BY <1>2, <1>7, <2>2, <2>4, <3>2
  <2>8. PagesOwnedOnce'
    <3>1. Lowest(n) \subseteq used' /\ 0..KernelPages - 1 \subseteq used'
          /\ Lowest(n) \cap (0..KernelPages - 1) = {}
      BY <2>1 DEF PagesOwnedOnce
    <3> QED
      BY <2>4, <2>5, <3>1 DEF PagesOwnedOnce
  <2>9. SectionsApart'
    <3>1. \A s \in Mapped' : s = code \/ s = stack
      BY <2>4 DEF Mapped
    <3>2. ASSUME NEW s \in Mapped', NEW t \in Mapped', s < t
          PROVE  s + Cardinality(sections'[s]) <= t
      <4>1. s = code /\ t = stack
        BY <2>3, <3>1, <3>2 DEF SpaceAssumption
      <4> QED
        BY <2>2, <2>3, <2>4, <4>1
    <3> QED
      BY <3>2 DEF SectionsApart, Size
  <2> QED
    BY <2>1, <2>6, <2>7, <2>8, <2>9
<1>8. \/ LoadRefused(C \cup S)
      \/ used' = used \cup C \cup S /\ Panic
      \/ /\ NoClash(code, IF Fits(size) THEN size ELSE 0, stack) /\ Fits(n)
         /\ used' = used \cup C \cup S
         /\ sections' = [Empty EXCEPT ![code] = C, ![stack] = S]
         /\ phase' = "running" /\ UNCHANGED result
  <2> USE DEF Load
  <2> QED
    BY Zenon
<1> QED
  <2>1. Fits(n) => (IF Fits(size) THEN size ELSE 0) = size
    BY <1>2
  <2> HIDE DEF C, S, n
  <2> QED
    BY <1>5, <1>6, <1>7, <1>8, <2>1 DEF NoClash

\* One call of vmemmap that creates a section, or fails to.
LEMMA CreateStep ==
  ASSUME SpaceAssumption, Inv, phase = "running", NEW s \in Starts, NEW n \in Nat,
         Create(s, n)
  PROVE  Inv'
<1>1. /\ s \notin Mapped /\ phase' = phase /\ used' = used \cup Lowest(n)
      /\ result' \in Nat /\ phase' \in Phases
  BY DEF Create, Return, Inv, TypeOK
<1>2. CASE Fits(n) /\ FitsAt(s, n)
  <2>1. sections' = [sections EXCEPT ![s] = Lowest(n)]
    BY <1>2 DEF Create
  <2> QED
    BY <1>1, <1>2, <2>1, SectionCreated
<1>3. CASE ~(Fits(n) /\ FitsAt(s, n))
  <2>1. sections' = sections
    BY <1>3 DEF Create
  <2> QED
    BY <1>1, <2>1, SectionsKept
<1> QED
  BY <1>2, <1>3

\* A section is one run of pages: its first segment is all of it.
LEMMA OneSegment ==
  ASSUME Blocks, NEW s \in Starts
  PROVE  FirstSegment(sections[s]) = sections[s]
<1>1. PICK a, b \in Int : sections[s] = a..b
  BY DEF Blocks
<1>2. ASSUME NEW p \in a..b, NEW q \in a..b, q < p PROVE q + 1 \in a..b
  BY <1>2
<1> QED
  BY <1>1, <1>2 DEF FirstSegment

\* The program ends.
LEMMA DestroyStep ==
  ASSUME SpaceAssumption, Inv, Destroy
  PROVE  Inv'
<1>1. /\ used' = used /\ phase' = "load" /\ result' \in Nat
      /\ sections' \in [Starts -> SUBSET Page] /\ \A s \in Starts : sections'[s] = {}
  BY DEF Destroy, Freed, Empty, Inv, TypeOK
<1> QED
  BY <1>1, SectionsUnmapped DEF Phases

\* Every other call of vmemmap.
LEMMA VmemmapStep ==
  ASSUME SpaceAssumption, Inv, NEW s \in Starts, NEW n \in Sizes, Vmemmap(s, n)
  PROVE  Inv'
<1>1. n \in Nat /\ phase = "running" /\ Size(s) \in Nat
  BY SizeIsNat DEF SpaceAssumption, Vmemmap, Inv, SpaceInvariant
<1>2. CASE Create(s, n)
  BY <1>1, <1>2, CreateStep
<1>3. CASE Resize(s)
  <2>1. Remake(s)
    BY <1>3, OneSegment DEF Resize, Inv, SpaceInvariant
  <2>2. CASE Destroy
    BY <2>2, DestroyStep
  <2>3. CASE Keep /\ result' \in Nat
    BY <1>1, <2>3, SectionsKept DEF Keep, Phases
  <2> QED
    BY <1>1, <2>1, <2>2, <2>3 DEF Remake, Return
<1>4. CASE Remove(s)
  <2>1. /\ used' = used /\ phase' = "undefined" /\ result' \in Nat
        /\ sections' \in [Starts -> SUBSET Page]
        /\ \A t \in Starts : sections'[t] = {} \/ sections'[t] = sections[t]
    BY <1>4 DEF Remove, Freed, Return, Inv, TypeOK
  <2> QED
    BY <2>1, SectionsUnmapped DEF Phases
<1>5. CASE RemoveMissing(s)
  BY <1>1, <1>5, SectionsKept DEF RemoveMissing, Keep, Return, Phases
<1> QED
  BY <1>2, <1>3, <1>4, <1>5 DEF Vmemmap

LEMMA QueryStep ==
  ASSUME SpaceAssumption, Inv, NEW s \in Starts, VmemmapQuery(s)
  PROVE  Inv'
<1>1. /\ 0 \in Nat /\ sections' = sections /\ used' = used /\ result' \in Nat
      /\ phase = "running" /\ phase' \in {"running", "panic"}
  BY SizeIsNat DEF VmemmapQuery, Keep, Return, Panic, Inv, TypeOK, SpaceInvariant
<1> QED
  BY <1>1, SectionsKept DEF Phases

LEMMA AnywhereStep ==
  ASSUME SpaceAssumption, Inv, NEW n \in Sizes, VmemmapAnywhere(n)
  PROVE  Inv'
<1>1. PICK s \in Starts : IF n = 0 THEN RemoveMissing(s) ELSE Create(s, n)
  BY DEF VmemmapAnywhere
<1>2. n \in Nat /\ phase = "running"
  BY DEF SpaceAssumption, VmemmapAnywhere
<1>3. CASE Create(s, n)
  BY <1>2, <1>3, CreateStep
<1>4. CASE RemoveMissing(s)
  BY <1>2, <1>4, SectionsKept DEF RemoveMissing, Keep, Return, Phases
<1> QED
  BY <1>1, <1>3, <1>4

\* Before the first program, the kernel's pages are the bottom of memory.
LEMMA InitInv ==
  ASSUME SpaceAssumption, Init
  PROVE  Inv
<1>1. \A s \in Starts : sections[s] = {}
  BY DEF Init, Empty
<1>2. TypeOK
  BY DEF Init, TypeOK, Empty, Phases, Page, SpaceAssumption
<1>3. Packed
  <2>1. KernelPages \in KernelPages..NumPages
    BY DEF SpaceAssumption
  <2> QED
    BY <2>1 DEF Init, Packed
<1>4. Blocks
  <2>1. 1..0 = {} /\ 1 \in Int /\ 0 \in Int
    OBVIOUS
  <2> QED
    BY <1>1, <2>1 DEF Blocks
<1>5. PagesOwnedOnce
  BY <1>1 DEF Init, PagesOwnedOnce
<1>6. SectionsApart
  BY DEF Init, SectionsApart
<1> QED
  BY <1>2, <1>3, <1>4, <1>5, <1>6 DEF Inv, SpaceInvariant

LEMMA StepInv ==
  ASSUME SpaceAssumption, Inv, [Next]_vars
  PROVE  Inv'
<1>1. CASE \E code, stack \in Starts, image, size \in 1..MaxSize, stackSize \in 0..MaxSize :
             Load(code, stack, image, size, stackSize)
  BY <1>1, LoadStep
<1>2. CASE LoadFails
  <2>1. /\ 0 \in Nat /\ used' = used /\ sections' = sections /\ phase' = "stopped"
        /\ result' \in Nat
    BY <1>2 DEF LoadFails, LoadRefused, Freed, Inv, TypeOK
  <2> QED
    BY <2>1, SectionsKept DEF Phases
<1>3. CASE Destroy
  BY <1>3, DestroyStep
<1>4. CASE \E s \in Starts : VmemmapQuery(s) \/ \E n \in Sizes : Vmemmap(s, n)
  BY <1>4, QueryStep, VmemmapStep
<1>5. CASE \E n \in Sizes : VmemmapAnywhere(n)
  BY <1>5, AnywhereStep
<1>6. CASE UNCHANGED vars
  <2>1. /\ 0 \in Nat /\ used' = used /\ sections' = sections /\ phase' = phase
        /\ result' \in Nat /\ phase' \in Phases
    BY <1>6 DEF vars, Inv, TypeOK
  <2> QED
    BY <2>1, SectionsKept
<1> QED
  BY <1>1, <1>2, <1>3, <1>4, <1>5, <1>6 DEF Next, Halted

-----------------------------------------------------------------------------
(* What follows for every instance.                                         *)

\* The invariant holds: in particular what is in use is the bottom of memory.
THEOREM MemorySafe == Spec => [](TypeOK /\ SpaceInvariant)
<1>1. Init => Inv
  BY InitInv, SpaceAssumption
<1>2. Inv /\ [Next]_vars => Inv'
  BY StepInv, SpaceAssumption
<1>3. Inv => TypeOK /\ SpaceInvariant
  BY DEF Inv
<1> QED
  BY <1>1, <1>2, <1>3, PTL DEF Spec

\* A page handed to the program is the kernel's or one section's, and stays
\* marked: create_new_page_allocation never hands out one twice.
THEOREM OwnedOnce == Spec => []PagesOwnedOnce
<1>1. TypeOK /\ SpaceInvariant => PagesOwnedOnce
  BY DEF SpaceInvariant
<1> QED
  BY <1>1, MemorySafe, PTL

\* Every allocation is one segment: resize_page_allocation never reaches the
\* branch that destroys the allocation it is working on.
THEOREM Unfragmented == Spec => []Contiguous
<1>1. TypeOK /\ SpaceInvariant => Contiguous
  BY OneSegment DEF SpaceInvariant, Contiguous
<1> QED
  BY <1>1, MemorySafe, PTL

\* insert_translation_table_section looks at two neighbours: that is enough.
THEOREM Apart == Spec => []SectionsApart
<1>1. TypeOK /\ SpaceInvariant => SectionsApart
  BY DEF SpaceInvariant
<1> QED
  BY <1>1, MemorySafe, PTL

\* A section writes at most one entry of the page upper directory: the number of
\* its middle directory entries is truncated below what one can list.
LEMMA AtMostOneEntry ==
  ASSUME SpaceAssumption, NEW s \in Starts, Size(s) \in Nat
  PROVE  Entries(s) \in Int /\ Entries(s) <= 1
<1> DEFINE r == Size(s) % EntryMod
           x == r + PagesPerGiB - 1
           q == x \div PagesPerGiB
<1>1. PagesPerGiB \in Nat /\ PagesPerGiB >= 1 /\ EntryMod \in Nat
      /\ EntryMod >= 1 /\ EntryMod <= PagesPerGiB
  BY DEF SpaceAssumption
<1>2. r \in 0..EntryMod - 1
  BY <1>1
<1> HIDE DEF r
<1>3. x \in Nat /\ x < 2 * PagesPerGiB
  BY <1>1, <1>2
<1> HIDE DEF x
<1>4. q \in Int /\ PagesPerGiB * q <= x
  BY <1>1, <1>3
<1>5. q <= 1
  <2> HIDE DEF q
  <2>1. ASSUME q >= 2 PROVE PagesPerGiB * q >= PagesPerGiB * 2
    BY <1>1, <1>4, <2>1
  <2>2. ASSUME q >= 2 PROVE FALSE
    <3> DEFINE y == PagesPerGiB * q
    <3>1. y >= PagesPerGiB * 2 /\ y <= x /\ y \in Int
      BY <1>1, <1>4, <2>1, <2>2
    <3> HIDE DEF y
    <3> QED
      BY <1>1, <1>3, <3>1
  <2> QED
    BY <1>4, <2>2
<1>6. Entries(s) = q
  BY DEF q, x, r, Entries
<1> QED
  BY <1>4, <1>5, <1>6

\* The address is the page of the entry it is found through, and of its index.
LEMMA SameAddress ==
  ASSUME NEW g \in Nat \ {0}, NEW v \in Nat, NEW w \in Nat,
         v \div g = w \div g, v % g = w % g
  PROVE  v = w
<1> DEFINE q(x) == g * (x \div g)
<1>1. g \in Int /\ g > 0
  OBVIOUS
<1>2. ASSUME NEW x \in Int PROVE x % g = x - q(x) /\ q(x) \in Int
  BY <1>1
<1>3. q(v) = q(w)
  OBVIOUS
<1> HIDE DEF q
<1>4. q(v) \in Int /\ v % g = v - q(v) /\ w % g = w - q(w)
  BY <1>2
<1>5. v - q(v) = w - q(v)
  BY <1>3, <1>4
<1> QED
  BY <1>4, <1>5

\* No page of memory is mapped at two addresses of the program, although
\* sections in one GiB overwrite each other's entries.
THEOREM NoAliasing == Spec => []NoAlias
<1>1. ASSUME TypeOK /\ SpaceInvariant PROVE NoAlias
  <2> SUFFICES ASSUME NEW v \in Addresses, NEW w \in Addresses, NEW p \in Page,
                      Translates(v, p), Translates(w, p)
               PROVE  v = w
    BY DEF NoAlias
  <2>1. v \in Nat /\ w \in Nat /\ PagesPerGiB \in Nat \ {0}
    BY SpaceAssumption DEF Addresses, SpaceAssumption
  <2>2. PICK s \in Starts : /\ Covers(s, v \div PagesPerGiB) /\ p \in sections[s]
                            /\ Index(s, p) = v % PagesPerGiB
    BY DEF Translates, Owners, Mapped
  <2>3. PICK t \in Starts : /\ Covers(t, w \div PagesPerGiB) /\ p \in sections[t]
                            /\ Index(t, p) = w % PagesPerGiB
    BY DEF Translates, Owners, Mapped
  <2>4. s = t
    BY <1>1, <2>2, <2>3 DEF SpaceInvariant, PagesOwnedOnce
  <2>5. v % PagesPerGiB = w % PagesPerGiB
    BY <2>2, <2>3, <2>4
  <2>6. v \div PagesPerGiB = w \div PagesPerGiB
    <3> DEFINE e == Entries(s)
               a == v \div PagesPerGiB
               b == w \div PagesPerGiB
               c == s \div PagesPerGiB
    <3>1. e \in Int /\ e <= 1
      BY <1>1, SpaceAssumption, SizeIsNat, AtMostOneEntry DEF SpaceInvariant
    <3>2. s \in Nat
      BY SpaceAssumption DEF SpaceAssumption
    <3>3. a \in Int /\ b \in Int /\ c \in Int
      BY <2>1, <3>2
    <3>4. a - c \in 0..e - 1 /\ b - c \in 0..e - 1
      BY <2>2, <2>3, <2>4 DEF Covers
    <3> HIDE DEF a, b, c, e
    <3>5. a = b
      BY <3>1, <3>3, <3>4
    <3> QED
      BY <3>5 DEF a, b
  <2> QED
    BY <2>1, <2>5, <2>6, SameAddress
<1> QED
  BY <1>1, MemorySafe, PTL

=============================================================================
