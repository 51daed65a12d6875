--------------------------- MODULE DynamicArrays ---------------------------
(***************************************************************************)
(* The arrays of kernal/src/lib/dynamic_array.c (and its copy for          *)
(* programs) on a block heap shared with everything else that allocates.   *)
(* They hold the kernel's descriptor tables and configuration entries,     *)
(* kept in order and looked up by binary search.  Every change of length   *)
(* moves an array to a new allocation before the old one is freed.         *)
(***************************************************************************)
EXTENDS BlockHeap, Sequences, SequencesExt

CONSTANTS Arrays,     \* the arrays
          Values,     \* a set of integers: what the entries are ordered by
          PerBlock,   \* the entries of an array that fit a block
          MaxHeld     \* bound: the allocations that exist at once

ASSUME ArrayAssumption ==
    /\ Values \subseteq Int /\ PerBlock \in Nat \ {0} /\ MaxHeld \in Nat

VARIABLES arrays,     \* entries, and buffer: a set of none or one allocation
          lost        \* allocations that nothing refers to any more

vars == <<control, free, held, arrays, lost>>

Empty == [entries |-> <<>>, buffer |-> {}]

Buffers == UNION {arrays[a].buffer : a \in Arrays}

Init == HeapInit /\ arrays = [a \in Arrays |-> Empty] /\ lost = {}
-----------------------------------------------------------------------------
(* Mutant: the place where the search ends is not compared once more. *)
MutSettled(s, v, left) == [at |-> left, found |-> s[left + 1] = v]

Settled(s, v, left) ==
    IF s[left + 1] = v THEN [at |-> left, found |-> TRUE]
    ELSE [at |-> IF s[left + 1] < v THEN left + 1 ELSE left, found |-> FALSE]

(* The search's loop, from each of the left and right it can have; it      *)
(* stops when left >= right.                                               *)
Search(s, v) ==
    LET Bounds == 0 .. Len(s)
        From[b \in Bounds \X Bounds] ==
            LET left == b[1]  right == b[2]  middle == (left + right) \div 2
            IN  IF left >= right THEN Settled(s, v, left)
                ELSE IF s[middle + 1] < v THEN From[<<middle + 1, right>>]
                ELSE IF s[middle + 1] = v THEN [at |-> middle, found |-> TRUE]
                ELSE IF middle = 0 THEN Settled(s, v, left)
                ELSE From[<<left, middle - 1>>]
    IN  From

(* dynamic_array_find_closest_binary_shearch: an index counted from 0, and *)
(* whether the value is there.                                             *)
Closest(s, v) ==
    IF s = <<>> THEN [at |-> 0, found |-> FALSE] ELSE Search(s, v)[<<0, Len(s) - 1>>]

(* Mutant: a block that is only partly used is not counted. *)
MutBlocksFor(n) == IF n < PerBlock THEN 1 ELSE n \div PerBlock

BlocksFor(n) == (n + PerBlock - 1) \div PerBlock

(* The array's new contents are put into a new allocation at b, and its    *)
(* old one is freed: the words are changed twice.                          *)
Moved(a, entries, b) ==
    LET r == [blocks |-> BlocksFor(Len(entries)), align |-> 1]
        old == arrays[a].buffer
        marked == Marked(b, r.blocks)
        cleared == UNION {Freed(h.start) : h \in old}
    IN  /\ b \in Candidates(r) /\ \A c \in Candidates(r) : b <= c
        /\ control' = [i \in 0 .. Words - 1 |-> IF i \in cleared THEN "free" ELSE marked[i]]
        /\ free' = free - r.blocks + Cardinality(cleared)
        /\ held' = (held \cup {[start |-> b, size |-> r.blocks]}) \ old
        /\ arrays' = [arrays EXCEPT ![a] =
               [entries |-> entries, buffer |-> {[start |-> b, size |-> r.blocks]}]]

NoRoomFor(n) == Candidates([blocks |-> BlocksFor(n), align |-> 1]) = {}

(* insert_dynamic_array at the place the search returns, as open, diropen  *)
(* and the configuration parser do for what is not there yet.              *)
Insert(a, v) ==
    LET s == arrays[a].entries  place == Closest(s, v)
    IN  /\ ~place.found
        /\ \/ \E b \in 0 .. Total - 1 : Moved(a, InsertAt(s, place.at + 1, v), b)
           \/ NoRoomFor(Len(s) + 1) /\ UNCHANGED <<control, free, held, arrays>>
        /\ UNCHANGED lost

(* remove_dynamic_array_entry: the last entry's buffer is not freed.       *)
RemoveEntry(a, v) ==
    LET s == arrays[a].entries  place == Closest(s, v)
    IN  /\ place.found
        /\ \/ /\ Len(s) > 1
              /\ \/ \E b \in 0 .. Total - 1 : Moved(a, RemoveAt(s, place.at + 1), b)
                 \/ NoRoomFor(Len(s) - 1) /\ UNCHANGED <<control, free, held, arrays>>
              /\ UNCHANGED lost
           \/ /\ Len(s) = 1
              /\ arrays' = [arrays EXCEPT ![a] = Empty]
              /\ lost' = lost \cup arrays[a].buffer
              /\ UNCHANGED <<control, free, held>>

(* delete_dynamic_array; the header is initialised again before it is used.*)
Delete(a) ==
    /\ \/ \E h \in arrays[a].buffer : FreeBlock(h)
       \/ arrays[a].buffer = {} /\ UNCHANGED heapVars
    /\ arrays' = [arrays EXCEPT ![a] = Empty]
    /\ UNCHANGED lost

(* The other users of the heap, who free only what they hold themselves.   *)
Others ==
    /\ \/ \E r \in Requests : \/ AllocFails(r)
                              \/ Cardinality(held) < MaxHeld
                                 /\ \E b \in 0 .. Total - 1 : AllocAt(r, b)
       \/ \E h \in held \ (Buffers \cup lost) : FreeBlock(h)
       \/ \E b \in 0 .. Words - 1 : FreeRefused(b)
    /\ UNCHANGED <<arrays, lost>>

Next ==
    \/ Others
    \/ \E a \in Arrays, v \in Values : Insert(a, v) \/ RemoveEntry(a, v)
    \/ \E a \in Arrays : Delete(a)

Spec == Init /\ [][Next]_vars
-----------------------------------------------------------------------------
(* Whatever sequence of insertions, removals and other allocations, failed *)
(* ones included: an array's buffer is an allocation that is held, its own *)
(* and large enough for its entries, and the count of free blocks is right.*)
(* Memory that no one refers to comes only from removing last entries.     *)
BuffersHoldEntries ==
    /\ \A a \in Arrays :
          /\ arrays[a].buffer \subseteq held \ lost
          /\ (arrays[a].entries = <<>>) = (arrays[a].buffer = {})
          /\ \A h \in arrays[a].buffer : Len(arrays[a].entries) <= h.size * PerBlock
    /\ \A a, b \in Arrays : a # b => arrays[a].buffer \cap arrays[b].buffer = {}
    /\ free = Cardinality({b \in 0 .. Total - 1 : control[b] = "free"})

(* The binary search, whose bounds cross in several ways, finds what is in *)
(* an array built with it and otherwise the place that keeps the order.    *)
SearchKeepsOrder ==
    \A a \in Arrays :
        LET s == arrays[a].entries
        IN  /\ \A i \in 1 .. Len(s) - 1 : s[i] < s[i + 1]
            /\ \A v \in Values :
                  /\ Closest(s, v).found = (\E i \in 1 .. Len(s) : s[i] = v)
                  /\ \A i \in 1 .. Len(s) : (i <= Closest(s, v).at) = (s[i] < v)
-----------------------------------------------------------------------------
(* The words that a search with an alignment of up to four blocks looks at *)
(* are there, and so is an aligned block to begin with.                    *)
ASSUME ScanAssumption == Total >= 4 /\ Words >= Total + 3

(* The two nested loops of the search for free blocks, which share their   *)
(* counter: the result is -1 where the code returns NULL.                  *)

(* Mutant: the region is taken to begin at an aligned address. *)
MutRoundUp(b, align) == align * ((b + align - 1) \div align)

RoundUp(b, align) ==
    LET first == (-Start) % align
    IN  first + align * ((b - first + align - 1) \div align)

Scan(n, align) ==
    LET Run(b) ==    \* where the inner loop stops: n found, a block in use or the end
            CHOOSE c \in b + 1 .. Words :
                /\ \A i \in b + 1 .. c - 1 : i < Total /\ control[i] = "free" /\ i < b + n
                /\ c >= Total \/ c = b + n \/ control[c] # "free"
        From[b \in 0 .. Words + 1] ==
            LET at == RoundUp(b, align)
            IN  IF b >= Total THEN -1
                ELSE IF control[at] # "free" THEN From[at + 1]
                ELSE IF Run(at) - at = n THEN at
                ELSE From[Run(at) + 1]
    IN  From[(-Start) % align]

(* In every heap that can arise, the loops return the first aligned blocks *)
(* that fit.  A one-block request with an alignment is the exception: with *)
(* no aligned block left it is given the next one behind the region.       *)
FirstFit ==
    \A n \in 1 .. 3, align \in {1, 2, 4} :
        LET fitting == {b \in 0 .. Total - 1 : Aligned(b, align) /\ Fits(b, n)}
            behind == RoundUp(Total - 1, align)
        IN  Scan(n, align) =
                IF fitting # {} THEN CHOOSE b \in fitting : \A c \in fitting : b <= c
                ELSE IF n = 1 /\ behind >= Total /\ control[behind] = "free" THEN behind
                ELSE -1
=============================================================================
