----------------------------- MODULE BlockHeap -----------------------------
(***************************************************************************)
(* The allocator of the kernel's heap and of every program's heap          *)
(* (kernal/src/lib/central_block_memory_allocator.c and the program        *)
(* library of the same name): a region of equal blocks with a two-bit      *)
(* control word for each, no list of allocations and no sizes.  What an    *)
(* allocation's pointer owns is written in the words alone.                *)
(***************************************************************************)
EXTENDS Integers, FiniteSets

CONSTANTS Total,      \* number_of_total_blocks
          Words,      \* the control words, some behind the last block
          Start,      \* where the region begins in memory, in blocks
          Requests    \* [blocks, align], both in blocks: what callers ask for

(* Alignments above a block are asked for with more than one block: page   *)
(* tables of 4 KiB.  (One-block requests with an alignment are made only   *)
(* at boot, from an empty heap.)                                           *)
ASSUME HeapAssumption ==
    /\ Total \in Nat \ {0} /\ Words \in Nat /\ Words > Total /\ Start \in Nat
    /\ Requests \subseteq [blocks : Nat \ {0}, align : Nat \ {0}]
    /\ \A r \in Requests : r.align > 1 => r.blocks > 1

VARIABLES control,    \* the control words
          free,       \* number_of_free_blocks
          held        \* what the callers hold: [start, size] of each allocation

heapVars == <<control, free, held>>

Word == {"free", "start", "middle", "end"}
Span(h) == h.start .. h.start + h.size - 1

HeapInit ==
    /\ control = [b \in 0 .. Words - 1 |-> "free"]
    /\ free = Total
    /\ held = {}
-----------------------------------------------------------------------------
Aligned(b, align) == (Start + b) % align = 0

Fits(b, n) == b + n <= Total /\ \A i \in b .. b + n - 1 : control[i] = "free"

Candidates(r) == {b \in 0 .. Total - 1 : Aligned(b, r.align) /\ Fits(b, r.blocks)}

Marked(b, n) ==
    [i \in 0 .. Words - 1 |->
        IF i = b THEN "start"
        ELSE IF i \in b + 1 .. b + n - 2 THEN "middle"
        ELSE IF i = b + n - 1 THEN "end"
        ELSE control[i]]

(* The first blocks that fit; FirstFit below compares this with the loops. *)
AllocAt(r, b) ==
    /\ b \in Candidates(r) /\ \A c \in Candidates(r) : b <= c
    /\ control' = Marked(b, r.blocks)
    /\ free' = free - r.blocks
    /\ held' = held \cup {[start |-> b, size |-> r.blocks]}

AllocFails(r) == Candidates(r) = {} /\ UNCHANGED heapVars

(* Mutant: an allocation's end is looked for by its END word. *)
MutFreed(b) ==
    {c \in b .. Words - 1 : \A i \in b .. c - 1 : control[i] # "end"}

(* The loop of a free: from the start on, up to the next start or free.    *)
Freed(b) ==
    {c \in b .. Words - 1 : \A i \in b + 1 .. c : control[i] \notin {"start", "free"}}

FreeBlock(h) ==
    /\ control[h.start] = "start"
    /\ control' = [c \in 0 .. Words - 1 |-> IF c \in Freed(h.start) THEN "free" ELSE control[c]]
    /\ free' = free + Cardinality(Freed(h.start))
    /\ held' = held \ {h}

(* A pointer that starts no allocation is not freed.                       *)
FreeRefused(b) ==
    /\ b >= Total \/ control[b] # "start"
    /\ UNCHANGED heapVars

HeapNext ==
    \/ \E r \in Requests : AllocFails(r) \/ \E b \in 0 .. Total - 1 : AllocAt(r, b)
    \/ \E h \in held : FreeBlock(h)
    \/ \E b \in 0 .. Words - 1 : FreeRefused(b)

HeapSpec == HeapInit /\ [][HeapNext]_heapVars
-----------------------------------------------------------------------------
(* The words say exactly what the callers hold: allocations lie in the     *)
(* region and apart, each begins with the only START of its blocks, and    *)
(* every other block is free: a free ends where its allocation ends.       *)
BlocksOwnedOnce ==
    /\ \A h \in held :
          /\ h.start + h.size <= Total
          /\ control[h.start] = "start"
          /\ \A i \in h.start + 1 .. h.start + h.size - 1 : control[i] \in {"middle", "end"}
    /\ \A g, h \in held : g # h => Span(g) \cap Span(h) = {}
    /\ \A b \in 0 .. Words - 1 :
          (\A h \in held : b \notin Span(h)) => control[b] = "free"
=============================================================================
