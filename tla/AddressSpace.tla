---------------------------- MODULE AddressSpace ----------------------------
(***************************************************************************)
(* Physical memory and the address space of the running program: the page  *)
(* allocator (page_allocator.c), the translation table it feeds            *)
(* (translation_table.c), and the calls that use both (user_program.c):    *)
(* loading a program, vmemmap, and destroying the program.                 *)
(*                                                                         *)
(* Sizes and addresses count pages of 2 MiB.  An allocation is the set of  *)
(* its pages: its list of segments is the list of that set's runs.  The    *)
(* section array is kept sorted, so it is a function of the start address. *)
(***************************************************************************)
EXTENDS Integers, FiniteSetsExt

CONSTANTS NumPages,       \* s_total_number_of_pages
          KernelPages,    \* pages of the kernel's code and heap
          PagesPerGiB,    \* 512 in the code
          EntryMod,       \* 256: number_of_page_middle_directory_entrys is 8 bits
          Starts,         \* addresses a program names
          Sizes,          \* sizes a program names
          MaxSize         \* bound: pages of a program image, page or stack size

ASSUME SpaceAssumption ==
    /\ NumPages \in Nat /\ KernelPages \in 0..NumPages /\ MaxSize \in Nat
    /\ PagesPerGiB \in Nat \ {0} /\ EntryMod \in 1..PagesPerGiB
    /\ MaxSize <= PagesPerGiB \* no board has more than 1 GiB below the GPU's memory
    /\ Starts \subseteq Nat /\ Sizes \subseteq Nat

VARIABLES used,           \* s_page_availability: the pages whose bit is set
          sections,       \* of each start address, the pages mapped there
          phase,          \* what the kernel is doing
          result          \* what the last vmemmap returned, in pages

vars == <<used, sections, phase, result>>

Page == 0..NumPages - 1
\* "undefined": the table holds what remove_translation_table_section read
\* behind the end of an array.  "stopped": main() has returned.
Phases == {"load", "running", "stopped", "panic", "undefined"}

Empty == [s \in Starts |-> {}]
Mapped == {s \in Starts : sections[s] # {}}
Size(s) == Cardinality(sections[s])

-----------------------------------------------------------------------------
(* The page allocator.                                                      *)

\* Mutant: the scan runs up to and including the page after the last.
FreePagesAndOneMore == (0..NumPages) \ used
FreePages == Page \ used

\* create_new_page_allocation takes the lowest n free pages; when there are
\* fewer it has marked them all before it notices.
Fits(n) == n <= Cardinality(FreePages)
Lowest(n) == {p \in FreePages : Cardinality({q \in FreePages : q < p}) < n}

\* destroy_page_allocation calls s_set_page_availability(page, false), which
\* sets the bit whatever it is asked.  Mutant: it does what it is asked.
FreedIsFree(pages) == pages
Freed(pages) == {}

\* The pages of an allocation's first segment.
FirstSegment(pages) == {p \in pages : \A q \in pages : q < p => q + 1 \in pages}

-----------------------------------------------------------------------------
(* The translation table.                                                   *)

\* Mutant: a section that crosses a GiB boundary gets an entry on each side.
EntriesCrossing(s) == ((s % PagesPerGiB) + Size(s) + PagesPerGiB - 1) \div PagesPerGiB

\* Page upper directory entries written for the section at s: as many as the
\* truncated number of page middle directory entries needs.
Entries(s) == ((Size(s) % EntryMod) + PagesPerGiB - 1) \div PagesPerGiB

\* The section whose page middle directory entry g of the upper directory
\* points to: the one that wrote it last.
Covers(s, g) == g - s \div PagesPerGiB \in 0..Entries(s) - 1
Owners(g) == {s \in Mapped : Covers(s, g)}

\* Every entry points to the first page of the middle directory, which lists
\* the section's pages in order from index 0.
Index(s, p) == Cardinality({q \in sections[s] : q < p})
Translates(v, p) ==
    \E s \in Owners(v \div PagesPerGiB) :
        /\ \A t \in Owners(v \div PagesPerGiB) : t <= s
        /\ p \in sections[s] /\ Index(s, p) = v % PagesPerGiB

\* Mutant: only the section after the new one is looked at.
FitsAtUnchecked(s, n) == \A t \in Mapped : t > s => s + n <= t

\* insert_translation_table_section looks at the neighbours of the new section.
FitsAt(s, n) ==
    /\ \A t \in Mapped : t > s /\ (\A u \in Mapped : u > s => t <= u) => s + n <= t
    /\ \A t \in Mapped : t < s /\ (\A u \in Mapped : u < s => u <= t) => t + Size(t) <= s

\* s_check_sections_for_page_clashing adds the size to a size_t*: eight times.
NoClash(code, size, stack) == code + 8 * size <= stack

Init == /\ used = 0..KernelPages - 1 /\ sections = Empty
        /\ phase = "load" /\ result = 0

-----------------------------------------------------------------------------
(* Loading and destroying a program.                                        *)

\* A load that fails before it has allocated anything, or whose sections are
\* refused: pages taken are given back, which does not free them.
LoadRefused(taken) ==
    /\ used' = (used \cup taken) \ Freed(taken)
    /\ phase' = "stopped" /\ UNCHANGED <<sections, result>>

\* Reading the image and clearing the rest of its pages stays inside them: the
\* end is taken from the size of the *stack*, so that too small a stack wraps
\* the count and too large a one runs off the mapping.  Neither section may
\* have a number of pages that is stored as 0 entries.
Clears(image, size, stackSize) ==
    /\ image <= stackSize /\ stackSize <= size
    /\ size % EntryMod # 0 /\ stackSize % EntryMod # 0

Panic == phase' = "panic" /\ UNCHANGED <<sections, result>>

\* load_user_program_from_disk, with the image, page and stack size of a
\* configuration file.  Neither allocation is checked for NULL: one of no pages
\* makes aligned_alloc panic, and so does an abort while main() loads.
Load(code, stack, image, size, stackSize) ==
    LET codePages == Lowest(size)
        stackPages == Lowest(size + stackSize) \ codePages
        accepted == /\ stackSize # 0 /\ stack # 0
                    /\ code % PagesPerGiB = 0 /\ stack % PagesPerGiB = 0
                    /\ NoClash(code, IF Fits(size) THEN size ELSE 0, stack)
    IN /\ phase = "load"
       /\ \/ ~accepted /\ LoadRefused(codePages \cup stackPages)
          \/ /\ accepted /\ Fits(size + stackSize) /\ Clears(image, size, stackSize)
             /\ used' = used \cup codePages \cup stackPages
             /\ sections' = [Empty EXCEPT ![code] = codePages, ![stack] = stackPages]
             /\ phase' = "running" /\ UNCHANGED result
          \/ /\ accepted /\ ~(Fits(size + stackSize) /\ Clears(image, size, stackSize))
             /\ used' = used \cup codePages \cup stackPages
             /\ Panic

\* No configuration file, no image, an image that cannot be read ...
LoadFails == phase = "load" /\ LoadRefused({})

\* The program ends, however it does: destroy_user_program.
Destroy ==
    /\ phase = "running"
    /\ used' = used \ Freed(UNION {sections[s] : s \in Starts})
    /\ sections' = Empty /\ phase' = "load" /\ UNCHANGED result

-----------------------------------------------------------------------------
(* vmemmap.                                                                 *)

Return(n) == result' = n
Keep == UNCHANGED <<used, sections, phase>>

\* remake_translation_table_section.  Where the entry count has wrapped to 0 and
\* the section is not the last, it compares what the program's memory holds at
\* the two start addresses; that may be anything, and may end the program.
Remake(s) ==
    \/ Keep /\ Return(Size(s))
    \/ /\ Size(s) % EntryMod = 0 /\ \E t \in Mapped : t > s
       /\ (Keep /\ Return(0)) \/ Destroy

\* Mutant: the pages of a new section are not marked.
CreateUnmarked(s, n) ==
    /\ s \notin Mapped /\ UNCHANGED <<used, phase>>
    /\ IF Fits(n) /\ FitsAt(s, n)
         THEN sections' = [sections EXCEPT ![s] = Lowest(n)] /\ Return(n)
         ELSE UNCHANGED sections /\ Return(0)

\* create_new_page_allocation and insert_translation_table_section.  What could
\* be allocated is not destroyed when it cannot be inserted.
Create(s, n) ==
    /\ s \notin Mapped /\ UNCHANGED phase
    /\ used' = used \cup Lowest(n)
    /\ IF Fits(n) /\ FitsAt(s, n)
         THEN sections' = [sections EXCEPT ![s] = Lowest(n)] /\ Return(n)
         ELSE UNCHANGED sections /\ Return(0)

\* resize_page_allocation rounds every size to one page.  Shrinking to it looks
\* at the first segment, marks again what is marked, and changes no size; it
\* fails if the segment is one page already, and destroys the whole allocation
\* before it goes on with it if there are others.
Resize(s) ==
    /\ s \in Mapped
    /\ LET first == FirstSegment(sections[s])
       IN IF first = sections[s] THEN Remake(s)
          ELSE IF Cardinality(first) = 1 THEN Keep /\ Return(0)
          ELSE /\ used' = used \ Freed(sections[s])
               /\ phase' = "undefined" /\ UNCHANGED <<sections, result>>

\* remove_translation_table_section copies one element too many into arrays
\* one shorter, and leaves number_of_sections as it was.
Remove(s) ==
    /\ s \in Mapped
    /\ used' = used \ Freed(sections[s])
    /\ sections' = [sections EXCEPT ![s] = {}]
    /\ phase' = "undefined" /\ Return(1)

RemoveMissing(s) == s \notin Mapped /\ Keep /\ Return(1)

Vmemmap(s, n) ==
    /\ phase = "running"
    /\ \/ n # 0 /\ (Create(s, n) \/ Resize(s))
       \/ n = 0 /\ (Remove(s) \/ RemoveMissing(s))

\* size = -1: a missing section is created with the pages of 2^64 - 1 bytes,
\* whose count, rounded up, wraps to 0, and a table of no pages makes
\* aligned_alloc panic.
VmemmapQuery(s) ==
    /\ phase = "running"
    /\ \/ s \in Mapped /\ Keep /\ Return(Size(s))
       \/ s \notin Mapped /\ ~FitsAt(s, 0) /\ Keep /\ Return(0)
       \/ s \notin Mapped /\ FitsAt(s, 0) /\ UNCHANGED used /\ Panic

\* s_vmemmap_find_pointer: the first GiB, from the second on, below which every
\* section that starts there also ends.
Clear(x) == \A t \in Mapped : t <= x => t + Size(t) <= x
Found(s) ==
    /\ s % PagesPerGiB = 0 /\ s >= PagesPerGiB /\ Clear(s)
    /\ \A k \in 1..s \div PagesPerGiB - 1 : ~Clear(k * PagesPerGiB)

\* VMEMMAP_RETURN_POINTER: no section starts at the address found.
VmemmapAnywhere(n) ==
    /\ phase = "running"
    /\ \E s \in Starts : Found(s) /\ IF n = 0 THEN RemoveMissing(s) ELSE Create(s, n)

\* kernel_main's last loop, kernel_panic, and whatever follows a broken table.
Halted == phase \in {"stopped", "panic", "undefined"} /\ UNCHANGED vars

Next == \/ \E code, stack \in Starts, image, size \in 1..MaxSize, stackSize \in 0..MaxSize :
               Load(code, stack, image, size, stackSize)
        \/ LoadFails \/ Destroy
        \/ \E s \in Starts : VmemmapQuery(s) \/ \E n \in Sizes : Vmemmap(s, n)
        \/ \E n \in Sizes : VmemmapAnywhere(n)
        \/ Halted

Spec == Init /\ [][Next]_vars

-----------------------------------------------------------------------------
(* Properties.                                                              *)

TypeOK == /\ used \subseteq Page /\ sections \in [Starts -> SUBSET Page]
          /\ phase \in Phases /\ result \in Nat

\* A page belongs to the kernel or to one section of the program: what a program
\* was given stays marked, across failed calls, leaks and later programs.
PagesOwnedOnce ==
    /\ 0..KernelPages - 1 \subseteq used
    /\ \A s \in Starts : /\ sections[s] \subseteq used
                         /\ sections[s] \cap (0..KernelPages - 1) = {}
    /\ \A s, t \in Starts : s # t => sections[s] \cap sections[t] = {}

\* Memory never fragments: every allocation is one segment, so that shrinking
\* one never reaches the code that destroys it and then goes on with it.
Contiguous == \A s \in Starts : FirstSegment(sections[s]) = sections[s]

\* The sections of a program do not overlap in its address space.
SectionsApart ==
    phase = "running" => \A s, t \in Mapped : s < t => s + Size(s) <= t

\* No page is reachable at two addresses, although sections may share a GiB and
\* overwrite each other's entries: a read-only section stays read-only.
Addresses == UNION {s..s + 2 * PagesPerGiB : s \in Starts}
NoAlias ==
    phase = "running" =>
        \A v, w \in Addresses : \A p \in Page :
            Translates(v, p) /\ Translates(w, p) => v = w

\* The invariant behind them: what is in use is the bottom of memory, so what
\* is taken next is one run of pages.
Packed == \E k \in KernelPages..NumPages : used = 0..k - 1
Blocks == \A s \in Starts : \E a, b \in Int : sections[s] = a..b
SpaceInvariant == Packed /\ Blocks /\ PagesOwnedOnce /\ SectionsApart

=============================================================================
