----------------------------- MODULE FileAccess -----------------------------
(***************************************************************************)
(* Files on the FAT32 card (file_access.c): the allocation table, the      *)
(* entries of a directory, and the descriptors a program holds.  Each call *)
(* is a system call with interrupts masked, so each is one step; what goes *)
(* wrong takes a sequence of calls.                                        *)
(*                                                                         *)
(* A file's bytes are not modelled, only which clusters a call reads and   *)
(* writes.  0 is a free entry of the table.  End stands for 0x0FFFFFF8 and *)
(* NoCluster for UINT32_MAX: neither is the number of an entry.            *)
(***************************************************************************)
EXTENDS Integers, FiniteSetsExt

CONSTANTS Names,          \* paths, which are also descriptors: the hash of one
          NoName,         \* an entry whose name starts with '\0'
          NumClusters,    \* entries of the allocation table
          NumSlots,       \* entries the directory's clusters hold
          ClusterSize,    \* bytes of a cluster
          MaxSize,        \* bound: offsets and sizes a call names
          Misuse          \* calls the code does not handle, see below

\* shrink: making a file smaller.  renameOpen: renaming an open file.
\* createFull: creating a file with no cluster free.
ASSUME FileAssumption ==
    /\ NumClusters \in Nat /\ NumSlots \in Nat /\ MaxSize \in Nat
    /\ ClusterSize \in Nat \ {0}
    /\ NoName \notin Names
    /\ Misuse \subseteq {"shrink", "renameOpen", "createFull"}

VARIABLES fat,            \* the table: the next cluster, 0 or End
          dir,            \* the entries of the directory
          fds,            \* s_fd_hash_table
          phase,          \* "undefined" once a call has used arbitrary data
          result          \* -1 when the last call failed; bytes are not counted

vars == <<fat, dir, fds, phase, result>>

Cluster == 1..NumClusters
End == NumClusters + 1
NoCluster == NumClusters + 2
Slot == 1..NumSlots

Empty == [name |-> NoName, first |-> 0, size |-> 0]
Closed == [slot |-> 0, first |-> 0, cur |-> 0, off |-> 0, size |-> 0, write |-> FALSE]
IsOpen(p) == fds[p] # Closed

-----------------------------------------------------------------------------
(* The allocation table.                                                    *)

ClustersFor(n) == (n + ClusterSize - 1) \div ClusterSize

\* Mutant: a file's clusters are taken to follow each other on the card.
NextIsContiguous(f, c) == IF c \in Cluster THEN c + 1 ELSE End

\* s_get_next_cluster_in_chain; entry 0 of the table holds an end mark.
NextCluster(f, c) == IF c \in Cluster THEN f[c] ELSE End

\* k clusters on from c; where the chain is shorter, End.
Ahead(f, c, k) ==
    LET at[i \in 0..k] == IF i = 0 THEN c ELSE NextCluster(f, at[i - 1]) IN at[k]

\* A number that is no entry: looking it up reads the card somewhere behind
\* the table, and following what is found there goes anywhere.
Wild(c) == c >= End

\* s_find_free_clusters: the lowest ones, and fewer than asked when fewer are free.
FreeClusters == {c \in Cluster : fat[c] = 0}
Lowest(n) == {c \in FreeClusters : Cardinality({d \in FreeClusters : d < c}) < n}

Successors(taken, c) == {d \in taken : c \notin taken \/ d > c}

\* Mutant: the last cluster taken is not marked, and stays free.
LinkUnended(f, last, taken) ==
    [c \in Cluster |->
        IF (c \in taken \/ c = last) /\ Successors(taken, c) # {}
          THEN Min(Successors(taken, c)) ELSE f[c]]

\* s_write_fat_updates: taken is chained in order behind last and ended.
Link(f, last, taken) ==
    [c \in Cluster |->
        IF c \in taken \/ c = last
          THEN IF Successors(taken, c) = {} THEN End ELSE Min(Successors(taken, c))
          ELSE f[c]]

-----------------------------------------------------------------------------
(* s_lseek_internal: forwards from the current cluster, otherwise from the   *)
(* first, and not at all when the offset stays in the same cluster.         *)

Index(offset) == offset \div ClusterSize
Forward(fd, new) == Index(new) >= Index(fd.off)
SeekStart(fd, new) == IF Forward(fd, new) THEN fd.cur ELSE fd.first
SeekSteps(fd, new) == Index(new) - (IF Forward(fd, new) THEN Index(fd.off) ELSE 0)
Sought(fd, new) == Ahead(fat, SeekStart(fd, new), SeekSteps(fd, new))

SeekWild(fd, new) == new <= fd.size /\ SeekSteps(fd, new) > 0 /\ Wild(SeekStart(fd, new))
SeekFails(fd, new) ==
    \/ new > fd.size
    \/ SeekSteps(fd, new) > 0 /\ ~Wild(SeekStart(fd, new)) /\ Wild(Sought(fd, new))

At(fd, new) == [fd EXCEPT !.off = new, !.cur = Sought(fd, new)]

-----------------------------------------------------------------------------
(* Reading and writing: the rest of the current cluster, then whole ones.   *)

FirstPart(fd, n) == Min({ClusterSize - (fd.off % ClusterSize), n})
Moves(fd, n) == ClustersFor(n - FirstPart(fd, n))

\* Clusters of the chain there are to move to, of those that are needed.
Reached(f, fd, n) == Max({k \in 0..Moves(fd, n) : k = 0 \/ ~Wild(Ahead(f, fd.cur, k))})
Transferred(f, fd, n) == Reached(f, fd, n) = Moves(fd, n)

\* Where the descriptor is afterwards.  A transfer that ends with a cluster
\* leaves it there, although the offset is the next cluster's.
Moved(f, fd, n) ==
    [fd EXCEPT !.cur = Ahead(f, @, Reached(f, fd, n)),
               !.off = @ + IF Transferred(f, fd, n) THEN n
                           ELSE FirstPart(fd, n) + ClusterSize * Reached(f, fd, n)]

\* s_expand_file adds what the new size needs; an empty file has one cluster.
Added(fd, new) == ClustersFor(new) - Max({1, ClustersFor(fd.size)})
Grows(fd, n) == fd.off + n > fd.size
Extends(fd, n) == Grows(fd, n) /\ Added(fd, fd.off + n) > 0
GrowFails(fd, n) == Extends(fd, n) /\ SeekFails(fd, fd.size)

\* The table and the descriptor after s_allocate_new_clusters_if_necessary: at
\* the end of a file that is not empty the descriptor moves on a cluster.
AtEnd(fd, n) == Grows(fd, n) /\ fd.off = fd.size /\ fd.size # 0
GrownFat(fd, n) ==
    IF Extends(fd, n) THEN Link(fat, Sought(fd, fd.size), Lowest(Added(fd, fd.off + n))) ELSE fat
Grown(fd, n) ==
    [fd EXCEPT !.size = Max({@, fd.off + n}),
               !.cur = IF AtEnd(fd, n) THEN NextCluster(GrownFat(fd, n), @) ELSE @]

WriteWild(fd, n) ==
    \/ Extends(fd, n) /\ SeekWild(fd, fd.size)
    \/ /\ ~GrowFails(fd, n)
       /\ \/ Extends(fd, n) /\ Sought(fd, fd.size) \notin Cluster
          \/ AtEnd(fd, n) /\ Wild(fd.cur)
          \/ Wild(Grown(fd, n).cur) /\ Moves(fd, n) > 0

\* Mutant: the size is kept in the descriptor until the file is closed.
UpdatedAtClose(fd) ==
    [dir EXCEPT ![fd.slot] = IF fd.first = NoCluster THEN Empty ELSE @]

\* s_update_file_discriptor: the entry is found by its place on the card, and
\* deleted when the file has no cluster.
Updated(fd) ==
    [dir EXCEPT ![fd.slot] =
        IF fd.first = NoCluster THEN Empty ELSE [@ EXCEPT !.size = fd.size]]

\* s_write_internal, as what it leaves.  A cluster that does not exist is behind
\* the end of the card, which refuses it, or in the spare copy of the table.
Written(fd, n, refused) ==
    IF GrowFails(fd, n) THEN [fat |-> fat, dir |-> dir, fd |-> fd, result |-> -1]
    ELSE LET f == GrownFat(fd, n)
             g == Grown(fd, n)
             stops == refused /\ Wild(g.cur)
         IN [fat |-> f,
             dir |-> IF Grows(fd, n) THEN Updated(g) ELSE dir,
             fd |-> IF stops THEN g ELSE Moved(f, g, n),
             result |-> IF stops \/ ~Transferred(f, g, n) THEN -1 ELSE 0]

-----------------------------------------------------------------------------
(* s_shink_file_internal.                                                   *)

Removed(fd, new) == ClustersFor(fd.size) - ClustersFor(new)

\* The clusters freed lie behind the one sought, and the chain must end there.
\* When nothing is kept, the one sought is the first and is freed apart.
TailLength(fd, new) == Removed(fd, new) - (IF new = 0 THEN 1 ELSE 0)
Tail(fd, new) == {Ahead(fat, Sought(fd, new), i) : i \in 1..TailLength(fd, new)}
TailEnds(fd, new) ==
    LET k == TailLength(fd, new)
    IN \/ new = 0 /\ k = 0
       \/ /\ Wild(Ahead(fat, Sought(fd, new), k + 1))
          /\ k > 0 => ~Wild(Ahead(fat, Sought(fd, new), k))

\* The cluster that becomes the end is the one the descriptor stands on.
EndedAt(fd, new) == fd.cur

ShrunkFat(fd, new) ==
    IF Removed(fd, new) = 0 THEN fat
    ELSE [c \in Cluster |-> IF c \in Tail(fd, new) THEN 0
                            ELSE IF c = EndedAt(fd, new) THEN (IF new = 0 THEN 0 ELSE End)
                            ELSE fat[c]]

ShrinkFails(fd, new) ==
    \/ fd.size < new
    \/ Removed(fd, new) > 0 /\ (SeekFails(fd, new) \/ ~TailEnds(fd, new))
ShrinkWild(fd, new) ==
    /\ fd.size >= new /\ Removed(fd, new) > 0
    /\ \/ SeekWild(fd, new)
       \/ ~ShrinkFails(fd, new) /\ (fd.cur \notin Cluster \/ 0 \in Tail(fd, new))

\* s_shink_file keeps a byte.
Kept(new) == Max({new, 1})
Shrunk(fd, new) == [fd EXCEPT !.size = Kept(new)]

-----------------------------------------------------------------------------
Init == /\ fat = [c \in Cluster |-> 0] /\ dir = [s \in Slot |-> Empty]
        /\ fds = [p \in Names |-> Closed]
        /\ phase = "defined" /\ result = 0

Fail == result' = -1 /\ UNCHANGED <<fat, dir, fds, phase>>
Undefined == phase' = "undefined" /\ UNCHANGED <<fat, dir, fds, result>>

\* A call on the open file p that may write; phase is "defined" in all of them.
Writable(p) == phase = "defined" /\ IsOpen(p) /\ fds[p].write
NotWritable(p) == phase = "defined" /\ IsOpen(p) /\ ~fds[p].write /\ Fail

\* Both searches of a directory take the first entry that matches.
SlotsOf(name) == {s \in Slot : dir[s].name = name}

\* The descriptor open prepares.
Found(p, write) ==
    LET slot == Min(SlotsOf(p))
    IN [slot |-> slot, first |-> dir[slot].first, cur |-> dir[slot].first, off |-> 0,
        size |-> dir[slot].size, write |-> write]

\* open of a file that exists and is not open; FILE_FLAGS_APPEND seeks its end.
Open(p, write, append) ==
    /\ phase = "defined" /\ ~IsOpen(p) /\ SlotsOf(p) # {}
    /\ LET fd == Found(p, write)
       IN \/ append /\ (~write \/ SeekFails(fd, fd.size)) /\ Fail
          \/ append /\ write /\ SeekWild(fd, fd.size) /\ Undefined
          \/ /\ append => write /\ ~SeekFails(fd, fd.size) /\ ~SeekWild(fd, fd.size)
             /\ fds' = [fds EXCEPT ![p] = IF append THEN At(fd, fd.size) ELSE fd]
             /\ result' = 0 /\ UNCHANGED <<fat, dir, phase>>

\* FILE_FLAGS_TRUNCATE: down to a byte, which an empty file does not have.
OpenTruncated(p) ==
    /\ phase = "defined" /\ ~IsOpen(p) /\ SlotsOf(p) # {}
    /\ LET fd == Found(p, TRUE)
       IN \/ ShrinkFails(fd, 1) /\ Fail
          \/ ShrinkWild(fd, 1) /\ Undefined
          \/ /\ ~ShrinkFails(fd, 1) /\ ~ShrinkWild(fd, 1)
             /\ Removed(fd, 1) > 0 => "shrink" \in Misuse
             /\ fat' = ShrunkFat(fd, 1) /\ dir' = Updated(Shrunk(fd, 1))
             /\ fds' = [fds EXCEPT ![p] = Shrunk(fd, 1)]
             /\ result' = 0 /\ UNCHANGED phase

\* FILE_FLAGS_CREATE: s_create_new_dirrectory_entry takes a cluster, then the
\* first empty entry.  A directory without one gets a cluster that is read where
\* it should be written, and whose old contents become its entries.
Create(p) ==
    /\ phase = "defined" /\ ~IsOpen(p) /\ SlotsOf(p) = {}
    /\ FreeClusters = {} => "createFull" \in Misuse
    /\ LET first == IF FreeClusters = {} THEN NoCluster ELSE Min(FreeClusters)
           slot == Min(SlotsOf(NoName))
       IN \/ SlotsOf(NoName) = {} /\ Undefined
          \/ /\ SlotsOf(NoName) # {}
             /\ fat' = Link(fat, 0, Lowest(1))
             /\ dir' = [dir EXCEPT ![slot] = [name |-> p, first |-> first, size |-> 0]]
             /\ fds' = [fds EXCEPT ![p] = [Closed EXCEPT !.slot = slot, !.first = first,
                                                         !.cur = first, !.write = TRUE]]
             /\ result' = 0 /\ UNCHANGED phase

\* The file is open already, or is missing and not to be created.
OpenFails(p) == phase = "defined" /\ (IsOpen(p) \/ SlotsOf(p) = {}) /\ Fail

Close(p) ==
    /\ phase = "defined" /\ IsOpen(p)
    /\ fds' = [fds EXCEPT ![p] = Closed] /\ result' = 0
    /\ UNCHANGED <<fat, dir, phase>>

\* The three forms of whence name an offset.
Lseek(p, new) ==
    /\ phase = "defined" /\ IsOpen(p)
    /\ \/ (SeekFails(fds[p], new) \/ SeekWild(fds[p], new)) /\ Fail
       \/ SeekWild(fds[p], new) /\ Undefined
       \/ /\ ~SeekFails(fds[p], new) /\ ~SeekWild(fds[p], new)
          /\ fds' = [fds EXCEPT ![p] = At(@, new)] /\ result' = 0
          /\ UNCHANGED <<fat, dir, phase>>

\* Bytes asked for and left; behind the end of the file the difference wraps.
Readable(fd, n) == IF fd.off > fd.size THEN n ELSE Min({n, fd.size - fd.off})

\* A read of more than one cluster counts its bytes twice.  Reading nothing is
\* an error.
Read(p, n) ==
    /\ phase = "defined" /\ IsOpen(p) /\ fds[p].off <= MaxSize
    /\ LET fd == fds[p]
           m == Readable(fd, n)
           twice == IF Moves(fd, m) > 0 THEN m ELSE 0
           after == [Moved(fat, fd, m) EXCEPT !.off = @ + twice]
       IN \/ (m = 0 \/ Wild(fd.cur)) /\ Fail
          \/ m > 0 /\ Wild(fd.cur) /\ Moves(fd, m) > 0 /\ Undefined
          \/ /\ m > 0 /\ ~(Wild(fd.cur) /\ Moves(fd, m) > 0)
             /\ \/ /\ Transferred(fat, fd, m)
                   /\ fds' = [fds EXCEPT ![p] = after]
                   /\ result' = 0
                \/ /\ ~Transferred(fat, fd, m)
                   /\ fds' = [fds EXCEPT ![p] = Moved(fat, fd, m)] /\ result' = -1
             /\ UNCHANGED <<fat, dir, phase>>

Write(p, n) ==
    /\ Writable(p) /\ fds[p].off + n <= MaxSize
    /\ \/ WriteWild(fds[p], n) /\ Undefined
       \/ /\ ~WriteWild(fds[p], n)
          /\ \E refused \in BOOLEAN :
                LET w == Written(fds[p], n, refused)
                IN /\ fat' = w.fat /\ dir' = w.dir
                   /\ fds' = [fds EXCEPT ![p] = w.fd] /\ result' = w.result
          /\ UNCHANGED phase

\* ftruncate to a smaller size: the descriptor returns to the start, also when
\* the call fails, if it would be behind the end.
FtruncateDown(p, new) ==
    /\ Writable(p) /\ new < fds[p].size
    /\ LET fd == fds[p]
           kept == Kept(new)
           fails == ShrinkFails(fd, kept)
           after == IF fails THEN fd ELSE Shrunk(fd, new)
       IN \/ ShrinkWild(fd, kept) /\ Undefined
          \/ /\ ~ShrinkWild(fd, kept)
             /\ ~fails /\ Removed(fd, kept) > 0 => "shrink" \in Misuse
             /\ fat' = IF fails THEN fat ELSE ShrunkFat(fd, kept)
             /\ dir' = IF fails THEN dir ELSE Updated(after)
             /\ fds' = [fds EXCEPT ![p] = IF fd.off >= new
                           THEN [after EXCEPT !.off = 0, !.cur = fd.first] ELSE after]
             /\ result' = (IF fails THEN -1 ELSE 0) /\ UNCHANGED phase

\* To a larger one: zeros are written where a seek to the end, which may fail,
\* leaves the descriptor, and its place is put back.
FtruncateUp(p, new) ==
    /\ Writable(p) /\ new > fds[p].size
    /\ LET fd == fds[p]
           n == new - fd.size
           sought == IF SeekFails(fd, fd.size) THEN fd ELSE At(fd, fd.size)
       IN \/ (SeekWild(fd, fd.size) \/ WriteWild(sought, n)) /\ Undefined
          \/ /\ ~SeekWild(fd, fd.size) /\ ~WriteWild(sought, n) /\ sought.off + n <= MaxSize
             /\ \E refused \in BOOLEAN :
                   LET w == Written(sought, n, refused)
                   IN /\ fat' = w.fat /\ dir' = w.dir
                      /\ fds' = [fds EXCEPT ![p] = [w.fd EXCEPT !.off = fd.off, !.cur = fd.cur]]
                      /\ result' = w.result
             /\ UNCHANGED phase

FtruncateSame(p) ==
    Writable(p) /\ result' = 0 /\ UNCHANGED <<fat, dir, fds, phase>>

\* fremove: the chain is freed by the number of clusters the size needs, the
\* entry deleted, the descriptor closed whatever happens.
Fremove(p) ==
    /\ Writable(p)
    /\ \/ ShrinkWild(fds[p], 0) /\ Undefined
       \/ /\ ~ShrinkWild(fds[p], 0)
          /\ fds' = [fds EXCEPT ![p] = Closed]
          /\ \/ /\ ShrinkFails(fds[p], 0)
                /\ result' = -1 /\ UNCHANGED <<fat, dir>>
             \/ /\ ~ShrinkFails(fds[p], 0)
                /\ fat' = ShrunkFat(fds[p], 0)
                /\ dir' = [dir EXCEPT ![fds[p].slot] = Empty]
                /\ result' = 0
          /\ UNCHANGED phase

\* Within a directory.  The hash of the new path is looked up twice, that of the
\* old one never.
Rename(p, q) ==
    /\ phase = "defined"
    /\ IsOpen(p) => "renameOpen" \in Misuse
    /\ \/ (IsOpen(q) \/ SlotsOf(q) # {} \/ SlotsOf(p) = {}) /\ Fail
       \/ /\ ~IsOpen(q) /\ SlotsOf(q) = {} /\ SlotsOf(p) # {}
          /\ dir' = [dir EXCEPT ![Min(SlotsOf(p))].name = q] /\ result' = 0
          /\ UNCHANGED <<fat, fds, phase>>

\* file_access_on_user_app_exit.
ProgramExits ==
    /\ phase = "defined" /\ fds' = [p \in Names |-> Closed]
    /\ UNCHANGED <<fat, dir, phase, result>>

Halted == phase = "undefined" /\ UNCHANGED vars

Call(p) ==
    \/ \E write, append \in BOOLEAN : Open(p, write, append)
    \/ OpenTruncated(p) \/ Create(p) \/ OpenFails(p) \/ Close(p) \/ NotWritable(p)
    \/ FtruncateSame(p) \/ Fremove(p)
    \/ \E n \in 0..MaxSize : Lseek(p, n) \/ FtruncateDown(p, n) \/ FtruncateUp(p, n)
    \/ \E n \in 1..MaxSize : Read(p, n) \/ Write(p, n)
    \/ \E q \in Names \ {p} : Rename(p, q)

Next == ProgramExits \/ Halted \/ \E p \in Names : Call(p)

Spec == Init /\ [][Next]_vars

-----------------------------------------------------------------------------
(* Properties.                                                              *)

Entry == [name : Names \cup {NoName}, first : 0..NoCluster, size : Nat]
Descriptor == [slot : 0..NumSlots, first : 0..NoCluster, cur : 0..NoCluster,
               off : Nat, size : Nat, write : BOOLEAN]
TypeOK == /\ fat \in [Cluster -> 0..End] /\ dir \in [Slot -> Entry]
          /\ fds \in [Names -> Descriptor]
          /\ phase \in {"defined", "undefined"} /\ result \in {-1, 0}

\* The clusters of the file that starts with cluster c.
Chain(c) ==
    LET upTo[i \in 0..NumClusters] ==
          IF i = 0 THEN {c} \cap Cluster
          ELSE upTo[i - 1] \cup ({fat[d] : d \in upTo[i - 1]} \cap Cluster)
    IN upTo[NumClusters]

Firsts == {dir[s].first : s \in Slot} \cup {fds[p].first : p \in Names}

\* Whatever files are made, extended and removed on a card that fills up, no
\* cluster belongs to two of them, and none of a file's is free to be given away.
ClustersOwnedOnce ==
    /\ \A a, b \in Firsts : a # b => Chain(a) \cap Chain(b) = {}
    /\ \A a \in Firsts : \A c \in Chain(a) : fat[c] # 0
    /\ \A s, t \in Slot : s # t /\ dir[s].name # NoName => dir[s].first # dir[t].first

\* A descriptor stands in its own file, so that its next read or write does not
\* reach another's bytes, or behind the end of its chain.
PositionInFile ==
    \A p \in Names : IsOpen(p) => fds[p].cur \in Chain(fds[p].first) \/ Wild(fds[p].cur)

\* What a descriptor remembers of its directory entry is still what is there,
\* though a size is kept in both and half of an extension may fail.  Renaming an
\* open file does part them: "renameOpen" in Misuse.
DescriptorsAgree ==
    \A p \in Names : IsOpen(p) =>
        dir[fds[p].slot] = [name |-> p, first |-> fds[p].first, size |-> fds[p].size]
=============================================================================
