----------------------------- MODULE GuiProofs -----------------------------
(***************************************************************************)
(* Proofs about the GUI library.                                           *)
(*                                                                         *)
(* GuiQueues, for any number of events and timers, any first size of the   *)
(* ring and any delays: the ring implements a bounded queue until it first *)
(* fills, and nothing is freed twice or while it is in use as long as no   *)
(* three timers are set at once.                                           *)
(*                                                                         *)
(* GuiApplication, for any elements, keys and navigation: the events tell  *)
(* all that happens to keys, capture and focus, the cursor goes on         *)
(* blinking, and the screen shows the library's state.                     *)
(*                                                                         *)
(* GuiFields, for any width, limits and sequence of keys: what is read is  *)
(* inside the limits or a default, keys go on from it, and a text ends     *)
(* inside its buffer.                                                      *)
(***************************************************************************)
EXTENDS GuiQueues, GuiApplication, GuiFields, FiniteSetTheorems, SequenceTheorems, TLAPS

-----------------------------------------------------------------------------
(* Numbers.                                                                 *)

LEMMA LeastNumber ==
  ASSUME NEW B \in SUBSET Nat, B # {}
  PROVE  \E m \in B : \A n \in B : m <= n
<1> DEFINE T == {0 .. n : n \in B}
<1>1. T # {} /\ T \subseteq FiniteSubsetsOf(Nat)
  <2>1. \A n \in B : IsFiniteSet(0 .. n) /\ 0 .. n \in SUBSET Nat
    BY FS_Interval
  <2> QED
    BY <2>1 DEF FiniteSubsetsOf
<1>2. PICK x \in T : \A y \in T : <<y, x>> \notin StrictSubsetOrdering(Nat)
  <2> HIDE DEF T
  <2> QED
    BY <1>1, WFMin, FS_StrictSubsetOrderingWellFounded
<1>3. PICK m \in B : x = 0 .. m
  OBVIOUS
<1>4. ASSUME NEW n \in B, n < m
      PROVE  FALSE
  <2>1. m \in 0 .. m /\ m \notin 0 .. n
    BY <1>4
  <2>2. 0 .. n \subseteq 0 .. m /\ 0 .. n # 0 .. m /\ 0 .. n \in T
    BY <1>4, <2>1
  <2>3. <<0 .. n, 0 .. m>> \in StrictSubsetOrdering(Nat)
    BY <2>2 DEF StrictSubsetOrdering
  <2> QED
    BY <1>2, <1>3, <2>2, <2>3
<1> QED
  BY <1>4

LEMMA Induction ==
  ASSUME NEW G \in SUBSET Nat, 0 \in G, \A n \in G : n + 1 \in G
  PROVE  G = Nat
<1> SUFFICES ASSUME Nat \ G # {}
             PROVE  FALSE
  OBVIOUS
<1>1. PICK m \in Nat \ G : \A n \in Nat \ G : m <= n
  BY LeastNumber
<1>2. m # 0 /\ m - 1 \in Nat
  BY <1>1
<1>3. m - 1 \in G /\ (m - 1) + 1 = m
  BY <1>1, <1>2
<1> QED
  BY <1>1, <1>3

LEMMA DivUnique ==
  ASSUME NEW d \in Nat \ {0}, NEW q \in Int, NEW r \in 0 .. d - 1
  PROVE  (d * q + r) \div d = q /\ (d * q + r) % d = r
<1> DEFINE n == d * q + r
           p == n \div d
           m == n % d
<1>1. n = d * p + m /\ m \in 0 .. d - 1 /\ p \in Int /\ n \in Int
  OBVIOUS
<1>2. d * (p - q) = r - m
  BY <1>1
<1>3. p - q \in Int /\ r - m \in Int /\ r - m < d /\ r - m > -d
  BY <1>1
<1> HIDE DEF p, m
<1>4. p - q < 1
  BY <1>2, <1>3
<1>5. p - q > -1
  BY <1>2, <1>3
<1>6. p = q
  BY <1>1, <1>3, <1>4, <1>5
<1>7. m = r
  BY <1>1, <1>6
<1> QED
  BY <1>6, <1>7 DEF p, m

\* Slots of a ring of n: one round further or back is the same slot.
LEMMA Wraps ==
  ASSUME NEW n \in Nat \ {0}, NEW x \in 0 .. n - 1
  PROVE  x % n = x /\ (x + n) % n = x /\ (x - n) % n = x
<1>1. x = n * 0 + x /\ x + n = n * 1 + x /\ x - n = n * (-1) + x
  OBVIOUS
<1>2. (n * 0 + x) % n = x /\ (n * 1 + x) % n = x
  BY DivUnique
<1>3. (n * (-1) + x) % n = x
  <2>1. -1 \in Int
    OBVIOUS
  <2> QED
    BY <2>1, DivUnique
<1> QED
  BY <1>1, <1>2, <1>3

\* The slot behind slot i, and the slot k behind it.
LEMMA SlotBehind ==
  ASSUME NEW n \in Nat \ {0}, NEW i \in 0 .. n - 1, NEW k \in 0 .. n
  PROVE  (i + k) % n = IF i + k < n THEN i + k ELSE i + k - n
<1>1. CASE i + k < n
  <2>1. i + k \in 0 .. n - 1
    BY <1>1
  <2> QED
    BY <1>1, <2>1, Wraps
<1>2. CASE i + k >= n
  <2>1. i + k - n \in 0 .. n - 1 /\ (i + k - n) + n = i + k
    BY <1>2
  <2>2. ((i + k - n) + n) % n = i + k - n
    BY <2>1, Wraps
  <2> QED
    BY <1>2, <2>1, <2>2
<1> QED
  BY <1>1, <1>2

-----------------------------------------------------------------------------
(* The inductive invariant.                                                 *)

\* Slots of the ring that hold something: from read up to write.
Used(q, i) == IF q.read < q.write THEN q.read <= i /\ i < q.write
                                  ELSE q.read <= i \/ i < q.write

Ring(n) == [buffer : [0 .. n - 1 -> Events \cup {None}], size : {n},
            write : 0 .. n - 1, read : 0 .. n - 1]

RingSound(q) ==
    /\ q.size \in Nat /\ q.size >= 2 /\ q \in Ring(q.size)
    /\ q.write # q.read
    /\ \A i \in 0 .. q.size - 1 : ~Used(q, i) => q.buffer[i] = None

Array(n) == [slots : [0 .. n - 1 -> Timers \cup {None}], size : {n},
             count : Int, read : 0 .. n]

ArraySound(q) ==
    q.size \in Nat /\ q \in Array(q.size) /\ q.read + q.count <= q.size

\* With one or two timers the array has no gap, and nothing is left in the rest.
FewTimers(q) ==
    /\ q.count \in Nat /\ q.size <= 2
    /\ \A i \in 0 .. q.size - 1 :
          IF q.read <= i /\ i < q.read + q.count THEN q.slots[i] \in Timers
                                                 ELSE q.slots[i] = None

QueuesInvariant ==
    /\ RingSound(queue) /\ ArraySound(timers)
    /\ due \in [Timers -> Nat] /\ now \in Nat /\ peak \in Nat
    /\ live \subseteq Events /\ grown \in BOOLEAN /\ stale \in BOOLEAN
    /\ ~grown => queue.size = DefaultSize
    /\ peak <= 2 => FewTimers(timers)
    /\ timers.count <= peak /\ timers.size <= peak
    /\ HeldOnce /\ TimersOrdered

-----------------------------------------------------------------------------
(* The ring.                                                                *)

LEMMA RingFields ==
  ASSUME NEW q, RingSound(q)
  PROVE  /\ q.size \in Nat /\ q.size >= 2 /\ q.size \in Nat \ {0}
         /\ q.write \in 0 .. q.size - 1 /\ q.read \in 0 .. q.size - 1 /\ q.write # q.read
         /\ q.buffer \in [0 .. q.size - 1 -> Events \cup {None}]
         /\ q = [buffer |-> q.buffer, size |-> q.size, write |-> q.write, read |-> q.read]
BY DEF RingSound, Ring

\* A push to a ring that does not fill.
LEMMA PushedFits ==
  ASSUME NEW q, RingSound(q), NEW e \in Events, ~Full(q)
  PROVE  LET p == Pushed(q, e) IN
         /\ RingSound(p) /\ p.size = q.size /\ p.read = q.read
         /\ p.write = (q.write + 1) % q.size
         /\ p.buffer = [q.buffer EXCEPT ![q.write] = e]
         /\ q.buffer[q.write] = None
<1> DEFINE p == Pushed(q, e)
           n == q.size
           next == (q.write + 1) % n
           b == [q.buffer EXCEPT ![q.write] = e]
<1>1. /\ n \in Nat /\ n >= 2 /\ n \in Nat \ {0}
      /\ q.write \in 0 .. n - 1 /\ q.read \in 0 .. n - 1 /\ q.write # q.read
      /\ q.buffer \in [0 .. n - 1 -> Events \cup {None}]
      /\ q = [buffer |-> q.buffer, size |-> n, write |-> q.write, read |-> q.read]
  BY RingFields
<1>2. next = (IF q.write + 1 < n THEN q.write + 1 ELSE q.write + 1 - n) /\ next # q.read
  <2>1. 1 \in 0 .. n
    BY <1>1
  <2> QED
    BY <1>1, <2>1, SlotBehind DEF Full
<1>3. p = [buffer |-> b, size |-> n, write |-> next, read |-> q.read]
  <2>1. p = [q EXCEPT !.buffer[q.write] = e, !.write = (@ + 1) % q.size]
    BY DEF Pushed
  <2> HIDE DEF p
  <2> QED
    BY <1>1, <2>1
<1>4. b \in [0 .. n - 1 -> Events \cup {None}] /\ next \in 0 .. n - 1
  BY <1>1, <1>2
<1>5. ASSUME NEW i \in 0 .. n - 1, ~Used(p, i) PROVE b[i] = None
  <2>1. ~Used(q, i) /\ i # q.write
    <3> HIDE DEF p, next
    <3>1. p.read = q.read /\ p.write = next
      BY <1>3
    <3> QED
      BY <1>1, <1>2, <1>5, <3>1 DEF Used
  <2>2. q.buffer[i] = None
    BY <2>1 DEF RingSound
  <2> QED
    BY <1>1, <2>1, <2>2
<1>6. q.buffer[q.write] = None
  BY <1>1 DEF RingSound, Used
<1> HIDE DEF p, b, next
<1>7. p.size = n /\ p.read = q.read /\ p.write = next /\ p.buffer = b
  BY <1>3
<1>8. p \in Ring(n)
  BY <1>1, <1>3, <1>4 DEF Ring
<1>9. RingSound(p)
  BY <1>1, <1>2, <1>5, <1>7, <1>8 DEF RingSound
<1> QED
  BY <1>6, <1>7, <1>9 DEF p, b, next

\* What the ring holds after a push that does not fill it.
LEMMA PushedHolds ==
  ASSUME NEW q, RingSound(q), NEW e \in Events, Full(q)
  PROVE  LET p == Pushed(q, e)
             b == [q.buffer EXCEPT ![q.write] = e]
         IN
         /\ RingSound(p) /\ p.size = q.size + 1
         /\ \A i \in 0 .. q.size : p.buffer[i] # None =>
               /\ i < q.size - q.read
               /\ p.buffer[i] = b[IF q.read + 1 + i < q.size THEN q.read + 1 + i ELSE 0]
<1> DEFINE p == Pushed(q, e)
           n == q.size
           b == [q.buffer EXCEPT ![q.write] = e]
           written == [q EXCEPT !.buffer[q.write] = e, !.write = (@ + 1) % q.size]
           full == [written EXCEPT !.write = q.size]
           current == n - q.read
           buffer == [i \in 0 .. n |-> IF i < current THEN b[(q.read + 1 + i) % n] ELSE None]
<1>1. /\ n \in Nat /\ n >= 2 /\ n \in Nat \ {0}
      /\ q.write \in 0 .. n - 1 /\ q.read \in 0 .. n - 1 /\ q.write # q.read
      /\ q.buffer \in [0 .. n - 1 -> Events \cup {None}]
      /\ q = [buffer |-> q.buffer, size |-> n, write |-> q.write, read |-> q.read]
  BY RingFields
<1>2. current \in 1 .. n
  BY <1>1
<1>3. full = [buffer |-> b, size |-> n, write |-> n, read |-> q.read]
  <2> DEFINE next == (q.write + 1) % q.size
  <2>1. written = [buffer |-> b, size |-> n, write |-> next, read |-> q.read]
    <3>1. written = [q EXCEPT !.buffer[q.write] = e, !.write = (@ + 1) % q.size]
      OBVIOUS
    <3> HIDE DEF written
    <3> QED
      BY <1>1, <3>1
  <2> HIDE DEF written, b, next
  <2> QED
    BY <2>1
<1>4. p = Resized(full, n + 1)
  BY DEF Pushed
<1> HIDE DEF full
<1>5. p = [buffer |-> buffer, size |-> n + 1, write |-> current, read |-> 0]
  <2>1. full.buffer = b /\ full.size = n /\ full.write = n /\ full.read = q.read
    BY <1>3
  <2>2. (IF full.write >= full.read THEN full.write - full.read ELSE full.read - full.write)
          = current
    BY <1>1, <2>1
  <2>3. ~(n + 1 <= current) /\ (n + 1) - 1 = n
    BY <1>1, <1>2
  <2> HIDE DEF b, current, p
  <2> QED
    BY <1>4, <2>1, <2>2, <2>3 DEF Resized
<1>6. b \in [0 .. n - 1 -> Events \cup {None}]
  BY <1>1
<1> HIDE DEF b
<1>7. ASSUME NEW i \in 0 .. n
      PROVE  /\ i < current => buffer[i] = b[IF q.read + 1 + i < n THEN q.read + 1 + i ELSE 0]
             /\ ~(i < current) => buffer[i] = None
  <2>1. CASE i < current
    <3>1. q.read + 1 + i \in 1 .. n /\ 1 + i \in 0 .. n
      BY <1>1, <2>1
    <3>2. (q.read + (1 + i)) % n = IF q.read + (1 + i) < n THEN q.read + (1 + i)
                                                           ELSE q.read + (1 + i) - n
      BY <1>1, <3>1, SlotBehind
    <3>3. (q.read + 1 + i) % n = IF q.read + 1 + i < n THEN q.read + 1 + i ELSE 0
      BY <1>1, <3>1, <3>2
    <3> QED
      BY <2>1, <3>3
  <2> QED
    BY <2>1
<1>8. buffer \in [0 .. n -> Events \cup {None}]
  <2>1. ASSUME NEW i \in 0 .. n PROVE buffer[i] \in Events \cup {None}
    <3>1. i < current /\ q.read + 1 + i < n => q.read + 1 + i \in 0 .. n - 1
      BY <1>1
    <3>2. 0 \in 0 .. n - 1
      BY <1>1
    <3> HIDE DEF buffer, current
    <3> QED
      BY <1>6, <1>7, <3>1, <3>2
  <2> HIDE DEF current
  <2> QED
    BY <2>1
<1> HIDE DEF p, buffer
<1>9. p.size = n + 1 /\ p.read = 0 /\ p.write = current /\ p.buffer = buffer
  BY <1>5
<1>10. p \in Ring(n + 1)
  <2>1. (n + 1) - 1 = n /\ 0 \in 0 .. n /\ current \in 0 .. n
    BY <1>1, <1>2
  <2> HIDE DEF current
  <2> QED
    BY <1>5, <1>8, <2>1 DEF Ring
<1>11. ASSUME NEW i \in 0 .. n, ~Used(p, i) PROVE buffer[i] = None
  <2>1. ~(i < current)
    BY <1>2, <1>9, <1>11 DEF Used
  <2> QED
    BY <1>7, <2>1
<1>12. RingSound(p)
  <2>1. n + 1 \in Nat /\ n + 1 >= 2 /\ current # 0 /\ (n + 1) - 1 = n
    BY <1>1, <1>2
  <2> HIDE DEF current
  <2> QED
    BY <1>9, <1>10, <1>11, <2>1 DEF RingSound
<1> QED
  BY <1>7, <1>9, <1>12 DEF p, b

\* Nothing is in two slots of a ring.
OnceIn(buffer) ==
    \A i, j \in DOMAIN buffer : buffer[i] = buffer[j] => i = j \/ buffer[i] = None

LEMMA RingAfterPush ==
  ASSUME RingSound(queue), NEW e \in Events, queue' = Pushed(queue, e)
  PROVE  /\ RingSound(queue') /\ InRing' \subseteq InRing \cup {e}
         /\ ~Full(queue) => InRing' = InRing \cup {e} /\ queue'.size = queue.size
         /\ OnceIn(queue.buffer) /\ e \notin InRing => OnceIn(queue'.buffer)
<1> DEFINE b == [queue.buffer EXCEPT ![queue.write] = e]
           n == queue.size
<1>1. /\ n \in Nat /\ n >= 2 /\ n \in Nat \ {0}
      /\ queue.write \in 0 .. n - 1 /\ queue.read \in 0 .. n - 1
      /\ queue.buffer \in [0 .. n - 1 -> Events \cup {None}]
  BY RingFields
<1>2. e # None
  BY QueueAssumption DEF Events
<1>3. /\ DOMAIN b = 0 .. n - 1 /\ b[queue.write] = e
      /\ \A i \in 0 .. n - 1 : i # queue.write => b[i] = queue.buffer[i]
  BY <1>1
<1>4. OnceIn(queue.buffer) /\ e \notin InRing => OnceIn(b)
  <2> SUFFICES ASSUME OnceIn(queue.buffer), e \notin InRing,
                      NEW i \in 0 .. n - 1, NEW j \in 0 .. n - 1, b[i] = b[j]
               PROVE  i = j \/ b[i] = None
    BY <1>3 DEF OnceIn
  <2>1. \A k \in 0 .. n - 1 : queue.buffer[k] # e
    BY <1>1, <1>2 DEF InRing
  <2>2. queue.buffer[i] = queue.buffer[j] => i = j \/ queue.buffer[i] = None
    BY <1>1 DEF OnceIn
  <2> QED
    BY <1>3, <2>1, <2>2
<1>5. CASE ~Full(queue)
  <2>1. /\ RingSound(queue') /\ queue'.size = n /\ queue'.buffer = b
        /\ queue.buffer[queue.write] = None
    BY <1>5, PushedFits
  <2>2. InRing' = InRing \cup {e}
    <3>1. InRing' = {b[i] : i \in 0 .. n - 1} \ {None}
      <4>1. InRing' = {queue'.buffer[i] : i \in DOMAIN queue'.buffer} \ {None}
        BY DEF InRing
      <4> HIDE DEF b
      <4> QED
        BY <1>3, <2>1, <4>1
    <3>2. InRing = {queue.buffer[i] : i \in 0 .. n - 1} \ {None}
      BY <1>1 DEF InRing
    <3> HIDE DEF b
    <3> QED
      BY <1>1, <1>2, <1>3, <2>1, <3>1, <3>2
  <2> HIDE DEF b
  <2> QED
    BY <1>4, <1>5, <2>1, <2>2
<1>6. CASE Full(queue)
  <2> DEFINE p == queue'
             at(i) == IF queue.read + 1 + i < n THEN queue.read + 1 + i ELSE 0
  <2>1. /\ RingSound(p) /\ p.size = n + 1
        /\ \A i \in 0 .. n : p.buffer[i] # None => i < n - queue.read /\ p.buffer[i] = b[at(i)]
    BY <1>6, PushedHolds
  <2>2. DOMAIN p.buffer = 0 .. n
    <3>1. p.buffer \in [0 .. (n + 1) - 1 -> Events \cup {None}] /\ (n + 1) - 1 = n
      BY <1>1, <2>1, RingFields
    <3> HIDE DEF p
    <3> QED
      BY <3>1
  <2> HIDE DEF p, b
  <2>3. ASSUME NEW i \in 0 .. n, p.buffer[i] # None
        PROVE  i < n - queue.read /\ at(i) \in 0 .. n - 1 /\ p.buffer[i] = b[at(i)]
    <3>1. i < n - queue.read /\ p.buffer[i] = b[at(i)]
      BY <2>1, <2>3
    <3>2. at(i) \in 0 .. n - 1
      BY <1>1
    <3> QED
      BY <3>1, <3>2
  <2>4. InRing' \subseteq InRing \cup {e}
    <3> SUFFICES ASSUME NEW i \in 0 .. n, p.buffer[i] # None
                 PROVE  p.buffer[i] \in InRing \cup {e}
      BY <2>2 DEF InRing, p
    <3>1. at(i) \in 0 .. n - 1 /\ p.buffer[i] = b[at(i)]
      BY <2>3
    <3> HIDE DEF at
    <3>2. b[at(i)] = e \/ b[at(i)] = queue.buffer[at(i)]
      BY <1>3, <3>1
    <3> QED
      BY <1>1, <3>1, <3>2 DEF InRing
  <2>5. OnceIn(b) => OnceIn(p.buffer)
    <3> SUFFICES ASSUME OnceIn(b), NEW i \in 0 .. n, NEW j \in 0 .. n,
                        p.buffer[i] = p.buffer[j], p.buffer[i] # None
                 PROVE  i = j
      BY <2>2 DEF OnceIn
    <3>1. /\ i < n - queue.read /\ at(i) \in 0 .. n - 1 /\ p.buffer[i] = b[at(i)]
          /\ j < n - queue.read /\ at(j) \in 0 .. n - 1 /\ p.buffer[j] = b[at(j)]
      BY <2>3
    <3>2. at(i) = at(j)
      <4> HIDE DEF at
      <4> QED
        BY <1>3, <3>1 DEF OnceIn
    <3> QED
      BY <1>1, <3>1, <3>2
  <2> QED
    BY <1>4, <1>6, <2>1, <2>4, <2>5 DEF p
<1> QED
  BY <1>5, <1>6

\* Taking the next event clears the slot of the one handled, and that is all.
LEMMA RingAfterNext ==
  ASSUME RingSound(queue), ~Empty(queue),
         queue' = [queue EXCEPT !.buffer[queue.read] = None, !.read = (@ + 1) % queue.size]
  PROVE  /\ RingSound(queue') /\ queue'.size = queue.size
         /\ queue'.write = queue.write /\ queue'.read = (queue.read + 1) % queue.size
         /\ queue'.buffer = [queue.buffer EXCEPT ![queue.read] = None]
         /\ OnceIn(queue.buffer) => /\ OnceIn(queue'.buffer)
                                    /\ InRing' = InRing \ {queue.buffer[queue.read]}
<1> DEFINE n == queue.size
           r == queue.read
           next == (r + 1) % n
           b == [queue.buffer EXCEPT ![r] = None]
           p == queue'
<1>1. /\ n \in Nat /\ n >= 2 /\ n \in Nat \ {0}
      /\ queue.write \in 0 .. n - 1 /\ r \in 0 .. n - 1 /\ queue.write # r
      /\ queue.buffer \in [0 .. n - 1 -> Events \cup {None}]
      /\ queue = [buffer |-> queue.buffer, size |-> n, write |-> queue.write, read |-> r]
  BY RingFields
<1>2. next = (IF r + 1 < n THEN r + 1 ELSE r + 1 - n) /\ next # queue.write
  <2>1. 1 \in 0 .. n
    BY <1>1
  <2>2. next = (IF r + 1 < n THEN r + 1 ELSE r + 1 - n)
    BY <1>1, <2>1, SlotBehind
  <2> HIDE DEF next
  <2> QED
    BY <1>1, <2>2 DEF Empty
<1>3. p = [buffer |-> b, size |-> n, write |-> queue.write, read |-> next]
  <2>1. p = [queue EXCEPT !.buffer[queue.read] = None, !.read = (@ + 1) % queue.size]
    OBVIOUS
  <2> HIDE DEF p
  <2> QED
    BY <1>1, <2>1
<1>4. b \in [0 .. n - 1 -> Events \cup {None}] /\ next \in 0 .. n - 1
  BY <1>1, <1>2
<1>5. /\ DOMAIN b = 0 .. n - 1 /\ b[r] = None
      /\ \A i \in 0 .. n - 1 : i # r => b[i] = queue.buffer[i]
  BY <1>1
<1> HIDE DEF p, b, next
<1>6. p.size = n /\ p.read = next /\ p.write = queue.write /\ p.buffer = b
  BY <1>3
<1>7. ASSUME NEW i \in 0 .. n - 1, ~Used(p, i) PROVE b[i] = None
  <2>1. i = r \/ ~Used(queue, i)
    BY <1>1, <1>2, <1>6, <1>7 DEF Used
  <2> QED
    BY <1>5, <2>1 DEF RingSound
<1>8. RingSound(p)
  <2>1. p \in Ring(n)
    BY <1>1, <1>3, <1>4 DEF Ring
  <2> QED
    BY <1>1, <1>2, <1>6, <1>7, <2>1 DEF RingSound
<1>9. OnceIn(queue.buffer) => OnceIn(b) /\ InRing' = InRing \ {queue.buffer[r]}
  <2> SUFFICES ASSUME OnceIn(queue.buffer)
               PROVE  OnceIn(b) /\ InRing' = InRing \ {queue.buffer[r]}
    OBVIOUS
  <2>1. \A i, j \in 0 .. n - 1 :
            queue.buffer[i] = queue.buffer[j] => i = j \/ queue.buffer[i] = None
    BY <1>1 DEF OnceIn
  <2>2. OnceIn(b)
    BY <1>5, <2>1 DEF OnceIn
  <2>3. InRing' = {b[i] : i \in 0 .. n - 1} \ {None}
    <3>1. InRing' = {queue'.buffer[i] : i \in DOMAIN queue'.buffer} \ {None}
      BY DEF InRing
    <3>2. queue'.buffer = b
      BY <1>6 DEF p
    <3> QED
      <4>1. DOMAIN b = 0 .. n - 1
        BY <1>5
      <4> HIDE DEF n, r
      <4> QED
        BY <3>1, <3>2, <4>1, Zenon
  <2>4. InRing = {queue.buffer[i] : i \in 0 .. n - 1} \ {None}
    BY <1>1 DEF InRing
  <2>5. ASSUME NEW i \in 0 .. n - 1, b[i] # None
        PROVE  b[i] = queue.buffer[i] /\ b[i] # queue.buffer[r]
    BY <1>1, <1>5, <2>1, <2>5
  <2>6. ASSUME NEW i \in 0 .. n - 1, queue.buffer[i] # queue.buffer[r]
        PROVE  b[i] = queue.buffer[i]
    BY <1>5, <2>6
  <2> QED
    BY <2>2, <2>3, <2>4, <2>5, <2>6
<1> QED
  BY <1>6, <1>8, <1>9 DEF p, b, next

-----------------------------------------------------------------------------
(* The timer array: the copying loop is a recursive function of the turns. *)

Target(q) == IF Grows(q) THEN [i \in 0 .. q.count |-> None] ELSE q.slots
Start(q) == [slots |-> Target(q), at |-> 0, waits |-> TRUE]

Copies(h, q, t, ends, k) ==
    h = [n \in 0 .. k |-> IF n = 0 THEN Start(q) ELSE Turn(q, t, ends, h[n - 1], n - 1)]

LEMMA CopiesExist ==
  ASSUME NEW q, NEW t, NEW ends, NEW k \in Nat
  PROVE  \E h : Copies(h, q, t, ends, k)
<1> DEFINE G == {n \in Nat : \E h : Copies(h, q, t, ends, n)}
<1>1. 0 \in G
  <2>1. Copies([i \in 0 .. 0 |-> Start(q)], q, t, ends, 0)
    BY DEF Copies
  <2> QED
    BY <2>1
<1>2. ASSUME NEW n \in G
      PROVE  n + 1 \in G
  <2>1. n \in Nat /\ n + 1 \in Nat
    OBVIOUS
  <2>2. PICK h : Copies(h, q, t, ends, n)
    OBVIOUS
  <2> DEFINE g == [i \in 0 .. n + 1 |-> IF i = n + 1 THEN Turn(q, t, ends, h[n], n) ELSE h[i]]
  <2>3. \A i \in 0 .. n :
            g[i] = h[i] /\ h[i] = IF i = 0 THEN Start(q) ELSE Turn(q, t, ends, h[i - 1], i - 1)
    BY <2>1, <2>2 DEF Copies
  <2>4. ASSUME NEW i \in 0 .. n + 1
        PROVE  g[i] = IF i = 0 THEN Start(q) ELSE Turn(q, t, ends, g[i - 1], i - 1)
    <3>1. CASE i = n + 1
      <4>1. g[i] = Turn(q, t, ends, h[n], n) /\ n \in 0 .. n /\ i - 1 = n
        BY <2>1, <3>1
      <4>2. g[n] = h[n]
        BY <2>3, <4>1
      <4> HIDE DEF g
      <4> QED
        BY <2>1, <3>1, <4>1, <4>2
    <3>2. CASE i # n + 1
      <4>1. i \in 0 .. n /\ (i # 0 => i - 1 \in 0 .. n)
        BY <2>1, <3>2
      <4> HIDE DEF g
      <4> QED
        BY <2>3, <4>1
    <3> QED
      BY <3>1, <3>2
  <2>5. Copies(g, q, t, ends, n + 1)
    <3>1. g = [i \in 0 .. n + 1 |-> g[i]]
      OBVIOUS
    <3> HIDE DEF g
    <3> QED
      BY <2>4, <3>1 DEF Copies
  <2> QED
    BY <2>1, <2>5
<1>3. G = Nat
  <2> HIDE DEF G
  <2>1. G \in SUBSET Nat
    BY DEF G
  <2> QED
    BY <1>1, <1>2, <2>1, Induction
<1> QED
  BY <1>3

LEMMA CopiedCopies ==
  ASSUME NEW q, NEW t, NEW ends, NEW k \in Nat
  PROVE  \E h : Copies(h, q, t, ends, k) /\ h[k] = Copied(q, t, ends, k)
<1> DEFINE copied == CHOOSE h : Copies(h, q, t, ends, k)
<1>1. Copies(copied, q, t, ends, k)
  BY CopiesExist
<1>2. Copied(q, t, ends, k) = copied[k]
  BY DEF Copied, Copies, Start, Target
<1> QED
  BY <1>1, <1>2

LEMMA ArrayFields ==
  ASSUME NEW q, ArraySound(q)
  PROVE  /\ q.size \in Nat /\ q.count \in Int /\ q.read \in 0 .. q.size
         /\ q.slots \in [0 .. q.size - 1 -> Timers \cup {None}]
         /\ q.read + q.count <= q.size
         /\ q = [slots |-> q.slots, size |-> q.size, count |-> q.count, read |-> q.read]
BY DEF ArraySound, Array

\* Slots of the array that is written.
Length(q) == IF Grows(q) THEN q.count + 1 ELSE q.size

\* The loop after k turns: it has written k timers, or k + 1 with the new one.
CopySound(q, copy, k) ==
    /\ copy \in [slots : [0 .. Length(q) - 1 -> Timers \cup {None}],
                 at : {k, k + 1}, waits : BOOLEAN]
    /\ copy.at = IF copy.waits THEN k ELSE k + 1

LEMMA TurnSound ==
  ASSUME NEW q, ArraySound(q), NEW t \in Timers, NEW ends, NEW k \in Nat, k < q.count,
         NEW copy, CopySound(q, copy, k)
  PROVE  CopySound(q, Turn(q, t, ends, copy, k), k + 1)
<1> DEFINE L == Length(q)
           T == Timers \cup {None}
           current == IF Grows(q) THEN q.slots[q.read + k] ELSE copy.slots[q.read + k]
           w == copy.waits /\ ends[t] < ends[current]
           done == [slots |-> [copy.slots EXCEPT ![copy.at] = t, ![copy.at + 1] = current],
                    at |-> copy.at + 2, waits |-> FALSE]
           on == [slots |-> [copy.slots EXCEPT ![copy.at] = current],
                  at |-> copy.at + 1, waits |-> copy.waits]
<1>1. /\ q.size \in Nat /\ q.count \in Int /\ q.read \in 0 .. q.size
      /\ q.slots \in [0 .. q.size - 1 -> T] /\ q.read + q.count <= q.size
  BY ArrayFields
<1>2. /\ copy.slots \in [0 .. L - 1 -> T] /\ copy.waits \in BOOLEAN
      /\ copy.at = (IF copy.waits THEN k ELSE k + 1)
      /\ copy = [slots |-> copy.slots, at |-> copy.at, waits |-> copy.waits]
  BY DEF CopySound
<1>3. current \in T
  <2>1. q.read + k \in 0 .. q.size - 1
    BY <1>1
  <2>2. ~Grows(q) => L = q.size
    BY DEF Length
  <2> HIDE DEF L, T
  <2> QED
    BY <1>1, <1>2, <2>1, <2>2
<1>4. t \in T
  OBVIOUS
<1>5. Turn(q, t, ends, copy, k) = IF w THEN done ELSE on
  BY DEF Turn
<1> HIDE DEF current, T, L
<1>6. CASE w
  <2>1. done.slots \in [0 .. L - 1 -> T] /\ done.at = k + 2 /\ done.waits = FALSE
    <3>1. [copy.slots EXCEPT ![copy.at] = t, ![copy.at + 1] = current] \in [0 .. L - 1 -> T]
      BY <1>2, <1>3, <1>4
    <3> QED
      BY <1>2, <1>6, <3>1
  <2>2. done \in [slots : [0 .. L - 1 -> T], at : {k + 1, (k + 1) + 1}, waits : BOOLEAN]
    BY <2>1
  <2> HIDE DEF done, w
  <2> QED
    BY <1>5, <1>6, <2>1, <2>2 DEF CopySound, L, T
<1>7. CASE ~w
  <2> DEFINE s == [copy.slots EXCEPT ![copy.at] = current]
  <2>1. on = [slots |-> s, at |-> copy.at + 1, waits |-> copy.waits]
    OBVIOUS
  <2>2. s \in [0 .. L - 1 -> T]
    BY <1>2, <1>3
  <2> HIDE DEF on, s, w
  <2>3. on.at = (IF on.waits THEN k + 1 ELSE (k + 1) + 1) /\ on.waits \in BOOLEAN
    BY <1>2, <2>1
  <2>4. on \in [slots : [0 .. L - 1 -> T], at : {k + 1, (k + 1) + 1}, waits : BOOLEAN]
    BY <2>1, <2>2, <2>3
  <2> QED
    BY <1>5, <1>7, <2>3, <2>4 DEF CopySound, L, T
<1> QED
  BY <1>6, <1>7

LEMMA CopiedSound ==
  ASSUME NEW q, ArraySound(q), NEW t \in Timers, NEW ends, NEW k \in Nat,
         k <= q.count \/ k = 0
  PROVE  CopySound(q, Copied(q, t, ends, k), k)
<1>1. PICK h : Copies(h, q, t, ends, k) /\ h[k] = Copied(q, t, ends, k)
  BY CopiedCopies
<1> DEFINE G == {n \in Nat : n <= k => CopySound(q, h[n], n)}
<1>2. 0 \in G
  <2>1. h[0] = Start(q)
    BY <1>1 DEF Copies
  <2>2. Target(q) \in [0 .. Length(q) - 1 -> Timers \cup {None}]
    <3>1. q.size \in Nat /\ q.count \in Int /\ q.slots \in [0 .. q.size - 1 -> Timers \cup {None}]
      BY ArrayFields
    <3>2. (q.count + 1) - 1 = q.count
      BY <3>1
    <3> QED
      BY <3>1, <3>2 DEF Target, Length
  <2>3. CopySound(q, Start(q), 0)
    <3> HIDE <2>1
    <3> QED
      BY <2>2 DEF CopySound, Start
  <2> QED
    BY <2>1, <2>3
<1>3. ASSUME NEW n \in G
      PROVE  n + 1 \in G
  <2>1. CASE n + 1 <= k
    <3>1. /\ n \in Nat /\ n <= k /\ n + 1 \in 0 .. k /\ n + 1 # 0 /\ (n + 1) - 1 = n
      BY <2>1
    <3>2. n < q.count
      <4>1. q.count \in Int
        BY ArrayFields
      <4> QED
        BY <2>1, <3>1, <4>1
    <3>3. h[n + 1] = Turn(q, t, ends, h[n], n)
      BY <1>1, <3>1 DEF Copies
    <3>4. CopySound(q, h[n + 1], n + 1)
      BY <3>1, <3>2, <3>3, TurnSound
    <3> QED
      BY <3>1, <3>4
  <2>2. CASE ~(n + 1 <= k)
    BY <2>2
  <2> QED
    BY <2>1, <2>2
<1>4. G = Nat
  <2> HIDE DEF G
  <2>1. G \in SUBSET Nat
    BY DEF G
  <2> QED
    BY <1>2, <1>3, <2>1, Induction
<1>5. k \in G /\ k <= k
  BY <1>4
<1> QED
  BY <1>1, <1>5

\* A timer is inserted without writing behind the array, however many there are.
LEMMA InsertedSound ==
  ASSUME NEW q, ArraySound(q), NEW t \in Timers, NEW ends
  PROVE  LET p == Inserted(q, t, ends) IN
         ArraySound(p) /\ p.count = q.count + 1 /\ p.read = 0 /\ p.size = Length(q)
<1> DEFINE p == Inserted(q, t, ends)
           turns == IF q.count > 0 THEN q.count ELSE 0
           last == Copied(q, t, ends, turns)
           slots == IF last.waits THEN [last.slots EXCEPT ![last.at] = t] ELSE last.slots
<1>1. q.size \in Nat /\ q.count \in Int
  BY ArrayFields
<1>2. turns \in Nat /\ (turns <= q.count \/ turns = 0)
  BY <1>1
<1>3. CopySound(q, last, turns)
  BY <1>2, CopiedSound
<1>4. p = [slots |-> slots, size |-> Length(q), count |-> q.count + 1, read |-> 0]
  BY DEF Inserted, Length
<1> HIDE DEF last, p
<1>5. slots \in [0 .. Length(q) - 1 -> Timers \cup {None}]
  <2>1. last.slots \in [0 .. Length(q) - 1 -> Timers \cup {None}]
    BY <1>3 DEF CopySound
  <2> QED
    BY <2>1
<1> HIDE DEF slots
<1>6. Length(q) \in Nat /\ q.count + 1 <= Length(q)
  BY <1>1 DEF Length, Grows
<1>7. ArraySound(p)
  BY <1>1, <1>4, <1>5, <1>6 DEF ArraySound, Array
<1> QED
  BY <1>4, <1>7 DEF p

\* An only timer goes to the first slot, a second one in front of the first or
\* behind it.
LEMMA InsertedFew ==
  ASSUME NEW q, ArraySound(q), FewTimers(q), q.count <= 1, NEW t \in Timers, NEW ends
  PROVE  LET p == Inserted(q, t, ends)
             c == q.slots[q.read]
         IN  /\ FewTimers(p)
             /\ q.count = 0 => p.slots[0] = t
             /\ q.count = 1 => /\ c \in Timers
                               /\ IF ends[t] < ends[c] THEN p.slots[0] = t /\ p.slots[1] = c
                                                       ELSE p.slots[0] = c /\ p.slots[1] = t
<1> DEFINE p == Inserted(q, t, ends)
           c == q.slots[q.read]
           L == Length(q)
           target == Target(q)
<1>1. /\ q.size \in Nat /\ q.count \in Int /\ q.read \in 0 .. q.size
      /\ q.slots \in [0 .. q.size - 1 -> Timers \cup {None}] /\ q.read + q.count <= q.size
      /\ q.count \in {0, 1} /\ q.size <= 2
      /\ \A i \in 0 .. q.size - 1 :
            IF q.read <= i /\ i < q.read + q.count THEN q.slots[i] \in Timers
                                                   ELSE q.slots[i] = None
  BY ArrayFields DEF FewTimers
<1>2. p.count = q.count + 1 /\ p.read = 0 /\ p.size = L
  BY InsertedSound
<1>3. L \in Nat /\ L <= 2 /\ q.count < L
  BY <1>1 DEF Length, Grows
<1>4. target \in [0 .. L - 1 -> Timers \cup {None}]
  <2>1. (q.count + 1) - 1 = q.count
    BY <1>1
  <2> QED
    BY <1>1, <2>1 DEF Target, Length
<1>5. CASE q.count = 0
  <2>1. PICK h : Copies(h, q, t, ends, 0) /\ h[0] = Copied(q, t, ends, 0)
    BY CopiedCopies
  <2>2. Copied(q, t, ends, 0) = Start(q)
    BY <2>1 DEF Copies
  <2>3. p.slots = [target EXCEPT ![0] = t]
    <3>1. (IF q.count > 0 THEN q.count ELSE 0) = 0
      BY <1>5
    <3>2. p.slots = IF Start(q).waits THEN [Start(q).slots EXCEPT ![Start(q).at] = t]
                                      ELSE Start(q).slots
      BY <2>2, <3>1 DEF Inserted
    <3> HIDE DEF p
    <3> QED
      BY <3>2 DEF Start
  <2>4. \A i \in 0 .. L - 1 : target[i] = None
    <3>1. CASE Grows(q)
      BY <1>1, <1>5, <3>1 DEF Target, Length
    <3>2. CASE ~Grows(q)
      BY <1>1, <1>5, <3>2 DEF Target, Length
    <3> QED
      BY <3>1, <3>2
  <2> HIDE DEF p, target, L
  <2>5. p.slots[0] = t /\ \A i \in 0 .. L - 1 : i # 0 => p.slots[i] = None
    BY <1>3, <1>4, <1>5, <2>3, <2>4
  <2>6. FewTimers(p)
    BY <1>2, <1>3, <1>5, <2>5 DEF FewTimers
  <2> QED
    BY <1>5, <2>5, <2>6 DEF p
<1>6. CASE q.count = 1
  <2>1. c \in Timers /\ q.read \in 0 .. q.size - 1 /\ L = 2
    <3>1. q.read \in 0 .. q.size - 1
      BY <1>1, <1>6
    <3>2. q.read <= q.read /\ q.read < q.read + q.count
      BY <1>1, <1>6
    <3> QED
      BY <1>1, <1>3, <1>6, <3>1, <3>2
  <2>2. PICK h : Copies(h, q, t, ends, 1) /\ h[1] = Copied(q, t, ends, 1)
    BY CopiedCopies
  <2>3. h[0] = Start(q) /\ h[1] = Turn(q, t, ends, h[0], 0)
    <3>1. 0 \in 0 .. 1 /\ 1 \in 0 .. 1 /\ 1 - 1 = 0
      OBVIOUS
    <3> QED
      BY <2>2, <3>1 DEF Copies
  <2> DEFINE last == Copied(q, t, ends, 1)
             before == ends[t] < ends[c]
  <2>4. last = IF before THEN [slots |-> [target EXCEPT ![0] = t, ![1] = c],
                               at |-> 2, waits |-> FALSE]
                         ELSE [slots |-> [target EXCEPT ![0] = c], at |-> 1, waits |-> TRUE]
    <3>1. last = Turn(q, t, ends, Start(q), 0)
      BY <2>2, <2>3
    <3>2. (IF Grows(q) THEN q.slots[q.read + 0] ELSE Start(q).slots[q.read + 0]) = c
      <4>1. q.read + 0 = q.read
        BY <1>1
      <4> QED
        BY <4>1 DEF Start, Target
    <3>3. Start(q).slots = target /\ Start(q).at = 0 /\ Start(q).waits = TRUE
      BY DEF Start
    <3>4. last = IF Start(q).waits /\ before
                 THEN [slots |-> [Start(q).slots EXCEPT ![Start(q).at] = t,
                                                        ![Start(q).at + 1] = c],
                       at |-> Start(q).at + 2, waits |-> FALSE]
                 ELSE [slots |-> [Start(q).slots EXCEPT ![Start(q).at] = c],
                       at |-> Start(q).at + 1, waits |-> Start(q).waits]
      <4> HIDE DEF last, c
      <4> QED
        BY <3>1, <3>2 DEF Turn, c
    <3> HIDE DEF last, before, c, target
    <3>5. last = IF before
                 THEN [slots |-> [target EXCEPT ![0] = t, ![0 + 1] = c],
                       at |-> 0 + 2, waits |-> FALSE]
                 ELSE [slots |-> [target EXCEPT ![0] = c], at |-> 0 + 1, waits |-> TRUE]
      BY <3>3, <3>4, Zenon
    <3> QED
      BY <3>5
  <2>5. p.slots = IF last.waits THEN [last.slots EXCEPT ![last.at] = t] ELSE last.slots
    <3>1. (IF q.count > 0 THEN q.count ELSE 0) = 1
      BY <1>6
    <3> QED
      BY <3>1 DEF Inserted
  <2> HIDE DEF p, target, L, last, c, before
  <2>6. CASE before
    <3>1. p.slots = [target EXCEPT ![0] = t, ![1] = c]
      BY <2>4, <2>5, <2>6
    <3>2. p.slots[0] = t /\ p.slots[1] = c
      BY <1>4, <2>1, <3>1
    <3>3. FewTimers(p)
      BY <1>2, <1>6, <2>1, <3>2 DEF FewTimers
    <3> QED
      BY <1>6, <2>1, <2>6, <3>2, <3>3 DEF p, c, before
  <2>7. CASE ~before
    <3>1. p.slots = [[target EXCEPT ![0] = c] EXCEPT ![1] = t]
      BY <2>4, <2>5, <2>7
    <3>2. p.slots[0] = c /\ p.slots[1] = t
      BY <1>4, <2>1, <3>1
    <3>3. FewTimers(p)
      BY <1>2, <1>6, <2>1, <3>2 DEF FewTimers
    <3> QED
      BY <1>6, <2>1, <2>7, <3>2, <3>3 DEF p, c, before
  <2> QED
    BY <2>6, <2>7
<1> QED
  BY <1>1, <1>5, <1>6

\* The first timer leaves the array.
LEMMA PoppedSound ==
  ASSUME NEW q, ArraySound(q), Peek(q) # None
  PROVE  LET p == Popped(q) IN
         /\ ArraySound(p) /\ p.read = q.read + 1 /\ p.count = q.count - 1 /\ p.size = q.size
         /\ q.read \in 0 .. q.size - 1 /\ p.slots = [q.slots EXCEPT ![q.read] = None]
         /\ Peek(q) = q.slots[q.read] /\ Peek(q) \in Timers
         /\ FewTimers(q) => FewTimers(p) /\ q.count > 0
<1> DEFINE p == Popped(q)
           s == [q.slots EXCEPT ![q.read] = None]
<1>1. /\ q.size \in Nat /\ q.count \in Int /\ q.read \in 0 .. q.size
      /\ q.slots \in [0 .. q.size - 1 -> Timers \cup {None}]
      /\ q.read + q.count <= q.size
      /\ q = [slots |-> q.slots, size |-> q.size, count |-> q.count, read |-> q.read]
  BY ArrayFields
<1>2. q.read # q.size /\ q.read \in 0 .. q.size - 1 /\ Peek(q) = q.slots[q.read]
  BY <1>1 DEF Peek
<1>3. Peek(q) \in Timers
  BY <1>1, <1>2
<1>4. p = [slots |-> s, size |-> q.size, count |-> q.count - 1, read |-> q.read + 1]
  <2>1. p = [q EXCEPT !.slots[q.read] = None, !.read = @ + 1, !.count = @ - 1]
    BY <1>2 DEF Popped
  <2> HIDE DEF p
  <2> QED
    BY <1>1, <2>1
<1>5. s \in [0 .. q.size - 1 -> Timers \cup {None}] /\ s[q.read] = None
  BY <1>1, <1>2
<1>6. \A i \in 0 .. q.size - 1 : i # q.read => s[i] = q.slots[i]
  BY <1>1
<1> HIDE DEF s, p
<1>7. p.slots = s /\ p.size = q.size /\ p.count = q.count - 1 /\ p.read = q.read + 1
  BY <1>4
<1>8. ArraySound(p)
  BY <1>1, <1>2, <1>4, <1>5, <1>7 DEF ArraySound, Array
<1>9. ASSUME FewTimers(q) PROVE FewTimers(p) /\ q.count > 0
  <2>1. q.count > 0
    <3>1. ~(q.read < q.read + q.count) => q.slots[q.read] = None
      BY <1>2, <1>9 DEF FewTimers
    <3>2. q.read < q.read + q.count
      BY <1>2, <3>1
    <3> QED
      BY <1>1, <3>2
  <2>2. ASSUME NEW i \in 0 .. q.size - 1
        PROVE  IF q.read + 1 <= i /\ i < (q.read + 1) + (q.count - 1) THEN s[i] \in Timers
                                                                     ELSE s[i] = None
    <3>1. IF q.read <= i /\ i < q.read + q.count THEN q.slots[i] \in Timers
                                                 ELSE q.slots[i] = None
      BY <1>9 DEF FewTimers
    <3>2. CASE i = q.read
      BY <1>1, <1>5, <3>2
    <3>3. CASE i # q.read
      <4>1. s[i] = q.slots[i]
        BY <1>6, <3>3
      <4> QED
        BY <1>1, <3>1, <3>3, <4>1
    <3> QED
      BY <3>2, <3>3
  <2> QED
    BY <1>1, <1>7, <1>9, <2>1, <2>2 DEF FewTimers
<1> QED
  BY <1>2, <1>3, <1>7, <1>8, <1>9 DEF p, s

LEMMA PeekFew ==
  ASSUME NEW q, ArraySound(q), FewTimers(q)
  PROVE  Peek(q) = IF q.count = 0 THEN None ELSE q.slots[q.read]
<1>1. /\ q.size \in Nat /\ q.count \in Nat /\ q.read \in 0 .. q.size
      /\ q.read + q.count <= q.size
      /\ \A i \in 0 .. q.size - 1 :
            IF q.read <= i /\ i < q.read + q.count THEN q.slots[i] \in Timers
                                                   ELSE q.slots[i] = None
  BY ArrayFields DEF FewTimers
<1>2. CASE q.count = 0
  <2>1. q.read # q.size => q.read \in 0 .. q.size - 1 /\ ~(q.read < q.read + q.count)
    BY <1>1, <1>2
  <2>2. q.read # q.size => q.slots[q.read] = None
    BY <1>1, <2>1
  <2> QED
    BY <1>2, <2>2 DEF Peek
<1>3. CASE q.count # 0
  <2>1. q.read # q.size
    BY <1>1, <1>3
  <2> QED
    BY <1>3, <2>1 DEF Peek
<1> QED
  BY <1>2, <1>3

\* What the timer array holds.
LEMMA FewHeld ==
  ASSUME ArraySound(timers), FewTimers(timers)
  PROVE  /\ InTimers \subseteq Timers /\ None \notin InTimers
         /\ \A i \in TimerSlots : i \in 0 .. timers.size - 1 /\ timers.slots[i] \in Timers
<1>1. /\ timers.size \in Nat /\ timers.count \in Nat /\ timers.read \in 0 .. timers.size
      /\ timers.read + timers.count <= timers.size
  BY ArrayFields DEF FewTimers
<1>2. ASSUME NEW i \in TimerSlots
      PROVE  i \in 0 .. timers.size - 1 /\ timers.slots[i] \in Timers
  <2>1. i \in timers.read .. timers.read + timers.count - 1
    BY DEF TimerSlots
  <2>2. i \in 0 .. timers.size - 1 /\ timers.read <= i /\ i < timers.read + timers.count
    BY <1>1, <2>1
  <2> QED
    BY <2>2 DEF FewTimers
<1>3. InTimers \subseteq Timers
  BY <1>2 DEF InTimers
<1> QED
  BY <1>2, <1>3, QueueAssumption

LEMMA QueuesInitially == Init => QueuesInvariant
<1> SUFFICES ASSUME Init PROVE QueuesInvariant
  OBVIOUS
<1> DEFINE b == [i \in 0 .. DefaultSize - 1 |-> None]
<1>1. DefaultSize \in Nat /\ DefaultSize >= 2
  BY QueueAssumption
<1>2. /\ queue = [buffer |-> b, size |-> DefaultSize, write |-> 1, read |-> 0]
      /\ b \in [0 .. DefaultSize - 1 -> Events \cup {None}]
      /\ \A i \in 0 .. DefaultSize - 1 : b[i] = None
  BY DEF Init
<1> HIDE DEF b
<1>3. queue.buffer = b /\ queue.size = DefaultSize /\ queue.write = 1 /\ queue.read = 0
  BY <1>2
<1>4. RingSound(queue)
  <2>1. queue \in Ring(DefaultSize)
    BY <1>1, <1>2 DEF Ring
  <2> QED
    BY <1>1, <1>2, <1>3, <2>1 DEF RingSound
<1>5. timers = [slots |-> <<>>, size |-> 0, count |-> 0, read |-> 0]
  BY DEF Init
<1>6. timers.size = 0 /\ timers.count = 0 /\ timers.read = 0
  BY <1>5
<1>7. ArraySound(timers)
  <2>1. 0 .. 0 - 1 = {} /\ DOMAIN <<>> = {}
    OBVIOUS
  <2>2. <<>> \in [0 .. 0 - 1 -> Timers \cup {None}]
    BY <2>1
  <2>3. timers \in Array(0)
    BY <1>5, <2>2 DEF Array
  <2> QED
    BY <1>6, <2>3 DEF ArraySound
<1>8. FewTimers(timers) /\ TimerSlots = {}
  BY <1>6 DEF FewTimers, TimerSlots
<1>9. InRing = {} /\ InTimers = {}
  BY <1>2, <1>3, <1>8 DEF InRing, InTimers
<1>10. HeldOnce
  <2>1. live = {} /\ DOMAIN queue.buffer = 0 .. DefaultSize - 1
    BY <1>2, <1>3 DEF Init
  <2> QED
    BY <1>2, <1>3, <1>8, <1>9, <2>1 DEF HeldOnce
<1>11. TimersOrdered
  BY <1>7, <1>8, PeekFew DEF TimersOrdered, Init
<1>12. due \in [Timers -> Nat] /\ now \in Nat /\ peak \in Nat /\ live \subseteq Events
       /\ grown \in BOOLEAN /\ stale \in BOOLEAN /\ peak = 0
  BY DEF Init
<1> QED
  BY <1>3, <1>4, <1>6, <1>7, <1>8, <1>10, <1>11, <1>12 DEF QueuesInvariant

LEMMA PushEventKeeps ==
  ASSUME QueuesInvariant, NEW e \in Keys, PushEvent(e)
  PROVE  QueuesInvariant'
<1>1. /\ RingSound(queue) /\ e \in Events /\ e \notin live
      /\ queue' = Pushed(queue, e) /\ live' = live \cup {e}
      /\ grown' = (grown \/ Full(queue))
      /\ UNCHANGED <<timers, due, now, peak, stale>>
  BY DEF QueuesInvariant, PushEvent, Events
<1>2. /\ RingSound(queue') /\ InRing' \subseteq InRing \cup {e}
      /\ ~Full(queue) => InRing' = InRing \cup {e} /\ queue'.size = queue.size
      /\ OnceIn(queue.buffer) /\ e \notin InRing => OnceIn(queue'.buffer)
  BY <1>1, RingAfterPush
<1>3. InTimers' = InTimers /\ TimerSlots' = TimerSlots
  BY <1>1 DEF InTimers, TimerSlots
<1>4. HeldOnce'
  <2> SUFFICES ASSUME peak <= 2 PROVE HeldOnce'
    BY <1>1 DEF HeldOnce
  <2>1. /\ InRing \cup InTimers \subseteq live /\ InRing \cap InTimers = {}
        /\ ~grown => live = InRing \cup InTimers
        /\ OnceIn(queue.buffer)
        /\ \A i, j \in TimerSlots : timers.slots[i] = timers.slots[j] => i = j
    BY DEF QueuesInvariant, HeldOnce, OnceIn
  <2>2. e \notin InRing /\ e \notin InTimers
    BY <1>1, <2>1
  <2>3. OnceIn(queue'.buffer)
    BY <1>2, <2>1, <2>2
  <2>4. /\ InRing' \cup InTimers' \subseteq live' /\ InRing' \cap InTimers' = {}
        /\ ~grown' => live' = InRing' \cup InTimers'
    <3>1. grown' \/ (~Full(queue) /\ ~grown)
      BY <1>1 DEF QueuesInvariant, Full
    <3> QED
      BY <1>1, <1>2, <1>3, <2>1, <2>2, <3>1
  <2>5. \A i, j \in TimerSlots' : timers'.slots[i] = timers'.slots[j] => i = j
    BY <1>1, <1>3, <2>1
  <2> QED
    BY <2>3, <2>4, <2>5 DEF HeldOnce, OnceIn
<1>5. TimersOrdered'
  BY <1>1, <1>3 DEF QueuesInvariant, TimersOrdered, Peek
<1>6. ~grown' => queue'.size = DefaultSize
  BY <1>1, <1>2 DEF QueuesInvariant
<1>7. grown' \in BOOLEAN /\ live' \subseteq Events
  BY <1>1 DEF QueuesInvariant, Full
<1> QED
  BY <1>1, <1>2, <1>4, <1>5, <1>6, <1>7 DEF QueuesInvariant

LEMMA NextEventKeeps ==
  ASSUME QueuesInvariant, NextEvent
  PROVE  QueuesInvariant'
<1> DEFINE x == queue.buffer[queue.read]
<1>1. /\ RingSound(queue) /\ ~Empty(queue) /\ live' = live \ {x}
      /\ queue' = [queue EXCEPT !.buffer[queue.read] = None, !.read = (@ + 1) % queue.size]
      /\ UNCHANGED <<timers, due, now, grown, peak, stale>>
  BY DEF QueuesInvariant, NextEvent
<1>2. /\ RingSound(queue') /\ queue'.size = queue.size
      /\ OnceIn(queue.buffer) => OnceIn(queue'.buffer) /\ InRing' = InRing \ {x}
  BY <1>1, RingAfterNext
<1>3. InTimers' = InTimers /\ TimerSlots' = TimerSlots
  BY <1>1 DEF InTimers, TimerSlots
<1>4. HeldOnce'
  <2> SUFFICES ASSUME peak <= 2 PROVE HeldOnce'
    BY <1>1 DEF HeldOnce
  <2>1. /\ InRing \cup InTimers \subseteq live /\ InRing \cap InTimers = {}
        /\ ~grown => live = InRing \cup InTimers
        /\ OnceIn(queue.buffer)
        /\ \A i, j \in TimerSlots : timers.slots[i] = timers.slots[j] => i = j
    BY DEF QueuesInvariant, HeldOnce, OnceIn
  <2>2. x = None \/ x \in InRing
    <3>1. queue.read \in DOMAIN queue.buffer
      <4>1. /\ queue.read \in 0 .. queue.size - 1
            /\ queue.buffer \in [0 .. queue.size - 1 -> Events \cup {None}]
        BY <1>1, RingFields
      <4> QED
        BY <4>1
    <3> QED
      BY <3>1 DEF InRing
  <2>3. x \notin InTimers
    <3>1. None \notin InTimers
      BY FewHeld DEF QueuesInvariant
    <3> QED
      BY <2>1, <2>2, <3>1
  <2>4. OnceIn(queue'.buffer) /\ InRing' = InRing \ {x}
    BY <1>2, <2>1
  <2> HIDE DEF x
  <2>5. /\ InRing' \cup InTimers' \subseteq live' /\ InRing' \cap InTimers' = {}
        /\ ~grown' => live' = InRing' \cup InTimers'
    BY <1>1, <1>3, <2>1, <2>3, <2>4
  <2>6. \A i, j \in TimerSlots' : timers'.slots[i] = timers'.slots[j] => i = j
    BY <1>1, <1>3, <2>1
  <2> QED
    BY <2>4, <2>5, <2>6 DEF HeldOnce, OnceIn
<1>5. TimersOrdered'
  BY <1>1, <1>3 DEF QueuesInvariant, TimersOrdered, Peek
<1>6. ~grown' => queue'.size = DefaultSize
  BY <1>1, <1>2 DEF QueuesInvariant
<1>7. live' \subseteq Events
  BY <1>1 DEF QueuesInvariant
<1> QED
  BY <1>1, <1>2, <1>4, <1>5, <1>6, <1>7 DEF QueuesInvariant

\* One of two timers may end first, but they are not set in the wrong order.
LEMMA CreateTimerKeeps ==
  ASSUME QueuesInvariant, NEW t \in Timers, NEW delay \in Delays, CreateTimer(t, delay)
  PROVE  QueuesInvariant'
<1>1. /\ RingSound(queue) /\ ArraySound(timers) /\ t \notin live
      /\ due' = [due EXCEPT ![t] = now + delay]
      /\ timers' = Inserted(timers, t, due') /\ live' = live \cup {t}
      /\ peak' = (IF timers.count + 1 > peak THEN timers.count + 1 ELSE peak)
      /\ UNCHANGED <<queue, now, grown, stale>>
  BY DEF QueuesInvariant, CreateTimer
<1>2. /\ ArraySound(timers') /\ timers'.count = timers.count + 1 /\ timers'.read = 0
      /\ timers'.size = Length(timers)
  BY <1>1, InsertedSound
<1>3. /\ timers.size \in Nat /\ timers.count \in Int /\ peak \in Nat
      /\ timers.count <= peak /\ timers.size <= peak
  BY <1>1, ArrayFields DEF QueuesInvariant
<1>4. /\ peak' \in Nat /\ timers'.count <= peak' /\ timers'.size <= peak'
      /\ peak' <= 2 => peak <= 2 /\ timers.count <= 1
  BY <1>1, <1>2, <1>3 DEF Length, Grows
<1>5. InRing' = InRing
  BY <1>1 DEF InRing
<1>6. due' \in [Timers -> Nat] /\ \A u \in Timers : u # t => due'[u] = due[u]
  <2>1. now + delay \in Nat
    BY QueueAssumption DEF QueuesInvariant
  <2> QED
    BY <1>1, <2>1 DEF QueuesInvariant
<1>7. ASSUME peak' <= 2
      PROVE  FewTimers(timers') /\ HeldOnce' /\ TimersOrdered'
  <2>1. peak <= 2 /\ timers.count <= 1 /\ FewTimers(timers) /\ timers.count \in {0, 1}
    <3>1. peak <= 2 /\ timers.count <= 1 /\ FewTimers(timers)
      BY <1>4, <1>7 DEF QueuesInvariant
    <3> QED
      BY <3>1 DEF FewTimers
  <2>2. /\ InRing \cup InTimers \subseteq live /\ InRing \cap InTimers = {}
        /\ ~grown => live = InRing \cup InTimers
        /\ OnceIn(queue.buffer)
        /\ ~stale
    BY <2>1 DEF QueuesInvariant, HeldOnce, TimersOrdered, OnceIn
  <2> DEFINE c == timers.slots[timers.read]
             p == timers'
  <2>3. /\ FewTimers(p)
        /\ timers.count = 0 => p.slots[0] = t
        /\ timers.count = 1 => /\ c \in Timers
                               /\ IF due'[t] < due'[c] THEN p.slots[0] = t /\ p.slots[1] = c
                                                       ELSE p.slots[0] = c /\ p.slots[1] = t
    BY ZenonT(90), <1>1, <2>1, InsertedFew
  <2>4. timers.count = 0 => TimerSlots = {} /\ InTimers = {}
    <3>1. timers.read \in Nat
      BY <1>1, ArrayFields
    <3>2. timers.count = 0 => TimerSlots = {}
      BY <3>1 DEF TimerSlots
    <3> QED
      BY <3>2 DEF InTimers
  <2>5. timers.count = 1 => InTimers = {c}
    <3>1. timers.read \in Nat
      BY <1>1, ArrayFields
    <3>2. timers.count = 1 => TimerSlots = {timers.read}
      BY <3>1 DEF TimerSlots
    <3> QED
      BY <3>2 DEF InTimers
  <2>6. TimerSlots' = 0 .. timers.count
    BY <1>2, <1>3 DEF TimerSlots
  <2>7. InTimers' = {p.slots[i] : i \in 0 .. timers.count}
    BY <2>6 DEF InTimers
  <2>8. t \notin InTimers /\ t \notin InRing /\ (timers.count = 1 => t # c)
    BY <1>1, <2>2, <2>5
  <2> HIDE DEF c, p
  <2>9. \A i, j \in 0 .. timers.count :
            /\ p.slots[i] = p.slots[j] => i = j
            /\ i < j => due'[p.slots[i]] <= due'[p.slots[j]]
    <3>1. CASE timers.count = 0
      BY <3>1
    <3>2. CASE timers.count = 1
      <4>1. 0 .. timers.count = {0, 1}
        BY <3>2
      <4>2. p.slots[0] # p.slots[1] /\ due'[p.slots[0]] <= due'[p.slots[1]]
        BY <1>6, <2>3, <2>8, <3>2
      <4> QED
        BY <4>1, <4>2
    <3> QED
      BY <2>1, <3>1, <3>2
  <2>10. InTimers' = InTimers \cup {t}
    <3>1. CASE timers.count = 0
      <4>1. 0 .. timers.count = {0}
        BY <3>1
      <4> QED
        BY <2>3, <2>4, <2>7, <3>1, <4>1
    <3>2. CASE timers.count = 1
      <4>1. 0 .. timers.count = {0, 1}
        BY <3>2
      <4>2. {p.slots[0], p.slots[1]} = {c, t}
        BY <2>3, <3>2
      <4>3. InTimers' = {p.slots[0], p.slots[1]}
        BY <2>7, <4>1
      <4> QED
        BY <2>5, <3>2, <4>2, <4>3
    <3> QED
      BY <2>1, <3>1, <3>2
  <2>11. HeldOnce'
    <3>1. /\ InRing' \cup InTimers' \subseteq live' /\ InRing' \cap InTimers' = {}
          /\ ~grown' => live' = InRing' \cup InTimers'
      BY <1>1, <1>5, <2>2, <2>8, <2>10
    <3>2. OnceIn(queue'.buffer)
      BY <1>1, <2>2
    <3> QED
      BY <2>6, <2>9, <3>1, <3>2 DEF HeldOnce, OnceIn, p
  <2>12. TimersOrdered'
    <3>1. Peek(p) = IF p.count = 0 THEN None ELSE p.slots[p.read]
      BY <1>2, <2>3, PeekFew DEF p
    <3>2. ~stale'
      BY <1>1, <2>2
    <3> QED
      BY <2>6, <2>9, <3>1, <3>2 DEF TimersOrdered, p
  <2> QED
    BY <2>3, <2>11, <2>12 DEF p
<1>8. HeldOnce' /\ TimersOrdered' /\ (peak' <= 2 => FewTimers(timers'))
  BY <1>7 DEF HeldOnce, TimersOrdered
<1>9. live' \subseteq Events
  BY <1>1 DEF QueuesInvariant, Events
<1> QED
  BY <1>1, <1>2, <1>4, <1>6, <1>8, <1>9 DEF QueuesInvariant

LEMMA TimerExpiresKeeps ==
  ASSUME QueuesInvariant, TimerExpires
  PROVE  QueuesInvariant'
<1> DEFINE x == Peek(timers)
<1>1. /\ RingSound(queue) /\ ArraySound(timers) /\ x # None
      /\ queue' = Pushed(queue, x) /\ timers' = Popped(timers)
      /\ grown' = (grown \/ Full(queue)) /\ stale' = (x \notin live)
      /\ UNCHANGED <<due, now, live, peak>>
  BY DEF QueuesInvariant, TimerExpires
<1>2. /\ ArraySound(timers') /\ timers'.read = timers.read + 1
      /\ timers'.count = timers.count - 1 /\ timers'.size = timers.size
      /\ timers.read \in 0 .. timers.size - 1
      /\ timers'.slots = [timers.slots EXCEPT ![timers.read] = None]
      /\ x = timers.slots[timers.read] /\ x \in Timers
      /\ FewTimers(timers) => FewTimers(timers') /\ timers.count > 0
  BY <1>1, PoppedSound
<1> HIDE DEF x
<1>3. x \in Events
  BY <1>2 DEF Events
<1>4. /\ RingSound(queue') /\ InRing' \subseteq InRing \cup {x}
      /\ ~Full(queue) => InRing' = InRing \cup {x} /\ queue'.size = queue.size
      /\ OnceIn(queue.buffer) /\ x \notin InRing => OnceIn(queue'.buffer)
  BY <1>1, <1>3, RingAfterPush
<1>5. /\ timers.size \in Nat /\ timers.count \in Int /\ peak \in Nat
      /\ timers.count <= peak /\ timers.size <= peak
      /\ timers.slots \in [0 .. timers.size - 1 -> Timers \cup {None}]
  BY <1>1, ArrayFields DEF QueuesInvariant
<1>6. ASSUME peak <= 2
      PROVE  FewTimers(timers') /\ HeldOnce' /\ TimersOrdered'
  <2>1. FewTimers(timers) /\ FewTimers(timers') /\ timers.count > 0
    BY <1>2, <1>6 DEF QueuesInvariant
  <2>2. /\ InRing \cup InTimers \subseteq live /\ InRing \cap InTimers = {}
        /\ ~grown => live = InRing \cup InTimers
        /\ OnceIn(queue.buffer)
        /\ \A i, j \in TimerSlots : timers.slots[i] = timers.slots[j] => i = j
        /\ \A i, j \in TimerSlots : i < j => due[timers.slots[i]] <= due[timers.slots[j]]
    BY <1>6 DEF QueuesInvariant, HeldOnce, TimersOrdered, OnceIn
  <2>3. /\ timers.read \in TimerSlots /\ TimerSlots' = TimerSlots \ {timers.read}
        /\ \A i \in TimerSlots : i \in 0 .. timers.size - 1
    <3>1. timers.read \in Nat
      BY <1>2
    <3>2. timers.read \in TimerSlots /\ TimerSlots' = TimerSlots \ {timers.read}
      BY SMTT(40), <1>2, <1>5, <2>1, <3>1 DEF TimerSlots
    <3> QED
      BY <1>1, <2>1, <3>2, FewHeld
  <2>4. \A i \in TimerSlots' : i \in TimerSlots /\ timers'.slots[i] = timers.slots[i]
    BY <1>2, <1>5, <2>3
  <2>5. x \in InTimers
    BY <1>2, <2>3 DEF InTimers
  <2>6. InTimers' = InTimers \ {x}
    <3>1. InTimers' = {timers'.slots[i] : i \in TimerSlots'}
      BY DEF InTimers
    <3>2. InTimers' = {timers.slots[i] : i \in TimerSlots'}
      BY <2>4, <3>1
    <3>3. ASSUME NEW i \in TimerSlots, timers.slots[i] # x PROVE i \in TimerSlots'
      BY <1>2, <2>3, <3>3
    <3>4. ASSUME NEW i \in TimerSlots' PROVE i \in TimerSlots /\ timers.slots[i] # x
      BY <1>2, <2>2, <2>3, <3>4
    <3>5. InTimers = {timers.slots[i] : i \in TimerSlots}
      BY DEF InTimers
    <3> QED
      BY <3>2, <3>3, <3>4, <3>5
  <2>7. HeldOnce'
    <3>1. x \in live /\ x \notin InRing
      BY <2>2, <2>5
    <3>2. grown' \/ (~Full(queue) /\ ~grown)
      BY <1>1 DEF QueuesInvariant, Full
    <3>3. /\ InRing' \cup InTimers' \subseteq live' /\ InRing' \cap InTimers' = {}
          /\ ~grown' => live' = InRing' \cup InTimers'
      BY <1>1, <1>4, <2>2, <2>5, <2>6, <3>1, <3>2
    <3>4. OnceIn(queue'.buffer)
      BY <1>4, <2>2, <3>1
    <3>5. \A i, j \in TimerSlots' : timers'.slots[i] = timers'.slots[j] => i = j
      BY <2>2, <2>4
    <3> QED
      BY <3>3, <3>4, <3>5 DEF HeldOnce, OnceIn
  <2>8. TimersOrdered'
    <3>1. Peek(timers') = IF timers'.count = 0 THEN None ELSE timers'.slots[timers'.read]
      BY <1>2, <2>1, PeekFew
    <3>2. ~stale'
      BY <1>1, <2>2, <2>5
    <3>3. \A i, j \in TimerSlots' :
              i < j => due'[timers'.slots[i]] <= due'[timers'.slots[j]]
      BY <1>1, <2>2, <2>4
    <3> QED
      BY <3>1, <3>2, <3>3 DEF TimersOrdered
  <2> QED
    BY <2>1, <2>7, <2>8
<1>7. HeldOnce' /\ TimersOrdered' /\ (peak' <= 2 => FewTimers(timers'))
  BY <1>1, <1>6 DEF HeldOnce, TimersOrdered
<1>8. ~grown' => queue'.size = DefaultSize
  BY <1>1, <1>4 DEF QueuesInvariant
<1>9. grown' \in BOOLEAN /\ stale' \in BOOLEAN
  BY <1>1 DEF QueuesInvariant, Full
<1>10. timers'.count <= peak' /\ timers'.size <= peak'
  BY <1>1, <1>2, <1>5
<1> QED
  BY <1>1, <1>2, <1>4, <1>7, <1>8, <1>9, <1>10 DEF QueuesInvariant

LEMMA QueuesStep ==
  ASSUME QueuesInvariant, [Next]_vars
  PROVE  QueuesInvariant'
<1>1. CASE UNCHANGED vars \/ NoEvent \/ Corrupted
  <2>1. UNCHANGED vars
    BY <1>1 DEF NoEvent, Corrupted
  <2>2. InRing' = InRing /\ InTimers' = InTimers /\ TimerSlots' = TimerSlots
    BY <2>1 DEF vars, InRing, InTimers, TimerSlots
  <2> QED
    BY <2>1, <2>2 DEF vars, QueuesInvariant, HeldOnce, TimersOrdered
<1>2. CASE \E e \in Keys : PushEvent(e)
  BY <1>2, PushEventKeeps
<1>3. CASE NextEvent
  BY <1>3, NextEventKeeps
<1>4. CASE \E t \in Timers, delay \in Delays : CreateTimer(t, delay)
  BY <1>4, CreateTimerKeeps
<1>5. CASE TimerExpires
  BY <1>5, TimerExpiresKeeps
<1>6. CASE Tick
  <2>1. now' \in Nat /\ UNCHANGED <<queue, timers, due, live, grown, peak, stale>>
    BY <1>6 DEF Tick, QueuesInvariant
  <2>2. InRing' = InRing /\ InTimers' = InTimers /\ TimerSlots' = TimerSlots
    BY <2>1 DEF InRing, InTimers, TimerSlots
  <2> QED
    BY <2>1, <2>2 DEF QueuesInvariant, HeldOnce, TimersOrdered
<1> QED
  BY <1>1, <1>2, <1>3, <1>4, <1>5, <1>6 DEF Next

-----------------------------------------------------------------------------
(* The queue the application sees.                                          *)

\* In a ring of n: the slot k behind slot i, and how many lie between r and w.
Slot(n, i, k) == IF i + k < n THEN i + k ELSE i + k - n
Between(n, r, w) == IF r < w THEN w - r - 1 ELSE w - r - 1 + n

LEMMA RingNumbers ==
  ASSUME NEW n \in Nat, n >= 2, NEW r \in 0 .. n - 1, NEW w \in 0 .. n - 1, w # r
  PROVE  /\ Between(n, r, w) \in 0 .. n - 2
         /\ Between(n, r, w) = n - 2 <=> Slot(n, w, 1) = r
         /\ Between(n, r, w) = 0 <=> Slot(n, r, 1) = w
         /\ Slot(n, w, 1) # r => /\ Between(n, r, Slot(n, w, 1)) = Between(n, r, w) + 1
                                 /\ Slot(n, r, Between(n, r, w) + 1) = w
         /\ Slot(n, r, 1) # w => Between(n, Slot(n, r, 1), w) = Between(n, r, w) - 1
<1>1. CASE r < w
  <2>1. Between(n, r, w) = w - r - 1
    BY <1>1 DEF Between
  <2>2. CASE w + 1 < n
    <3>1. Slot(n, w, 1) = w + 1 /\ Between(n, r, w + 1) = w - r
      BY <1>1, <2>2 DEF Slot, Between
    <3>2. Slot(n, r, w - r - 1 + 1) = w
      BY <1>1, <2>2 DEF Slot
    <3>3. Slot(n, r, 1) = r + 1 /\ (r + 1 # w => Between(n, r + 1, w) = w - r - 2)
      BY <1>1, <2>2 DEF Slot, Between
    <3> QED
      BY <1>1, <2>1, <2>2, <3>1, <3>2, <3>3
  <2>3. CASE w + 1 = n
    <3>1. Slot(n, w, 1) = 0 /\ (r # 0 => Between(n, r, 0) = n - r - 1)
      BY <1>1, <2>3 DEF Slot, Between
    <3>2. Slot(n, r, w - r - 1 + 1) = w
      BY <1>1, <2>3 DEF Slot
    <3>3. Slot(n, r, 1) = r + 1 /\ (r + 1 # w => Between(n, r + 1, w) = w - r - 2)
      BY <1>1, <2>3 DEF Slot, Between
    <3> QED
      BY <1>1, <2>1, <2>3, <3>1, <3>2, <3>3
  <2> QED
    BY <2>2, <2>3
<1>2. CASE w < r
  <2>1. Between(n, r, w) = w - r - 1 + n
    BY <1>2 DEF Between
  <2>2. Slot(n, w, 1) = w + 1 /\ (w + 1 # r => Between(n, r, w + 1) = w - r + n)
    BY <1>2 DEF Slot, Between
  <2>3. Slot(n, r, w - r - 1 + n + 1) = w
    BY <1>2 DEF Slot
  <2>4. CASE r + 1 < n
    <3>1. Slot(n, r, 1) = r + 1 /\ Between(n, r + 1, w) = w - r - 2 + n
      BY <1>2, <2>4 DEF Slot, Between
    <3> QED
      BY <1>2, <2>1, <2>2, <2>3, <2>4, <3>1
  <2>5. CASE r + 1 = n
    <3>1. Slot(n, r, 1) = 0 /\ (w # 0 => Between(n, 0, w) = w - 1)
      BY <1>2, <2>5 DEF Slot, Between
    <3> QED
      BY <1>2, <2>1, <2>2, <2>3, <2>5, <3>1
  <2> QED
    BY <2>4, <2>5
<1> QED
  BY <1>1, <1>2

LEMMA SlotBetween ==
  ASSUME NEW n \in Nat, n >= 2, NEW r \in 0 .. n - 1, NEW w \in 0 .. n - 1, w # r,
         NEW i \in 1 .. Between(n, r, w)
  PROVE  /\ Slot(n, r, i) \in 0 .. n - 1 /\ Slot(n, r, i) # w /\ Slot(n, r, i) # r
         /\ i > 1 => Slot(n, Slot(n, r, 1), i - 1) = Slot(n, r, i)
<1>1. CASE r < w
  <2>1. i \in Nat /\ i > 0 /\ i < w - r
    BY <1>1 DEF Between
  <2>2. Slot(n, r, i) = r + i /\ Slot(n, r, 1) = r + 1
    BY <1>1, <2>1 DEF Slot
  <2>3. i > 1 => Slot(n, r + 1, i - 1) = r + i
    BY <1>1, <2>1 DEF Slot
  <2> QED
    BY <1>1, <2>1, <2>2, <2>3
<1>2. CASE w < r
  <2>1. i \in Nat /\ i > 0 /\ i < w - r + n
    BY <1>2 DEF Between
  <2>2. CASE r + i < n
    <3>1. Slot(n, r, i) = r + i /\ Slot(n, r, 1) = r + 1
      BY <1>2, <2>1, <2>2 DEF Slot
    <3>2. i > 1 => Slot(n, r + 1, i - 1) = r + i
      BY <1>2, <2>1, <2>2 DEF Slot
    <3> QED
      BY <1>2, <2>1, <2>2, <3>1, <3>2
  <2>3. CASE ~(r + i < n)
    <3>1. Slot(n, r, i) = r + i - n
      BY <1>2, <2>1, <2>3 DEF Slot
    <3>2. CASE r + 1 < n
      <4>1. Slot(n, r, 1) = r + 1
        BY <3>2 DEF Slot
      <4>2. Slot(n, r + 1, i - 1) = r + i - n
        BY <2>1, <2>3, <3>2 DEF Slot
      <4> QED
        BY <1>2, <2>1, <2>3, <3>1, <4>1, <4>2
    <3>3. CASE r + 1 = n
      <4>1. Slot(n, r, 1) = 0
        BY <3>3 DEF Slot
      <4>2. Slot(n, 0, i - 1) = r + i - n
        BY <1>2, <2>1, <2>3, <3>3 DEF Slot
      <4> QED
        BY <1>2, <2>1, <2>3, <3>1, <4>1, <4>2
    <3> QED
      BY <3>2, <3>3
  <2> QED
    BY <2>2, <2>3
<1> QED
  BY <1>1, <1>2

\* The events that wait, and the slots they wait in.
LEMMA WaitingSlots ==
  ASSUME NEW q, RingSound(q)
  PROVE  LET k == Between(q.size, q.read, q.write) IN
         /\ Waiting(q) \in Seq(Events \cup {None}) /\ Len(Waiting(q)) = k
         /\ k \in 0 .. q.size - 2
         /\ \A i \in 1 .. k : Waiting(q)[i] = q.buffer[Slot(q.size, q.read, i)]
<1> DEFINE n == q.size
           k == Between(n, q.read, q.write)
<1>1. /\ n \in Nat /\ n >= 2 /\ n \in Nat \ {0}
      /\ q.write \in 0 .. n - 1 /\ q.read \in 0 .. n - 1 /\ q.write # q.read
      /\ q.buffer \in [0 .. n - 1 -> Events \cup {None}]
  BY RingFields
<1>2. k \in 0 .. n - 2
  BY <1>1, RingNumbers
<1>3. (q.write - q.read - 1) % n = k
  <2>1. CASE q.read < q.write
    <3>1. q.write - q.read - 1 \in 0 .. n - 1 /\ k = q.write - q.read - 1
      BY <1>1, <2>1 DEF Between
    <3> QED
      BY <1>1, <3>1, Wraps
  <2>2. CASE ~(q.read < q.write)
    <3>1. k = q.write - q.read - 1 + n /\ k \in 0 .. n - 1
      BY <1>1, <2>2 DEF Between
    <3>2. (k - n) % n = k
      BY <1>1, <3>1, Wraps
    <3>3. k - n = q.write - q.read - 1
      BY <1>1, <3>1
    <3> QED
      BY <3>2, <3>3
  <2> QED
    BY <2>1, <2>2
<1> HIDE DEF k
<1>4. Waiting(q) = [i \in 1 .. k |-> q.buffer[(q.read + i) % n]]
  BY <1>3 DEF Waiting
<1>5. ASSUME NEW i \in 1 .. k
      PROVE  /\ q.buffer[(q.read + i) % n] = q.buffer[Slot(n, q.read, i)]
             /\ q.buffer[(q.read + i) % n] \in Events \cup {None}
  <2>1. i \in 0 .. n
    BY <1>1, <1>2
  <2>2. (q.read + i) % n = Slot(n, q.read, i)
    BY <1>1, <2>1, SlotBehind DEF Slot
  <2>3. Slot(n, q.read, i) \in 0 .. n - 1
    BY <1>1, SlotBetween DEF k
  <2> QED
    BY <1>1, <2>2, <2>3
<1>6. Waiting(q) \in Seq(Events \cup {None}) /\ Len(Waiting(q)) = k
  <2>1. k \in Nat
    BY <1>1, <1>2
  <2> QED
    BY <1>4, <1>5, <2>1
<1>7. \A i \in 1 .. k : Waiting(q)[i] = q.buffer[Slot(n, q.read, i)]
  BY <1>4, <1>5
<1> QED
  BY <1>2, <1>6, <1>7 DEF k

\* A push puts the event behind those that wait, as long as the ring does not fill.
LEMMA WaitingAfterPush ==
  ASSUME NEW q, RingSound(q), NEW e \in Events
  PROVE  /\ Full(q) => Len(Waiting(q)) = q.size - 2
         /\ ~Full(q) => /\ Len(Waiting(q)) < q.size - 2
                        /\ Waiting(Pushed(q, e)) = Append(Waiting(q), e)
<1> DEFINE n == q.size
           p == Pushed(q, e)
           k == Between(n, q.read, q.write)
           next == Slot(n, q.write, 1)
<1>1. /\ n \in Nat /\ n >= 2 /\ n \in Nat \ {0}
      /\ q.write \in 0 .. n - 1 /\ q.read \in 0 .. n - 1 /\ q.write # q.read
      /\ q.buffer \in [0 .. n - 1 -> Events \cup {None}]
  BY RingFields
<1>2. (q.write + 1) % n = next
  <2>1. 1 \in 0 .. n
    BY <1>1
  <2> QED
    BY <1>1, <2>1, SlotBehind DEF Slot
<1>3. Full(q) <=> next = q.read
  <2> HIDE DEF next
  <2> QED
    BY <1>2 DEF Full
<1>4. /\ Waiting(q) \in Seq(Events \cup {None}) /\ Len(Waiting(q)) = k
      /\ \A i \in 1 .. k : Waiting(q)[i] = q.buffer[Slot(n, q.read, i)]
  BY WaitingSlots
<1>5. /\ k \in 0 .. n - 2 /\ (k = n - 2 <=> next = q.read)
      /\ next # q.read => /\ Between(n, q.read, next) = k + 1
                          /\ Slot(n, q.read, k + 1) = q.write
  <2>1. /\ k \in 0 .. n - 2
        /\ k = n - 2 <=> next = q.read
        /\ next # q.read => /\ Between(n, q.read, next) = k + 1
                            /\ Slot(n, q.read, k + 1) = q.write
    BY ZenonT(90), <1>1, RingNumbers
  <2> HIDE DEF k, next
  <2> QED
    BY <2>1
<1>6. \A i \in 1 .. k : Slot(n, q.read, i) \in 0 .. n - 1 /\ Slot(n, q.read, i) # q.write
  BY <1>1, SlotBetween
<1> HIDE DEF k, next
<1>7. ASSUME ~Full(q) PROVE Waiting(p) = Append(Waiting(q), e)
  <2>1. /\ RingSound(p) /\ p.size = n /\ p.read = q.read
        /\ p.write = next /\ p.buffer = [q.buffer EXCEPT ![q.write] = e]
    BY <1>2, <1>7, PushedFits
  <2> HIDE DEF p
  <2>2. /\ Waiting(p) \in Seq(Events \cup {None}) /\ Len(Waiting(p)) = k + 1
        /\ \A i \in 1 .. k + 1 : Waiting(p)[i] = p.buffer[Slot(n, q.read, i)]
    <3>1. /\ Waiting(p) \in Seq(Events \cup {None})
          /\ Len(Waiting(p)) = Between(p.size, p.read, p.write)
          /\ \A i \in 1 .. Between(p.size, p.read, p.write) :
                Waiting(p)[i] = p.buffer[Slot(p.size, p.read, i)]
      BY <2>1, WaitingSlots
    <3>2. Between(p.size, p.read, p.write) = k + 1 /\ p.size = n /\ p.read = q.read
      BY <1>3, <1>5, <1>7, <2>1
    <3> QED
      BY <3>1, <3>2
  <2>3. k \in Nat
    BY <1>1, <1>5
  <2>4. e \in Events \cup {None}
    OBVIOUS
  <2>5. /\ Append(Waiting(q), e) \in Seq(Events \cup {None})
        /\ Len(Append(Waiting(q), e)) = k + 1
        /\ \A i \in 1 .. k : Append(Waiting(q), e)[i] = Waiting(q)[i]
        /\ Append(Waiting(q), e)[k + 1] = e
    BY <1>4, <2>4, AppendProperties
  <2>6. ASSUME NEW i \in 1 .. k + 1 PROVE Waiting(p)[i] = Append(Waiting(q), e)[i]
    <3>1. CASE i = k + 1
      <4>1. Slot(n, q.read, i) = q.write
        BY <1>3, <1>5, <1>7, <3>1
      <4>2. p.buffer[q.write] = e
        BY <1>1, <2>1
      <4> QED
        BY <2>2, <2>5, <3>1, <4>1, <4>2
    <3>2. CASE i # k + 1
      <4>1. i \in 1 .. k
        BY <2>3, <3>2
      <4>2. p.buffer[Slot(n, q.read, i)] = q.buffer[Slot(n, q.read, i)]
        BY <1>1, <1>6, <2>1, <4>1
      <4> QED
        BY <1>4, <2>2, <2>5, <4>1, <4>2
    <3> QED
      BY <3>1, <3>2
  <2> QED
    BY <2>2, <2>5, <2>6, SeqEqual
<1>8. Full(q) => Len(Waiting(q)) = n - 2
  BY <1>3, <1>4, <1>5
<1>9. ~Full(q) => Len(Waiting(q)) < n - 2
  BY <1>1, <1>3, <1>4, <1>5
<1> QED
  BY <1>7, <1>8, <1>9

\* The event that waited longest is handed out.
LEMMA WaitingAfterNext ==
  ASSUME RingSound(queue), ~Empty(queue),
         queue' = [queue EXCEPT !.buffer[queue.read] = None, !.read = (@ + 1) % queue.size]
  PROVE  Waiting(queue) # <<>> /\ Waiting(queue') = Tail(Waiting(queue))
<1> DEFINE n == queue.size
           r == queue.read
           p == queue'
           k == Between(n, r, queue.write)
           next == Slot(n, r, 1)
<1>1. /\ n \in Nat /\ n >= 2 /\ n \in Nat \ {0}
      /\ queue.write \in 0 .. n - 1 /\ r \in 0 .. n - 1 /\ queue.write # r
      /\ queue.buffer \in [0 .. n - 1 -> Events \cup {None}]
  BY RingFields
<1>2. (r + 1) % n = next
  <2>1. 1 \in 0 .. n
    BY <1>1
  <2> QED
    BY <1>1, <2>1, SlotBehind DEF Slot
<1>3. /\ RingSound(p) /\ p.size = n /\ p.write = queue.write /\ p.read = next
      /\ p.buffer = [queue.buffer EXCEPT ![r] = None]
  BY <1>2, RingAfterNext
<1>4. /\ Waiting(queue) \in Seq(Events \cup {None}) /\ Len(Waiting(queue)) = k
      /\ \A i \in 1 .. k : Waiting(queue)[i] = queue.buffer[Slot(n, r, i)]
  BY WaitingSlots
<1>5. next # queue.write
  BY <1>1 DEF Empty, Slot
<1>6. k \in 0 .. n - 2 /\ k # 0 /\ Between(n, next, queue.write) = k - 1
  BY <1>1, <1>5, RingNumbers
<1>7. \A i \in 1 .. k :
          /\ Slot(n, r, i) \in 0 .. n - 1 /\ Slot(n, r, i) # r
          /\ i > 1 => Slot(n, next, i - 1) = Slot(n, r, i)
  BY <1>1, SlotBetween
<1> HIDE DEF p, k, next
<1>8. /\ Waiting(p) \in Seq(Events \cup {None}) /\ Len(Waiting(p)) = k - 1
      /\ \A i \in 1 .. k - 1 : Waiting(p)[i] = p.buffer[Slot(n, next, i)]
  <2>1. /\ Waiting(p) \in Seq(Events \cup {None})
        /\ Len(Waiting(p)) = Between(p.size, p.read, p.write)
        /\ \A i \in 1 .. Between(p.size, p.read, p.write) :
              Waiting(p)[i] = p.buffer[Slot(p.size, p.read, i)]
    BY <1>3, WaitingSlots
  <2>2. Between(p.size, p.read, p.write) = k - 1 /\ p.size = n /\ p.read = next
    BY <1>3, <1>6
  <2> QED
    BY <2>1, <2>2
<1>9. k \in Nat /\ k > 0
  BY <1>1, <1>6
<1>10. Waiting(queue) # <<>>
  BY <1>4, <1>9
<1>11. /\ Tail(Waiting(queue)) \in Seq(Events \cup {None})
       /\ Len(Tail(Waiting(queue))) = k - 1
       /\ \A i \in 1 .. k - 1 : Tail(Waiting(queue))[i] = Waiting(queue)[i + 1]
  BY <1>4, <1>10, HeadTailProperties
<1>12. ASSUME NEW i \in 1 .. k - 1
       PROVE  Waiting(p)[i] = Tail(Waiting(queue))[i]
  <2>1. i + 1 \in 1 .. k /\ i + 1 > 1 /\ (i + 1) - 1 = i
    BY <1>9
  <2>2. /\ Slot(n, r, i + 1) \in 0 .. n - 1 /\ Slot(n, r, i + 1) # r
        /\ Slot(n, next, i) = Slot(n, r, i + 1)
    BY <1>7, <2>1
  <2>3. p.buffer[Slot(n, r, i + 1)] = queue.buffer[Slot(n, r, i + 1)]
    BY <1>1, <1>3, <2>2
  <2> QED
    BY <1>4, <1>8, <1>11, <2>1, <2>2, <2>3
<1>13. Waiting(p) = Tail(Waiting(queue))
  BY <1>8, <1>11, <1>12, SeqEqual
<1> QED
  BY <1>10, <1>13 DEF p

LEMMA FifoStep ==
  ASSUME QueuesInvariant, [Next]_vars
  PROVE  [Fifo!Next]_(Fifo!fifo)
<1>1. RingSound(queue) /\ grown \in BOOLEAN /\ (~grown => queue.size = DefaultSize)
  BY DEF QueuesInvariant
<1>2. CASE UNCHANGED <<queue, grown>>
  BY <1>2 DEF Fifo!fifo, Waiting
<1>3. ASSUME NEW e \in Events, queue' = Pushed(queue, e), grown' = (grown \/ Full(queue))
      PROVE  [Fifo!Next]_(Fifo!fifo)
  <2>1. /\ Full(queue) => Len(Waiting(queue)) = queue.size - 2
        /\ ~Full(queue) => /\ Len(Waiting(queue)) < queue.size - 2
                           /\ Waiting(Pushed(queue, e)) = Append(Waiting(queue), e)
    BY <1>1, WaitingAfterPush
  <2>2. CASE grown
    <3>1. grown = TRUE /\ grown' = TRUE
      BY <1>1, <1>3, <2>2
    <3> QED
      BY <3>1 DEF Fifo!fifo
  <2>3. CASE ~grown /\ Full(queue)
    <3>1. grown = FALSE /\ grown' = TRUE /\ Len(Waiting(queue)) = DefaultSize - 2
      BY <1>1, <1>3, <2>1, <2>3
    <3> QED
      BY <3>1 DEF Fifo!Next, Fifo!Overfill
  <2>4. CASE ~grown /\ ~Full(queue)
    <3>1. grown = FALSE /\ grown' = FALSE
      BY <1>1, <1>3, <2>4 DEF Full
    <3>2. /\ Len(Waiting(queue)) < DefaultSize - 2
          /\ Waiting(queue)' = Append(Waiting(queue), e)
      <4>1. Waiting(queue)' = Waiting(queue')
        BY DEF Waiting
      <4> QED
        BY <1>1, <1>3, <2>1, <2>4, <4>1
    <3>3. Fifo!Put(e)
      BY <3>1, <3>2 DEF Fifo!Put
    <3> QED
      BY <3>3 DEF Fifo!Next
  <2> QED
    BY <2>2, <2>3, <2>4
<1>4. CASE NextEvent
  <2>1. /\ ~Empty(queue) /\ grown' = grown
        /\ queue' = [queue EXCEPT !.buffer[queue.read] = None, !.read = (@ + 1) % queue.size]
    BY <1>4 DEF NextEvent
  <2>2. /\ Waiting(queue) # <<>> /\ Waiting(queue)' = Tail(Waiting(queue))
    <3>1. Waiting(queue)' = Waiting(queue')
      BY DEF Waiting
    <3> QED
      BY <1>1, <2>1, <3>1, WaitingAfterNext
  <2>3. CASE grown
    <3>1. grown = TRUE /\ grown' = TRUE
      BY <1>1, <2>1, <2>3
    <3> QED
      BY <3>1 DEF Fifo!fifo
  <2>4. CASE ~grown
    <3>1. grown = FALSE /\ grown' = FALSE
      BY <1>1, <2>1, <2>4
    <3> QED
      BY <2>2, <3>1 DEF Fifo!Next, Fifo!Take
  <2> QED
    BY <2>3, <2>4
<1>5. CASE \E e \in Keys : PushEvent(e)
  BY <1>3, <1>5 DEF PushEvent, Events
<1>6. CASE TimerExpires
  <2>1. /\ Peek(timers) # None /\ queue' = Pushed(queue, Peek(timers))
        /\ grown' = (grown \/ Full(queue))
    BY <1>6 DEF TimerExpires
  <2>2. Peek(timers) \in Events
    BY <2>1, PoppedSound DEF QueuesInvariant, Events
  <2> QED
    BY <1>3, <2>1, <2>2
<1>7. CASE \E t \in Timers, delay \in Delays : CreateTimer(t, delay)
  BY <1>2, <1>7 DEF CreateTimer
<1>8. CASE NoEvent \/ Corrupted \/ Tick \/ UNCHANGED vars
  BY <1>2, <1>8 DEF NoEvent, Corrupted, Tick, vars
<1> QED
  BY <1>4, <1>5, <1>6, <1>7, <1>8 DEF Next

LEMMA FifoInitially == Init => Fifo!Init
<1> SUFFICES ASSUME Init PROVE Fifo!Init
  OBVIOUS
<1>1. RingSound(queue) /\ queue.size = DefaultSize /\ queue.write = 1 /\ queue.read = 0
  BY QueuesInitially DEF Init, QueuesInvariant
<1>2. DefaultSize \in Nat /\ DefaultSize >= 2
  BY QueueAssumption
<1>3. Between(DefaultSize, 0, 1) = 0
  BY <1>2 DEF Between
<1>4. Waiting(queue) \in Seq(Events \cup {None}) /\ Len(Waiting(queue)) = 0
  BY <1>1, <1>3, WaitingSlots
<1>5. Waiting(queue) = <<>> /\ grown = FALSE
  BY <1>4, EmptySeq DEF Init
<1> QED
  BY <1>5 DEF Fifo!Init

-----------------------------------------------------------------------------
(* The theorems.                                                            *)

\* In every reachable state the ring and the timer array are as their indices
\* say, whatever was pushed, popped and resized, and nothing is held twice.
THEOREM QueuesCorrect == Spec => []QueuesInvariant
<1>1. QueuesInvariant /\ [Next]_vars => QueuesInvariant'
  BY QueuesStep
<1> QED
  BY <1>1, QueuesInitially, PTL DEF Spec

\* As long as no three timers are set at once, an event or a timer that a queue
\* holds is allocated and has one owner that frees it: gui_event_queue_next
\* frees nothing in use, and until the ring is resized nothing leaks.
THEOREM HeldByOne == Spec => []HeldOnce
<1>1. QueuesInvariant => HeldOnce
  BY DEF QueuesInvariant
<1> QED
  BY <1>1, QueuesCorrect, PTL

\* As long as no three timers are set at once, gui_timer_queue_peek shows the
\* timer that ends first, and never one that was freed.
THEOREM TimersInOrder == Spec => []TimersOrdered
<1>1. QueuesInvariant => TimersOrdered
  BY DEF QueuesInvariant
<1> QED
  BY <1>1, QueuesCorrect, PTL

\* Until the ring first fills, gui_event_queue_push and gui_event_queue_next are
\* a first in first out queue for DefaultSize - 2 events, whatever the timers do.
THEOREM FifoImplemented == Spec => ImplementsFifo
<1>1. QueuesInvariant /\ [Next]_vars => [Fifo!Next]_(Fifo!fifo)
  BY FifoStep
<1> QED
  BY <1>1, FifoInitially, QueuesCorrect, PTL DEF Spec, ImplementsFifo, Fifo!Spec

-----------------------------------------------------------------------------
(* What a sequence of events tells.                                         *)

\* The recursion of TellAll, for f.
Tells(f, t, s) ==
    f = [n \in 0 .. Len(s) |-> IF n = 0 THEN t ELSE Tell(f[n - 1], s[n])]

LEMMA TellsExist ==
  ASSUME NEW t, NEW s, Len(s) \in Nat
  PROVE  \E f : Tells(f, t, s) /\ TellAll(t, s) = f[Len(s)]
<1> DEFINE D == 0 .. Len(s)
           Turns(f, n) == IF n = 0 THEN t ELSE Tell(f[n - 1], s[n])
           Upto(f, k) == f = [n \in D |-> f[n]] /\ \A n \in D : n <= k => f[n] = Turns(f, n)
           G == {k \in Nat : \E f : Upto(f, k)}
<1>1. 0 \in G
  <2> DEFINE f == [n \in D |-> t]
  <2>1. f = [n \in D |-> f[n]]
    OBVIOUS
  <2>2. \A n \in D : n <= 0 => f[n] = Turns(f, n)
    <3>1. \A n \in D : n <= 0 => n = 0
      OBVIOUS
    <3> QED
      BY <3>1
  <2> QED
    BY <2>1, <2>2
<1>2. ASSUME NEW k \in G
      PROVE  k + 1 \in G
  <2>1. PICK f : Upto(f, k)
    OBVIOUS
  <2> DEFINE g == [n \in D |-> IF n <= k THEN f[n] ELSE Turns(f, n)]
  <2>2. k \in Nat /\ k + 1 \in Nat
    OBVIOUS
  <2>3. g = [n \in D |-> g[n]]
    OBVIOUS
  <2>4. \A n \in D : n <= k => g[n] = f[n]
    OBVIOUS
  <2>5. \A n \in D : ~(n <= k) => g[n] = Turns(f, n)
    OBVIOUS
  <2>6. ASSUME NEW n \in D, n <= k + 1
        PROVE  g[n] = Turns(g, n)
    <3>1. CASE n = 0
      BY <2>1, <2>2, <2>4, <3>1
    <3>2. CASE n # 0
      <4>1. n - 1 \in D /\ n - 1 <= k
        BY <2>2, <2>6, <3>2
      <4>2. g[n - 1] = f[n - 1]
        BY <2>4, <4>1
      <4>3. g[n] = Turns(f, n)
        BY <2>1, <2>4, <2>5
      <4> HIDE DEF g
      <4> QED
        BY <4>2, <4>3
    <3> QED
      BY <3>1, <3>2
  <2> HIDE DEF g
  <2>7. Upto(g, k + 1)
    BY <2>3, <2>6
  <2> HIDE DEF Upto
  <2> QED
    BY <2>2, <2>7
<1>3. G = Nat
  <2> HIDE DEF G
  <2>1. G \in SUBSET Nat
    BY DEF G
  <2> QED
    BY <1>1, <1>2, <2>1, Induction
<1>4. PICK f : Upto(f, Len(s))
  BY <1>3
<1>5. Tells(f, t, s)
  <2>1. \A n \in D : f[n] = Turns(f, n)
    <3>1. \A n \in D : n <= Len(s)
      OBVIOUS
    <3>2. \A n \in D : n <= Len(s) => f[n] = Turns(f, n)
      BY <1>4
    <3> HIDE DEF D, Turns
    <3> QED
      BY <3>1, <3>2
  <2> QED
    BY <1>4, <2>1 DEF Tells
<1>6. TellAll(t, s) = (CHOOSE g : Tells(g, t, s))[Len(s)]
  BY DEF TellAll, Tells
<1> QED
  BY <1>5, <1>6

\* Two tellings that begin alike agree so far.
LEMMA TellsAgree ==
  ASSUME NEW t, NEW s, Len(s) \in Nat, NEW u, Len(u) \in Nat,
         NEW k \in Nat, k <= Len(s), k <= Len(u), \A i \in 1 .. k : s[i] = u[i],
         NEW f, Tells(f, t, s), NEW g, Tells(g, t, u)
  PROVE  f[k] = g[k]
<1> DEFINE G == {n \in Nat : n <= k => f[n] = g[n]}
<1>1. \A n \in 0 .. Len(s) : f[n] = IF n = 0 THEN t ELSE Tell(f[n - 1], s[n])
  BY DEF Tells
<1>2. \A n \in 0 .. Len(u) : g[n] = IF n = 0 THEN t ELSE Tell(g[n - 1], u[n])
  BY DEF Tells
<1>3. 0 \in G
  BY <1>1, <1>2
<1>4. ASSUME NEW n \in G
      PROVE  n + 1 \in G
  <2>1. n \in Nat /\ n + 1 \in Nat /\ (n + 1) - 1 = n /\ n + 1 # 0
    OBVIOUS
  <2>2. SUFFICES ASSUME n + 1 <= k
                 PROVE  f[n + 1] = g[n + 1]
    BY <2>1
  <2>3. /\ n + 1 \in 0 .. Len(s) /\ n + 1 \in 0 .. Len(u) /\ n + 1 \in 1 .. k
        /\ f[n] = g[n]
    BY <2>1, <2>2
  <2> QED
    BY <1>1, <1>2, <2>1, <2>3
<1>5. G = Nat
  <2> HIDE DEF G
  <2>1. G \in SUBSET Nat
    BY DEF G
  <2> QED
    BY <1>3, <1>4, <2>1, Induction
<1> QED
  BY <1>5

LEMMA TellNone ==
  ASSUME NEW t
  PROVE  TellAll(t, <<>>) = t
<1>1. PICK f : Tells(f, t, <<>>) /\ TellAll(t, <<>>) = f[Len(<<>>)]
  BY TellsExist
<1> QED
  BY <1>1 DEF Tells

LEMMA TellOneMore ==
  ASSUME NEW S, NEW s \in Seq(S), NEW e \in S, NEW t
  PROVE  TellAll(t, Append(s, e)) = Tell(TellAll(t, s), e)
<1> DEFINE u == Append(s, e)
<1>1. /\ Len(s) \in Nat /\ Len(u) = Len(s) + 1 /\ Len(u) \in Nat
      /\ \A i \in 1 .. Len(s) : u[i] = s[i]
      /\ u[Len(u)] = e
  BY AppendProperties, LenProperties
<1> HIDE DEF u
<1>2. PICK f : Tells(f, t, s) /\ TellAll(t, s) = f[Len(s)]
  BY <1>1, TellsExist
<1>3. PICK g : Tells(g, t, u) /\ TellAll(t, u) = g[Len(u)]
  BY <1>1, TellsExist
<1>4. f[Len(s)] = g[Len(s)]
  <2>1. Len(s) <= Len(s) /\ Len(s) <= Len(u) /\ \A i \in 1 .. Len(s) : s[i] = u[i]
    BY <1>1
  <2> QED
    BY <1>1, <1>2, <1>3, <2>1, TellsAgree
<1>5. g[Len(u)] = Tell(g[Len(u) - 1], u[Len(u)])
  BY <1>1, <1>3 DEF Tells
<1> QED
  BY <1>1, <1>2, <1>3, <1>4, <1>5 DEF u

\* Events that follow others tell what they tell from there on.
LEMMA TellOn ==
  ASSUME NEW S, NEW s \in Seq(S), NEW u \in Seq(S), NEW t
  PROVE  TellAll(t, s \o u) = TellAll(TellAll(t, s), u)
<1> DEFINE w == s \o u
           m == TellAll(t, s)
<1>1. /\ Len(s) \in Nat /\ Len(u) \in Nat /\ Len(w) = Len(s) + Len(u) /\ Len(w) \in Nat
      /\ \A i \in 1 .. Len(s) : w[i] = s[i]
      /\ \A i \in 1 .. Len(u) : w[Len(s) + i] = u[i]
  <2>1. Len(s) \in Nat /\ Len(u) \in Nat /\ Len(w) = Len(s) + Len(u)
    BY ConcatProperties, LenProperties
  <2>2. \A i \in 1 .. Len(s) + Len(u) : w[i] = IF i <= Len(s) THEN s[i] ELSE u[i - Len(s)]
    BY ConcatProperties
  <2> HIDE DEF w
  <2>3. \A i \in 1 .. Len(s) : w[i] = s[i]
    BY <2>1, <2>2
  <2>4. ASSUME NEW i \in 1 .. Len(u)
        PROVE  w[Len(s) + i] = u[i]
    <3>1. /\ Len(s) + i \in 1 .. Len(s) + Len(u) /\ ~(Len(s) + i <= Len(s))
          /\ (Len(s) + i) - Len(s) = i
      BY <2>1
    <3> QED
      BY <2>2, <3>1
  <2> QED
    BY <2>1, <2>3, <2>4
<1> HIDE DEF w
<1>2. PICK f : Tells(f, t, s) /\ m = f[Len(s)]
  BY <1>1, TellsExist
<1> HIDE DEF m
<1>3. PICK g : Tells(g, t, w) /\ TellAll(t, w) = g[Len(w)]
  BY <1>1, TellsExist
<1>4. PICK h : Tells(h, m, u) /\ TellAll(m, u) = h[Len(u)]
  BY <1>1, TellsExist
<1>5. g[Len(s)] = m
  <2>1. f[Len(s)] = g[Len(s)]
    <3>1. Len(s) <= Len(s) /\ Len(s) <= Len(w) /\ \A i \in 1 .. Len(s) : s[i] = w[i]
      BY <1>1
    <3>2. Len(s) \in Nat /\ Len(w) \in Nat /\ Tells(f, t, s) /\ Tells(g, t, w)
      BY <1>1, <1>2, <1>3
    <3> QED
      BY <3>1, <3>2, TellsAgree
  <2> QED
    BY <1>2, <2>1
<1> DEFINE G == {n \in Nat : n <= Len(u) => g[Len(s) + n] = h[n]}
<1>6. 0 \in G
  <2>1. h[0] = m
    BY <1>1, <1>4 DEF Tells
  <2> QED
    BY <1>1, <1>5, <2>1
<1>7. ASSUME NEW n \in G
      PROVE  n + 1 \in G
  <2>1. n \in Nat /\ n + 1 \in Nat /\ (n + 1) - 1 = n /\ n + 1 # 0
    OBVIOUS
  <2>2. SUFFICES ASSUME n + 1 <= Len(u)
                 PROVE  g[Len(s) + (n + 1)] = h[n + 1]
    BY <2>1
  <2>3. /\ Len(s) + (n + 1) \in 0 .. Len(w) /\ Len(s) + (n + 1) # 0
        /\ (Len(s) + (n + 1)) - 1 = Len(s) + n
        /\ n + 1 \in 1 .. Len(u) /\ n + 1 \in 0 .. Len(u)
    BY <1>1, <2>1, <2>2
  <2>4. g[Len(s) + n] = h[n]
    BY <1>1, <2>1, <2>2
  <2>5. g[Len(s) + (n + 1)] = Tell(g[Len(s) + n], w[Len(s) + (n + 1)])
    BY <1>3, <2>3 DEF Tells
  <2>6. h[n + 1] = Tell(h[n], u[n + 1])
    BY <1>4, <2>1, <2>3 DEF Tells
  <2> QED
    BY <1>1, <2>3, <2>4, <2>5, <2>6
<1>8. G = Nat
  <2> HIDE DEF G
  <2>1. G \in SUBSET Nat
    BY DEF G
  <2> QED
    BY <1>6, <1>7, <2>1, Induction
<1>9. g[Len(s) + Len(u)] = h[Len(u)]
  <2>1. Len(u) \in G
    <3> HIDE DEF G
    <3> QED
      BY <1>1, <1>8
  <2>2. Len(u) <= Len(u)
    BY <1>1
  <2> QED
    BY <2>1, <2>2
<1> QED
  BY <1>1, <1>3, <1>4, <1>9 DEF w, m

LEMMA TellOne ==
  ASSUME NEW t, NEW e
  PROVE  TellAll(t, <<e>>) = Tell(t, e)
<1>1. Len(<<e>>) = 1 /\ <<e>>[1] = e
  OBVIOUS
<1>2. PICK f : Tells(f, t, <<e>>) /\ TellAll(t, <<e>>) = f[Len(<<e>>)]
  BY <1>1, TellsExist
<1>3. f[1] = Tell(f[0], e) /\ f[0] = t
  BY <1>1, <1>2 DEF Tells
<1> QED
  BY <1>1, <1>2, <1>3

\* The first event, then the others.
LEMMA TellFirst ==
  ASSUME NEW S, NEW s \in Seq(S), s # <<>>, NEW t
  PROVE  TellAll(t, s) = TellAll(Tell(t, Head(s)), Tail(s))
<1>1. Head(s) \in S /\ Tail(s) \in Seq(S) /\ Head(s) = s[1] /\ Len(s) \in Nat \ {0}
  BY HeadTailProperties, EmptySeq
<1>2. s = <<Head(s)>> \o Tail(s)
  <2>1. SubSeq(s, 1, Len(s)) = <<s[1]>> \o SubSeq(s, 2, Len(s))
    <3>1. 1 \in 1 .. Len(s) /\ Len(s) \in 1 .. Len(s) /\ 1 + 1 = 2
      BY <1>1
    <3> QED
      BY <3>1, SubSeqRecursiveFirst
  <2>2. SubSeq(s, 1, Len(s)) = s /\ Tail(s) = SubSeq(s, 2, Len(s))
    BY SubSeqFull, TailIsSubSeq
  <2> QED
    BY <1>1, <2>1, <2>2
<1>3. <<Head(s)>> \in Seq(S)
  BY <1>1
<1>4. TellAll(t, <<Head(s)>> \o Tail(s)) = TellAll(TellAll(t, <<Head(s)>>), Tail(s))
  BY <1>1, <1>3, TellOn
<1> QED
  BY <1>2, <1>4, TellOne

-----------------------------------------------------------------------------
(* An application's picture of the library.                                 *)

Picture(K, c, f) == [keys |-> K, capture |-> c, focus |-> f, wrong |-> FALSE]

LEMMA TellsKey ==
  ASSUME NEW K, NEW c, NEW f, NEW k
  PROVE  /\ k \notin K => Tell(Picture(K, c, f), Key("KEY_DOWN", k)) = Picture(K \cup {k}, c, f)
         /\ k \in K => Tell(Picture(K, c, f), Key("KEY_UP", k)) = Picture(K \ {k}, c, f)
<1> DEFINE p == Picture(K, c, f)
<1>1. ASSUME k \notin K
      PROVE  Tell(p, Key("KEY_DOWN", k)) = Picture(K \cup {k}, c, f)
  <2>1. Tell(p, Key("KEY_DOWN", k)) =
          [p EXCEPT !.keys = @ \cup {k}, !.wrong = @ \/ k \in p.keys]
    BY DEF Tell, Key
  <2> QED
    BY <1>1, <2>1 DEF Picture
<1>2. ASSUME k \in K
      PROVE  Tell(p, Key("KEY_UP", k)) = Picture(K \ {k}, c, f)
  <2>1. Tell(p, Key("KEY_UP", k)) =
          [p EXCEPT !.keys = @ \ {k}, !.wrong = @ \/ k \notin p.keys]
    BY DEF Tell, Key
  <2> QED
    BY <1>2, <2>1 DEF Picture
<1> QED
  BY <1>1, <1>2

LEMMA TellsCapture ==
  ASSUME NEW K, NEW c, NEW f, NEW e
  PROVE  /\ Tell(Picture(K, NoElement, f), Begin(e)) = Picture(K, e, f)
         /\ Tell(Picture(K, c, f), End(c)) = Picture(K, NoElement, f)
         /\ Tell(Picture(K, c, f), Focus(f, e)) = Picture(K, c, e)
<1>1. Tell(Picture(K, NoElement, f), Begin(e)) = Picture(K, e, f)
  <2> DEFINE p == Picture(K, NoElement, f)
  <2>1. Tell(p, Begin(e)) = [p EXCEPT !.capture = e, !.wrong = @ \/ p.capture # NoElement]
    BY DEF Tell, Begin
  <2> QED
    BY <2>1 DEF Picture
<1>2. Tell(Picture(K, c, f), End(c)) = Picture(K, NoElement, f)
  <2> DEFINE p == Picture(K, c, f)
  <2>1. Tell(p, End(c)) = [p EXCEPT !.capture = NoElement, !.wrong = @ \/ p.capture # c]
    BY DEF Tell, End
  <2> QED
    BY <2>1 DEF Picture
<1>3. Tell(Picture(K, c, f), Focus(f, e)) = Picture(K, c, e)
  <2> DEFINE p == Picture(K, c, f)
  <2>1. Tell(p, Focus(f, e)) = [p EXCEPT !.focus = e, !.wrong = @ \/ p.focus # f]
    BY DEF Tell, Focus
  <2> QED
    BY <2>1 DEF Picture
<1> QED
  BY <1>1, <1>2, <1>3

\* The other events tell nothing.
LEMMA TellsNothing ==
  ASSUME NEW t, NEW e,
         e.type \notin {"KEY_DOWN", "KEY_UP", "INPUT_CAPTURE_BEGIN", "INPUT_CAPTURE_END",
                        "NAV_FOCUS_CHANGED"}
  PROVE  Tell(t, e) = t
BY DEF Tell

-----------------------------------------------------------------------------
(* The events of the keys that changed.                                     *)

KeyReports(type) == [type : {type}, key : KeypadKeys]

\* The recursion of KeyEvents, for f.
Reports(f, keys, type) ==
    f = [n \in 0 .. Len(KeyOrder) |->
            IF n = 0 THEN <<>>
            ELSE IF KeyOrder[n] \in keys THEN Append(f[n - 1], Key(type, KeyOrder[n]))
            ELSE f[n - 1]]

LEMMA ReportsExist ==
  ASSUME NEW keys, NEW type
  PROVE  \E f : Reports(f, keys, type) /\ KeyEvents(keys, type) = f[Len(KeyOrder)]
<1> DEFINE N == Len(KeyOrder)
           D == 0 .. Len(KeyOrder)
           Turns(f, n) == IF n = 0 THEN <<>>
                          ELSE IF KeyOrder[n] \in keys
                          THEN Append(f[n - 1], Key(type, KeyOrder[n])) ELSE f[n - 1]
           Upto(f, k) == f = [n \in D |-> f[n]] /\ \A n \in D : n <= k => f[n] = Turns(f, n)
           G == {k \in Nat : \E f : Upto(f, k)}
<1>0. N \in Nat
  BY ApplicationAssumption, LenProperties DEF ApplicationAssumption
<1>1. 0 \in G
  <2> DEFINE f == [n \in D |-> <<>>]
  <2>1. f = [n \in D |-> f[n]]
    OBVIOUS
  <2>2. \A n \in D : n <= 0 => f[n] = Turns(f, n)
    <3>1. \A n \in D : n <= 0 => n = 0
      OBVIOUS
    <3> QED
      BY <3>1
  <2> QED
    BY <2>1, <2>2
<1>2. ASSUME NEW k \in G
      PROVE  k + 1 \in G
  <2>1. PICK f : Upto(f, k)
    OBVIOUS
  <2> DEFINE g == [n \in D |-> IF n <= k THEN f[n] ELSE Turns(f, n)]
  <2>2. k \in Nat /\ k + 1 \in Nat
    OBVIOUS
  <2>3. g = [n \in D |-> g[n]]
    OBVIOUS
  <2>4. \A n \in D : n <= k => g[n] = f[n]
    OBVIOUS
  <2>5. \A n \in D : ~(n <= k) => g[n] = Turns(f, n)
    OBVIOUS
  <2>6. ASSUME NEW n \in D, n <= k + 1
        PROVE  g[n] = Turns(g, n)
    <3>1. CASE n = 0
      BY <2>1, <2>2, <2>4, <3>1
    <3>2. CASE n # 0
      <4>1. n - 1 \in D /\ n - 1 <= k
        BY <1>0, <2>2, <2>6, <3>2
      <4>2. g[n - 1] = f[n - 1]
        BY <2>4, <4>1
      <4>3. g[n] = Turns(f, n)
        BY <2>1, <2>4, <2>5
      <4> HIDE DEF g
      <4> QED
        BY <4>2, <4>3
    <3> QED
      BY <3>1, <3>2
  <2> HIDE DEF g
  <2>7. Upto(g, k + 1)
    BY <2>3, <2>6
  <2> HIDE DEF Upto
  <2> QED
    BY <2>2, <2>7
<1>3. G = Nat
  <2> HIDE DEF G
  <2>1. G \in SUBSET Nat
    BY DEF G
  <2> QED
    BY <1>1, <1>2, <2>1, Induction
<1>4. PICK f : Upto(f, N)
  BY <1>0, <1>3
<1>5. Reports(f, keys, type)
  <2>1. \A n \in D : f[n] = Turns(f, n)
    <3>1. \A n \in D : n <= N
      BY <1>0
    <3>2. \A n \in D : n <= N => f[n] = Turns(f, n)
      BY <1>4
    <3> HIDE DEF D, Turns, N
    <3> QED
      BY <3>1, <3>2
  <2> QED
    BY <1>4, <2>1 DEF Reports
<1>6. KeyEvents(keys, type) = (CHOOSE g : Reports(g, keys, type))[Len(KeyOrder)]
  BY DEF KeyEvents, Reports
<1> QED
  BY <1>5, <1>6

FirstKeys(n) == {KeyOrder[i] : i \in 1 .. n}

\* One more key.
LEMMA NextKey ==
  ASSUME NEW n \in Nat, n + 1 <= Len(KeyOrder)
  PROVE  /\ FirstKeys(n + 1) = FirstKeys(n) \cup {KeyOrder[n + 1]}
         /\ KeyOrder[n + 1] \notin FirstKeys(n) /\ KeyOrder[n + 1] \in KeypadKeys
<1>1. /\ KeyOrder \in Seq(KeypadKeys) /\ Len(KeyOrder) \in Nat
      /\ DOMAIN KeyOrder = 1 .. Len(KeyOrder)
      /\ \A i, j \in DOMAIN KeyOrder : KeyOrder[i] = KeyOrder[j] => i = j
  BY ApplicationAssumption, LenProperties DEF ApplicationAssumption
<1>2. n + 1 \in 1 .. Len(KeyOrder)
  BY <1>1
<1>3. KeyOrder[n + 1] \in KeypadKeys
  BY <1>1, <1>2, ElementOfSeq
<1>4. \A i \in 1 .. n : i \in DOMAIN KeyOrder /\ n + 1 \in DOMAIN KeyOrder /\ i # n + 1
  BY <1>1
<1>5. KeyOrder[n + 1] \notin FirstKeys(n)
  BY <1>1, <1>4 DEF FirstKeys
<1>6. \A i : i \in 1 .. n + 1 <=> i \in 1 .. n \/ i = n + 1
  OBVIOUS
<1>7. FirstKeys(n + 1) = FirstKeys(n) \cup {KeyOrder[n + 1]}
  BY <1>6 DEF FirstKeys
<1> QED
  BY <1>3, <1>5, <1>7

LEMMA AllKeys ==
  FirstKeys(Len(KeyOrder)) = KeypadKeys /\ Len(KeyOrder) \in Nat
<1>1. /\ KeyOrder \in Seq(KeypadKeys) /\ Len(KeyOrder) \in Nat
      /\ DOMAIN KeyOrder = 1 .. Len(KeyOrder)
      /\ \A k \in KeypadKeys : \E i \in DOMAIN KeyOrder : KeyOrder[i] = k
  BY ApplicationAssumption, LenProperties DEF ApplicationAssumption
<1>2. \A i \in 1 .. Len(KeyOrder) : KeyOrder[i] \in KeypadKeys
  BY <1>1, ElementOfSeq
<1> QED
  BY <1>1, <1>2 DEF FirstKeys

LEMMA KeyEventsTyped ==
  ASSUME NEW keys, NEW type
  PROVE  KeyEvents(keys, type) \in Seq(KeyReports(type))
<1>1. PICK f : Reports(f, keys, type) /\ KeyEvents(keys, type) = f[Len(KeyOrder)]
  BY ReportsExist
<1>2. Len(KeyOrder) \in Nat
  BY AllKeys
<1> DEFINE G == {n \in Nat : n <= Len(KeyOrder) => f[n] \in Seq(KeyReports(type))}
<1>3. 0 \in G
  <2>1. f[0] = <<>>
    BY <1>1, <1>2 DEF Reports
  <2>2. <<>> \in Seq(KeyReports(type))
    BY EmptySeq
  <2>3. f[0] \in Seq(KeyReports(type))
    BY <2>1, <2>2
  <2> QED
    BY <2>3
<1>4. ASSUME NEW n \in G
      PROVE  n + 1 \in G
  <2>1. n \in Nat /\ n + 1 \in Nat /\ (n + 1) - 1 = n /\ n + 1 # 0
    OBVIOUS
  <2>2. SUFFICES ASSUME n + 1 <= Len(KeyOrder)
                 PROVE  f[n + 1] \in Seq(KeyReports(type))
    BY <2>1
  <2>3. f[n] \in Seq(KeyReports(type)) /\ n + 1 \in 0 .. Len(KeyOrder)
    BY <1>2, <2>1, <2>2
  <2>4. f[n + 1] = IF KeyOrder[n + 1] \in keys THEN Append(f[n], Key(type, KeyOrder[n + 1]))
                   ELSE f[n]
    BY <1>1, <2>1, <2>3 DEF Reports
  <2>5. Key(type, KeyOrder[n + 1]) \in KeyReports(type)
    BY <2>1, <2>2, NextKey DEF Key, KeyReports
  <2>6. Append(f[n], Key(type, KeyOrder[n + 1])) \in Seq(KeyReports(type))
    BY <2>3, <2>5, AppendProperties
  <2> QED
    BY <2>3, <2>4, <2>6
<1>5. G = Nat
  <2> HIDE DEF G
  <2>1. G \in SUBSET Nat
    BY DEF G
  <2> QED
    BY <1>3, <1>4, <2>1, Induction
<1> QED
  BY <1>1, <1>2, <1>5

\* The events of the keys that went down, or up, tell which they are.
LEMMA KeyEventsTell ==
  ASSUME NEW K, NEW c, NEW f, NEW keys \in SUBSET KeypadKeys,
         NEW type \in {"KEY_DOWN", "KEY_UP"},
         (type = "KEY_DOWN" /\ keys \cap K = {}) \/ (type = "KEY_UP" /\ keys \subseteq K)
  PROVE  TellAll(Picture(K, c, f), KeyEvents(keys, type)) =
             Picture(IF type = "KEY_DOWN" THEN K \cup keys ELSE K \ keys, c, f)
<1>1. Len(KeyOrder) \in Nat /\ FirstKeys(Len(KeyOrder)) = KeypadKeys /\ FirstKeys(0) = {}
  BY AllKeys DEF FirstKeys
<1> DEFINE p == Picture(K, c, f)
<1>2. (type = "KEY_DOWN" /\ keys \cap K = {}) \/ (type = "KEY_UP" /\ keys \subseteq K)
  OBVIOUS
<1> DEFINE Now(n) == Picture(IF type = "KEY_DOWN" THEN K \cup (keys \cap FirstKeys(n))
                              ELSE K \ (keys \cap FirstKeys(n)), c, f)
           S == KeyReports(type)
<1>3. PICK h : Reports(h, keys, type) /\ KeyEvents(keys, type) = h[Len(KeyOrder)]
  BY ReportsExist
<1> DEFINE G == {n \in Nat : n <= Len(KeyOrder) => h[n] \in Seq(S) /\ TellAll(p, h[n]) = Now(n)}
<1>4. 0 \in G
  <2>1. h[0] = <<>>
    BY <1>1, <1>3 DEF Reports
  <2>2. Now(0) = p
    BY <1>1
  <2>3. <<>> \in Seq(S)
    BY EmptySeq
  <2>4. TellAll(p, <<>>) = p
    BY TellNone
  <2> HIDE DEF S, Now, p
  <2>5. h[0] \in Seq(S) /\ TellAll(p, h[0]) = Now(0)
    BY <2>1, <2>2, <2>3, <2>4
  <2> QED
    BY <2>5
<1>5. ASSUME NEW n \in G
      PROVE  n + 1 \in G
  <2>1. n \in Nat /\ n + 1 \in Nat /\ (n + 1) - 1 = n /\ n + 1 # 0
    OBVIOUS
  <2>2. SUFFICES ASSUME n + 1 <= Len(KeyOrder)
                 PROVE  h[n + 1] \in Seq(S) /\ TellAll(p, h[n + 1]) = Now(n + 1)
    BY <2>1
  <2>3. h[n] \in Seq(S) /\ TellAll(p, h[n]) = Now(n) /\ n + 1 \in 0 .. Len(KeyOrder)
    BY <1>1, <2>1, <2>2
  <2> DEFINE k == KeyOrder[n + 1]
  <2>4. h[n + 1] = IF k \in keys THEN Append(h[n], Key(type, k)) ELSE h[n]
    BY <1>3, <2>1, <2>3 DEF Reports
  <2>5. FirstKeys(n + 1) = FirstKeys(n) \cup {k} /\ k \notin FirstKeys(n) /\ k \in KeypadKeys
    BY <2>1, <2>2, NextKey
  <2> HIDE DEF k
  <2>6. CASE k \notin keys
    <3>1. keys \cap FirstKeys(n + 1) = keys \cap FirstKeys(n)
      BY <2>5, <2>6
    <3> QED
      BY <2>3, <2>4, <2>6, <3>1
  <2>7. CASE k \in keys
    <3>1. Key(type, k) \in S
      BY <2>5 DEF Key, KeyReports
    <3>2. h[n + 1] \in Seq(S) /\ TellAll(p, h[n + 1]) = Tell(Now(n), Key(type, k))
      <4> HIDE DEF S, Now, p
      <4> QED
        BY <2>3, <2>4, <2>7, <3>1, AppendProperties, TellOneMore
    <3>3. CASE type = "KEY_DOWN"
      <4>1. k \notin K \cup (keys \cap FirstKeys(n))
        BY <1>2, <2>5, <2>7, <3>3
      <4>2. (K \cup (keys \cap FirstKeys(n))) \cup {k} = K \cup (keys \cap FirstKeys(n + 1))
        BY <2>5, <2>7
      <4> QED
        BY <3>2, <3>3, <4>1, <4>2, TellsKey
    <3>4. CASE type = "KEY_UP"
      <4>1. k \in K \ (keys \cap FirstKeys(n))
        BY <1>2, <2>5, <2>7, <3>4
      <4>2. (K \ (keys \cap FirstKeys(n))) \ {k} = K \ (keys \cap FirstKeys(n + 1))
        BY <2>5, <2>7
      <4> QED
        BY <3>2, <3>4, <4>1, <4>2, TellsKey
    <3> QED
      BY <3>3, <3>4
  <2> QED
    BY <2>6, <2>7
<1>6. G = Nat
  <2> HIDE DEF G
  <2>1. G \in SUBSET Nat
    BY DEF G
  <2> QED
    BY <1>4, <1>5, <2>1, Induction
<1>7. TellAll(p, h[Len(KeyOrder)]) = Now(Len(KeyOrder))
  <2>1. Len(KeyOrder) \in G
    <3> HIDE DEF G
    <3> QED
      BY <1>1, <1>6
  <2> HIDE DEF S, Now, p
  <2> QED
    BY <1>1, <2>1
<1>8. keys \cap FirstKeys(Len(KeyOrder)) = keys
  BY <1>1
<1> QED
  BY <1>3, <1>7, <1>8

LEMMA KeysDownTell ==
  ASSUME NEW K, NEW c, NEW f, NEW keys \in SUBSET KeypadKeys, keys \cap K = {}
  PROVE  TellAll(Picture(K, c, f), KeyEvents(keys, "KEY_DOWN")) = Picture(K \cup keys, c, f)
<1>1. keys \cap K = {} /\ "KEY_DOWN" \in {"KEY_DOWN", "KEY_UP"}
  OBVIOUS
<1> QED
  BY <1>1, KeyEventsTell

LEMMA KeysUpTell ==
  ASSUME NEW K, NEW c, NEW f, NEW keys \in SUBSET KeypadKeys, keys \subseteq K
  PROVE  TellAll(Picture(K, c, f), KeyEvents(keys, "KEY_UP")) = Picture(K \ keys, c, f)
<1>1. keys \subseteq K /\ "KEY_UP" \in {"KEY_DOWN", "KEY_UP"} /\ "KEY_UP" # "KEY_DOWN"
  OBVIOUS
<1> QED
  BY <1>1, KeyEventsTell

-----------------------------------------------------------------------------
(* The invariant.                                                           *)

ElementOrNone == Elements \cup {NoElement}

ApplicationEvents ==
    KeyReports("KEY_DOWN") \cup KeyReports("KEY_UP")
    \cup {Begin(e) : e \in ElementOrNone} \cup {End(e) : e \in ElementOrNone}
    \cup {Changed(e) : e \in ElementOrNone} \cup {Select(e) : e \in ElementOrNone}
    \cup {Focus(e, f) : e \in ElementOrNone, f \in ElementOrNone}
    \cup {Timer, Redraw}

ApplicationTypes ==
    /\ keypad \in SUBSET KeypadKeys
    /\ pending \in Seq(ApplicationEvents)
    /\ selection \in Elements
    /\ capture \in ElementOrNone
    /\ cursor \in [Fields -> BOOLEAN]
    /\ cursorTimers \in Nat
    /\ exhausted \in BOOLEAN

ApplicationInvariant == ApplicationTypes /\ EventsTellAll /\ CursorTicks /\ ScreenAgrees

LEMMA PushTells ==
  ASSUME ApplicationTypes, EventsTellAll, NEW ev \in Seq(ApplicationEvents)
  PROVE  /\ Push(ev) \in Seq(ApplicationEvents)
         /\ ~exhausted => TellAll(told, Push(ev)) =
                            TellAll(Picture(keypad, capture, selection), ev)
<1> DEFINE S == ApplicationEvents
<1>1. pending \in Seq(S) /\ ev \in Seq(S)
  BY DEF ApplicationTypes
<1> HIDE DEF S
<1>2. pending \o ev \in Seq(S)
  BY <1>1, ConcatProperties
<1>3. Push(ev) \in Seq(S)
  BY <1>1, <1>2 DEF Push
<1>4. ASSUME ~exhausted
      PROVE  TellAll(told, Push(ev)) = TellAll(Picture(keypad, capture, selection), ev)
  <2>1. Push(ev) = pending \o ev
    BY <1>4 DEF Push
  <2>2. TellAll(told, pending \o ev) = TellAll(TellAll(told, pending), ev)
    BY <1>1, TellOn
  <2>3. TellAll(told, pending) = Picture(keypad, capture, selection)
    BY <1>4 DEF EventsTellAll, Picture
  <2> QED
    BY <2>1, <2>2, <2>3
<1>5. Push(ev) \in Seq(ApplicationEvents)
  BY <1>3 DEF S
<1> QED
  BY <1>4, <1>5

\* A timer's event that waits goes on waiting when others are pushed.
LEMMA StillWaits ==
  ASSUME NEW S, NEW s \in Seq(S), NEW u \in Seq(S)
  PROVE  /\ (\E i \in DOMAIN s : s[i] = Timer) => \E i \in DOMAIN (s \o u) : (s \o u)[i] = Timer
         /\ (\E i \in DOMAIN u : u[i] = Timer) => \E i \in DOMAIN (s \o u) : (s \o u)[i] = Timer
<1> DEFINE w == s \o u
<1>1. /\ Len(s) \in Nat /\ Len(u) \in Nat /\ Len(w) = Len(s) + Len(u) /\ w \in Seq(S)
      /\ \A i \in 1 .. Len(s) + Len(u) : w[i] = IF i <= Len(s) THEN s[i] ELSE u[i - Len(s)]
  BY ConcatProperties, LenProperties
<1>2. DOMAIN s = 1 .. Len(s) /\ DOMAIN u = 1 .. Len(u) /\ DOMAIN w = 1 .. Len(w)
  BY <1>1, LenProperties
<1> HIDE DEF w
<1>3. ASSUME NEW i \in DOMAIN s, s[i] = Timer
      PROVE  \E j \in DOMAIN w : w[j] = Timer
  <2>1. i \in DOMAIN w /\ i <= Len(s) /\ i \in 1 .. Len(s) + Len(u)
    BY <1>1, <1>2
  <2>2. w[i] = Timer
    BY <1>1, <1>3, <2>1
  <2> QED
    BY <2>1, <2>2
<1>4. ASSUME NEW i \in DOMAIN u, u[i] = Timer
      PROVE  \E j \in DOMAIN w : w[j] = Timer
  <2>1. /\ Len(s) + i \in DOMAIN w /\ Len(s) + i \in 1 .. Len(s) + Len(u)
        /\ ~(Len(s) + i <= Len(s)) /\ (Len(s) + i) - Len(s) = i
    BY <1>1, <1>2
  <2>2. w[Len(s) + i] = Timer
    BY <1>1, <1>4, <2>1
  <2> QED
    BY <2>1, <2>2
<1> QED
  BY <1>3, <1>4 DEF w

LEMMA ApplicationStarts ==
  ASSUME ApplicationInit
  PROVE  ApplicationInvariant
<1> DEFINE S == ApplicationEvents
<1>0. /\ First \in Elements /\ First # NoElement
      /\ First \in ElementOrNone /\ NoElement \in ElementOrNone
  BY ApplicationAssumption DEF ApplicationAssumption, ElementOrNone
<1>1. Redraw \in S /\ Focus(NoElement, First) \in S
  BY <1>0 DEF ApplicationEvents
<1>2. pending \in Seq(S)
  <2>1. pending = <<Redraw, Focus(NoElement, First)>>
    BY DEF ApplicationInit
  <2> HIDE DEF S
  <2> QED
    BY <1>1, <2>1
<1>3. ApplicationTypes
  BY <1>0, <1>2 DEF ApplicationInit, ApplicationTypes
<1>4. EventsTellAll
  <2> DEFINE q == Picture({}, NoElement, NoElement)
  <2>1. told = q /\ pending = <<Redraw, Focus(NoElement, First)>>
    BY DEF ApplicationInit, Picture
  <2>2. TellAll(q, pending) = TellAll(Tell(q, Redraw), <<Focus(NoElement, First)>>)
    <3> DEFINE r == Redraw
               g == Focus(NoElement, First)
    <3> HIDE DEF S, q, r, g
    <3>1. pending \in Seq(S) /\ pending = <<r, g>>
      BY <1>2, <2>1 DEF r, g
    <3>2. pending # <<>> /\ Head(pending) = r /\ Tail(pending) = <<g>>
      BY <3>1
    <3> QED
      BY <3>1, <3>2, TellFirst DEF r, g
  <2>3. Tell(q, Redraw) = q
    BY TellsNothing DEF Redraw
  <2>4. TellAll(q, <<Focus(NoElement, First)>>) = Picture({}, NoElement, First)
    BY TellOne, TellsCapture
  <2>6. TellAll(told, pending) = Picture({}, NoElement, First)
    BY <2>1, <2>2, <2>3, <2>4
  <2> QED
    BY <2>6 DEF ApplicationInit, EventsTellAll, Picture
<1>5. CursorTicks /\ ScreenAgrees
  BY <1>0 DEF ApplicationInit, CursorTicks, ScreenAgrees
<1> QED
  BY <1>3, <1>4, <1>5 DEF ApplicationInvariant

LEMMA KeypadEventsTell ==
  ASSUME ApplicationTypes, NEW pressed \in SUBSET KeypadKeys
  PROVE  /\ KeypadEvents(pressed) \in Seq(ApplicationEvents)
         /\ TellAll(Picture(keypad, capture, selection), KeypadEvents(pressed)) =
                Picture(pressed, capture, selection)
<1> DEFINE down == KeyEvents(pressed \ keypad, "KEY_DOWN")
           up   == KeyEvents(keypad \ pressed, "KEY_UP")
           S    == ApplicationEvents
           p    == Picture(keypad, capture, selection)
           both == Picture(keypad \cup (pressed \ keypad), capture, selection)
<1>0. keypad \in SUBSET KeypadKeys
  BY DEF ApplicationTypes
<1>1. down \in Seq(KeyReports("KEY_DOWN")) /\ up \in Seq(KeyReports("KEY_UP"))
  BY <1>0, KeyEventsTyped
<1>2. KeyReports("KEY_DOWN") \subseteq S /\ KeyReports("KEY_UP") \subseteq S
  BY DEF ApplicationEvents
<1>3. TellAll(p, down) = both
  <2>1. (pressed \ keypad) \in SUBSET KeypadKeys /\ (pressed \ keypad) \cap keypad = {}
    BY <1>0
  <2> QED
    BY <1>0, <2>1, KeysDownTell
<1>4. TellAll(both, up) = Picture(pressed, capture, selection)
  <2>1. /\ (keypad \ pressed) \in SUBSET KeypadKeys
        /\ keypad \ pressed \subseteq keypad \cup (pressed \ keypad)
        /\ (keypad \cup (pressed \ keypad)) \ (keypad \ pressed) = pressed
    BY <1>0
  <2> DEFINE K == keypad \cup (pressed \ keypad)
  <2>2. TellAll(Picture(K, capture, selection), up) =
          Picture(K \ (keypad \ pressed), capture, selection)
    <3> DEFINE k == keypad \ pressed
    <3>1. k \subseteq K /\ k \in SUBSET KeypadKeys
      BY <2>1
    <3> HIDE DEF K, k
    <3>2. TellAll(Picture(K, capture, selection), KeyEvents(k, "KEY_UP")) =
            Picture(K \ k, capture, selection)
      BY <3>1, KeysUpTell
    <3> QED
      BY <3>2 DEF k
  <2> QED
    BY <2>1, <2>2
<1>5. KeypadEvents(pressed) = down \o up
  BY DEF KeypadEvents
<1> HIDE DEF down, up, S, p, both
<1>6. down \in Seq(S) /\ up \in Seq(S)
  BY <1>1, <1>2
<1>7. down \o up \in Seq(S) /\ TellAll(p, down \o up) = TellAll(TellAll(p, down), up)
  BY <1>6, ConcatProperties, TellOn
<1> QED
  BY <1>3, <1>4, <1>5, <1>7 DEF S, p

-----------------------------------------------------------------------------
(* The handlers push events.                                                *)

LEMMA PushStep ==
  ASSUME ApplicationTypes, EventsTellAll, NEW ev \in Seq(ApplicationEvents),
         pending' = Push(ev), told' = told, exhausted' = exhausted,
         TellAll(Picture(keypad, capture, selection), ev) = Picture(keypad', capture', selection')
  PROVE  pending' \in Seq(ApplicationEvents) /\ EventsTellAll'
<1>1. pending' \in Seq(ApplicationEvents)
  BY PushTells
<1>2. ASSUME ~exhausted
      PROVE  TellAll(told', pending') = Picture(keypad', capture', selection')
  BY <1>2, PushTells
<1>3. EventsTellAll'
  BY <1>2 DEF EventsTellAll, Picture
<1> QED
  BY <1>1, <1>3

LEMMA TicksOn ==
  ASSUME ApplicationTypes, CursorTicks, NEW ev \in Seq(ApplicationEvents),
         pending' = Push(ev), exhausted' = exhausted, capture' = capture,
         cursorTimers' = cursorTimers, ~Handling("TIMER_TRIGGERED")
  PROVE  CursorTicks'
<1>1. SUFFICES ASSUME capture # NoElement, ~exhausted
               PROVE  cursorTimers > 0 \/ \E i \in DOMAIN pending' : pending'[i] = Timer
  BY DEF CursorTicks, Handling
<1>2. CASE cursorTimers > 0
  BY <1>2
<1>3. CASE \E i \in DOMAIN pending : pending[i] = Timer
  <2>1. pending' = pending \o ev /\ pending \in Seq(ApplicationEvents)
    BY <1>1 DEF Push, ApplicationTypes
  <2> QED
    BY <1>3, <2>1, StillWaits
<1> QED
  BY <1>1, <1>2, <1>3 DEF CursorTicks

LEMMA TypedEvents ==
  ASSUME NEW e \in ElementOrNone, NEW f \in ElementOrNone
  PROVE  /\ Begin(e) \in ApplicationEvents /\ End(e) \in ApplicationEvents
         /\ Changed(e) \in ApplicationEvents /\ Select(e) \in ApplicationEvents
         /\ Focus(e, f) \in ApplicationEvents /\ Timer \in ApplicationEvents
BY DEF ApplicationEvents

LEMMA EnterStep ==
  ASSUME ApplicationInvariant, HandleEnter
  PROVE  ApplicationInvariant'
<1> DEFINE ev == <<Select(selection)>>
<1>1. ApplicationTypes /\ EventsTellAll /\ CursorTicks /\ ScreenAgrees
  BY DEF ApplicationInvariant
<1>2. /\ capture = NoElement /\ pending' = Push(ev)
      /\ UNCHANGED <<selection, capture, focused, cursor, cursorTimers>>
      /\ UNCHANGED <<keypad, exhausted, told>>
  BY DEF HandleEnter, Done
<1>3. ev \in Seq(ApplicationEvents)
  <2>1. selection \in ElementOrNone
    BY <1>1 DEF ApplicationTypes, ElementOrNone
  <2>2. Select(selection) \in ApplicationEvents
    BY <2>1, TypedEvents
  <2> QED
    BY <2>2
<1>4. TellAll(Picture(keypad, capture, selection), ev) = Picture(keypad, capture, selection)
  <2>1. Tell(Picture(keypad, capture, selection), Select(selection)) =
          Picture(keypad, capture, selection)
    BY TellsNothing DEF Select
  <2> QED
    BY <2>1, TellOne
<1> HIDE DEF ev
<1>5. pending' \in Seq(ApplicationEvents) /\ EventsTellAll'
  <2>1. Picture(keypad, capture, selection) = Picture(keypad', capture', selection')
    BY <1>2
  <2> QED
    BY <1>1, <1>2, <1>3, <1>4, <2>1, PushStep
<1>6. ApplicationTypes'
  BY <1>1, <1>2, <1>5 DEF ApplicationTypes
<1>7. CursorTicks' /\ ScreenAgrees'
  BY <1>1, <1>2 DEF CursorTicks, ScreenAgrees
<1> QED
  BY <1>5, <1>6, <1>7 DEF ApplicationInvariant

LEMMA ArrowStep ==
  ASSUME ApplicationInvariant, HandleArrow
  PROVE  ApplicationInvariant'
<1> DEFINE e  == Nav[selection][handling.key]
           ev == <<Focus(selection, e)>>
<1>1. ApplicationTypes /\ EventsTellAll /\ CursorTicks /\ ScreenAgrees
  BY DEF ApplicationInvariant
<1>2. /\ capture = NoElement /\ e # NoElement /\ handling.key \in Arrows
      /\ pending' = Push(ev) /\ focused' = (focused \ {selection}) \cup ({e} \ {NoElement})
      /\ selection' = e
      /\ UNCHANGED <<capture, cursor, cursorTimers>>
      /\ UNCHANGED <<keypad, exhausted, told>>
  BY DEF HandleArrow, Done, Leads, SetSelection
<1>3. e \in Elements /\ e \in ElementOrNone /\ selection \in ElementOrNone
  <2>1. selection \in Elements /\ Nav \in [Elements -> [Arrows -> Elements \cup {NoElement}]]
    BY <1>1, ApplicationAssumption DEF ApplicationTypes, ApplicationAssumption
  <2>2. Nav[selection][handling.key] \in Elements \cup {NoElement}
    BY <1>2, <2>1
  <2> QED
    BY <1>2, <2>1, <2>2 DEF ElementOrNone
<1> HIDE DEF e
<1>4. ev \in Seq(ApplicationEvents)
  <2>1. Focus(selection, e) \in ApplicationEvents
    BY <1>3, TypedEvents
  <2> QED
    BY <2>1
<1>5. TellAll(Picture(keypad, capture, selection), ev) = Picture(keypad, capture, e)
  BY TellsCapture, TellOne
<1> HIDE DEF ev
<1>6. pending' \in Seq(ApplicationEvents) /\ EventsTellAll'
  <2>1. Picture(keypad, capture, e) = Picture(keypad', capture', selection')
    BY <1>2
  <2> QED
    BY <1>1, <1>2, <1>4, <1>5, <2>1, PushStep
<1>7. ApplicationTypes'
  BY <1>1, <1>2, <1>3, <1>6 DEF ApplicationTypes
<1>8. CursorTicks'
  BY <1>2 DEF CursorTicks
<1>9. ScreenAgrees'
  BY <1>1, <1>2 DEF ScreenAgrees
<1> QED
  BY <1>6, <1>7, <1>8, <1>9 DEF ApplicationInvariant

\* What a capture that begins or ends leaves.
LEMMA CaptureStep ==
  ASSUME ApplicationInvariant, NEW e \in ElementOrNone, SetCapture(e),
         UNCHANGED <<selection, focused>>, UNCHANGED <<keypad, exhausted, told>>
  PROVE  ApplicationInvariant'
<1> DEFINE ending    == IF capture = NoElement THEN <<>> ELSE <<End(capture), Changed(capture)>>
           beginning == IF e = NoElement THEN <<>> ELSE <<Begin(e)>>
           ev        == ending \o beginning
           S         == ApplicationEvents
           p         == Picture(keypad, capture, selection)
           mid       == Picture(keypad, NoElement, selection)
           after     == Picture(keypad, e, selection)
<1>1. ApplicationTypes /\ EventsTellAll /\ CursorTicks /\ ScreenAgrees
  BY DEF ApplicationInvariant
<1>2. /\ pending' = Push(ev)
      /\ cursor' = [f \in Fields |-> cursor[f] /\ f # capture]
      /\ cursorTimers' = IF e = NoElement \/ exhausted THEN cursorTimers ELSE cursorTimers + 1
      /\ capture' = e
  BY DEF SetCapture
<1>3. ending \in Seq(S) /\ TellAll(p, ending) = mid
  <2>1. CASE capture = NoElement
    <3>1. ending = <<>>
      BY <2>1
    <3>2. <<>> \in Seq(S) /\ p = mid
      BY <2>1, EmptySeq
    <3> QED
      BY <3>1, <3>2, TellNone
  <2>2. CASE capture # NoElement
    <3> DEFINE r == End(capture)
               g == Changed(capture)
    <3>1. r \in S /\ g \in S
      BY <1>1, TypedEvents DEF ApplicationTypes
    <3>2. Tell(p, r) = mid /\ Tell(mid, g) = mid
      <4>1. Tell(p, r) = mid
        BY TellsCapture
      <4>2. Tell(mid, g) = mid
        BY TellsNothing DEF Changed
      <4> QED
        BY <4>1, <4>2
    <3>3. ending = <<r, g>>
      BY <2>2
    <3> HIDE DEF r, g, ending, S, p, mid
    <3>4. ending \in Seq(S) /\ ending # <<>> /\ Head(ending) = r /\ Tail(ending) = <<g>>
      BY <3>1, <3>3
    <3> QED
      BY ZenonT(90), <3>2, <3>4, TellFirst, TellOne
  <2> QED
    BY <2>1, <2>2
<1>4. beginning \in Seq(S) /\ TellAll(mid, beginning) = after
  <2>1. CASE e = NoElement
    <3>1. beginning = <<>>
      BY <2>1
    <3>2. <<>> \in Seq(S) /\ after = mid
      BY <2>1, EmptySeq
    <3> QED
      BY <3>1, <3>2, TellNone
  <2>2. CASE e # NoElement
    <3>1. beginning = <<Begin(e)>>
      BY <2>2
    <3>2. Begin(e) \in S
      BY TypedEvents
    <3>3. <<Begin(e)>> \in Seq(S)
      BY <3>2
    <3>4. Tell(mid, Begin(e)) = after
      BY TellsCapture
    <3> HIDE DEF beginning, mid, after
    <3> QED
      BY <3>1, <3>3, <3>4, TellOne
  <2> QED
    BY <2>1, <2>2
<1>5. ev \in Seq(S) /\ TellAll(p, ev) = after
  <2> HIDE DEF ending, beginning, S, p, mid, after
  <2>1. ev \in Seq(S)
    BY <1>3, <1>4, ConcatProperties
  <2>2. TellAll(p, ev) = TellAll(TellAll(p, ending), beginning)
    BY <1>3, <1>4, TellOn
  <2> QED
    BY <1>3, <1>4, <2>1, <2>2
<1> HIDE DEF ev, ending, beginning
<1>6. pending' \in Seq(ApplicationEvents) /\ EventsTellAll'
  <2>1. after = Picture(keypad', capture', selection')
    BY <1>2
  <2> QED
    BY <1>1, <1>2, <1>5, <2>1, PushStep
<1>7. ApplicationTypes'
  <2>1. cursor' \in [Fields -> BOOLEAN]
    BY <1>2
  <2>2. cursorTimers' \in Nat
    BY <1>1, <1>2 DEF ApplicationTypes
  <2> QED
    BY <1>1, <1>2, <1>6, <2>1, <2>2 DEF ApplicationTypes
<1>8. CursorTicks'
  <2>1. capture' # NoElement /\ ~exhausted' => cursorTimers' > 0
    BY <1>1, <1>2 DEF ApplicationTypes
  <2> QED
    BY <2>1 DEF CursorTicks
<1>9. ScreenAgrees'
  <2>1. \A f \in Fields : cursor'[f] = (cursor[f] /\ f # capture)
    BY <1>2
  <2>2. \A f \in Fields : ~cursor'[f]
    BY <1>1, <2>1 DEF ScreenAgrees
  <2> QED
    BY <1>1, <2>2 DEF ScreenAgrees
<1> QED
  BY <1>6, <1>7, <1>8, <1>9 DEF ApplicationInvariant

LEMMA TimerStep ==
  ASSUME ApplicationInvariant, HandleTimer
  PROVE  ApplicationInvariant'
<1>1. ApplicationTypes /\ EventsTellAll /\ CursorTicks /\ ScreenAgrees
  BY DEF ApplicationInvariant
<1>2. /\ capture # NoElement
      /\ cursor' = [cursor EXCEPT ![capture] = ~@]
      /\ cursorTimers' = IF exhausted THEN cursorTimers ELSE cursorTimers + 1
      /\ UNCHANGED <<pending, selection, capture, focused>>
      /\ UNCHANGED <<keypad, exhausted, told>>
  BY DEF HandleTimer, Done
<1>3. ApplicationTypes'
  <2>1. cursor' \in [Fields -> BOOLEAN]
    <3>1. cursor \in [Fields -> BOOLEAN]
      BY <1>1 DEF ApplicationTypes
    <3>2. (~cursor[capture]) \in BOOLEAN
      OBVIOUS
    <3> QED
      BY <1>2, <3>1, <3>2
  <2>2. cursorTimers' \in Nat
    BY <1>1, <1>2 DEF ApplicationTypes
  <2> QED
    BY <1>1, <1>2, <2>1, <2>2 DEF ApplicationTypes
<1>4. EventsTellAll'
  BY <1>1, <1>2 DEF EventsTellAll
<1>5. CursorTicks'
  BY <1>1, <1>2 DEF ApplicationTypes, CursorTicks
<1>6. ScreenAgrees'
  <2>1. \A f \in Fields : f # capture => cursor'[f] = cursor[f]
    BY <1>1, <1>2 DEF ApplicationTypes
  <2> QED
    BY <1>1, <1>2, <2>1 DEF ScreenAgrees
<1> QED
  BY <1>3, <1>4, <1>5, <1>6 DEF ApplicationInvariant

LEMMA OtherStep ==
  ASSUME ApplicationInvariant, HandleOther
  PROVE  ApplicationInvariant'
<1>1. ApplicationTypes /\ EventsTellAll /\ CursorTicks /\ ScreenAgrees
  BY DEF ApplicationInvariant
<1>2. /\ UNCHANGED <<pending, selection, capture, focused, cursor, cursorTimers>>
      /\ UNCHANGED <<keypad, exhausted, told>>
      /\ Handling("TIMER_TRIGGERED") => capture = NoElement
  BY DEF HandleOther, Done, Handling
<1>3. ApplicationTypes' /\ EventsTellAll' /\ ScreenAgrees'
  BY <1>1, <1>2 DEF ApplicationTypes, EventsTellAll, ScreenAgrees
<1>4. CursorTicks'
  BY <1>1, <1>2 DEF CursorTicks
<1> QED
  BY <1>3, <1>4 DEF ApplicationInvariant

-----------------------------------------------------------------------------
(* The next event, and the theorems.                                        *)

LEMMA CapturedEnterStep ==
  ASSUME ApplicationInvariant, HandleCapturedEnter
  PROVE  ApplicationInvariant'
<1>1. NoElement \in ElementOrNone
  BY DEF ElementOrNone
<1>2. /\ SetCapture(NoElement)
      /\ UNCHANGED <<selection, focused>> /\ UNCHANGED <<keypad, exhausted, told>>
  BY DEF HandleCapturedEnter, Done
<1> QED
  BY <1>1, <1>2, CaptureStep

LEMMA SelectStep ==
  ASSUME ApplicationInvariant, HandleSelect
  PROVE  ApplicationInvariant'
<1>1. handling.element \in ElementOrNone
  BY ApplicationAssumption DEF ApplicationAssumption, ElementOrNone, HandleSelect
<1>2. /\ SetCapture(handling.element)
      /\ UNCHANGED <<selection, focused>> /\ UNCHANGED <<keypad, exhausted, told>>
  BY DEF HandleSelect, Done
<1> QED
  BY <1>1, <1>2, CaptureStep

LEMMA NextEventStep ==
  ASSUME ApplicationInvariant, NEW pressed \in SUBSET KeypadKeys, NEW expired \in BOOLEAN,
         GetNextEvent(pressed, expired)
  PROVE  ApplicationInvariant'
<1> DEFINE keys   == KeypadEvents(pressed)
           timer  == TimerEvents(expired)
           news   == keys \o timer
           events == Push(news)
           S      == ApplicationEvents
           p      == Picture(keypad, capture, selection)
           after  == Picture(pressed, capture, selection)
<1>1. ApplicationTypes /\ EventsTellAll /\ CursorTicks /\ ScreenAgrees
  BY DEF ApplicationInvariant
<1>2. /\ handling = Nothing /\ (expired => cursorTimers > 0)
      /\ events # <<>> /\ keypad' = pressed
      /\ cursorTimers' = cursorTimers - Len(timer)
      /\ pending' = Tail(events) /\ handling' = Head(events)
      /\ told' = Tell(told, Head(events))
      /\ UNCHANGED <<selection, capture, focused, cursor, exhausted>>
  BY DEF GetNextEvent
<1>3. keys \in Seq(S) /\ TellAll(p, keys) = after
  BY <1>1, KeypadEventsTell
<1>4. timer \in Seq(S) /\ TellAll(after, timer) = after
  <2>1. CASE expired /\ ~exhausted
    <3>1. timer = <<Timer>>
      BY <2>1 DEF TimerEvents
    <3>2. Timer \in S
      BY DEF ApplicationEvents
    <3>3. <<Timer>> \in Seq(S)
      BY <3>2
    <3>4. Tell(after, Timer) = after
      BY TellsNothing DEF Timer
    <3> HIDE DEF S, after, timer
    <3> QED
      BY <3>1, <3>3, <3>4, TellOne
  <2>2. CASE ~(expired /\ ~exhausted)
    <3>1. timer = <<>>
      BY <2>2 DEF TimerEvents
    <3>2. <<>> \in Seq(S)
      BY EmptySeq
    <3> HIDE DEF S, after, timer
    <3> QED
      BY <3>1, <3>2, TellNone
  <2> QED
    BY <2>1, <2>2
<1>5. /\ expired /\ ~exhausted => timer = <<Timer>> /\ Len(timer) = 1
      /\ ~(expired /\ ~exhausted) => Len(timer) = 0
  BY DEF TimerEvents
<1> HIDE DEF keys, timer, p, after
<1>6. news \in Seq(S) /\ TellAll(p, news) = after
  <2> HIDE DEF S
  <2>1. news \in Seq(S)
    BY <1>3, <1>4, ConcatProperties
  <2>2. TellAll(p, news) = TellAll(TellAll(p, keys), timer)
    BY <1>3, <1>4, TellOn
  <2> QED
    BY <1>3, <1>4, <2>1, <2>2
<1> HIDE DEF news
<1>7. events \in Seq(S) /\ (~exhausted => TellAll(told, events) = after)
  BY <1>1, <1>6, PushTells DEF p
<1>8. ~exhausted => events = pending \o news
  BY DEF Push
<1> HIDE DEF events, S
<1>9. /\ Tail(events) \in Seq(S) /\ Len(events) \in Nat \ {0} /\ DOMAIN events = 1 .. Len(events)
      /\ Head(events) = events[1]
      /\ Len(Tail(events)) = Len(events) - 1 /\ DOMAIN Tail(events) = 1 .. Len(Tail(events))
      /\ \A i \in 1 .. Len(Tail(events)) : Tail(events)[i] = events[i + 1]
  BY <1>2, <1>7, HeadTailProperties, LenProperties, EmptySeq
<1>10. EventsTellAll'
  <2>1. ASSUME ~exhausted
        PROVE  TellAll(told', pending') = after
    BY <1>2, <1>7, <2>1, TellFirst
  <2> QED
    BY <1>2, <2>1 DEF EventsTellAll, Picture, after
<1>11. cursorTimers' \in Nat
  <2>1. cursorTimers \in Nat /\ cursorTimers' = cursorTimers - Len(timer)
    BY <1>1, <1>2 DEF ApplicationTypes
  <2>2. Len(timer) = 0 \/ (cursorTimers > 0 /\ Len(timer) = 1)
    BY <1>2, <1>5
  <2> QED
    BY <2>1, <2>2
<1>12. ApplicationTypes'
  BY <1>1, <1>2, <1>9, <1>11 DEF ApplicationTypes, S
<1>13. CursorTicks'
  <2>1. SUFFICES ASSUME capture # NoElement, ~exhausted
                 PROVE  \/ cursorTimers' > 0
                        \/ handling'.type = "TIMER_TRIGGERED"
                        \/ \E i \in DOMAIN pending' : pending'[i] = Timer
    BY <1>2 DEF CursorTicks, Handling
  <2>2. CASE \E i \in DOMAIN events : events[i] = Timer
    <3>1. PICK i \in DOMAIN events : events[i] = Timer
      BY <2>2
    <3>2. CASE i = 1
      <4>1. handling' = Timer
        BY <1>2, <1>9, <3>1, <3>2
      <4> QED
        BY <4>1 DEF Timer
    <3>3. CASE i # 1
      <4>1. i - 1 \in DOMAIN Tail(events) /\ i - 1 \in 1 .. Len(Tail(events)) /\ (i - 1) + 1 = i
        BY <1>9, <3>1, <3>3
      <4>2. Tail(events)[i - 1] = Timer
        BY <1>9, <3>1, <4>1
      <4> QED
        BY <1>2, <4>1, <4>2
    <3> QED
      BY <3>2, <3>3
  <2>3. CASE expired
    <3>1. timer \in Seq(S) /\ keys \in Seq(S) /\ pending \in Seq(S) /\ news \in Seq(S)
      BY <1>1, <1>3, <1>4, <1>6 DEF ApplicationTypes, S
    <3>2. \E i \in DOMAIN timer : timer[i] = Timer
      <4>1. timer = <<Timer>>
        BY <1>5, <2>1, <2>3
      <4>2. 1 \in DOMAIN <<Timer>> /\ <<Timer>>[1] = Timer
        OBVIOUS
      <4> QED
        BY <4>1, <4>2
    <3>3. \E i \in DOMAIN news : news[i] = Timer
      BY <3>1, <3>2, StillWaits DEF news
    <3>4. \E i \in DOMAIN events : events[i] = Timer
      BY <1>8, <2>1, <3>1, <3>3, StillWaits
    <3> QED
      BY <2>2, <3>4
  <2>4. CASE ~expired
    <3>1. cursorTimers' = cursorTimers
      BY <1>1, <1>2, <1>5, <2>4 DEF ApplicationTypes
    <3>2. handling.type # "TIMER_TRIGGERED"
      <4>1. handling = Nothing
        BY <1>2
      <4>2. Nothing.type = "NONE"
        BY DEF Nothing
      <4> QED
        BY <4>1, <4>2
    <3>3. cursorTimers > 0 \/ \E i \in DOMAIN pending : pending[i] = Timer
      BY <1>1, <2>1, <3>2 DEF CursorTicks, Handling
    <3>4. CASE \E i \in DOMAIN pending : pending[i] = Timer
      <4>1. pending \in Seq(S) /\ news \in Seq(S)
        BY <1>1, <1>6 DEF ApplicationTypes, S
      <4>2. \E i \in DOMAIN events : events[i] = Timer
        BY <1>8, <2>1, <3>4, <4>1, StillWaits
      <4> QED
        BY <2>2, <4>2
    <3> QED
      BY <3>1, <3>3, <3>4
  <2> QED
    BY <2>3, <2>4
<1>14. ScreenAgrees'
  BY <1>1, <1>2 DEF ScreenAgrees
<1> QED
  BY <1>10, <1>12, <1>13, <1>14 DEF ApplicationInvariant

LEMMA NoEventStep ==
  ASSUME ApplicationInvariant, NEW pressed \in SUBSET KeypadKeys, NoEventYet(pressed)
  PROVE  ApplicationInvariant'
<1>1. ApplicationTypes /\ EventsTellAll /\ CursorTicks /\ ScreenAgrees
  BY DEF ApplicationInvariant
<1>2. /\ pressed = keypad \/ exhausted
      /\ keypad' = pressed
      /\ UNCHANGED <<pending, handling, selection, capture, focused, cursor,
                     cursorTimers, exhausted, told>>
  BY DEF NoEventYet
<1>3. ApplicationTypes'
  BY <1>1, <1>2 DEF ApplicationTypes
<1>4. EventsTellAll'
  BY <1>1, <1>2 DEF EventsTellAll
<1>5. CursorTicks' /\ ScreenAgrees'
  BY <1>1, <1>2 DEF CursorTicks, ScreenAgrees, Handling
<1> QED
  BY <1>3, <1>4, <1>5 DEF ApplicationInvariant

LEMMA ExhaustedStep ==
  ASSUME ApplicationInvariant, HeapExhausted
  PROVE  ApplicationInvariant'
<1>1. ApplicationTypes /\ EventsTellAll /\ CursorTicks /\ ScreenAgrees
  BY DEF ApplicationInvariant
<1>2. /\ exhausted' = TRUE
      /\ UNCHANGED <<keypad, pending, handling, selection, capture, focused, cursor,
                     cursorTimers, told>>
  BY DEF HeapExhausted
<1> QED
  BY <1>1, <1>2 DEF ApplicationInvariant, ApplicationTypes, EventsTellAll, CursorTicks,
     ScreenAgrees

LEMMA ApplicationSteps ==
  ASSUME ApplicationInvariant, [ApplicationNext]_applicationVars
  PROVE  ApplicationInvariant'
<1>1. CASE \E pressed \in SUBSET KeypadKeys, expired \in BOOLEAN : GetNextEvent(pressed, expired)
  BY <1>1, NextEventStep
<1>2. CASE \E pressed \in SUBSET KeypadKeys : NoEventYet(pressed)
  BY <1>2, NoEventStep
<1>3. CASE Handle
  BY <1>3, EnterStep, ArrowStep, CapturedEnterStep, SelectStep, TimerStep, OtherStep DEF Handle
<1>4. CASE HeapExhausted
  BY <1>4, ExhaustedStep
<1>5. CASE UNCHANGED applicationVars
  BY <1>5 DEF applicationVars, ApplicationInvariant, ApplicationTypes, EventsTellAll, CursorTicks,
     ScreenAgrees, Handling
<1> QED
  BY <1>1, <1>2, <1>3, <1>4, <1>5 DEF ApplicationNext

\* The inductive invariant of the event loop.
THEOREM ApplicationCorrect == ApplicationSpec => []ApplicationInvariant
<1>1. ApplicationInit => ApplicationInvariant
  BY ApplicationStarts
<1>2. ApplicationInvariant /\ [ApplicationNext]_applicationVars => ApplicationInvariant'
  BY ApplicationSteps
<1> QED
  BY <1>1, <1>2, PTL DEF ApplicationSpec

\* What the events handed out tell is what happened, and with those that wait
\* it is all that happened: none is lost, invented or out of order.
THEOREM EventsAreTrue == ApplicationSpec => []EventsTellAll
<1>1. ApplicationInvariant => EventsTellAll
  BY DEF ApplicationInvariant
<1> QED
  BY <1>1, ApplicationCorrect, PTL

\* The cursor of the element that captures input goes on blinking.
THEOREM CursorGoesOn == ApplicationSpec => []CursorTicks
<1>1. ApplicationInvariant => CursorTicks
  BY DEF ApplicationInvariant
<1> QED
  BY <1>1, ApplicationCorrect, PTL

\* What is drawn is the library's state, with or without memory left.
THEOREM ScreenIsRight == ApplicationSpec => []ScreenAgrees
<1>1. ApplicationInvariant => ScreenAgrees
  BY DEF ApplicationInvariant
<1> QED
  BY <1>1, ApplicationCorrect, PTL

-----------------------------------------------------------------------------
(* Numbers of the fields.                                                   *)

LEMMA HalfPositive == Half \in Nat \ {0}
<1>1. Width - 1 \in Nat
  BY FieldAssumption DEF FieldAssumption
<1>2. Half \in Int
  BY <1>1 DEF Half
<1>3. -Half < Half
  <2>1. IntMin \in -Half .. Half - 1
    BY FieldAssumption DEF FieldAssumption
  <2> QED
    BY <1>2, <2>1
<1> QED
  BY <1>2, <1>3

LEMMA WrapTyped ==
  ASSUME NEW v \in Int
  PROVE  Wrap(v) \in -Half .. Half - 1
<1>1. Half \in Nat \ {0}
  BY HalfPositive
<1>2. (v + Half) % (2 * Half) \in 0 .. 2 * Half - 1
  BY <1>1
<1> QED
  BY <1>1, <1>2 DEF Wrap

LEMMA QuotientTyped ==
  ASSUME NEW v \in Int
  PROVE  Quotient(v, 10) \in Int
BY DEF Quotient

LEMMA ValueTyped ==
  ASSUME NEW c \in Int, NEW m \in -2 .. 2
  PROVE  Value(c, m) \in Int
<1>1. Kilo \in Nat
  BY FieldAssumption DEF FieldAssumption
<1>2. Kilo * Kilo \in Nat
  BY <1>1
<1>3. Kilo * Kilo * Kilo \in Nat
  BY <1>1, <1>2
<1>4. Kilo * Kilo * Kilo * Kilo \in Nat
  BY <1>1, <1>3
<1>5. Magnitudes[m + 3] \in Nat
  <2> DEFINE a == Kilo * Kilo
             b == Kilo * Kilo * Kilo
             d == Kilo * Kilo * Kilo * Kilo
  <2>1. Magnitudes = <<1, Kilo, a, b, d>>
    BY DEF Magnitudes
  <2>2. a \in Nat /\ b \in Nat /\ d \in Nat
    BY <1>2, <1>3, <1>4
  <2>3. m + 3 \in 1 .. 5
    OBVIOUS
  <2> HIDE DEF a, b, d
  <2>4. \A i \in 1 .. 5 : <<1, Kilo, a, b, d>>[i] \in Nat
    BY <1>1, <2>2
  <2> QED
    BY <2>1, <2>3, <2>4
<1> DEFINE factor == Magnitudes[m + 3]
<1> HIDE DEF factor
<1>6. c * factor \in Int
  BY <1>5 DEF factor
<1> QED
  BY <1>6 DEF Value, factor

LEMMA UnitTyped == Unit \in Int
BY FieldAssumption DEF FieldAssumption, Unit

LEMMA TrueTyped ==
  ASSUME NEW limit \in Limit
  PROVE  True(limit) \in Int
<1>1. limit.coefficient \in Int /\ limit.magnitude \in -2 .. 2
  BY DEF Limit
<1> QED
  BY <1>1, ValueTyped DEF True

-----------------------------------------------------------------------------
(* The invariant of the fields.                                             *)

Characters == 0 .. 9 \cup {Dot, Nul}

Buffers == [1 .. TextSize -> Characters]

FloatFields ==
    [coefficient : Int, magnitude : -2 .. 2, weight : Int, text : Buffers, len : Nat,
     changed : BOOLEAN, output : Int]

\* The limits whose text and Nul have room in a field.
Fitting == {limit \in Limit : Len(limit.text) < TextSize}

FieldTypes ==
    /\ kind \in {"int", "float"} /\ captured \in BOOLEAN /\ restored \in BOOLEAN
    /\ int \in [value : Int, cleared : BOOLEAN]
    /\ float \in FloatFields
    /\ limits \in [minimum : Fitting, maximum : Fitting, default : Fitting]
    /\ True(limits.minimum) <= True(limits.maximum)

FieldInvariant == FieldTypes /\ ReadInRange /\ TextInBuffer /\ ValueIsRead

\* A text that ends before the buffer does.
TextFits(f) == f.len < TextSize /\ f.text[TextSize] = Nul

LEMMA Sizes == TextSize \in Nat /\ MaxInputLen \in Nat /\ MaxInputLen < TextSize
BY FieldAssumption DEF FieldAssumption

LEMMA RangesTyped ==
  ASSUME NEW r \in Ranges
  PROVE  /\ r[1] \in Fitting /\ r[2] \in Fitting
         /\ True(r[1]) \in Int /\ True(r[2]) \in Int /\ True(r[1]) <= True(r[2])
<1>1. /\ r \in Limit \X Limit /\ True(r[1]) <= True(r[2])
      /\ Len(r[1].text) < TextSize /\ Len(r[2].text) < TextSize
  BY FieldAssumption DEF FieldAssumption
<1>2. r[1] \in Limit /\ r[2] \in Limit
  BY <1>1
<1> QED
  BY <1>1, <1>2, TrueTyped DEF Fitting

LEMMA DefaultsTyped ==
  ASSUME NEW d \in Defaults
  PROVE  d \in Fitting /\ True(d) \in Int
BY TrueTyped, FieldAssumption DEF FieldAssumption, Fitting

\* A limit with the weight of another.
LEMMA WeightKept ==
  ASSUME NEW limit \in Fitting, NEW weight \in Nat
  PROVE  /\ [limit EXCEPT !.weight = weight] \in Fitting
         /\ True([limit EXCEPT !.weight = weight]) = True(limit)
<1> DEFINE g == [limit EXCEPT !.weight = weight]
<1>1. limit \in Limit /\ Len(limit.text) < TextSize
  BY DEF Fitting
<1>2. /\ g \in Limit /\ g.text = limit.text
      /\ g.coefficient = limit.coefficient /\ g.magnitude = limit.magnitude
  BY <1>1 DEF Limit
<1> QED
  BY <1>1, <1>2 DEF Fitting, True

LEMMA StrcpyTyped ==
  ASSUME NEW text \in Buffers, NEW from \in Seq(0 .. 9 \cup {Dot}), Len(from) < TextSize
  PROVE  /\ Strcpy(text, from) \in Buffers
         /\ text[TextSize] = Nul => Strcpy(text, from)[TextSize] = Nul
<1>1. Len(from) \in Nat /\ TextSize \in Nat /\ TextSize \in 1 .. TextSize
  BY Sizes, LenProperties
<1>2. \A i \in 1 .. TextSize : i <= Len(from) => from[i] \in Characters
  BY <1>1 DEF Characters
<1>3. Strcpy(text, from) \in Buffers
  BY <1>1, <1>2 DEF Strcpy, Buffers, Characters
<1>4. Strcpy(text, from)[TextSize] = IF TextSize = Len(from) + 1 THEN Nul ELSE text[TextSize]
  BY <1>1 DEF Strcpy
<1> QED
  BY <1>3, <1>4

LEMMA PutTyped ==
  ASSUME NEW f \in FloatFields, TextFits(f), NEW limit \in Fitting
  PROVE  /\ Put(f, limit) \in FloatFields
         /\ Put(f, limit).coefficient = limit.coefficient
         /\ Put(f, limit).magnitude = limit.magnitude
         /\ Put(f, limit).output = f.output
         /\ TextFits(Put(f, limit))
<1>1. /\ limit.coefficient \in Int /\ limit.magnitude \in -2 .. 2 /\ limit.weight \in Int
      /\ limit.text \in Seq(0 .. 9 \cup {Dot}) /\ Len(limit.text) < TextSize
  BY DEF Fitting, Limit
<1>2. Len(limit.text) \in Nat
  BY <1>1, LenProperties
<1> DEFINE t == Strcpy(f.text, limit.text)
<1>3. t \in Buffers /\ t[TextSize] = Nul
  BY <1>1, StrcpyTyped DEF FloatFields, TextFits
<1>4. Put(f, limit) = [f EXCEPT !.coefficient = limit.coefficient, !.magnitude = limit.magnitude,
                                !.weight = limit.weight, !.text = t, !.len = Len(limit.text)]
  BY DEF Put, FloatFields
<1> HIDE DEF t
<1>5. /\ Put(f, limit) \in FloatFields
      /\ Put(f, limit).coefficient = limit.coefficient
      /\ Put(f, limit).magnitude = limit.magnitude
      /\ Put(f, limit).output = f.output
      /\ Put(f, limit).text = t /\ Put(f, limit).len = Len(limit.text)
  BY <1>1, <1>2, <1>3, <1>4 DEF FloatFields
<1> QED
  BY <1>1, <1>3, <1>5 DEF TextFits

-----------------------------------------------------------------------------
(* The keys of a float field.                                               *)

LEMMA FloatKeyStep ==
  ASSUME FieldInvariant, NEW f \in FloatFields, FloatKey(f), f.output = float.output, TextFits(f)
  PROVE  FieldInvariant'
<1>1. FieldTypes /\ ReadInRange
  BY DEF FieldInvariant
<1>2. /\ kind = "float" /\ captured /\ float' = f
      /\ UNCHANGED <<kind, captured, int, limits, restored>>
  BY DEF FloatKey
<1>3. FieldTypes'
  BY <1>1, <1>2 DEF FieldTypes
<1>4. ReadInRange'
  BY <1>1, <1>2 DEF ReadInRange
<1>5. TextInBuffer'
  <2>1. f.magnitude \in -2 .. 2 /\ DOMAIN f.text = 1 .. TextSize
    BY DEF FloatFields, Buffers
  <2> QED
    BY <1>2, <2>1 DEF TextInBuffer, TextFits
<1>6. ValueIsRead'
  BY <1>1, <1>2 DEF FieldTypes, ValueIsRead
<1> QED
  BY <1>3, <1>4, <1>5, <1>6 DEF FieldInvariant

\* What an invariant's field offers a key.
LEMMA FloatHas ==
  ASSUME FieldInvariant
  PROVE  /\ float \in FloatFields /\ TextFits(float)
         /\ float.text \in Buffers /\ float.len \in Nat /\ float.weight \in Int
         /\ float.magnitude \in -2 .. 2 /\ float.coefficient \in Int
         /\ limits.default.magnitude \in -2 .. 2
<1>1. float \in FloatFields /\ limits.default \in Limit
  BY DEF FieldInvariant, FieldTypes, Fitting
<1>2. TextFits(float)
  BY DEF FieldInvariant, TextInBuffer, TextFits
<1>3. /\ float.text \in Buffers /\ float.len \in Nat /\ float.weight \in Int
      /\ float.magnitude \in -2 .. 2 /\ float.coefficient \in Int
  BY <1>1 DEF FloatFields
<1>4. limits.default.magnitude \in -2 .. 2
  BY <1>1 DEF Limit
<1> QED
  BY <1>1, <1>2, <1>3, <1>4

\* A character written in front of the buffer's last place.
LEMMA WriteOne ==
  ASSUME FieldInvariant, NEW n \in 1 .. TextSize - 1, NEW c \in Characters
  PROVE  /\ [float.text EXCEPT ![n] = c] \in Buffers
         /\ [float.text EXCEPT ![n] = c][TextSize] = Nul
<1>1. float.text \in Buffers /\ float.text[TextSize] = Nul
  BY FloatHas DEF TextFits
<1>2. TextSize \in Nat /\ n # TextSize
  BY Sizes
<1> QED
  BY <1>1, <1>2 DEF Buffers

LEMMA PlusMinusStep ==
  ASSUME FieldInvariant, FloatPlusMinus
  PROVE  FieldInvariant'
<1> DEFINE g == IF float.changed THEN [float EXCEPT !.magnitude = -@]
                                 ELSE [float EXCEPT !.coefficient = -@]
           f == Typed(g)
<1>1. /\ float \in FloatFields /\ TextFits(float)
      /\ float.magnitude \in -2 .. 2 /\ float.coefficient \in Int
  BY FloatHas
<1>2. -float.magnitude \in -2 .. 2 /\ -float.coefficient \in Int
  BY <1>1
<1>3. g \in FloatFields /\ g.text = float.text /\ g.len = float.len /\ g.output = float.output
  <2>1. CASE float.changed
    BY <1>1, <1>2, <2>1 DEF FloatFields
  <2>2. CASE ~float.changed
    BY <1>1, <1>2, <2>2 DEF FloatFields
  <2> QED
    BY <2>1, <2>2
<1> HIDE DEF g
<1>4. f \in FloatFields /\ f.text = float.text /\ f.len = float.len /\ f.output = float.output
  BY <1>3 DEF Typed, FloatFields
<1>5. FloatKey(f)
  BY DEF FloatPlusMinus, g
<1> HIDE DEF f
<1> QED
  BY <1>1, <1>4, <1>5, FloatKeyStep DEF TextFits

LEMMA ClearedTyped ==
  ASSUME FieldInvariant, NEW f \in FloatFields
  PROVE  /\ Cleared(f) \in FloatFields /\ Cleared(f).output = f.output
         /\ Cleared(f).text = f.text /\ Cleared(f).len = 0
<1> DEFINE m == IF AllowMagnitude THEN 0 ELSE limits.default.magnitude
<1>1. m \in -2 .. 2
  BY FloatHas
<1>2. Cleared(f) = [f EXCEPT !.magnitude = m, !.len = 0]
  BY DEF Cleared
<1> HIDE DEF m
<1>3. 0 \in Nat
  OBVIOUS
<1> QED
  BY <1>1, <1>2, <1>3 DEF FloatFields

LEMMA TypedTyped ==
  ASSUME NEW f \in FloatFields
  PROVE  /\ Typed(f) \in FloatFields /\ Typed(f).output = f.output
         /\ Typed(f).text = f.text /\ Typed(f).len = f.len
BY DEF Typed, FloatFields

LEMMA ClrStep ==
  ASSUME FieldInvariant, FloatClr
  PROVE  FieldInvariant'
<1> DEFINE g == Cleared(float)
           h == [g EXCEPT !.weight = Unit, !.coefficient = 0, !.text = Blank]
           f == Typed(h)
<1>1. FloatKey(f)
  BY DEF FloatClr
<1>2. g \in FloatFields /\ g.output = float.output /\ g.len = 0
  BY FloatHas, ClearedTyped
<1>3. Blank \in Buffers /\ Blank[TextSize] = Nul /\ 0 < TextSize
  BY Sizes DEF Blank, Buffers, Characters
<1>4. Unit \in Int
  BY UnitTyped
<1> DEFINE zero == 0
<1>5. h = [g EXCEPT !.weight = Unit, !.coefficient = zero, !.text = Blank] /\ zero \in Int
  OBVIOUS
<1> HIDE DEF g, h, zero
<1>6. h \in FloatFields /\ h.text = Blank /\ h.len = 0 /\ h.output = float.output
  BY <1>2, <1>3, <1>4, <1>5 DEF FloatFields
<1>7. f \in FloatFields /\ f.text = Blank /\ f.len = 0 /\ f.output = float.output
  BY <1>6, TypedTyped
<1> HIDE DEF f
<1> QED
  BY <1>1, <1>3, <1>7, FloatKeyStep DEF TextFits

LEMMA DelPointStep ==
  ASSUME FieldInvariant, FloatDelPoint
  PROVE  FieldInvariant'
<1> DEFINE n == float.len
           t == [float.text EXCEPT ![n] = Nul]
           g == [float EXCEPT !.len = n - 1, !.weight = Unit, !.text = t]
           f == Typed(g)
<1>1. float \in FloatFields /\ n \in Nat /\ n > 0 /\ n < TextSize /\ TextSize \in Nat
  BY FloatHas, Sizes DEF FloatDelPoint, TextFits
<1>2. FloatKey(Typed([float EXCEPT !.len = @ - 1, !.weight = Unit, !.text[float.len] = Nul]))
  BY DEF FloatDelPoint
<1>3. [float EXCEPT !.len = @ - 1, !.weight = Unit, !.text[float.len] = Nul] = g
  BY <1>1 DEF FloatFields
<1>4. t \in Buffers /\ t[TextSize] = Nul
  <2>1. n \in 1 .. TextSize - 1 /\ Nul \in Characters
    BY <1>1 DEF Characters
  <2> QED
    BY <2>1, WriteOne
<1>5. n - 1 \in Nat /\ n - 1 < TextSize
  BY <1>1
<1> HIDE DEF t, n
<1>6. g \in FloatFields /\ g.text = t /\ g.len = n - 1 /\ g.output = float.output
  BY <1>1, <1>4, <1>5, UnitTyped DEF FloatFields
<1> HIDE DEF g
<1>7. f \in FloatFields /\ f.text = t /\ f.len = n - 1 /\ f.output = float.output
  BY <1>6, TypedTyped
<1>8. FloatKey(f)
  BY <1>2, <1>3
<1> HIDE DEF f
<1> QED
  BY <1>4, <1>5, <1>7, <1>8, FloatKeyStep DEF TextFits

LEMMA DelDigitStep ==
  ASSUME FieldInvariant, FloatDelDigit
  PROVE  FieldInvariant'
<1> DEFINE n      == float.len
           weight == IF float.weight < Unit THEN float.weight * 10 ELSE float.weight
           last   == float.text[float.len] * (IF float.weight < Unit THEN weight ELSE Unit)
           rest   == IF float.coefficient < 0 THEN float.coefficient + last
                                              ELSE float.coefficient - last
           left   == IF weight = Unit THEN Quotient(rest, 10) ELSE rest
           t      == [float.text EXCEPT ![n] = Nul]
           g      == [float EXCEPT !.len = n - 1, !.weight = weight, !.coefficient = left,
                                   !.text = t]
           h      == IF left = 0 THEN Cleared(g) ELSE g
           f      == Typed(h)
<1>1. /\ float \in FloatFields /\ n \in Nat /\ n > 0 /\ n < TextSize /\ TextSize \in Nat
      /\ float.weight \in Int
  BY FloatHas, Sizes DEF FloatDelDigit, TextFits
<1>2. FloatKey(f)
  <2>1. [float EXCEPT !.len = @ - 1, !.weight = weight, !.coefficient = left,
                      !.text[float.len] = Nul] = g
    <3> HIDE DEF left, weight
    <3> QED
      BY <1>1 DEF FloatFields
  <2> QED
    BY <2>1 DEF FloatDelDigit
<1>3. t \in Buffers /\ t[TextSize] = Nul
  <2>1. n \in 1 .. TextSize - 1 /\ Nul \in Characters
    BY <1>1 DEF Characters
  <2> QED
    BY <2>1, WriteOne
<1>4. n - 1 \in Nat /\ n - 1 < TextSize /\ weight \in Int
  BY <1>1
<1> HIDE DEF left, weight, t, n
<1>5. f.coefficient \in Int
  BY SMTT(40), <1>2, FieldAssumption DEF FieldAssumption, FloatKey
<1>6. g.coefficient = left
  BY <1>1 DEF FloatFields
<1>7. left \in Int
  <2>1. CASE left = 0
    BY <2>1
  <2>2. CASE left # 0
    <3>1. f = [g EXCEPT !.changed = FALSE]
      BY <2>2 DEF Typed
    <3>2. f.coefficient = left
      BY <1>1, <3>1 DEF FloatFields
    <3> QED
      BY <1>5, <3>2
  <2> QED
    BY <2>1, <2>2
<1>8. g \in FloatFields /\ g.text = t /\ g.len = n - 1 /\ g.output = float.output
  BY <1>1, <1>3, <1>4, <1>7 DEF FloatFields
<1> HIDE DEF g
<1>9. h \in FloatFields /\ h.text = t /\ h.len \in {0, n - 1} /\ h.output = float.output
  BY <1>8, ClearedTyped
<1> HIDE DEF h
<1>10. f \in FloatFields /\ f.text = t /\ f.len \in {0, n - 1} /\ f.output = float.output
  BY <1>9, TypedTyped
<1> HIDE DEF f
<1>11. f.len < TextSize
  BY <1>1, <1>4, <1>10
<1> QED
  BY <1>2, <1>3, <1>10, <1>11, FloatKeyStep DEF TextFits

\* A key that writes one character behind the text or over its last one.
LEMMA WriteStep ==
  ASSUME FieldInvariant, NEW at \in 1 .. MaxInputLen,
         NEW c \in Characters, NEW coefficient, NEW weight \in Int,
         FloatKey(Typed([float EXCEPT !.coefficient = coefficient, !.weight = weight,
                                      !.text = [float.text EXCEPT ![at] = c], !.len = at]))
  PROVE  FieldInvariant'
<1> DEFINE t == [float.text EXCEPT ![at] = c]
           g == [float EXCEPT !.coefficient = coefficient, !.weight = weight, !.text = t,
                              !.len = at]
           f == Typed(g)
<1>1. float \in FloatFields /\ at \in Nat /\ at \in 1 .. TextSize - 1 /\ at < TextSize
  BY FloatHas, Sizes
<1>2. t \in Buffers /\ t[TextSize] = Nul
  BY <1>1, WriteOne
<1>3. FloatKey(f)
  OBVIOUS
<1> HIDE DEF t
<1>4. f.coefficient \in Int
  BY SMTT(40), <1>3, FieldAssumption DEF FieldAssumption, FloatKey
<1>5. coefficient \in Int
  <2>1. f.coefficient = coefficient
    BY <1>1 DEF Typed, FloatFields
  <2> QED
    BY <1>4, <2>1
<1>6. g \in FloatFields /\ g.text = t /\ g.len = at /\ g.output = float.output
  BY <1>1, <1>2, <1>5 DEF FloatFields
<1> HIDE DEF g
<1>7. f \in FloatFields /\ f.text = t /\ f.len = at /\ f.output = float.output
  BY <1>6, TypedTyped
<1> HIDE DEF f
<1> QED
  BY <1>1, <1>2, <1>3, <1>7, FloatKeyStep DEF TextFits

LEMMA DigitStep ==
  ASSUME FieldInvariant, NEW d \in Digits, FloatDigit(d)
  PROVE  FieldInvariant'
<1> DEFINE leading == float.coefficient = 0 /\ CharBefore(float.text, float.len) = 0
           at      == IF leading THEN float.len ELSE float.len + 1
           digit   == IF float.coefficient >= 0 THEN d ELSE -d
           value   == IF float.weight = Unit THEN float.coefficient * 10 + digit * Unit
                                             ELSE float.coefficient + digit * float.weight
           weight  == IF float.weight = Unit THEN float.weight ELSE float.weight \div 10
<1>1. /\ float \in FloatFields /\ float.len \in Nat /\ float.weight \in Int
      /\ MaxInputLen \in Nat /\ d \in Characters /\ Nul # 0
  BY FloatHas, FieldAssumption DEF FieldAssumption, Characters
<1>2. /\ float.len < MaxInputLen
      /\ FloatKey(Typed([float EXCEPT
               !.coefficient = IF float.weight = Unit THEN @ * 10 + digit * Unit
                                                      ELSE @ + digit * float.weight,
               !.weight = IF @ = Unit THEN @ ELSE @ \div 10,
               !.text[at] = d,
               !.len = at]))
  BY DEF FloatDigit
<1>3. at \in 1 .. MaxInputLen
  <2>1. leading => float.len # 0
    BY <1>1 DEF CharBefore
  <2> HIDE DEF leading
  <2> QED
    BY <1>1, <1>2, <2>1
<1>4. weight \in Int
  BY <1>1
<1>5. [float EXCEPT
               !.coefficient = IF float.weight = Unit THEN @ * 10 + digit * Unit
                                                      ELSE @ + digit * float.weight,
               !.weight = IF @ = Unit THEN @ ELSE @ \div 10,
               !.text[at] = d,
               !.len = at] =
      [float EXCEPT !.coefficient = value, !.weight = weight,
                    !.text = [float.text EXCEPT ![at] = d], !.len = at]
  <2> HIDE DEF at, digit
  <2> QED
    BY <1>1 DEF FloatFields
<1> HIDE DEF at, digit, value, weight
<1>6. FloatKey(Typed([float EXCEPT !.coefficient = value, !.weight = weight,
                                   !.text = [float.text EXCEPT ![at] = d], !.len = at]))
  BY <1>2, <1>5
<1> QED
  BY <1>1, <1>3, <1>4, <1>6, WriteStep

LEMMA DotStep ==
  ASSUME FieldInvariant, FloatDot
  PROVE  FieldInvariant'
<1> DEFINE at     == float.len + 1
           weight == Unit \div 10
<1>1. /\ float \in FloatFields /\ float.len \in Nat
      /\ MaxInputLen \in Nat /\ Dot \in Characters /\ weight \in Int
  BY FloatHas, UnitTyped, FieldAssumption DEF FieldAssumption, Characters
<1>2. /\ float.len < MaxInputLen
      /\ FloatKey(Typed([float EXCEPT !.text[float.len + 1] = Dot,
                                      !.len = @ + 1, !.weight = Unit \div 10]))
  BY DEF FloatDot
<1>3. at \in 1 .. MaxInputLen
  BY <1>1, <1>2
<1>4. [float EXCEPT !.text[float.len + 1] = Dot, !.len = @ + 1, !.weight = Unit \div 10] =
      [float EXCEPT !.coefficient = float.coefficient, !.weight = weight,
                    !.text = [float.text EXCEPT ![at] = Dot], !.len = at]
  BY <1>1 DEF FloatFields
<1> HIDE DEF at, weight
<1>5. FloatKey(Typed([float EXCEPT !.coefficient = float.coefficient, !.weight = weight,
                                   !.text = [float.text EXCEPT ![at] = Dot], !.len = at]))
  BY <1>2, <1>4
<1> QED
  BY <1>1, <1>3, <1>5, WriteStep

LEMMA MagnitudeStep ==
  ASSUME FieldInvariant, NEW m \in 0 .. 2, FloatMagnitude(m)
  PROVE  FieldInvariant'
<1> DEFINE f == [float EXCEPT !.magnitude = m, !.changed = TRUE]
<1>1. float \in FloatFields /\ TextFits(float)
  BY FloatHas
<1>2. f \in FloatFields /\ f.text = float.text /\ f.len = float.len /\ f.output = float.output
  <2> DEFINE yes == TRUE
  <2>1. m \in -2 .. 2 /\ yes \in BOOLEAN /\ f = [float EXCEPT !.magnitude = m, !.changed = yes]
    OBVIOUS
  <2> HIDE DEF f, yes
  <2> QED
    BY <1>1, <2>1 DEF FloatFields
<1>3. FloatKey(f)
  BY DEF FloatMagnitude
<1> HIDE DEF f
<1> QED
  BY <1>1, <1>2, <1>3, FloatKeyStep DEF TextFits

-----------------------------------------------------------------------------
(* The end of a capture, and the limits.                                    *)

\* A field that takes the text and value of a limit, and its output.
LEMMA PutOutput ==
  ASSUME NEW f \in FloatFields, TextFits(f), NEW limit \in Fitting, NEW output \in Int
  PROVE  LET g == [Put(f, limit) EXCEPT !.output = output]
         IN  /\ g \in FloatFields /\ TextFits(g) /\ g.output = output
             /\ Value(g.coefficient, g.magnitude) = True(limit)
<1> DEFINE h == Put(f, limit)
           g == [h EXCEPT !.output = output]
<1>1. /\ h \in FloatFields /\ h.coefficient = limit.coefficient /\ h.magnitude = limit.magnitude
      /\ TextFits(h)
  BY PutTyped
<1> HIDE DEF h
<1>2. /\ g \in FloatFields /\ g.output = output /\ g.text = h.text /\ g.len = h.len
      /\ g.coefficient = h.coefficient /\ g.magnitude = h.magnitude
  <2>1. h \in FloatFields
    BY <1>1
  <2>2. g \in FloatFields
    BY <2>1 DEF FloatFields
  <2>3. /\ g.output = output /\ g.text = h.text /\ g.len = h.len
        /\ g.coefficient = h.coefficient /\ g.magnitude = h.magnitude
    BY <2>1 DEF FloatFields
  <2> QED
    BY <2>2, <2>3
<1> HIDE DEF g
<1>3. TextFits(g)
  BY <1>1, <1>2 DEF TextFits
<1>4. Value(g.coefficient, g.magnitude) = True(limit)
  BY <1>1, <1>2 DEF True
<1> QED
  BY <1>2, <1>3, <1>4 DEF g, h

\* What the limits of a field are.
LEMMA LimitsHave ==
  ASSUME FieldInvariant
  PROVE  /\ limits.minimum \in Fitting /\ limits.maximum \in Fitting
         /\ limits.default \in Fitting
         /\ True(limits.minimum) \in Int /\ True(limits.maximum) \in Int
         /\ True(limits.default) \in Int
         /\ True(limits.minimum) <= True(limits.maximum)
<1>1. /\ limits.minimum \in Fitting /\ limits.maximum \in Fitting
      /\ limits.default \in Fitting
      /\ True(limits.minimum) <= True(limits.maximum)
  BY DEF FieldInvariant, FieldTypes
<1> QED
  BY <1>1, TrueTyped DEF Fitting

LEMMA FloatEndStep ==
  ASSUME FieldInvariant, FloatCaptureEnd
  PROVE  FieldInvariant'
<1> DEFINE output == Value(float.coefficient, float.magnitude)
           low    == output < True(limits.minimum)
           high   == output > True(limits.maximum)
           empty  == ~low /\ ~high /\ float.len = 0
           a      == True(limits.minimum)
           b      == True(limits.maximum)
<1>1. FieldTypes /\ float \in FloatFields /\ TextFits(float)
  BY FloatHas DEF FieldInvariant
<1>2. /\ kind = "float"
      /\ float' = IF low
                  THEN [Put(float, limits.minimum) EXCEPT !.output = a]
                  ELSE IF high
                  THEN [Put(float, limits.maximum) EXCEPT !.output = b]
                  ELSE IF empty
                  THEN [Put(float, limits.default) EXCEPT !.output = a]
                  ELSE [float EXCEPT !.output = output]
      /\ restored' = empty
      /\ captured' = FALSE
      /\ UNCHANGED <<kind, int, limits>>
  BY DEF FloatCaptureEnd
<1>3. /\ limits.minimum \in Fitting /\ limits.maximum \in Fitting
      /\ limits.default \in Fitting
      /\ a \in Int /\ b \in Int /\ a <= b
  BY LimitsHave
<1>4. output \in Int
  <2>1. float.coefficient \in Int /\ float.magnitude \in -2 .. 2
    BY <1>1 DEF FloatFields
  <2> QED
    BY <2>1, ValueTyped
<1> HIDE DEF output, a, b
<1>5. /\ float' \in FloatFields /\ TextFits(float') /\ float'.output \in a .. b
      /\ ~empty => float'.output = Value(float'.coefficient, float'.magnitude)
  <2>1. CASE low
    BY <1>1, <1>2, <1>3, <2>1, PutOutput DEF a
  <2>2. CASE ~low /\ high
    BY <1>1, <1>2, <1>3, <2>2, PutOutput DEF b
  <2>3. CASE empty
    <3>1. float' = [Put(float, limits.default) EXCEPT !.output = a]
      BY <1>2, <2>3
    <3>2. float' \in FloatFields /\ TextFits(float') /\ float'.output = a
      BY <1>1, <1>3, <3>1, PutOutput
    <3> HIDE DEF empty
    <3> QED
      BY <1>3, <2>3, <3>2
  <2>4. CASE ~low /\ ~high /\ ~empty
    <3>1. float' = [float EXCEPT !.output = output]
      BY <1>2, <2>4
    <3>2. /\ float' \in FloatFields /\ float'.output = output
          /\ float'.text = float.text /\ float'.len = float.len
          /\ float'.coefficient = float.coefficient /\ float'.magnitude = float.magnitude
      BY <1>1, <1>4, <3>1 DEF FloatFields
    <3>3. TextFits(float')
      BY <1>1, <3>2 DEF TextFits
    <3>4. output \in a .. b
      BY <1>3, <1>4, <2>4 DEF a, b
    <3> QED
      BY <3>2, <3>3, <3>4 DEF output
  <2> QED
    BY <2>1, <2>2, <2>3, <2>4
<1> HIDE DEF empty
<1>6. empty \in BOOLEAN
  BY DEF empty
<1>7. FieldTypes'
  BY <1>1, <1>2, <1>5, <1>6 DEF FieldTypes
<1>8. ReadInRange'
  BY <1>2, <1>5 DEF ReadInRange, a, b
<1>9. TextInBuffer'
  <2>1. float'.magnitude \in -2 .. 2 /\ DOMAIN float'.text = 1 .. TextSize
    BY <1>5 DEF FloatFields, Buffers
  <2> QED
    BY <1>5, <2>1 DEF TextInBuffer, TextFits
<1>10. ValueIsRead'
  BY <1>2, <1>5 DEF ValueIsRead
<1> QED
  BY <1>7, <1>8, <1>9, <1>10 DEF FieldInvariant

LEMMA SetMinMaxStep ==
  ASSUME FieldInvariant, NEW r \in Ranges, SetMinMax(r)
  PROVE  FieldInvariant'
<1> DEFINE a       == True(r[1])
           b       == True(r[2])
           lowered == IF float.output > b THEN [Put(float, r[2]) EXCEPT !.output = b] ELSE float
           raised  == IF lowered.output < a
                      THEN [Put(lowered, r[1]) EXCEPT !.output = a] ELSE lowered
           minimum == [r[1] EXCEPT !.weight = limits.minimum.weight]
           Shown(f) == f.output = Value(f.coefficient, f.magnitude)
<1>1. FieldTypes /\ ValueIsRead /\ float \in FloatFields /\ TextFits(float) /\ float.output \in Int
  BY FloatHas DEF FieldInvariant, FloatFields
<1>2. /\ kind = "float"
      /\ limits' = [limits EXCEPT !.minimum = minimum, !.maximum = r[2]]
      /\ float' = raised
      /\ restored' = (restored /\ float' = float)
      /\ UNCHANGED <<kind, captured, int>>
  BY DEF SetMinMax
<1>3. r[1] \in Fitting /\ r[2] \in Fitting
  BY RangesTyped
<1>4. /\ a \in Int /\ b \in Int /\ a <= b
      /\ minimum \in Fitting /\ True(minimum) = a
  <2>1. limits.minimum.weight \in Nat
    BY LimitsHave DEF Fitting, Limit
  <2> QED
    BY <1>3, <2>1, RangesTyped, WeightKept
<1> HIDE DEF a, b, minimum
<1>5. /\ lowered \in FloatFields /\ TextFits(lowered) /\ lowered.output \in Int
      /\ lowered.output <= b /\ (lowered = float \/ Shown(lowered))
  <2>1. CASE float.output > b
    <3> DEFINE g == [Put(float, r[2]) EXCEPT !.output = b]
    <3>1. /\ g \in FloatFields /\ TextFits(g) /\ g.output = b
          /\ Value(g.coefficient, g.magnitude) = True(r[2])
      BY <1>1, <1>3, <1>4, PutOutput
    <3>2. lowered = g
      BY <2>1
    <3> HIDE DEF g, lowered
    <3> QED
      BY <1>4, <3>1, <3>2 DEF b
  <2>2. CASE ~(float.output > b)
    <3>1. lowered = float
      BY <2>2
    <3> HIDE DEF lowered
    <3> QED
      BY <1>1, <1>4, <2>2, <3>1
  <2> QED
    BY <2>1, <2>2
<1> HIDE DEF lowered
<1>6. /\ raised \in FloatFields /\ TextFits(raised) /\ raised.output \in a .. b
      /\ raised = float \/ Shown(raised)
  <2>1. CASE lowered.output < a
    <3> DEFINE g == [Put(lowered, r[1]) EXCEPT !.output = a]
    <3>1. /\ g \in FloatFields /\ TextFits(g) /\ g.output = a
          /\ Value(g.coefficient, g.magnitude) = True(r[1])
      BY <1>3, <1>4, <1>5, PutOutput
    <3>2. raised = g
      BY <2>1
    <3> HIDE DEF g, raised
    <3> QED
      BY <1>4, <3>1, <3>2 DEF a
  <2>2. CASE ~(lowered.output < a)
    <3>1. raised = lowered
      BY <2>2
    <3> HIDE DEF raised
    <3> QED
      BY <1>4, <1>5, <2>2, <3>1
  <2> QED
    BY <2>1, <2>2
<1> HIDE DEF raised
<1>7. limits' = [minimum |-> minimum, maximum |-> r[2], default |-> limits.default]
  BY <1>1, <1>2 DEF FieldTypes
<1>8. FieldTypes'
  BY <1>1, <1>2, <1>3, <1>4, <1>6, <1>7 DEF FieldTypes, b
<1>9. ReadInRange'
  BY <1>2, <1>4, <1>6, <1>7 DEF ReadInRange, b
<1>10. TextInBuffer'
  <2>1. float'.magnitude \in -2 .. 2 /\ DOMAIN float'.text = 1 .. TextSize
    BY <1>2, <1>6 DEF FloatFields, Buffers
  <2> QED
    BY <1>2, <1>6, <2>1 DEF TextInBuffer, TextFits
<1>11. ValueIsRead'
  <2>1. CASE float' = float
    BY <1>1, <1>2, <2>1 DEF ValueIsRead
  <2>2. CASE Shown(float')
    BY <2>2 DEF ValueIsRead
  <2> QED
    BY <1>2, <1>6, <2>1, <2>2
<1> QED
  BY <1>8, <1>9, <1>10, <1>11 DEF FieldInvariant

LEMMA SetDefaultStep ==
  ASSUME FieldInvariant, NEW d \in Defaults, SetDefault(d)
  PROVE  FieldInvariant'
<1> DEFINE v == True(d)
           g == [Put(float, d) EXCEPT !.output = v]
<1>1. /\ FieldTypes /\ ReadInRange /\ ValueIsRead
      /\ float \in FloatFields /\ TextFits(float)
  BY FloatHas DEF FieldInvariant
<1>2. /\ kind = "float"
      /\ limits' = [limits EXCEPT !.default = d]
      /\ float' = IF float.output = True(limits.default) THEN g ELSE float
      /\ restored' = (restored /\ float' = float)
      /\ UNCHANGED <<kind, captured, int>>
  BY DEF SetDefault
<1>3. d \in Fitting /\ v \in Int
  BY DefaultsTyped
<1> HIDE DEF v
<1>4. /\ g \in FloatFields /\ TextFits(g) /\ g.output = v
      /\ Value(g.coefficient, g.magnitude) = True(d)
  BY <1>1, <1>3, PutOutput
<1> HIDE DEF g
<1>5. float' = g \/ (float' = float /\ float.output # True(limits.default))
  BY <1>2
<1>6. limits' = [minimum |-> limits.minimum, maximum |-> limits.maximum, default |-> d]
  BY <1>1, <1>2 DEF FieldTypes
<1>7. limits'.minimum = limits.minimum /\ limits'.maximum = limits.maximum /\ limits'.default = d
  BY <1>6
<1>8. float' \in FloatFields /\ TextFits(float')
  BY <1>1, <1>4, <1>5
<1>9. FieldTypes'
  BY <1>1, <1>2, <1>3, <1>6, <1>7, <1>8 DEF FieldTypes
<1>10. ReadInRange'
  BY <1>1, <1>2, <1>4, <1>5, <1>7 DEF ReadInRange, v
<1>11. TextInBuffer'
  <2>1. float'.magnitude \in -2 .. 2 /\ DOMAIN float'.text = 1 .. TextSize
    BY <1>8 DEF FloatFields, Buffers
  <2> QED
    BY <1>8, <2>1 DEF TextInBuffer, TextFits
<1>12. ValueIsRead'
  <2>1. CASE float' = float
    BY <1>1, <1>2, <2>1 DEF ValueIsRead
  <2>2. CASE float' = g
    BY <1>4, <2>2 DEF ValueIsRead, v
  <2> QED
    BY <1>5, <2>1, <2>2
<1> QED
  BY <1>9, <1>10, <1>11, <1>12 DEF FieldInvariant

-----------------------------------------------------------------------------
(* The integer field.                                                       *)

LEMMA IntKeyStep ==
  ASSUME FieldInvariant, NEW value \in Int, NEW cleared \in BOOLEAN, IntKey(value, cleared)
  PROVE  FieldInvariant'
<1>1. FieldTypes /\ ReadInRange /\ TextInBuffer /\ ValueIsRead
  BY DEF FieldInvariant
<1>2. /\ kind = "int" /\ captured
      /\ int' = [value |-> value, cleared |-> cleared]
      /\ UNCHANGED <<kind, captured, float, limits, restored>>
  BY DEF IntKey
<1>3. FieldTypes'
  BY <1>1, <1>2 DEF FieldTypes
<1>4. ReadInRange' /\ TextInBuffer' /\ ValueIsRead'
  BY <1>1, <1>2 DEF ReadInRange, TextInBuffer, ValueIsRead
<1> QED
  BY <1>3, <1>4 DEF FieldInvariant

LEMMA IntDigitStep ==
  ASSUME FieldInvariant, NEW d \in Digits, IntDigit(d)
  PROVE  FieldInvariant'
<1> DEFINE tens  == Wrap(int.value * 10)
           value == Wrap(IF tens >= 0 THEN tens + d ELSE tens - d)
<1>1. int.value \in Int /\ d \in Int /\ Half \in Nat
  BY HalfPositive, FieldAssumption DEF FieldAssumption, FieldInvariant, FieldTypes
<1>2. IntKey(value, FALSE)
  BY DEF IntDigit
<1>3. tens \in Int
  <2>1. int.value * 10 \in Int
    BY <1>1
  <2>2. tens \in -Half .. Half - 1
    BY <2>1, WrapTyped
  <2> HIDE DEF tens
  <2> QED
    BY <1>1, <2>2
<1> HIDE DEF tens
<1>4. value \in Int
  <2> DEFINE next == IF tens >= 0 THEN tens + d ELSE tens - d
  <2>1. next \in Int
    BY <1>1, <1>3
  <2> HIDE DEF next
  <2>2. Wrap(next) \in -Half .. Half - 1
    BY <2>1, WrapTyped
  <2>3. value = Wrap(next)
    BY DEF next
  <2> HIDE DEF value
  <2> QED
    BY <1>1, <2>2, <2>3
<1> HIDE DEF value
<1> QED
  BY <1>2, <1>4, IntKeyStep

LEMMA IntKeysStep ==
  ASSUME FieldInvariant, IntPlusMinus \/ IntDel \/ IntClr \/ IntIgnored
  PROVE  FieldInvariant'
<1>1. int.value \in Int /\ Half \in Nat
  BY HalfPositive DEF FieldInvariant, FieldTypes
<1>2. CASE IntPlusMinus
  <2> DEFINE value == Wrap(-int.value)
  <2>1. -int.value \in Int
    BY <1>1
  <2>2. value \in -Half .. Half - 1
    BY <2>1, WrapTyped
  <2>3. IntKey(value, FALSE)
    BY <1>2 DEF IntPlusMinus
  <2> HIDE DEF value
  <2>4. value \in Int
    BY <1>1, <2>2
  <2> QED
    BY <2>3, <2>4, IntKeyStep
<1>3. CASE IntDel
  <2> DEFINE value == Quotient(int.value, 10)
             cleared == value = 0
  <2>1. value \in Int /\ cleared \in BOOLEAN
    BY <1>1, QuotientTyped
  <2>2. IntKey(value, cleared)
    BY <1>3 DEF IntDel
  <2> HIDE DEF value, cleared
  <2> QED
    BY <2>1, <2>2, IntKeyStep
<1>4. CASE IntClr
  <2> DEFINE zero == 0
  <2>1. zero \in Int
    OBVIOUS
  <2>2. IntKey(zero, TRUE)
    BY <1>4 DEF IntClr
  <2> HIDE DEF zero
  <2> QED
    BY <2>1, <2>2, IntKeyStep
<1>5. CASE IntIgnored
  BY <1>1, <1>5, IntKeyStep DEF IntIgnored
<1> QED
  BY <1>2, <1>3, <1>4, <1>5

LEMMA IntEndStep ==
  ASSUME FieldInvariant, IntCaptureEnd
  PROVE  FieldInvariant'
<1> DEFINE value == IF int.value < IntMin THEN IntMin
                    ELSE IF int.value > IntMax THEN IntMax
                    ELSE IF int.cleared THEN IntDefault ELSE int.value
<1>1. FieldTypes /\ ReadInRange /\ TextInBuffer /\ ValueIsRead
  BY DEF FieldInvariant
<1>2. /\ kind = "int"
      /\ int' = [value |-> value, cleared |-> FALSE]
      /\ captured' = FALSE
      /\ UNCHANGED <<kind, float, limits, restored>>
  BY DEF IntCaptureEnd
<1>3. /\ IntMin \in Int /\ IntMax \in Int /\ IntDefault \in Int
  BY HalfPositive, FieldAssumption DEF FieldAssumption
<1>4. int.value \in Int
  BY <1>1 DEF FieldTypes
<1>5. value \in IntMin .. IntMax \cup {IntDefault} /\ value \in Int
  BY <1>3, <1>4, FieldAssumption DEF FieldAssumption
<1> HIDE DEF value
<1>6. FieldTypes'
  BY <1>1, <1>2, <1>5 DEF FieldTypes
<1>7. ReadInRange' /\ TextInBuffer' /\ ValueIsRead'
  BY <1>1, <1>2, <1>5 DEF ReadInRange, TextInBuffer, ValueIsRead
<1> QED
  BY <1>6, <1>7 DEF FieldInvariant

-----------------------------------------------------------------------------
(* The steps of the fields.                                                 *)

LEMMA FieldStarts ==
  ASSUME FieldInit
  PROVE  FieldInvariant
<1>1. /\ kind \in {"int", "float"} /\ captured = FALSE /\ restored = FALSE
      /\ int = [value |-> IntDefault, cleared |-> FALSE]
  BY DEF FieldInit, IntCreated
<1>2. PICK r \in Ranges, d \in Defaults : FloatCreated(r, d)
  BY DEF FieldInit
<1>3. PICK weight \in {0, r[1].weight} :
         limits = [minimum |-> [r[1] EXCEPT !.weight = weight], maximum |-> r[2], default |-> d]
  BY <1>2 DEF FloatCreated
<1> DEFINE text == Strcpy(Blank, d.text)
           minimum == [r[1] EXCEPT !.weight = weight]
<1>4. float = [coefficient |-> d.coefficient, magnitude |-> d.magnitude,
               weight |-> d.weight, text |-> text, len |-> Len(d.text),
               changed |-> FALSE, output |-> True(d)]
  BY <1>2 DEF FloatCreated
<1>5. /\ d \in Fitting /\ r[1] \in Fitting /\ r[2] \in Fitting /\ True(d) \in Int
      /\ True(r[1]) <= True(r[2])
  BY DefaultsTyped, RangesTyped
<1>6. /\ d.coefficient \in Int /\ d.magnitude \in -2 .. 2 /\ d.weight \in Nat
      /\ d.text \in Seq(0 .. 9 \cup {Dot}) /\ Len(d.text) < TextSize /\ Len(d.text) \in Nat
  <2>1. d.text \in Seq(0 .. 9 \cup {Dot})
    BY <1>5 DEF Fitting, Limit
  <2> QED
    BY <1>5, <2>1, LenProperties DEF Fitting, Limit
<1>7. minimum \in Fitting /\ True(minimum) = True(r[1])
  <2>1. weight \in Nat
    BY <1>5 DEF Fitting, Limit
  <2> QED
    BY <1>5, <2>1, WeightKept
<1>8. text \in Buffers /\ text[TextSize] = Nul
  <2>1. Blank \in Buffers /\ Blank[TextSize] = Nul
    BY <1>6, Sizes DEF Blank, Buffers, Characters
  <2> QED
    BY <1>6, <2>1, StrcpyTyped
<1> HIDE DEF text, minimum
<1>9. limits = [minimum |-> minimum, maximum |-> r[2], default |-> d]
  BY <1>3 DEF minimum
<1>10. float \in FloatFields
  BY <1>4, <1>5, <1>6, <1>8 DEF FloatFields
<1>11. IntDefault \in Int
  BY HalfPositive, FieldAssumption DEF FieldAssumption
<1>12. FieldTypes
  BY <1>1, <1>5, <1>7, <1>9, <1>10, <1>11 DEF FieldTypes
<1>13. ReadInRange
  BY <1>1, <1>4, <1>9 DEF ReadInRange
<1>14. TextInBuffer
  BY <1>4, <1>6, <1>8 DEF TextInBuffer, Buffers
<1>15. ValueIsRead
  BY <1>4 DEF ValueIsRead, True
<1> QED
  BY <1>12, <1>13, <1>14, <1>15 DEF FieldInvariant

LEMMA FieldSteps ==
  ASSUME FieldInvariant, [FieldNext]_fieldVars
  PROVE  FieldInvariant'
<1>1. CASE BeginCapture
  BY <1>1 DEF BeginCapture, FieldInvariant, FieldTypes, ReadInRange, TextInBuffer, ValueIsRead
<1>2. CASE IntNext
  BY <1>2, IntKeysStep, IntDigitStep, IntEndStep DEF IntNext
<1>3. CASE FloatNext
  BY <1>3, PlusMinusStep, ClrStep, DelPointStep, DelDigitStep, DotStep, DigitStep, MagnitudeStep,
     FloatEndStep, SetMinMaxStep, SetDefaultStep DEF FloatNext
<1>4. CASE UNCHANGED fieldVars
  BY <1>4 DEF fieldVars, FieldInvariant, FieldTypes, ReadInRange, TextInBuffer, ValueIsRead
<1> QED
  BY <1>1, <1>2, <1>3, <1>4 DEF FieldNext

\* The inductive invariant of the two fields.
THEOREM FieldsCorrect == FieldSpec => []FieldInvariant
<1>1. FieldInit => FieldInvariant
  BY FieldStarts
<1>2. FieldInvariant /\ [FieldNext]_fieldVars => FieldInvariant'
  BY FieldSteps
<1> QED
  BY <1>1, <1>2, PTL DEF FieldSpec

\* What the application reads is within the limits set last, or the default
\* that no limit is compared with, for every width of the integer, every set of
\* limits and every sequence of keys.
THEOREM ReadWithinLimits == FieldSpec => []ReadInRange
<1>1. FieldInvariant => ReadInRange
  BY DEF FieldInvariant
<1> QED
  BY <1>1, FieldsCorrect, PTL

\* The text ends inside its buffer and keys write inside it, and a magnitude is
\* one of the table, for every size of the buffer, limits and sequence of keys.
THEOREM TextEndsInBuffer == FieldSpec => []TextInBuffer
<1>1. FieldInvariant => TextInBuffer
  BY DEF FieldInvariant
<1> QED
  BY <1>1, FieldsCorrect, PTL

\* Between captures, keys go on from the value the application reads, and its
\* sign and suffix are drawn; of the digits drawn this says nothing.
THEOREM GoesOnFromRead == FieldSpec => []ValueIsRead
<1>1. FieldInvariant => ValueIsRead
  BY DEF FieldInvariant
<1> QED
  BY <1>1, FieldsCorrect, PTL

=============================================================================
