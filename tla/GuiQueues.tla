----------------------------- MODULE GuiQueues -----------------------------
(***************************************************************************)
(* The two queues of the GUI library (user/libarys/gui/src/events.c and    *)
(* timers.c) as one application uses them: events and timers are pushed    *)
(* while an event is handled, an expired timer becomes the payload of an   *)
(* event, and taking the next event frees the one handled before it.       *)
(*                                                                         *)
(* An event is its identity: a member of Keys stands for an event that     *)
(* carries no timer, a timer's own identity for its TIMER_TRIGGERED event. *)
(***************************************************************************)
EXTENDS Integers, Sequences

CONSTANTS Keys, Timers, None,
          DefaultSize,   \* GUI_EVENT_QUEUE_DEFAULT_SIZE, the ring's first size
          Delays,        \* how far ahead a timer may be set
          MaxSize,       \* bound: the ring is not grown beyond this size
          MaxTime        \* bound: the clock stops here

ASSUME QueueAssumption ==
    /\ DefaultSize \in Nat /\ DefaultSize >= 2
    /\ Delays \subseteq Nat /\ MaxSize \in Nat /\ MaxTime \in Nat
    /\ Keys \cap Timers = {} /\ None \notin Keys \cup Timers

VARIABLES queue,    \* gui_event_queue: buffer, size, write, read
          timers,   \* gui_timer_queue: slots, size, count, read
          due,      \* end_count of each timer, kept by its memory when it is freed
          now,      \* the counter the timers are compared with
          live,     \* the events and timers allocated and not yet freed
          grown,    \* TRUE once the ring was full and was resized
          peak,     \* the most timers that were ever set at once
          stale     \* TRUE once a freed timer was taken for a pending one

vars == <<queue, timers, due, now, live, grown, peak, stale>>

Events == Keys \cup Timers
-----------------------------------------------------------------------------
(* The event ring.  The slot at read holds the event handed out last; the  *)
(* events from the next slot up to write wait.                             *)

Resized(q, entries) ==
    LET current == IF q.write >= q.read THEN q.write - q.read ELSE q.read - q.write
        new     == IF entries <= current THEN current ELSE entries
    IN  [buffer |-> [i \in 0 .. new - 1 |->
                        IF i < current THEN q.buffer[(q.read + 1 + i) % q.size]
                                       ELSE None],
         size |-> new, write |-> current, read |-> 0]

Full(q) == (q.write + 1) % q.size = q.read

Pushed(q, e) ==
    LET written == [q EXCEPT !.buffer[q.write] = e, !.write = (@ + 1) % q.size]
    IN  IF Full(q) THEN Resized([written EXCEPT !.write = q.size], q.size + 1)
                   ELSE written

(* Mutant: an empty ring whose write index has wrapped is not noticed. *)
MutEmpty(q) == q.write - 1 = q.read

Empty(q) ==
    \/ q.write - 1 = q.read
    \/ q.read = q.size - 1 /\ q.write = 0

Waiting(q) ==
    [i \in 1 .. (q.write - q.read - 1) % q.size |-> q.buffer[(q.read + i) % q.size]]
-----------------------------------------------------------------------------
(* The timer array.  A push moves the array to slot 0 and inserts the      *)
(* timer before the first one that ends later; unless it must grow, it     *)
(* writes to the array it is reading.                                      *)

Grows(q) == q.count + 1 > q.size

\* The next timer is written, behind t where that has not been and ends before.
Turn(q, t, ends, copy, i) ==
    LET current == IF Grows(q) THEN q.slots[q.read + i] ELSE copy.slots[q.read + i]
    IN  IF copy.waits /\ ends[t] < ends[current]
        THEN [slots |-> [copy.slots EXCEPT ![copy.at] = t, ![copy.at + 1] = current],
              at |-> copy.at + 2, waits |-> FALSE]
        ELSE [slots |-> [copy.slots EXCEPT ![copy.at] = current],
              at |-> copy.at + 1, waits |-> copy.waits]

Copied(q, t, ends, turns) ==
    LET target == IF Grows(q) THEN [i \in 0 .. q.count |-> None] ELSE q.slots
        copied[n \in 0 .. turns] ==
            IF n = 0 THEN [slots |-> target, at |-> 0, waits |-> TRUE]
                     ELSE Turn(q, t, ends, copied[n - 1], n - 1)
    IN  copied[turns]

Inserted(q, t, ends) ==
    LET last == Copied(q, t, ends, IF q.count > 0 THEN q.count ELSE 0)
    IN  [slots |-> IF last.waits THEN [last.slots EXCEPT ![last.at] = t] ELSE last.slots,
         size |-> IF Grows(q) THEN q.count + 1 ELSE q.size,
         count |-> q.count + 1, read |-> 0]

Peek(q) == IF q.read = q.size THEN None ELSE q.slots[q.read]

(* Mutant: a popped timer's slot is not cleared. *)
MutPopped(q) ==
    IF q.read = q.size THEN q ELSE [q EXCEPT !.read = @ + 1, !.count = @ - 1]

Popped(q) ==
    IF q.read = q.size THEN q
    ELSE [q EXCEPT !.slots[q.read] = None, !.read = @ + 1, !.count = @ - 1]
-----------------------------------------------------------------------------
Init ==
    /\ queue = [buffer |-> [i \in 0 .. DefaultSize - 1 |-> None],
                size |-> DefaultSize, write |-> 1, read |-> 0]
    /\ timers = [slots |-> <<>>, size |-> 0, count |-> 0, read |-> 0]
    /\ due = [t \in Timers |-> 0]
    /\ now = 0
    /\ live = {}
    /\ grown = FALSE /\ stale = FALSE
    /\ peak = 0

Fits == ~stale /\ queue.size < MaxSize

(* Any part of the program pushes an event it has allocated. *)
PushEvent(e) ==
    /\ Fits /\ e \notin live
    /\ queue' = Pushed(queue, e)
    /\ live' = live \cup {e}
    /\ grown' = (grown \/ Full(queue))
    /\ UNCHANGED <<timers, due, now, peak, stale>>

(* Mutant: the freed event's slot is not cleared. *)
MutNextEvent ==
    /\ ~stale /\ ~Empty(queue)
    /\ live' = live \ {queue.buffer[queue.read]}
    /\ queue' = [queue EXCEPT !.read = (@ + 1) % queue.size]
    /\ UNCHANGED <<timers, due, now, grown, peak, stale>>

(* The event handled last is freed with its payload, the next handed out. *)
NextEvent ==
    /\ ~stale /\ ~Empty(queue)
    /\ live' = live \ {queue.buffer[queue.read]}
    /\ queue' = [queue EXCEPT !.buffer[queue.read] = None,
                              !.read = (@ + 1) % queue.size]
    /\ UNCHANGED <<timers, due, now, grown, peak, stale>>

(* gui_event_queue_next has nothing to hand out: the caller asks again. *)
NoEvent == ~stale /\ Empty(queue) /\ UNCHANGED vars

CreateTimer(t, delay) ==
    /\ ~stale /\ t \notin live
    /\ due' = [due EXCEPT ![t] = now + delay]
    /\ timers' = Inserted(timers, t, due')
    /\ live' = live \cup {t}
    /\ peak' = IF timers.count + 1 > peak THEN timers.count + 1 ELSE peak
    /\ UNCHANGED <<queue, now, grown, stale>>

(* An expired timer leaves its queue and its event enters the ring.  After *)
(* a freed timer has been used nothing is known of the memory any more.    *)
TimerExpires ==
    /\ Fits
    /\ Peek(timers) # None /\ due[Peek(timers)] <= now
    /\ queue' = Pushed(queue, Peek(timers))
    /\ timers' = Popped(timers)
    /\ grown' = (grown \/ Full(queue))
    /\ stale' = (Peek(timers) \notin live)
    /\ UNCHANGED <<due, now, live, peak>>

Tick ==
    /\ ~stale /\ now < MaxTime
    /\ now' = now + 1
    /\ UNCHANGED <<queue, timers, due, live, grown, peak, stale>>

Corrupted == stale /\ UNCHANGED vars

Next ==
    \/ \E e \in Keys : PushEvent(e)
    \/ NextEvent
    \/ NoEvent
    \/ \E t \in Timers, delay \in Delays : CreateTimer(t, delay)
    \/ TimerExpires
    \/ Tick
    \/ Corrupted

Spec == Init /\ [][Next]_vars
-----------------------------------------------------------------------------
(* Until the ring first fills, an application that takes its events with   *)
(* gui_event_queue_next sees them in the order gui_event_queue_push put    *)
(* them in, each once: the ring is a queue for DefaultSize - 2 events.     *)
Fifo == INSTANCE BoundedFifo
            WITH Elements <- Events, Capacity <- DefaultSize - 2,
                 pending <- IF grown THEN <<>> ELSE Waiting(queue), void <- grown

ImplementsFifo == Fifo!Spec

(* As long as no three timers are set at once, every event and timer that  *)
(* a queue holds has been allocated and has one owner that will free it, a *)
(* ring slot or a timer slot that is not yet popped; and until the ring    *)
(* first fills nothing allocated has lost its owner.  So                   *)
(* gui_event_queue_next frees nothing still in use, and leaks nothing.     *)
TimerSlots == timers.read .. timers.read + timers.count - 1

InRing == {queue.buffer[i] : i \in DOMAIN queue.buffer} \ {None}
InTimers == {timers.slots[i] : i \in TimerSlots}

HeldOnce ==
    peak <= 2 =>
        /\ InRing \cup InTimers \subseteq live /\ InRing \cap InTimers = {}
        /\ ~grown => live = InRing \cup InTimers
        /\ \A i, j \in DOMAIN queue.buffer :
              queue.buffer[i] = queue.buffer[j] => i = j \/ queue.buffer[i] = None
        /\ \A i, j \in TimerSlots : timers.slots[i] = timers.slots[j] => i = j

(* As long as no three timers are set at once, the array holds them in the *)
(* order they end, the first is the one gui_timer_queue_peek sees, it sees *)
(* none when none is set, and never one that has been freed.               *)
TimersOrdered ==
    peak <= 2 =>
        /\ \A i, j \in TimerSlots :
              i < j => due[timers.slots[i]] <= due[timers.slots[j]]
        /\ Peek(timers) = IF timers.count = 0 THEN None ELSE timers.slots[timers.read]
        /\ ~stale
=============================================================================
