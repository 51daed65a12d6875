---------------------------- MODULE BoundedFifo ----------------------------
(***************************************************************************)
(* What the GUI's event queue promises the application (events.h, "Stores  *)
(* a first in first out queue"): an event put in is handed out once, after *)
(* every event put in before it.  The promise is made for at most Capacity *)
(* waiting events; one more voids it for good.                             *)
(***************************************************************************)
EXTENDS Naturals, Sequences

CONSTANTS Elements,   \* what can be put in the queue
          Capacity    \* the number of waiting elements the promise covers

VARIABLES pending,    \* the elements that wait, oldest first
          void        \* TRUE from the first element put in beyond the capacity

fifo == <<pending, void>>

Init == pending = <<>> /\ void = FALSE

Put(e) ==
    /\ ~void /\ Len(pending) < Capacity
    /\ pending' = Append(pending, e)
    /\ UNCHANGED void

Overfill ==
    /\ Len(pending) = Capacity
    /\ pending' = <<>>
    /\ void' = TRUE

Take ==
    /\ pending # <<>>
    /\ pending' = Tail(pending)
    /\ UNCHANGED void

Next == Overfill \/ Take \/ \E e \in Elements : Put(e)

Spec == Init /\ [][Next]_fifo
=============================================================================
