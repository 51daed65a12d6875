---------------------------- MODULE MCGuiQueues ----------------------------
(* The GUI queues for model checking: events are interchangeable, and so   *)
(* are timers.                                                             *)
EXTENDS GuiQueues, TLC

CONSTANTS k1, k2, k3, t1, t2, t3

MCKeys   == {k1, k2, k3}
MCTimers == {t1, t2, t3}
MCDelays == {1, 2}

Symmetry == Permutations(MCKeys) \cup Permutations(MCTimers)
=============================================================================
