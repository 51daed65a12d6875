----------------------------- MODULE MCScreen -----------------------------
(* Two buffers at least and four at most, console of three lines of two    *)
(* rows; -3 is the request that the unsigned comparison turns into all.    *)
EXTENDS Screen

MCRequests == {-3, 0, 2, 3}
=============================================================================
