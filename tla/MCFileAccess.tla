---------------------------- MODULE MCFileAccess ----------------------------
(* Small cards for TLC.                                                     *)
EXTENDS FileAccess, TLC

Symmetry == Permutations(Names)
=============================================================================
