-------------------------- MODULE MCProgramControl --------------------------
(* Small instances of ProgramControl for TLC: one or two programs to switch *)
(* to, one resource to put back, and up to two DAC sessions open at once.   *)
EXTENDS ProgramControl, TLC

=============================================================================
