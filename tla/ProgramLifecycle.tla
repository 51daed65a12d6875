-------------------------- MODULE ProgramLifecycle --------------------------
(***************************************************************************)
(* What the kernel promises its programs, without saying how: one program  *)
(* at a time is selected, started and ended, and the next program is the   *)
(* one the last program asked for, or the main interface application when  *)
(* it asked for none.  ProgramControl implements this specification.       *)
(***************************************************************************)
CONSTANTS Apps,             \* what a program may name in switch_to
          MainInterface,    \* run_time_kernal_config's main_interface_app_path
          NoProgram         \* a NULL path

VARIABLES phase,            \* where the current program is in its life
          program,          \* the program last selected
          request           \* the program to run after it, or NoProgram

vars == <<phase, program, request>>

Init == phase = "select" /\ program = NoProgram /\ request = NoProgram

\* The next program is the requested one; a request is honoured once.
Select == /\ phase = "select"
          /\ phase' = "selected"
          /\ program' = IF request = NoProgram THEN MainInterface ELSE request
          /\ request' = NoProgram

\* The selected program cannot be loaded: the kernel gives up.
Abandon == /\ phase = "select"
           /\ phase' = "stopped"
           /\ request' = NoProgram
           /\ UNCHANGED program

Start == phase = "selected" /\ phase' = "running" /\ UNCHANGED <<program, request>>

\* Only a running program names its successor, and it ends by doing so; any
\* other end leaves no request behind.
SwitchTo(a) == phase = "running" /\ phase' = "over" /\ request' = a /\ UNCHANGED program

End == /\ phase \in {"selected", "running"}
       /\ phase' = "over"
       /\ request' = NoProgram
       /\ UNCHANGED program

\* Only the main interface application is judged by how soon it ended.
Recycle == /\ phase = "over"
           /\ phase' \in {"select"} \cup (IF program = MainInterface THEN {"stopped"} ELSE {})
           /\ UNCHANGED <<program, request>>

\* The processor leaves the kernel's control flow and nothing more is promised.
Derail == phase # "stopped" /\ phase' = "lost" /\ UNCHANGED <<program, request>>

Next == \/ Select \/ Abandon \/ Start \/ End \/ Recycle \/ Derail
        \/ \E a \in Apps : SwitchTo(a)

Spec == Init /\ [][Next]_vars
=============================================================================
