------------------------------- MODULE Screen -------------------------------
(***************************************************************************)
(* The display: one tall hardware buffer of which the firmware shows one   *)
(* display height at a time (kernal/src/io/framebuffer.c), the console in  *)
(* its first part (putchar.c, pc_screen_font.c) and the system calls by    *)
(* which a program draws in the others (lib/syscalls.c).                   *)
(*                                                                         *)
(* The statics of framebuffer.c and the memory they describe are one       *)
(* record, fb, because system calls and program exit chain several calls   *)
(* of framebuffer.c: an operator gives the set of records a call can leave.*)
(* The firmware may refuse a request and the kernel may run out of memory. *)
(* The paths taken only under QEMU are left out.                           *)
(***************************************************************************)
EXTENDS Integers, FiniteSets

CONSTANTS MinFrames, MaxFrames,  \* minimum_, maximum_number_of_frame_buffers
          Height, Columns,       \* rows of the display, characters of a line
          FontHeight,            \* rows of a character
          ConsoleMax,            \* CONSOLE_MAX_HEIGHT
          Lines,                 \* bound: lines are numbered modulo Lines
          Requests,              \* bound: the numbers a program passes
          Margins                \* the overscans a program passes

ASSUME ScreenAssumption ==
    /\ MinFrames \in Nat \ {0} /\ MaxFrames \in Nat /\ MinFrames <= MaxFrames
    /\ Columns \in Nat /\ Columns > 1
    /\ FontHeight \in Nat \ {0} /\ ConsoleMax \in Nat /\ Height \in Nat
    /\ ConsoleMax > 2   \* a third of it is a row at least
    /\ ConsoleMax + 2 * FontHeight < Height
    /\ Lines \in Nat /\ Lines * FontHeight > Height
    /\ Requests \subseteq Int

VARIABLES fb,        \* framebuffer.c's and putchar.c's statics and the memory
          line,      \* history: the number of the line being written
          overscan,  \* display_overscan_...
          shrink,    \* allways_shirnk_frame_buffer_if_possible, from system.cfg
          running    \* a program is loaded

vars == <<fb, line, overscan, shrink, running>>

Display == 0 .. Height - 1
Blank   == Lines               \* no line has this number
Blanked == [r \in Display |-> Blank]
-----------------------------------------------------------------------------
(* initialize_framebuffer: the first buffer, all of it black.              *)
Init ==
    /\ fb = [initialized |-> TRUE,    \* s_is_frambuffer_initialized
             count   |-> MinFrames,   \* s_number_of_framebuffers
             active  |-> 0,           \* s_active_framebuffer
             frames  |-> MinFrames,   \* s_framebuffer_height in displays
             shown   |-> 0,           \* what the firmware shows
             margin  |-> 0,           \* the firmware's overscan
             moved   |-> TRUE,        \* the mapping leads to that buffer
             owned   |-> TRUE,        \* its table's allocation is not freed
             ink     |-> {},          \* the displays a program has drawn in
             console |-> Blanked,     \* the line in each row of display 0
             x |-> 0, y |-> 0]        \* console_output_x (in characters), _y
    /\ line = 0
    /\ overscan = 0 /\ shrink \in BOOLEAN
    /\ running = FALSE

(* active_framebuffer: an answer with other offsets leaves the old one.    *)
Switched(f, b) ==
    IF b \notin 0 .. f.count - 1 \/ b = f.active
      THEN {f}
      ELSE {f, [f EXCEPT !.active = b, !.shown = b]}

(* max(min(a, ma), mi) with an unsigned maximum: -2 is above it.           *)
Clamp(n) ==
    IF n < 0 \/ n > MaxFrames THEN MaxFrames
    ELSE IF n < MinFrames THEN MinFrames ELSE n

(* s_create_framebuffer: one request for the size, offset and overscan.    *)
Created(f, n, shows) ==
    [f EXCEPT !.initialized = FALSE, !.frames = n, !.shown = shows,
              !.margin = overscan]

(* s_create_or_move_framebuffer_vmem_mapping, remaking: the new allocation *)
(* is stored in a local section while the table keeps the one just freed.  *)
(* The mapping moves only if malloc gives that very block back and the     *)
(* tables can be filled.                                                   *)
Mapped(f, reused, filled) ==
    [f EXCEPT !.moved = reused /\ filled, !.owned = reused,
              !.ink = {}, !.console = Blanked]

(* The buffer blanked and recorded.                                        *)
Recorded(f, n, shows) ==
    [f EXCEPT !.initialized = TRUE, !.count = n, !.active = shows, !.x = 0, !.y = 0]

(* request_frame_buffers from the creation on, n buffers of which shows is *)
(* to be seen: refused by the firmware, not mapped, or done.  A second     *)
(* free of the old allocation is a kernel panic: nothing follows.          *)
Recreated(f, n, shows) ==
    {[f EXCEPT !.initialized = FALSE]} \cup
    (IF ~f.owned THEN {}
     ELSE UNION {{Mapped(Created(f, n, shows), reused, FALSE),
                  Recorded(Mapped(Created(f, n, shows), reused, TRUE), n, shows)} :
                    reused \in BOOLEAN})

(* Mutant: the active buffer is kept although it is no longer there.       *)
MutRequested(f, n) ==
    LET m == Clamp(n) IN
    IF n = -1 \/ n = f.count THEN {f}
    ELSE IF m < f.count /\ ~shrink THEN {[f EXCEPT !.count = m]}
    ELSE Recreated(f, m, f.active)

(* request_frame_buffers.                                                  *)
Requested(f, n) ==
    LET m == Clamp(n) IN
    IF n = -1 \/ n = f.count THEN {f}
    ELSE IF m < f.count /\ ~shrink THEN {[f EXCEPT !.count = m]}
    ELSE Recreated(f, m, IF f.active >= m THEN 0 ELSE f.active)
-----------------------------------------------------------------------------
(* pc_screen_font_darw for a glyph in display 0, row by row.               *)
Drawn(rows, top, l) ==
    [r \in Display |-> IF r \in top .. top + FontHeight - 1 THEN l ELSE rows[r]]

(* display_screen_copy of the rows from start up to the top of display 0.  *)
Copied(rows, start, size) ==
    LET n == IF size + start >= Height THEN Height - start - 1 ELSE size
    IN  [r \in Display |-> IF r < n THEN rows[r + start] ELSE rows[r]]

(* display_fill_rect from a row to the bottom of display 0.                *)
FilledFrom(rows, top) == [r \in Display |-> IF r >= top THEN Blank ELSE rows[r]]

(* Mutant: a third of the console, not rounded to characters.              *)
MutScrollStart == ConsoleMax \div 3

(* The first row kept by a scroll: a third of the console, rounded up to a *)
(* whole character.                                                        *)
ScrollStart ==
    LET third == ConsoleMax \div 3 IN
    IF third % FontHeight = 0 THEN third
    ELSE third + (FontHeight - (third % FontHeight))

(* The scroll at the end of putchar, once bottom passes the last row.      *)
ScrollBy(bottom) == IF bottom > ConsoleMax THEN ScrollStart ELSE 0
Scrolled(rows, bottom) ==
    IF bottom > ConsoleMax
      THEN FilledFrom(Copied(rows, ScrollStart, bottom - ScrollStart), bottom - ScrollStart)
      ELSE rows

(* putchar of a visible character: drawn while the line has room for it.   *)
PutGlyph ==
    /\ fb.initialized
    /\ fb.x + 1 < Columns
    /\ fb' = [fb EXCEPT !.console = IF fb.moved THEN Drawn(@, fb.y, line) ELSE @,
                        !.x = @ + 1]
    /\ UNCHANGED <<line, overscan, shrink, running>>

(* putchar of '\n', or of the character the line has no room for, which is *)
(* not drawn: the next line, and a scroll past the console's last row.     *)
PutLine ==
    /\ fb.initialized
    /\ LET bottom == fb.y + FontHeight IN
          fb' = [fb EXCEPT !.console = IF fb.moved THEN Scrolled(@, bottom) ELSE @,
                           !.x = 0, !.y = bottom - ScrollBy(bottom)]
    /\ line' = (line + 1) % Lines
    /\ UNCHANGED <<overscan, shrink, running>>

(* putchar of '\r': the line is written over.                              *)
PutReturn ==
    /\ fb.initialized
    /\ fb.x # 0
    /\ fb' = [fb EXCEPT !.x = 0]
    /\ UNCHANGED <<line, overscan, shrink, running>>
-----------------------------------------------------------------------------
(* s_prepair_buffer_id_from_user: programs count without the console; -1   *)
(* is what is shown, -2 the console.                                       *)
Prepared(b) == IF b = -2 THEN 0 ELSE IF b = -1 THEN fb.active ELSE b + 1

(* set_display_pixel, display_fill_rect, copy_to_display and draw_string:  *)
(* nothing in the console, in a buffer that is not there, or below the     *)
(* hardware buffer's last row.                                             *)
Draw(b) ==
    /\ running
    /\ Prepared(b) # 0
    /\ Prepared(b) \in 0 .. fb.count - 1
    /\ fb' = [fb EXCEPT !.ink = IF fb.moved /\ Prepared(b) < fb.frames
                                  THEN @ \cup {Prepared(b)} ELSE @]
    /\ UNCHANGED <<line, overscan, shrink, running>>

(* system_call_active_framebuffer.                                         *)
SwitchFrame(b) ==
    /\ running
    /\ b # -1
    /\ \E f \in Switched(fb, Prepared(b)) : f # fb /\ fb' = f
    /\ UNCHANGED <<line, overscan, shrink, running>>

(* system_call_request_frame_buffers, which adds the console.              *)
RequestFrames(n) ==
    /\ running
    /\ \E f \in Requested(fb, IF n = -1 THEN -1 ELSE n + 1) :
          f # fb /\ fb' = f
    /\ UNCHANGED <<line, overscan, shrink, running>>

(* set_display_overscan: kept only when the firmware took it as it is.     *)
SetOverscan(m) ==
    /\ running
    /\ overscan # m
    /\ overscan' = m
    /\ fb' = [fb EXCEPT !.margin = m]
    /\ UNCHANGED <<line, shrink, running>>

(* Mutant: only the buffers still counted are blanked.                     *)
MutExitFilled(f) == [f EXCEPT !.ink = IF f.moved THEN @ \ (1 .. f.count - 1) ELSE @]

(* The rows below the console, to the end of the hardware buffer, blanked. *)
ExitFilled(f) == [f EXCEPT !.ink = IF f.moved THEN @ \ (1 .. f.frames - 1) ELSE @]

(* framebuffer_on_user_app_exit.                                           *)
ProgramExits ==
    /\ running
    /\ running' = FALSE
    /\ \E f \in Switched(fb, 0) :
       \E g \in IF shrink THEN Requested(f, MinFrames) ELSE {f} :
          fb' = ExitFilled(g)
    /\ UNCHANGED <<line, overscan, shrink>>

ProgramStarts == ~running /\ running' = TRUE /\ UNCHANGED <<fb, line, overscan, shrink>>

Next ==
    \/ PutGlyph \/ PutLine \/ PutReturn
    \/ ProgramStarts \/ ProgramExits
    \/ \E b \in -2 .. MaxFrames : Draw(b) \/ SwitchFrame(b)
    \/ \E n \in Requests : RequestFrames(n)
    \/ \E m \in Margins : SetOverscan(m)

Spec == Init /\ [][Next]_vars
-----------------------------------------------------------------------------
(* While the display is set up the firmware shows the buffer the kernel    *)
(* calls active, it is one that exists, and the margins are the recorded   *)
(* ones: whatever was refused, shrunk or made anew on the way.             *)
ShowsActive ==
    fb.initialized =>
        /\ fb.shown = fb.active
        /\ fb.active < fb.frames /\ fb.count <= fb.frames
        /\ fb.margin = overscan

(* Nothing a program drew is left when it has ended, in buffers it had     *)
(* given back either (request_frame_buffers only lowers the count then);   *)
(* and while it runs it never gets at the console's rows.                  *)
LeftClean ==
    /\ 0 \notin fb.ink
    /\ ~running /\ fb.moved => fb.ink = {}

(* The console is a window on the output: above the line being written     *)
(* stand the lines before it, in order and without a gap, below it nothing.*)
(* A line of no visible character is blank.                                *)
Earlier(r) == (line + Lines - (fb.y - r + FontHeight - 1) \div FontHeight) % Lines
ConsoleInOrder ==
    fb.moved => \A r \in Display :
        fb.console[r] \in {Blank} \cup
            (IF r < fb.y THEN {Earlier(r)} ELSE IF r < fb.y + FontHeight THEN {line} ELSE {})
=============================================================================
