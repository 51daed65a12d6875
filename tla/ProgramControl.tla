--------------------------- MODULE ProgramControl ---------------------------
(***************************************************************************)
(* The kernel's control flow on its one core: the main loop that loads and *)
(* runs programs, the system calls that leave or re-enter a program, the   *)
(* interrupts, and PRG_EXIT, the button that ends or interrupts a program. *)
(*                                                                         *)
(* The kernel has no scheduler.  Everything it is in the middle of is on   *)
(* one stack, and it leaves the middle of things by loading an old stack   *)
(* pointer (system_call_exit, dac_output_end, _return_from_user_function). *)
(* The state is therefore that stack, above the frame of main(), and the   *)
(* few global words those jumps depend on.                                 *)
(***************************************************************************)
EXTENDS Integers, Sequences, FiniteSetsExt

CONSTANTS Apps,             \* programs switch_to may name
          MainInterface,    \* main_interface_app_path
          NoProgram,        \* NULL
          Resources,        \* what on_user_program_exiting puts back
          MaxHandlers,      \* INTERUPT_END_EVENT_MAX_HANDLERS
          MaxDacs           \* bound: DAC sessions open at once

ASSUME ControlAssumption ==
    /\ MaxHandlers \in Nat \ {0} /\ MaxDacs \in Nat
    /\ MainInterface \notin Apps /\ NoProgram \notin Apps
    /\ MainInterface # NoProgram

VARIABLES
    pc,               \* where main() is
    stack,            \* the frames above main(), the running one last
    mainMasked,       \* PSTATE.I while main() itself runs
    active,           \* s_active_user_program # NULL
    program, request, \* next_app, use_program_requested_switch
    young,            \* less than 0.25 s since the program was started
    elr,              \* elr_el1 as main()'s eret will find it
    regs,             \* main()'s registers: its own, or zeroed
    block,            \* the register block system_call_exit returns through
    returnSet,        \* system_call_exit_return_stack and _address are set
    dacReturn,        \* dac_output_return_stack: a stack position, 0 for NULL
    handlerReturn,    \* _execute_function_as_user_program_return_stack: the position
                      \* of the handler it was stored for, 0 for none yet
    handler,          \* s_prg_exit_handler
    events,           \* s_interupt_end_hanlders
    interruptActive,  \* interupt_active
    pending,          \* interrupts raised and not yet dispatched
    cooling,          \* less than prg_exit_debounce_time since the last one
    dirty             \* resources the program has changed

launchVars == <<elr, regs, block, returnSet>>
programVars == <<active, program, request, young>>
exitVars == <<handler, events, interruptActive, cooling>>
cpuVars == <<pc, stack, mainMasked>>
returnVars == <<dacReturn, handlerReturn>>
vars == <<cpuVars, programVars, launchVars, returnVars, exitVars, pending, dirty>>

PCs == {"load", "loaded", "active", "entry", "saved", "armed", "running",
        "returned", "inactive", "cleaned", "stopped", "lost"}
DacKinds == {"dacEntry", "dac", "dacExit"}
Kinds == {"user", "irq", "handler", "getc", "fault"} \cup DacKinds
Sources == {"timer", "gpio", "uart"}
Slots == 1..MaxHandlers

\* intact: the frame's registers and stack pointer are those it was left with.
Frame == [kind : Kinds, intact : BOOLEAN]
New(kind) == [kind |-> kind, intact |-> TRUE]

Top == stack[Len(stack)]
Running(kind) == stack # <<>> /\ Top.kind = kind
Push(kind) == stack' = Append(stack, New(kind))
Pop == stack' = SubSeq(stack, 1, Len(stack) - 1)
Become(kind) == stack' = [stack EXCEPT ![Len(stack)].kind = kind]

\* Mutant: dac_output_start forgets to enable interrupts.
UnmaskedLessDac == IF stack = <<>> THEN ~mainMasked ELSE Top.kind \in {"user", "fault"}

\* The processor takes interrupts in EL0 program code, in a DAC session, in
\* the wait after a fault, and in main() when it was left with them enabled.
Unmasked == IF stack = <<>> THEN ~mainMasked
            ELSE Top.kind \in {"user", "fault"} \cup DacKinds

\* EL0 code runs: the program, or its captured PRG_EXIT handler.
InProgram == Running("user") \/ Running("handler")

Derail == stack' = <<>> /\ pc' = "lost" /\ UNCHANGED mainMasked

\* system_call_exit: jump through the words _execute_user_program saved.
\* The mask is whatever it was: only main() finds out.
SystemCallExit(masked) ==
    /\ stack' = <<>>
    /\ mainMasked' = masked
    /\ pc' = IF returnSet /\ block = "own" THEN "returned" ELSE "lost"

\* terminate_current_user_program is a no-op without a program.
Terminate(masked) == IF active THEN SystemCallExit(masked) ELSE UNCHANGED cpuVars

\* Mutant: capture_prg_exit(NULL) is left out of on_user_program_exiting.
OnUserProgramExitingKeepsCapture == dirty' = {} /\ UNCHANGED handler

\* on_user_program_exiting.
OnUserProgramExiting == dirty' = {} /\ handler' = "default"

Init == /\ pc = "load" /\ stack = <<>> /\ mainMasked = FALSE
        /\ active = FALSE /\ program = NoProgram /\ request = NoProgram
        /\ young = FALSE
        /\ elr = "stale" /\ regs = "own" /\ block = "stale" /\ returnSet = FALSE
        /\ dacReturn = 0 /\ handlerReturn = 0
        /\ handler = "default" /\ events = [i \in Slots |-> "none"]
        /\ interruptActive = FALSE /\ cooling = FALSE
        /\ pending = {} /\ dirty = {}

-----------------------------------------------------------------------------
(* main(): one program after another.                                       *)

InMain(at) == pc = at /\ stack = <<>>
Goto(at) == pc' = at /\ UNCHANGED <<stack, mainMasked>>

\* Mutants: the switch path is not set to NULL; the default path is stored in it.
LoadProgramKeepsRequest ==
    /\ InMain("load") /\ Goto("loaded")
    /\ program' = IF request = NoProgram THEN MainInterface ELSE request
    /\ UNCHANGED <<active, request, young, launchVars, returnVars, exitVars, pending, dirty>>
LoadProgramStoresDefault ==
    /\ InMain("load") /\ Goto("loaded")
    /\ program' = IF request = NoProgram THEN MainInterface ELSE request
    /\ request' = program'
    /\ UNCHANGED <<active, young, launchVars, returnVars, exitVars, pending, dirty>>

\* load_user_program_from_disk succeeds; the switch path is freed.
LoadProgram ==
    /\ InMain("load") /\ Goto("loaded")
    /\ program' = IF request = NoProgram THEN MainInterface ELSE request
    /\ request' = NoProgram
    /\ UNCHANGED <<active, young, launchVars, returnVars, exitVars, pending, dirty>>

LoadFails ==
    /\ InMain("load") /\ Goto("stopped")
    /\ request' = NoProgram
    /\ UNCHANGED <<active, program, young, launchVars, returnVars, exitVars, pending, dirty>>

\* execute_user_program, up to the call of _execute_user_program.
SetActive ==
    /\ InMain("loaded") /\ Goto("active")
    /\ active' = TRUE /\ young' = TRUE
    /\ UNCHANGED <<program, request, launchVars, returnVars, exitVars, pending, dirty>>

\* sp_el0, spsr_el1 and elr_el1 are written first ...
SetEntry ==
    /\ InMain("active") /\ Goto("entry")
    /\ elr' = "program"
    /\ UNCHANGED <<programVars, regs, block, returnSet, returnVars, exitVars, pending, dirty>>

\* ... then the registers are stored, in the place a later exit looks for them ...
SaveRegisters ==
    /\ InMain("entry") /\ Goto("saved")
    /\ block' = regs
    /\ UNCHANGED <<programVars, elr, regs, returnSet, returnVars, exitVars, pending, dirty>>

\* ... then the two return words.
StoreReturn ==
    /\ InMain("saved") /\ Goto("armed")
    /\ returnSet' = TRUE
    /\ UNCHANGED <<programVars, elr, regs, block, returnVars, exitVars, pending, dirty>>

\* eret goes where elr_el1 says: an interrupt since SetEntry has made that the
\* instruction it interrupted, which then runs again with zeroed registers.
Eret ==
    /\ InMain("armed")
    /\ IF elr = "program"
         THEN pc' = "running" /\ Push("user") /\ UNCHANGED mainMasked
         ELSE Goto(elr)
    /\ regs' = "zero"
    /\ UNCHANGED <<programVars, elr, block, returnSet, returnVars, exitVars, pending, dirty>>

\* Back in execute_user_program with the saved registers.
ClearActive ==
    /\ InMain("returned") /\ Goto("inactive")
    /\ active' = FALSE
    /\ regs' = "own" /\ block' = "stale"
    /\ UNCHANGED <<program, request, young, elr, returnSet, returnVars, exitVars, pending, dirty>>

ResetProgramState ==
    /\ InMain("inactive") /\ Goto("cleaned")
    /\ OnUserProgramExiting
    /\ UNCHANGED <<programVars, launchVars, returnVars, events, interruptActive, cooling, pending>>

\* destroy_user_program, and the check for a main interface that ends at once.
Recycle ==
    /\ InMain("cleaned")
    /\ Goto(IF young /\ program = MainInterface THEN "stopped" ELSE "load")
    /\ UNCHANGED <<programVars, launchVars, returnVars, exitVars, pending, dirty>>

\* kernel_main's last loop.
SystemHalted == pc \in {"stopped", "lost"} /\ stack = <<>> /\ UNCHANGED vars

-----------------------------------------------------------------------------
(* EL0 code, and the system calls that change the control state.            *)

\* open, request_frame_buffers, keypad_polling, uart_keypad_emmulation ...
UseResource(r) ==
    /\ InProgram /\ r \notin dirty
    /\ dirty' = dirty \cup {r}
    /\ UNCHANGED <<cpuVars, programVars, launchVars, returnVars, exitVars, pending>>

CapturePrgExit ==
    /\ InProgram /\ handler' = "captured"
    /\ UNCHANGED <<cpuVars, programVars, launchVars, returnVars, events, interruptActive,
                   cooling, pending, dirty>>

ReleasePrgExit ==
    /\ InProgram /\ handler' = "default"
    /\ UNCHANGED <<cpuVars, programVars, launchVars, returnVars, events, interruptActive,
                   cooling, pending, dirty>>

\* system_call_exit as a system call: interrupts stay masked in main().
Exit ==
    /\ InProgram /\ SystemCallExit(TRUE)
    /\ UNCHANGED <<programVars, launchVars, returnVars, exitVars, pending, dirty>>

\* A system call touches an unmapped user address: the abort is taken in EL1
\* and kernal_arm_exception_handler ends the program there.
SystemCallAborts ==
    /\ \/ InProgram
       \/ Running("dac")
       \/ stack # <<>> /\ Top.kind \in DacKinds /\ ~Top.intact
    /\ Terminate(TRUE)
    /\ UNCHANGED <<programVars, launchVars, returnVars, exitVars, pending, dirty>>

SwitchTo(a) ==
    /\ InProgram
    /\ request' = a
    /\ Terminate(TRUE)
    /\ UNCHANGED <<active, program, young, launchVars, returnVars, exitVars, pending, dirty>>

\* generic_user_exception and user_arm_exception_handler: the program's
\* settings are reset, interrupts enabled, and the kernel waits for a key.
ProgramFaults ==
    /\ InProgram
    /\ Push("fault") /\ OnUserProgramExiting
    /\ UNCHANGED <<pc, mainMasked, programVars, launchVars, returnVars, events,
                   interruptActive, cooling, pending>>

\* The key arrives: main() goes on with interrupts enabled.
FaultAcknowledged ==
    /\ Running("fault")
    /\ Terminate(FALSE)
    /\ UNCHANGED <<programVars, launchVars, returnVars, exitVars, pending, dirty>>

\* system_call_uart_getc clears the mask in spsr_el1, not in PSTATE: it waits
\* with interrupts masked, as every other system call runs.
UartGetc ==
    /\ InProgram /\ Push("getc")
    /\ UNCHANGED <<pc, mainMasked, programVars, launchVars, returnVars, exitVars, pending, dirty>>

UartByteArrives ==
    /\ Running("getc") /\ Pop
    /\ UNCHANGED <<pc, mainMasked, programVars, launchVars, returnVars, exitVars, pending, dirty>>

-----------------------------------------------------------------------------
(* DAC output: a system call that runs with interrupts enabled and is left  *)
(* through dac_output_return_stack.                                         *)

\* MaxDacs bounds the sessions a handler may nest.
DacOutputStart ==
    /\ InProgram
    /\ Cardinality({i \in DOMAIN stack : stack[i].kind \in DacKinds}) < MaxDacs
    /\ Push("dacEntry")
    /\ UNCHANGED <<pc, mainMasked, programVars, launchVars, returnVars, exitVars, pending, dirty>>

\* Mutant: a word that is already set is kept.
DacSaveStackOnce ==
    /\ Running("dacEntry") /\ Top.intact
    /\ Become("dac") /\ dacReturn' = IF dacReturn = 0 THEN Len(stack) ELSE dacReturn
    /\ UNCHANGED <<pc, mainMasked, programVars, launchVars, handlerReturn, exitVars, pending, dirty>>

DacSaveStack ==
    /\ Running("dacEntry") /\ Top.intact
    /\ Become("dac") /\ dacReturn' = Len(stack)
    /\ UNCHANGED <<pc, mainMasked, programVars, launchVars, handlerReturn, exitVars, pending, dirty>>

\* An error, or the end of the buffer: _dac_output_start_internal returns into
\* dac_output_end, which returns to itself for ever if the word is zero.
DacFinishes ==
    /\ Running("dac") /\ Top.intact
    /\ dacReturn' = 0
    /\ IF dacReturn = Len(stack) THEN Become("dacExit") /\ UNCHANGED <<pc, mainMasked>>
                                 ELSE Derail
    /\ UNCHANGED <<programVars, launchVars, handlerReturn, exitVars, pending, dirty>>

\* system_call_dac_output_start masks interrupts again and returns.
DacReturns ==
    /\ Running("dacExit") /\ Top.intact
    /\ Pop
    /\ UNCHANGED <<pc, mainMasked, programVars, launchVars, returnVars, exitVars, pending, dirty>>

\* Kernel code that goes on with a handler's registers and a lower stack.
DacMisreturns ==
    /\ stack # <<>> /\ Top.kind \in DacKinds /\ ~Top.intact
    /\ Derail
    /\ UNCHANGED <<programVars, launchVars, returnVars, exitVars, pending, dirty>>

\* With the word zero the call only returns; otherwise control goes to the
\* caller of the dac_output_start whose frame the word names.
DacOutputEnd ==
    /\ InProgram
    /\ dacReturn' = 0
    /\ \/ dacReturn = 0 /\ UNCHANGED cpuVars
       \/ /\ dacReturn \in DOMAIN stack /\ stack[dacReturn].kind = "dac"
          /\ stack' = SubSeq(stack, 1, dacReturn - 1)
          /\ UNCHANGED <<pc, mainMasked>>
       \/ /\ dacReturn # 0
          /\ dacReturn \in DOMAIN stack => stack[dacReturn].kind # "dac"
          /\ Derail
    /\ UNCHANGED <<programVars, launchVars, handlerReturn, exitVars, pending, dirty>>

-----------------------------------------------------------------------------
(* Interrupts.                                                              *)

Raise(s) ==
    /\ pc # "lost" /\ s \notin pending
    /\ pending' = pending \cup {s}
    /\ UNCHANGED <<cpuVars, programVars, launchVars, returnVars, exitVars, dirty>>

PrgExitPressed == Raise("gpio")
UartReceives == Raise("uart")

\* set_timer_interrupt is called at the end of a poll and the delay is
\* milliseconds: by the next one, what was pending then has been taken.
TimerFires == ~Running("irq") /\ ~(Unmasked /\ pending # {}) /\ Raise("timer")

\* The entry saves no elr_el1: main() loses the one it has prepared.
TakeIrq ==
    /\ pc # "lost" /\ pending # {} /\ Unmasked
    /\ Push("irq") /\ interruptActive' = TRUE
    /\ elr' = IF stack = <<>> THEN pc ELSE elr
    /\ UNCHANGED <<pc, mainMasked, programVars, regs, block, returnSet, returnVars, handler,
                   events, cooling, pending, dirty>>

\* generic_irq_handler asks for the timer first, then the lowest number:
\* GPIO (52) before UART (57).
Dispatched == CASE "timer" \in pending -> "timer"
                [] "timer" \notin pending /\ "gpio" \in pending -> "gpio"
                [] OTHER -> "uart"

\* event_handler_add_interupt_end: the first free slot, or kernel_panic.
FreeSlots == {i \in Slots : events[i] = "none"}
AddInterruptEnd(h) ==
    IF FreeSlots = {} THEN Derail /\ UNCHANGED events
                      ELSE events' = [events EXCEPT ![Min(FreeSlots)] = h] /\ UNCHANGED cpuVars

\* Mutant: the default handler is queued whatever the program has captured.
TriggerPrgExitDefault ==
    IF cooling THEN UNCHANGED <<cpuVars, events, cooling>>
               ELSE AddInterruptEnd("default") /\ cooling' = TRUE

\* tigger_prg_exit inside an interrupt: debounced, then deferred.
TriggerPrgExit ==
    IF cooling THEN UNCHANGED <<cpuVars, events, cooling>>
               ELSE AddInterruptEnd(handler) /\ cooling' = TRUE

\* generic_irq_handler up to interupt_active = false.  A GPIO interrupt is the
\* button; a UART message may or may not hold its code.
DispatchIrq ==
    /\ Running("irq") /\ interruptActive
    /\ pending' = pending \ {Dispatched}
    /\ interruptActive' = FALSE
    /\ \/ Dispatched \in {"gpio", "uart"} /\ TriggerPrgExit
       \/ Dispatched \in {"timer", "uart"} /\ UNCHANGED <<cpuVars, events, cooling>>
    /\ UNCHANGED <<programVars, launchVars, returnVars, handler, dirty>>

Queued == Slots \ FreeSlots

\* Mutant: the word keeps the first handler's way back.
EnterHandlerOnce ==
    /\ Push("handler") /\ UNCHANGED <<pc, mainMasked>>
    /\ handlerReturn' = IF handlerReturn = 0 THEN Len(stack) + 1 ELSE handlerReturn

\* _execute_function_as_user_program: the way back goes to one global word, over
\* that of a handler this one has broken into.
EnterHandler ==
    /\ Push("handler") /\ handlerReturn' = Len(stack) + 1
    /\ UNCHANGED <<pc, mainMasked>>

\* event_handler_on_interupt_end: a slot is emptied before its handler runs,
\* for the handler need not come back.
RunEvent ==
    /\ Running("irq") /\ ~interruptActive /\ Queued # {}
    /\ LET i == Min(Queued) IN
         /\ events' = [events EXCEPT ![i] = "none"]
         /\ \/ events[i] = "default" /\ Terminate(TRUE) /\ UNCHANGED handlerReturn
            \/ events[i] = "captured" /\ EnterHandler
    /\ UNCHANGED <<programVars, launchVars, dacReturn, handler, interruptActive, cooling,
                   pending, dirty>>

ReturnFromIrq ==
    /\ Running("irq") /\ ~interruptActive /\ Queued = {}
    /\ Pop
    /\ UNCHANGED <<pc, mainMasked, programVars, launchVars, returnVars, exitVars, pending, dirty>>

\* The abort on the magic return address ends in _return_from_user_function,
\* which goes straight to the interrupted code: exit_from_interupt never
\* reloads its x0 to x18, and the interrupt's frame stays on the stack.
ReturnToInterrupted ==
    /\ stack' = [SubSeq(stack, 1, Len(stack) - 2)
                   EXCEPT ![Len(stack) - 2].intact = FALSE]
    /\ UNCHANGED <<pc, mainMasked>>

\* The word is that of a handler which broke into a session of this one and left
\* it with dac_output_end.  Its dead frame still leads back into that session.
\* (Frames between are left out: nothing returns through a disturbed session.)
ResumeDeadSession ==
    /\ stack' = Append(stack, [kind |-> "dac", intact |-> FALSE])
    /\ UNCHANGED <<pc, mainMasked>>

HandlerReturns ==
    /\ Running("handler")
    /\ IF handlerReturn = Len(stack) THEN ReturnToInterrupted
                                     ELSE ResumeDeadSession \/ Derail
    /\ UNCHANGED <<programVars, launchVars, returnVars, exitVars, pending, dirty>>

-----------------------------------------------------------------------------
(* Time.                                                                    *)

QuarterSecondPasses ==
    /\ young /\ young' = FALSE
    /\ UNCHANGED <<cpuVars, active, program, request, launchVars, returnVars, exitVars, pending,
                   dirty>>

DebounceTimePasses ==
    /\ cooling /\ cooling' = FALSE
    /\ UNCHANGED <<cpuVars, programVars, launchVars, returnVars, handler, events,
                   interruptActive, pending, dirty>>

Main == \/ LoadProgram \/ LoadFails \/ SetActive \/ SetEntry \/ SaveRegisters \/ StoreReturn
        \/ Eret \/ ClearActive \/ ResetProgramState \/ Recycle

Program == \/ \E r \in Resources : UseResource(r)
           \/ \E a \in Apps : SwitchTo(a)
           \/ CapturePrgExit \/ ReleasePrgExit \/ Exit \/ SystemCallAborts \/ ProgramFaults
           \/ FaultAcknowledged \/ UartGetc \/ UartByteArrives

Dac == \/ DacOutputStart \/ DacSaveStack \/ DacFinishes \/ DacReturns \/ DacMisreturns
       \/ DacOutputEnd

Interrupts == TakeIrq \/ DispatchIrq \/ RunEvent \/ ReturnFromIrq \/ HandlerReturns

Environment == \/ PrgExitPressed \/ UartReceives \/ TimerFires
               \/ QuarterSecondPasses \/ DebounceTimePasses

Next == Main \/ Program \/ Dac \/ Interrupts \/ Environment \/ SystemHalted

Spec == Init /\ [][Next]_vars

\* The processor does not stop: main() runs on, an unmasked interrupt is taken,
\* and an interrupt handler runs to its end.  Programs owe nothing.
Fairness == /\ WF_vars(Main) /\ WF_vars(TakeIrq) /\ WF_vars(DispatchIrq)
            /\ WF_vars(RunEvent) /\ WF_vars(ReturnFromIrq)

FairSpec == Spec /\ Fairness

-----------------------------------------------------------------------------
(* Properties.                                                              *)

TypeOK == /\ pc \in PCs /\ stack \in Seq(Frame) /\ mainMasked \in BOOLEAN
          /\ active \in BOOLEAN /\ young \in BOOLEAN
          /\ program \in Apps \cup {MainInterface, NoProgram}
          /\ request \in Apps \cup {NoProgram}
          /\ elr \in PCs \cup {"stale", "program"} /\ regs \in {"own", "zero"}
          /\ block \in {"stale", "own", "zero"} /\ returnSet \in BOOLEAN
          /\ dacReturn \in Nat /\ handlerReturn \in Nat
          /\ handler \in {"default", "captured"}
          /\ events \in [Slots -> {"none", "default", "captured"}]
          /\ interruptActive \in BOOLEAN /\ cooling \in BOOLEAN
          /\ pending \subseteq Sources /\ dirty \subseteq Resources

\* A deferred PRG_EXIT handler is queued only by the interrupt that is ending:
\* none survives the jump its predecessor made out of an interrupt, and one
\* slot of the table is all that is ever used.
ExitsDrained ==
    /\ \A i, j \in Queued : i = j
    /\ Queued # {} => Running("irq") /\ ~interruptActive

\* A captured PRG_EXIT handler is reachable only while its program is there to
\* be run and to be returned from: once the program is over, main() keeps
\* interrupts masked until the handler has been reset.
CaptureNeedsProgram ==
    handler = "captured" => \/ pc = "running" /\ active /\ returnSet /\ block = "own"
                            \/ stack = <<>> /\ mainMasked /\ pc \in {"returned", "inactive"}
                            \/ pc = "lost"

\* While a DAC session that no handler has disturbed is running, the word
\* dac_output_end jumps through is that session's, whatever sessions handlers
\* have opened and left since.
SessionOwnsReturn == Running("dac") /\ Top.intact => dacReturn = Len(stack)

\* However the last program ended, the next one starts with the default
\* PRG_EXIT handler, with nothing queued, and with its predecessor's
\* resources put back.
CleanStart ==
    [][pc = "armed" /\ pc' = "running" =>
         /\ handler = "default" /\ dirty = {} /\ Queued = {} /\ ~interruptActive]_vars

\* PRG_EXIT, pressed while a program runs with the default handler, ends it
\* unless the program is inside its own earlier handler, waits for a UART byte
\* (with interrupts masked) or captures the button first.
PrgExitEndsProgram ==
    pc = "running" /\ "gpio" \in pending /\ handler = "default" /\ ~cooling
      ~> \/ pc # "running" \/ handler = "captured" \/ Running("getc")
         \/ \E i \in DOMAIN stack : stack[i].kind = "handler"

\* The invariant behind CaptureNeedsProgram, in parts.  The stack belongs to a
\* running program, or is one interrupt of main(); a handler's frame lies over
\* an interrupt's, over the program's.
StackShape ==
    /\ stack # <<>> => \/ pc = "running" /\ stack[1].kind = "user"
                       \/ pc \notin {"running", "lost"} /\ Len(stack) = 1 /\ stack[1].kind = "irq"
    /\ pc = "running" => stack # <<>>
    /\ \A i \in 1..Len(stack) : stack[i].kind = "handler" => i >= 3

\* A program that was entered was entered with its way back stored: the one
\* eret that enters it is the one no interrupt of main() has redirected.
LaunchReady ==
    /\ pc # "lost" => (active <=> pc \in {"active", "entry", "saved", "armed", "running", "returned"})
    /\ pc \in {"load", "loaded", "active", "inactive", "cleaned"} => regs = "own"
    /\ pc \in {"entry", "saved", "armed"} =>
         /\ elr \in {"program", "entry", "saved", "armed"}
         /\ elr = "program" => regs = "own" /\ (pc # "entry" => block = "own")
    /\ pc = "armed" \/ elr = "armed" => returnSet
    /\ pc = "running" => returnSet /\ block = "own"

\* What is queued is the handler in force, so a program's handler is never run
\* after the program has replaced it.
QueuedIsCurrent == \A i \in Slots : events[i] \in {"none", handler}

\* Once a program has faulted it runs no more code: only interrupts, with the
\* default handler, lie over the wait for a key.
FaultQuiet ==
    \A i \in 1..Len(stack) : stack[i].kind = "fault" =>
        /\ handler = "default"
        /\ \A j \in 1..Len(stack) : j > i => stack[j].kind = "irq"

\* What each kind of frame can lie over.
StackLayers ==
    \A i \in 2..Len(stack) :
        LET over == stack[i].kind  under == stack[i - 1].kind
        IN  /\ over # "user"
            /\ over = "irq" => under \in {"user", "fault"} \cup DacKinds
            /\ over = "handler" => under = "irq"
            /\ over \in {"getc", "fault"} \cup DacKinds => under \in {"user", "handler"}

\* The word is an undisturbed session's also while an interrupt lies over it.
SessionWord ==
    \A i \in 1..Len(stack) :
        /\ stack[i].kind = "dac" /\ stack[i].intact
        /\ \A j \in i + 1 .. Len(stack) : stack[j].kind = "irq"
        => dacReturn = i

\* The word is never that of a handler below the running one: it leads back to
\* what that handler has interrupted, or to dead memory above it.
HandlerWord ==
    \A i \in 1..Len(stack) : stack[i].kind = "handler" => handlerReturn >= i

\* interupt_active is set only in the interrupt handler it is about.
InterruptOnTop == interruptActive => Running("irq")

\* What a program changed is put back before another program is loaded.
DirtyNeedsProgram == dirty # {} => pc \in {"running", "returned", "inactive", "lost"}

\* A request is left by a program that ends, and is honoured before the next.
RequestAwaitsEnd ==
    request # NoProgram => pc \in {"returned", "inactive", "cleaned", "load", "stopped", "lost"}

ControlInvariant == /\ ExitsDrained /\ StackShape /\ LaunchReady /\ QueuedIsCurrent
                    /\ FaultQuiet /\ CaptureNeedsProgram
                    /\ StackLayers /\ SessionWord /\ HandlerWord /\ InterruptOnTop
                    /\ DirtyNeedsProgram /\ RequestAwaitsEnd

\* The kernel implements the life cycle it promises its programs.
Phase == CASE pc = "load" -> "select"
           [] pc \in {"loaded", "active", "entry", "saved", "armed"} -> "selected"
           [] pc \in {"returned", "inactive", "cleaned"} -> "over"
           [] OTHER -> pc
Lifecycle == INSTANCE ProgramLifecycle WITH phase <- Phase
ImplementsLifecycle == Lifecycle!Spec

-----------------------------------------------------------------------------
\* user_program.h:79, execute_user_program "Starts execution for the given user
\* program": its eret enters the program.
EretStartsProgram == [][Eret => pc' = "running"]_vars
=============================================================================
