------------------------ MODULE ProgramControlProofs ------------------------
(***************************************************************************)
(* Proofs about ProgramControl, for any set of programs, any number of     *)
(* event slots and any nesting of DAC sessions.                            *)
(***************************************************************************)
EXTENDS ProgramControl, SequenceTheorems, TLAPS

-----------------------------------------------------------------------------
(* The five ways an action changes the stack.                               *)

\* A frame pushed is the last, and the others stay where they are.
LEMMA PushStack ==
  ASSUME stack \in Seq(Frame), NEW k \in Kinds, Push(k)
  PROVE  /\ stack' \in Seq(Frame) /\ stack' # <<>>
         /\ Len(stack') = Len(stack) + 1
         /\ \A i \in 1..Len(stack) : stack'[i] = stack[i]
         /\ stack'[Len(stack) + 1] = New(k)
<1>1. New(k) \in Frame
  BY DEF New, Frame
<1>2. stack' = Append(stack, New(k))
  BY DEF Push
<1> QED
  BY <1>1, <1>2, AppendProperties

LEMMA NewKind ==
  ASSUME NEW k
  PROVE  New(k).kind = k
BY DEF New

\* A jump to an outer frame keeps what is below it.
LEMMA PrefixStack ==
  ASSUME stack \in Seq(Frame), NEW n \in 0..Len(stack), stack' = SubSeq(stack, 1, n)
  PROVE  /\ stack' \in Seq(Frame)
         /\ Len(stack') = n
         /\ \A i \in 1..n : stack'[i] = stack[i]
<1>1. Len(stack) \in Nat /\ \A i \in 1..Len(stack) : stack[i] \in Frame
  BY LenProperties, ElementOfSeq
<1>2. \A i \in 1..n : stack[i] \in Frame
  BY <1>1
<1> QED
  BY <1>1, <1>2, SubSeqProperties

\* Popping a frame is such a jump.
LEMMA PopStack ==
  ASSUME stack \in Seq(Frame), stack # <<>>, Pop
  PROVE  /\ stack' \in Seq(Frame)
         /\ Len(stack) \in Nat /\ Len(stack') = Len(stack) - 1
         /\ \A i \in 1..Len(stack) - 1 : stack'[i] = stack[i]
<1>1. Len(stack) \in Nat /\ Len(stack) - 1 \in 0..Len(stack)
  BY EmptySeq, LenProperties
<1> QED
  BY <1>1, PrefixStack DEF Pop

\* The running frame changes its kind and nothing else.
LEMMA BecomeStack ==
  ASSUME stack \in Seq(Frame), stack # <<>>, NEW k \in Kinds, Become(k)
  PROVE  /\ stack' \in Seq(Frame) /\ stack' # <<>>
         /\ Len(stack') = Len(stack)
         /\ \A i \in 1..Len(stack) : i # Len(stack) => stack'[i] = stack[i]
         /\ stack'[Len(stack)].kind = k
<1>1. Len(stack) \in Nat /\ Len(stack) \in 1..Len(stack)
  BY EmptySeq, LenProperties
<1>2. stack[Len(stack)] \in Frame
  BY <1>1, ElementOfSeq
<1>3. [stack[Len(stack)] EXCEPT !.kind = k] \in Frame
  BY <1>2 DEF Frame
<1>4. stack' = [stack EXCEPT ![Len(stack)] = [stack[Len(stack)] EXCEPT !.kind = k]]
  BY DEF Become
<1>5. stack' \in Seq(Frame) /\ Len(stack') = Len(stack)
  BY <1>1, <1>3, <1>4, ExceptSeq
<1>6. DOMAIN stack = 1..Len(stack)
  BY LenProperties
<1>7. stack'[Len(stack)].kind = k
  BY <1>1, <1>2, <1>4, <1>6 DEF Frame
<1> QED
  BY <1>1, <1>4, <1>5, <1>6, <1>7

\* A returning handler leaves the stack two frames lower, kinds unchanged.
LEMMA UnwindStack ==
  ASSUME stack \in Seq(Frame), Len(stack) >= 3, ReturnToInterrupted
  PROVE  /\ stack' \in Seq(Frame)
         /\ Len(stack') = Len(stack) - 2
         /\ \A i \in 1..Len(stack) - 2 : stack'[i].kind = stack[i].kind
         /\ stack'[Len(stack) - 2].intact = FALSE
<1> DEFINE n == Len(stack) - 2
           t == SubSeq(stack, 1, n)
<1>1. Len(stack) \in Nat /\ n \in 0..Len(stack) /\ n \in 1..n
  BY LenProperties
<1>2. \A i \in 1..n : stack[i] \in Frame
  BY <1>1, ElementOfSeq
<1>3. t \in Seq(Frame) /\ Len(t) = n /\ \A i \in 1..n : t[i] = stack[i]
  BY <1>1, <1>2, SubSeqProperties
<1>4. stack' = [t EXCEPT ![n] = [t[n] EXCEPT !.intact = FALSE]]
  BY DEF ReturnToInterrupted
<1>5. t[n] \in Frame
  BY <1>1, <1>2, <1>3
<1>6. /\ [t[n] EXCEPT !.intact = FALSE] \in Frame
      /\ [t[n] EXCEPT !.intact = FALSE].kind = t[n].kind
      /\ [t[n] EXCEPT !.intact = FALSE].intact = FALSE
  BY <1>5 DEF Frame
<1> HIDE DEF t
<1>7. /\ stack' \in Seq(Frame) /\ Len(stack') = n
      /\ \A i \in 1..n : stack'[i] = IF i = n THEN [t[n] EXCEPT !.intact = FALSE] ELSE t[i]
  BY <1>1, <1>3, <1>4, <1>6, ExceptSeq
<1> QED
  BY <1>1, <1>3, <1>6, <1>7

\* A dead session's frame comes back over the others, disturbed.
LEMMA ResumeStack ==
  ASSUME stack \in Seq(Frame), ResumeDeadSession
  PROVE  /\ stack' \in Seq(Frame) /\ stack' # <<>>
         /\ Len(stack') = Len(stack) + 1
         /\ \A i \in 1..Len(stack) : stack'[i] = stack[i]
         /\ stack'[Len(stack) + 1].kind = "dac" /\ stack'[Len(stack) + 1].intact = FALSE
<1> DEFINE dead == [kind |-> "dac", intact |-> FALSE]
<1>1. dead \in Frame /\ dead.kind = "dac" /\ dead.intact = FALSE
  BY DEF Frame, Kinds, DacKinds
<1>2. stack' = Append(stack, dead)
  BY DEF ResumeDeadSession
<1> HIDE DEF dead
<1> QED
  BY <1>1, <1>2, AppendProperties

\* The running frame, when there is one of the given kind.
LEMMA TopFrame ==
  ASSUME stack \in Seq(Frame), stack # <<>>
  PROVE  /\ Len(stack) \in Nat \ {0} /\ Len(stack) \in 1..Len(stack)
         /\ Top = stack[Len(stack)] /\ Top \in Frame /\ Top.kind \in Kinds
<1>1. Len(stack) \in Nat \ {0}
  BY EmptySeq
<1>2. Len(stack) \in 1..Len(stack)
  BY <1>1
<1>3. Top \in Frame
  BY <1>2, ElementOfSeq DEF Top
<1> QED
  BY <1>1, <1>2, <1>3 DEF Top, Frame

-----------------------------------------------------------------------------
(* Type correctness.                                                        *)

LEMMA StackTyped ==
  ASSUME TypeOK, StackShape, Next
  PROVE  stack' \in Seq(Frame)
<1> stack \in Seq(Frame)
  BY DEF TypeOK
<1>0. <<>> \in Seq(Frame)
  BY EmptySeq
<1>1. ASSUME NEW k \in {"user", "irq", "handler", "getc", "fault", "dacEntry"}, Push(k)
      PROVE  stack' \in Seq(Frame)
  BY <1>1, PushStack DEF Kinds, DacKinds
<1>2. ASSUME stack # <<>>, Pop
      PROVE  stack' \in Seq(Frame)
  BY <1>2, PopStack
<1>3. ASSUME NEW m \in BOOLEAN, SystemCallExit(m)
      PROVE  stack' \in Seq(Frame)
  BY <1>0, <1>3 DEF SystemCallExit
<1>4. ASSUME NEW m \in BOOLEAN, Terminate(m)
      PROVE  stack' \in Seq(Frame)
  BY <1>3, <1>4 DEF Terminate, cpuVars
<1>5. CASE Main
  BY <1>1, <1>5 DEF Main, LoadProgram, LoadFails, SetActive, SetEntry, SaveRegisters, StoreReturn,
     Eret, ClearActive, ResetProgramState, Recycle, Goto
<1>6. CASE Program
  BY <1>1, <1>2, <1>3, <1>4, <1>6 DEF Program, UseResource, SwitchTo, CapturePrgExit,
     ReleasePrgExit, Exit, SystemCallAborts, ProgramFaults, FaultAcknowledged, UartGetc,
     UartByteArrives, Running, cpuVars
<1>7. CASE Dac
  <2>1. CASE DacSaveStack
    BY <2>1, BecomeStack DEF DacSaveStack, Running, Kinds, DacKinds
  <2>2. CASE DacFinishes
    BY <1>0, <2>2, BecomeStack DEF DacFinishes, Derail, Running, Kinds, DacKinds
  <2>3. CASE DacOutputEnd
    <3>1. ASSUME dacReturn \in DOMAIN stack
          PROVE  dacReturn - 1 \in 0..Len(stack)
      BY <3>1, LenProperties
    <3> QED
      BY <1>0, <2>3, <3>1, PrefixStack DEF DacOutputEnd, Derail, cpuVars
  <2> QED
    BY <1>0, <1>1, <1>2, <1>7, <2>1, <2>2, <2>3 DEF Dac, DacOutputStart, DacReturns,
       DacMisreturns, Derail, Running
<1>8. CASE Interrupts
  <2>1. CASE HandlerReturns
    <3>1. Len(stack) >= 3
      BY <2>1, TopFrame DEF HandlerReturns, ReturnToInterrupted, ResumeDeadSession, Derail,
         Running, StackShape
    <3> QED
      BY <1>0, <2>1, <3>1, UnwindStack, ResumeStack DEF HandlerReturns, Derail
  <2>2. CASE DispatchIrq
    BY <1>0, <2>2 DEF DispatchIrq, TriggerPrgExit, AddInterruptEnd, Derail, cpuVars
  <2> QED
    BY <1>1, <1>2, <1>4, <1>8, <2>1, <2>2 DEF Interrupts, TakeIrq, RunEvent, EnterHandler,
       ReturnFromIrq, Running
<1>9. CASE Environment \/ SystemHalted
  BY <1>9 DEF Environment, PrgExitPressed, UartReceives, TimerFires, Raise, QuarterSecondPasses,
     DebounceTimePasses, SystemHalted, vars, cpuVars
<1> QED
  BY <1>5, <1>6, <1>7, <1>8, <1>9 DEF Next

\* TypeOK without the stack, by the kind of its values.
WordTypes ==
    /\ pc \in PCs /\ elr \in PCs \cup {"stale", "program"}
    /\ program \in Apps \cup {MainInterface, NoProgram} /\ request \in Apps \cup {NoProgram}
    /\ regs \in {"own", "zero"} /\ block \in {"stale", "own", "zero"} /\ dacReturn \in Nat
    /\ handlerReturn \in Nat /\ handler \in {"default", "captured"}

FlagTypes ==
    /\ mainMasked \in BOOLEAN /\ active \in BOOLEAN /\ young \in BOOLEAN
    /\ returnSet \in BOOLEAN /\ interruptActive \in BOOLEAN /\ cooling \in BOOLEAN

SetTypes ==
    /\ events \in [Slots -> {"none", "default", "captured"}]
    /\ pending \subseteq Sources /\ dirty \subseteq Resources

LEMMA TypeParts == TypeOK <=> stack \in Seq(Frame) /\ WordTypes /\ FlagTypes /\ SetTypes
BY DEF TypeOK, WordTypes, FlagTypes, SetTypes

LEMMA InitTyped == Init => TypeOK
<1>1. Init => stack \in Seq(Frame)
  BY EmptySeq DEF Init
<1>2. Init => WordTypes
  BY DEF Init, WordTypes, PCs
<1>3. Init => FlagTypes
  BY DEF Init, FlagTypes
<1>4. Init => SetTypes
  BY DEF Init, SetTypes
<1> QED
  BY <1>1, <1>2, <1>3, <1>4, TypeParts

LEMMA WordStep ==
  ASSUME WordTypes, Len(stack) \in Nat, LaunchReady, Next
  PROVE  WordTypes'
<1> USE DEF WordTypes
<1>1. CASE Main
  <2>1. CASE Eret
    BY <2>1 DEF Eret, LaunchReady, InMain, Goto, PCs, programVars, exitVars, returnVars
  <2> QED
    BY <1>1, <2>1 DEF Main, LoadProgram, LoadFails, SetActive, SetEntry, SaveRegisters, StoreReturn,
       ClearActive, ResetProgramState, Recycle, InMain, Goto, OnUserProgramExiting, PCs,
       programVars, launchVars, exitVars, returnVars
<1>2. CASE Program
  BY <1>2 DEF Program, UseResource, SwitchTo, CapturePrgExit, ReleasePrgExit, Exit,
       SystemCallAborts, ProgramFaults, FaultAcknowledged, UartGetc, UartByteArrives, Terminate,
       SystemCallExit, OnUserProgramExiting, cpuVars, programVars, launchVars, exitVars, returnVars, PCs
<1>3. CASE Dac
  BY <1>3 DEF Dac, DacOutputStart, DacSaveStack, DacFinishes, DacReturns,
     DacMisreturns, DacOutputEnd, Derail, PCs, cpuVars, programVars, launchVars, exitVars, returnVars
<1>4. CASE Interrupts
  BY <1>4 DEF Interrupts, TakeIrq, DispatchIrq, TriggerPrgExit, AddInterruptEnd, RunEvent,
     EnterHandler, ReturnFromIrq, HandlerReturns, ReturnToInterrupted, ResumeDeadSession, Derail,
     Terminate, SystemCallExit, PCs, cpuVars, programVars, launchVars, exitVars, returnVars
<1>5. CASE Environment \/ SystemHalted
  BY <1>5 DEF Environment, PrgExitPressed, UartReceives, TimerFires, Raise,
     QuarterSecondPasses, DebounceTimePasses, SystemHalted, vars, cpuVars, programVars, launchVars,
     exitVars, returnVars, Sources
<1> QED
  BY <1>1, <1>2, <1>3, <1>4, <1>5 DEF Next

LEMMA FlagStep ==
  ASSUME FlagTypes, Next
  PROVE  FlagTypes'
<1> USE DEF FlagTypes
<1>1. CASE Main
  BY <1>1 DEF Main, LoadProgram, LoadFails, SetActive, SetEntry, SaveRegisters, StoreReturn,
     Eret, ClearActive, ResetProgramState, Recycle, InMain, Goto, OnUserProgramExiting,
     programVars, launchVars, exitVars
<1>2. CASE Program
  BY <1>2 DEF Program, UseResource, SwitchTo, CapturePrgExit, ReleasePrgExit, Exit,
       SystemCallAborts, ProgramFaults, FaultAcknowledged, UartGetc, UartByteArrives, Terminate,
       SystemCallExit, OnUserProgramExiting, cpuVars, programVars, launchVars, exitVars
<1>3. CASE Dac
  BY <1>3 DEF Dac, DacOutputStart, DacSaveStack, DacFinishes, DacReturns,
     DacMisreturns, DacOutputEnd, Derail, cpuVars, programVars, launchVars, exitVars
<1>4. CASE Interrupts
  BY <1>4 DEF Interrupts, TakeIrq, DispatchIrq, TriggerPrgExit, AddInterruptEnd, RunEvent,
     EnterHandler, ReturnFromIrq, HandlerReturns, ReturnToInterrupted, ResumeDeadSession, Derail,
     Terminate, SystemCallExit, cpuVars, programVars, launchVars, exitVars
<1>5. CASE Environment \/ SystemHalted
  BY <1>5 DEF Environment, PrgExitPressed, UartReceives, TimerFires, Raise,
     QuarterSecondPasses, DebounceTimePasses, SystemHalted, vars, cpuVars, programVars, launchVars,
     exitVars
<1> QED
  BY <1>1, <1>2, <1>3, <1>4, <1>5 DEF Next

LEMMA SetStep ==
  ASSUME SetTypes, handler \in {"default", "captured"}, Next
  PROVE  SetTypes'
<1> USE DEF SetTypes
<1>1. CASE Main
  BY <1>1 DEF Main, LoadProgram, LoadFails, SetActive, SetEntry, SaveRegisters, StoreReturn,
     Eret, ClearActive, ResetProgramState, Recycle, OnUserProgramExiting,
     programVars, launchVars, exitVars
<1>2. CASE Program
  BY <1>2 DEF Program, UseResource, SwitchTo, CapturePrgExit, ReleasePrgExit, Exit,
       SystemCallAborts, ProgramFaults, FaultAcknowledged, UartGetc, UartByteArrives,
       OnUserProgramExiting, programVars, launchVars, exitVars
<1>3. CASE Dac
  BY <1>3 DEF Dac, DacOutputStart, DacSaveStack, DacFinishes, DacReturns,
     DacMisreturns, DacOutputEnd, programVars, launchVars, exitVars
<1>4. CASE Interrupts
  BY <1>4 DEF Interrupts, TakeIrq, DispatchIrq, TriggerPrgExit, AddInterruptEnd, RunEvent,
     EnterHandler, ReturnFromIrq, HandlerReturns, ReturnToInterrupted, ResumeDeadSession, Derail,
     programVars, launchVars, exitVars
<1>5. CASE Environment \/ SystemHalted
  BY <1>5 DEF Environment, PrgExitPressed, UartReceives, TimerFires, Raise,
     QuarterSecondPasses, DebounceTimePasses, SystemHalted, vars, programVars, launchVars,
     exitVars, Sources
<1> QED
  BY <1>1, <1>2, <1>3, <1>4, <1>5 DEF Next

LEMMA TypeStep ==
  ASSUME TypeOK, StackShape, LaunchReady, Next
  PROVE  TypeOK'
<1>1. stack' \in Seq(Frame)
  BY StackTyped
<1>2. Len(stack) \in Nat /\ handler \in {"default", "captured"}
  BY LenProperties DEF TypeOK
<1>3. WordTypes' /\ FlagTypes' /\ SetTypes'
  BY <1>2, TypeParts, WordStep, FlagStep, SetStep
<1> QED
  BY <1>1, <1>3 DEF TypeOK, WordTypes, FlagTypes, SetTypes

-----------------------------------------------------------------------------
(* The control invariant is inductive: one lemma for each of its parts.     *)

\* What runs above main(), other than an interrupt, runs for a program.
LEMMA AboveMain ==
  ASSUME TypeOK, StackShape, stack # <<>>, Top.kind # "irq"
  PROVE  pc = "running" /\ stack[1].kind = "user"
BY TopFrame DEF TypeOK, StackShape

LEMMA LaunchReadyStep ==
  ASSUME TypeOK, StackShape, LaunchReady, Next
  PROVE  LaunchReady'
<1> USE DEF LaunchReady
<1>1. CASE Main
  <2>1. pc # "running"
    BY <1>1 DEF Main, LoadProgram, LoadFails, SetActive, SetEntry, SaveRegisters, StoreReturn,
       Eret, ClearActive, ResetProgramState, Recycle, InMain
  <2>2. CASE Eret
    BY <2>2 DEF Eret, InMain, Goto, programVars
  <2>3. CASE SetEntry \/ SaveRegisters \/ StoreReturn \/ ClearActive
    BY <2>3 DEF SetEntry, SaveRegisters, StoreReturn, ClearActive, InMain, Goto, programVars,
       launchVars
  <2>4. CASE LoadProgram \/ LoadFails \/ SetActive \/ ResetProgramState \/ Recycle
    BY <2>4 DEF LoadProgram, LoadFails, SetActive, ResetProgramState, Recycle, InMain, Goto,
       programVars, launchVars
  <2> QED
    BY <1>1, <2>2, <2>3, <2>4 DEF Main
<1>2. ASSUME UNCHANGED <<programVars, launchVars, pc>> \/ UNCHANGED <<active, launchVars, pc>>
      PROVE  LaunchReady'
  BY <1>2 DEF programVars, launchVars
<1>3. ASSUME active \/ pc = "running", active' = active, UNCHANGED launchVars,
             NEW m \in BOOLEAN, SystemCallExit(m)
      PROVE  LaunchReady'
  BY <1>3 DEF SystemCallExit, launchVars, TypeOK
<1>4. ASSUME active' = active, UNCHANGED launchVars, NEW m \in BOOLEAN, Terminate(m)
      PROVE  LaunchReady'
  BY <1>2, <1>3, <1>4 DEF Terminate, cpuVars
<1>5. ASSUME UNCHANGED launchVars, Derail
      PROVE  LaunchReady'
  BY <1>5 DEF launchVars, Derail
<1>6. CASE Program
  <2>1. CASE Exit
    <3>1. pc = "running"
      BY <2>1, AboveMain DEF Exit, InProgram, Running
    <3> QED
      BY <1>3, <2>1, <3>1 DEF Exit, programVars
  <2> QED
    BY <1>2, <1>4, <1>6, <2>1 DEF Program, UseResource, SwitchTo, CapturePrgExit, ReleasePrgExit,
       SystemCallAborts, ProgramFaults, FaultAcknowledged, UartGetc, UartByteArrives, cpuVars,
       programVars
<1>7. CASE Dac
  BY <1>2, <1>5, <1>7 DEF Dac, DacOutputStart, DacSaveStack, DacFinishes, DacReturns,
     DacMisreturns, DacOutputEnd, cpuVars
<1>8. CASE Interrupts
  <2>1. CASE TakeIrq
    <3>1. stack = <<>> => pc \notin {"running", "lost"}
      BY <2>1 DEF TakeIrq, StackShape
    <3> QED
      BY <2>1, <3>1 DEF TakeIrq, programVars
  <2> QED
    BY <1>2, <1>4, <1>5, <1>8, <2>1 DEF Interrupts, DispatchIrq, TriggerPrgExit, AddInterruptEnd,
       RunEvent, EnterHandler, ReturnFromIrq, HandlerReturns, ReturnToInterrupted,
       ResumeDeadSession, Derail, cpuVars, programVars
<1>9. CASE Environment \/ SystemHalted
  BY <1>2, <1>9 DEF Environment, PrgExitPressed, UartReceives, TimerFires, Raise,
     QuarterSecondPasses, DebounceTimePasses, SystemHalted, vars, cpuVars, programVars
<1> QED
  BY <1>1, <1>6, <1>7, <1>8, <1>9 DEF Next

\* With one slot used at most, the first used slot is the one used.
LEMMA FirstQueued ==
  ASSUME ExitsDrained, Queued # {}
  PROVE  Min(Queued) \in Queued
<1>1. PICK q : q \in Queued /\ Queued = {q}
  BY DEF ExitsDrained
<1>2. q <= q
  BY <1>1 DEF Queued, Slots
<1>3. \E x \in Queued : \A y \in Queued : x <= y
  BY <1>1, <1>2
<1> QED
  BY <1>3 DEF Min

\* Adding to an empty table uses one slot of it.
LEMMA FirstFree ==
  ASSUME Queued = {}
  PROVE  FreeSlots = Slots /\ Min(FreeSlots) \in Slots
<1>1. FreeSlots = Slots
  BY DEF Queued, FreeSlots
<1>2. 1 \in Slots /\ \A y \in Slots : 1 <= y
  BY ControlAssumption DEF Slots
<1> QED
  BY <1>1, <1>2 DEF Min

LEMMA QuietQueue ==
  ASSUME ExitsDrained, ~(Running("irq") /\ ~interruptActive)
  PROVE  Queued = {} /\ \A i \in Slots : events[i] = "none"
BY DEF ExitsDrained, Queued, FreeSlots

LEMMA ExitsDrainedStep ==
  ASSUME TypeOK, ExitsDrained, Next
  PROVE  ExitsDrained'
<1>1. ASSUME Queued = {}, events' = events
      PROVE  ExitsDrained'
  BY <1>1 DEF ExitsDrained, Queued, FreeSlots
<1>2. ASSUME events' = events, interruptActive' = interruptActive, stack' = stack
      PROVE  ExitsDrained'
  BY <1>2 DEF ExitsDrained, Queued, FreeSlots, Running, Top
<1>3. CASE Main
  <2>1. ~Running("irq")
    BY <1>3 DEF Main, LoadProgram, LoadFails, SetActive, SetEntry, SaveRegisters, StoreReturn,
       Eret, ClearActive, ResetProgramState, Recycle, InMain, Running
  <2>2. events' = events
    BY <1>3 DEF Main, LoadProgram, LoadFails, SetActive, SetEntry, SaveRegisters, StoreReturn,
       Eret, ClearActive, ResetProgramState, Recycle, exitVars
  <2> QED
    BY <1>1, <2>1, <2>2, QuietQueue
<1>4. CASE Program \/ Dac
  <2>1. ~Running("irq")
    BY <1>4 DEF Program, UseResource, SwitchTo, CapturePrgExit, ReleasePrgExit, Exit,
       SystemCallAborts, ProgramFaults, FaultAcknowledged, UartGetc, UartByteArrives, Dac,
       DacOutputStart, DacSaveStack, DacFinishes, DacReturns, DacMisreturns, DacOutputEnd,
       InProgram, Running, DacKinds
  <2>2. events' = events
    BY <1>4 DEF Program, UseResource, SwitchTo, CapturePrgExit, ReleasePrgExit, Exit,
       SystemCallAborts, ProgramFaults, FaultAcknowledged, UartGetc, UartByteArrives, Dac,
       DacOutputStart, DacSaveStack, DacFinishes, DacReturns, DacMisreturns, DacOutputEnd, exitVars
  <2> QED
    BY <1>1, <2>1, <2>2, QuietQueue
<1>5. CASE Interrupts
  <2>1. CASE TakeIrq
    <3>1. ~Running("irq")
      BY <2>1 DEF TakeIrq, Unmasked, Running, DacKinds
    <3> QED
      BY <1>1, <2>1, <3>1, QuietQueue DEF TakeIrq
  <2>2. CASE DispatchIrq
    <3>1. Queued = {} /\ \A i \in Slots : events[i] = "none"
      BY <2>2, QuietQueue DEF DispatchIrq
    <3>2. CASE UNCHANGED <<cpuVars, events, cooling>>
      BY <1>1, <3>1, <3>2
    <3>3. CASE AddInterruptEnd(handler)
      <4>1. Min(FreeSlots) \in Slots /\ FreeSlots = Slots
        BY <3>1, FirstFree
      <4>2. events' = [events EXCEPT ![Min(FreeSlots)] = handler] /\ UNCHANGED cpuVars
        BY <3>3, <4>1 DEF AddInterruptEnd
      <4>3. \A i \in Slots : i # Min(FreeSlots) => events'[i] = "none"
        BY <3>1, <4>1, <4>2 DEF TypeOK
      <4>4. \A i \in Queued' : i = Min(FreeSlots)
        BY <4>3 DEF Queued, FreeSlots
      <4>5. Running("irq")' /\ ~interruptActive'
        BY <2>2, <4>2 DEF DispatchIrq, Running, Top, cpuVars
      <4> QED
        BY <4>4, <4>5 DEF ExitsDrained
    <3> QED
      BY <2>2, <3>2, <3>3 DEF DispatchIrq, TriggerPrgExit
  <2>3. CASE RunEvent
    <3>1. Min(Queued) \in Queued /\ \A i \in Slots : i # Min(Queued) => events[i] = "none"
      BY <2>3, FirstQueued DEF RunEvent, EnterHandler, ExitsDrained, Queued, FreeSlots
    <3>2. events' = [events EXCEPT ![Min(Queued)] = "none"]
      BY <2>3 DEF RunEvent, EnterHandler
    <3>3. \A i \in Slots : events'[i] = "none"
      BY <3>1, <3>2 DEF TypeOK
    <3> QED
      BY <3>3 DEF ExitsDrained, Queued, FreeSlots
  <2>4. CASE ReturnFromIrq
    BY <1>1, <2>4 DEF ReturnFromIrq, exitVars
  <2>5. CASE HandlerReturns
    BY <1>1, <2>5, QuietQueue DEF HandlerReturns, ReturnToInterrupted, ResumeDeadSession, Derail,
       Running, exitVars
  <2> QED
    BY <1>5, <2>1, <2>2, <2>3, <2>4, <2>5 DEF Interrupts
<1>6. CASE Environment \/ SystemHalted
  BY <1>2, <1>6 DEF Environment, PrgExitPressed, UartReceives, TimerFires, Raise,
     QuarterSecondPasses, DebounceTimePasses, SystemHalted, vars, cpuVars, exitVars
<1> QED
  BY <1>3, <1>4, <1>5, <1>6 DEF Next

LEMMA QueuedIsCurrentStep ==
  ASSUME TypeOK, ExitsDrained, QueuedIsCurrent, Next
  PROVE  QueuedIsCurrent'
<1>1. ASSUME events' = events, \A i \in Slots : events[i] = "none"
      PROVE  QueuedIsCurrent'
  BY <1>1 DEF QueuedIsCurrent
<1>2. ASSUME events' = events, handler' = handler
      PROVE  QueuedIsCurrent'
  BY <1>2 DEF QueuedIsCurrent
<1>3. CASE ResetProgramState \/ CapturePrgExit \/ ReleasePrgExit \/ ProgramFaults
  BY <1>1, <1>3, QuietQueue DEF ResetProgramState, CapturePrgExit, ReleasePrgExit, ProgramFaults,
     InProgram, InMain, Running
<1>4. CASE DispatchIrq
  BY <1>2, <1>4 DEF DispatchIrq, TriggerPrgExit, AddInterruptEnd, QueuedIsCurrent, TypeOK
<1>5. CASE RunEvent
  BY <1>5 DEF RunEvent, EnterHandler, QueuedIsCurrent, TypeOK
<1>6. CASE Main /\ ~ResetProgramState
  BY <1>2, <1>6 DEF Main, LoadProgram, LoadFails, SetActive, SetEntry, SaveRegisters, StoreReturn,
     Eret, ClearActive, Recycle, exitVars
<1>7. CASE Program /\ ~CapturePrgExit /\ ~ReleasePrgExit /\ ~ProgramFaults
  BY <1>2, <1>7 DEF Program, UseResource, SwitchTo, Exit, SystemCallAborts, FaultAcknowledged,
     UartGetc, UartByteArrives, exitVars
<1>8. CASE Dac \/ TakeIrq \/ ReturnFromIrq \/ HandlerReturns
  BY <1>2, <1>8 DEF Dac, DacOutputStart, DacSaveStack, DacFinishes, DacReturns, DacMisreturns,
     DacOutputEnd, TakeIrq, ReturnFromIrq, HandlerReturns, ReturnToInterrupted, ResumeDeadSession,
     Derail, exitVars
<1>9. CASE Environment \/ SystemHalted
  BY <1>2, <1>9 DEF Environment, PrgExitPressed, UartReceives, TimerFires, Raise,
     QuarterSecondPasses, DebounceTimePasses, SystemHalted, vars, exitVars
<1> QED
  BY <1>3, <1>4, <1>5, <1>6, <1>7, <1>8, <1>9 DEF Next, Interrupts

\* Code with interrupts enabled over main(), or masked main(): no capture is
\* in force in either when an interrupt of main() could be taken.
LEMMA CaptureNeedsProgramStep ==
  ASSUME TypeOK, StackShape, LaunchReady, FaultQuiet, CaptureNeedsProgram, Next
  PROVE  CaptureNeedsProgram'
<1>1. ASSUME handler' = "default"
      PROVE  CaptureNeedsProgram'
  BY <1>1 DEF CaptureNeedsProgram
<1>2. ASSUME pc = "running", UNCHANGED <<pc, active, launchVars>>
      PROVE  CaptureNeedsProgram'
  BY <1>2 DEF CaptureNeedsProgram, LaunchReady, launchVars
<1>3. ASSUME UNCHANGED <<pc, active, launchVars, handler>>, stack # <<>>
      PROVE  CaptureNeedsProgram'
  BY <1>3 DEF CaptureNeedsProgram, launchVars
<1>4. ASSUME UNCHANGED <<cpuVars, active, launchVars, handler>>
      PROVE  CaptureNeedsProgram'
  BY <1>4 DEF CaptureNeedsProgram, cpuVars, launchVars
<1>5. ASSUME SystemCallExit(TRUE) \/ Derail
      PROVE  CaptureNeedsProgram'
  BY <1>5 DEF CaptureNeedsProgram, SystemCallExit, Derail
<1>6. ASSUME Terminate(TRUE), UNCHANGED <<active, launchVars, handler>>
      PROVE  CaptureNeedsProgram'
  BY <1>4, <1>5, <1>6 DEF Terminate
<1>7. InProgram => pc = "running"
  BY AboveMain DEF InProgram, Running
<1>8. CASE Main
  <2>1. stack = <<>> /\ pc # "running" /\ pc # "lost"
    BY <1>8 DEF Main, LoadProgram, LoadFails, SetActive, SetEntry, SaveRegisters, StoreReturn,
       Eret, ClearActive, ResetProgramState, Recycle, InMain, StackShape
  <2>2. CASE ClearActive
    BY <2>1, <2>2 DEF ClearActive, CaptureNeedsProgram, InMain, Goto, exitVars
  <2>3. CASE ResetProgramState
    BY <1>1, <2>3 DEF ResetProgramState, OnUserProgramExiting
  <2>4. CASE Main /\ ~ClearActive /\ ~ResetProgramState
    <3>1. pc \notin {"returned", "inactive"} /\ handler' = handler
      BY <2>4 DEF Main, LoadProgram, LoadFails, SetActive, SetEntry, SaveRegisters, StoreReturn,
         Eret, Recycle, InMain, exitVars
    <3>2. handler # "captured"
      BY <2>1, <3>1 DEF CaptureNeedsProgram
    <3> QED
      BY <3>1, <3>2 DEF CaptureNeedsProgram
  <2> QED
    BY <1>8, <2>2, <2>3, <2>4
<1>9. CASE Program
  <2>1. CASE FaultAcknowledged
    <3>1. handler = "default"
      BY <2>1, TopFrame DEF FaultAcknowledged, Running, FaultQuiet, TypeOK
    <3> QED
      BY <1>1, <2>1, <3>1 DEF FaultAcknowledged, exitVars
  <2>2. CASE CapturePrgExit \/ ReleasePrgExit
    BY <1>2, <1>7, <2>2 DEF CapturePrgExit, ReleasePrgExit, cpuVars, programVars
  <2>3. CASE ProgramFaults
    BY <1>1, <2>3 DEF ProgramFaults, OnUserProgramExiting
  <2>4. CASE Exit \/ SystemCallAborts \/ \E a \in Apps : SwitchTo(a)
    BY <1>5, <1>6, <2>4 DEF Exit, SystemCallAborts, SwitchTo, exitVars, programVars
  <2>5. CASE (\E r \in Resources : UseResource(r)) \/ UartGetc \/ UartByteArrives
    BY <1>3, <2>5 DEF UseResource, UartGetc, UartByteArrives, InProgram, Running, exitVars,
       programVars, cpuVars
  <2> QED
    BY <1>9, <2>1, <2>2, <2>3, <2>4, <2>5 DEF Program
<1>10. CASE Dac
  BY <1>3, <1>5, <1>10 DEF Dac, DacOutputStart, DacSaveStack, DacFinishes, DacReturns,
     DacMisreturns, DacOutputEnd, InProgram, Running, exitVars, programVars, cpuVars
<1>11. CASE Interrupts
  <2>1. CASE TakeIrq
    <3>1. CASE handler = "captured"
      <4>1. pc = "running" /\ stack # <<>>
        BY <2>1, <3>1 DEF TakeIrq, Unmasked, CaptureNeedsProgram, StackShape
      <4> QED
        BY <1>2, <2>1, <4>1 DEF TakeIrq, programVars, launchVars, LaunchReady, CaptureNeedsProgram
    <3> QED
      BY <1>1, <2>1, <3>1 DEF TakeIrq, TypeOK
  <2>2. CASE DispatchIrq
    BY <1>4, <1>5, <2>2 DEF DispatchIrq, TriggerPrgExit, AddInterruptEnd, programVars
  <2>3. CASE RunEvent
    BY <1>3, <1>6, <2>3 DEF RunEvent, EnterHandler, Running, programVars
  <2>4. CASE ReturnFromIrq \/ HandlerReturns
    BY <1>3, <1>5, <2>4 DEF ReturnFromIrq, HandlerReturns, ReturnToInterrupted, ResumeDeadSession,
       Derail, Running, programVars, exitVars
  <2> QED
    BY <1>11, <2>1, <2>2, <2>3, <2>4 DEF Interrupts
<1>12. CASE Environment \/ SystemHalted
  BY <1>4, <1>12 DEF Environment, PrgExitPressed, UartReceives, TimerFires, Raise,
     QuarterSecondPasses, DebounceTimePasses, SystemHalted, vars, programVars, exitVars
<1> QED
  BY <1>8, <1>9, <1>10, <1>11, <1>12 DEF Next

\* A handler is pushed only over an interrupt of a running program.
LEMMA HandlerOverProgram ==
  ASSUME TypeOK, StackShape, QueuedIsCurrent, CaptureNeedsProgram,
         NEW i \in Slots, Running("irq"), events[i] = "captured"
  PROVE  pc = "running" /\ handler = "captured" /\ Len(stack) >= 2
<1>1. handler = "captured"
  BY DEF QueuedIsCurrent, TypeOK
<1>2. pc \in {"running", "lost"} /\ stack # <<>>
  BY <1>1 DEF CaptureNeedsProgram, Running
<1>3. stack[1].kind = "user" /\ pc = "running"
  BY <1>2 DEF StackShape
<1>4. Len(stack) # 1
  BY <1>3 DEF Running, Top
<1>5. stack \in Seq(Frame)
  BY DEF TypeOK
<1>6. Len(stack) \in Nat /\ Len(stack) # 0
  BY <1>2, <1>5, EmptySeq
<1>7. \A n \in Nat : n # 0 /\ n # 1 => n >= 2
  OBVIOUS
<1> QED
  BY <1>1, <1>3, <1>4, <1>6, <1>7

LEMMA StackShapeStep ==
  ASSUME TypeOK, ControlInvariant, Next
  PROVE  StackShape'
<1> USE DEF ControlInvariant
<1>a. stack \in Seq(Frame) /\ Len(stack) \in Nat
  BY LenProperties DEF TypeOK
<1>1. ASSUME UNCHANGED <<pc, stack>>
      PROVE  StackShape'
  BY <1>1 DEF StackShape
<1>2. ASSUME stack = <<>>, stack' = <<>>, pc' # "running"
      PROVE  StackShape'
  BY <1>2, EmptySeq DEF StackShape
<1>3. ASSUME stack' = <<>>, pc' # "running"
      PROVE  StackShape'
  BY <1>3, EmptySeq DEF StackShape
<1>4. ASSUME NEW m \in BOOLEAN, SystemCallExit(m) \/ Derail
      PROVE  StackShape'
  BY <1>3, <1>4 DEF SystemCallExit, Derail
<1>5. ASSUME NEW m \in BOOLEAN, Terminate(m)
      PROVE  StackShape'
  BY <1>1, <1>4, <1>5 DEF Terminate, cpuVars
<1>6. ASSUME stack # <<>>, pc' = pc, NEW k \in Kinds, Push(k),
             pc = "running", k = "handler" => Len(stack) >= 2
      PROVE  StackShape'
  <2>1. Len(stack) >= 1 /\ stack[1].kind = "user"
    BY <1>6, TopFrame, <1>a DEF StackShape
  <2>2. /\ stack' # <<>> /\ Len(stack') = Len(stack) + 1
        /\ \A i \in 1..Len(stack) : stack'[i] = stack[i]
        /\ stack'[Len(stack) + 1] = New(k)
    BY <1>6, <1>a, PushStack
  <2>3. New(k).kind = k
    BY DEF New
  <2> QED
    BY <1>6, <1>a, <2>1, <2>2, <2>3 DEF StackShape
<1>7. ASSUME stack # <<>>, pc' = pc, pc = "running", NEW n \in 1..Len(stack),
             Len(stack') = n, \A i \in 1..n : stack'[i].kind = stack[i].kind
      PROVE  StackShape'
  BY <1>7, <1>a, EmptySeq DEF StackShape
<1>8. ASSUME stack # <<>>, pc' = pc, Top.kind \notin {"irq", "user"}, NEW k \in DacKinds, Become(k)
      PROVE  StackShape'
  <2>1. pc = "running" /\ stack[1].kind = "user"
    BY <1>8, AboveMain
  <2>2. Len(stack) > 1
    BY <1>8, <2>1, <1>a, TopFrame
  <2>3. /\ stack' # <<>> /\ Len(stack') = Len(stack)
        /\ \A i \in 1..Len(stack) : i # Len(stack) => stack'[i] = stack[i]
        /\ stack'[Len(stack)].kind = k
    BY <1>8, <1>a, BecomeStack DEF Kinds
  <2> QED
    BY <1>8, <1>a, <2>1, <2>2, <2>3 DEF StackShape, DacKinds
<1>9. ASSUME stack # <<>>, pc' = pc, Top.kind \notin {"irq", "user"}, Pop
      PROVE  StackShape'
  <2>1. pc = "running" /\ stack[1].kind = "user"
    BY <1>9, AboveMain
  <2>2. Len(stack) > 1
    BY <1>9, <2>1, <1>a, TopFrame
  <2>3. Len(stack') = Len(stack) - 1 /\ \A i \in 1..Len(stack) - 1 : stack'[i] = stack[i]
    BY <1>9, <1>a, PopStack
  <2>4. Len(stack) - 1 \in 1..Len(stack)
    BY <1>a, <2>2
  <2> QED
    BY <1>7, <1>9, <2>1, <2>3, <2>4
<1>10. CASE Main
  <2>1. stack = <<>> /\ pc # "lost"
    BY <1>10 DEF Main, LoadProgram, LoadFails, SetActive, SetEntry, SaveRegisters, StoreReturn,
       Eret, ClearActive, ResetProgramState, Recycle, InMain
  <2>2. CASE Eret
    <3>1. CASE elr = "program"
      <4>1. Push("user") /\ pc' = "running" /\ Len(stack) = 0
        BY <2>1, <2>2, <3>1, EmptySeq DEF Eret
      <4>2. stack' # <<>> /\ Len(stack') = 1 /\ stack'[1] = New("user")
        BY <1>a, <4>1, PushStack DEF Kinds
      <4> QED
        BY <4>1, <4>2 DEF StackShape, New
    <3>2. CASE elr # "program"
      BY <1>2, <2>1, <2>2, <3>2 DEF Eret, InMain, Goto, LaunchReady
    <3> QED
      BY <3>1, <3>2
  <2> QED
    BY <1>2, <1>10, <2>1, <2>2 DEF Main, LoadProgram, LoadFails, SetActive, SetEntry,
       SaveRegisters, StoreReturn, ClearActive, ResetProgramState, Recycle, Goto
<1>11. CASE Program
  <2>1. CASE ProgramFaults \/ UartGetc
    <3>1. pc = "running" /\ stack # <<>>
      BY <2>1, AboveMain DEF ProgramFaults, UartGetc, InProgram, Running
    <3> QED
      BY <1>6, <2>1, <3>1 DEF ProgramFaults, UartGetc, Kinds
  <2>2. CASE UartByteArrives
    BY <1>9, <2>2 DEF UartByteArrives, Running
  <2>3. CASE Exit \/ SystemCallAborts \/ FaultAcknowledged \/ \E a \in Apps : SwitchTo(a)
    BY <1>4, <1>5, <2>3 DEF Exit, SystemCallAborts, FaultAcknowledged, SwitchTo
  <2>4. CASE (\E r \in Resources : UseResource(r)) \/ CapturePrgExit \/ ReleasePrgExit
    BY <1>1, <2>4 DEF UseResource, CapturePrgExit, ReleasePrgExit, cpuVars
  <2> QED
    BY <1>11, <2>1, <2>2, <2>3, <2>4 DEF Program
<1>12. CASE Dac
  <2>1. CASE DacOutputStart
    <3>1. pc = "running" /\ stack # <<>>
      BY <2>1, AboveMain DEF DacOutputStart, InProgram, Running
    <3> QED
      BY <1>6, <2>1, <3>1 DEF DacOutputStart, Kinds, DacKinds
  <2>2. CASE DacSaveStack \/ DacFinishes
    BY <1>4, <1>8, <2>2 DEF DacSaveStack, DacFinishes, Running, DacKinds
  <2>3. CASE DacReturns
    BY <1>9, <2>3 DEF DacReturns, Running
  <2>4. CASE DacMisreturns
    BY <1>4, <2>4 DEF DacMisreturns
  <2>5. CASE DacOutputEnd
    <3>1. CASE dacReturn \in DOMAIN stack /\ stack[dacReturn].kind = "dac"
               /\ stack' = SubSeq(stack, 1, dacReturn - 1) /\ UNCHANGED <<pc, mainMasked>>
      <4>1. pc = "running" /\ stack # <<>> /\ stack[1].kind = "user"
        BY <2>5, AboveMain DEF DacOutputEnd, InProgram, Running
      <4>2. dacReturn \in 1..Len(stack) /\ dacReturn # 1
        BY <1>a, <3>1, <4>1, LenProperties
      <4>3. dacReturn - 1 \in 0..Len(stack) /\ dacReturn - 1 \in 1..Len(stack)
        BY <1>a, <4>2
      <4>4. /\ Len(stack') = dacReturn - 1
            /\ \A i \in 1..dacReturn - 1 : stack'[i] = stack[i]
        BY <1>a, <3>1, <4>3, PrefixStack
      <4> QED
        BY <1>7, <3>1, <4>1, <4>3, <4>4
    <3> QED
      BY <1>1, <1>4, <2>5, <3>1 DEF DacOutputEnd, cpuVars
  <2> QED
    BY <1>12, <2>1, <2>2, <2>3, <2>4, <2>5 DEF Dac
<1>13. CASE Interrupts
  <2>1. CASE TakeIrq
    <3>1. CASE stack = <<>>
      <4>1. pc \notin {"running", "lost"} /\ pc' = pc
        BY <2>1, <3>1 DEF TakeIrq, StackShape
      <4>2. Push("irq") /\ Len(stack) = 0
        BY <2>1, <3>1, EmptySeq DEF TakeIrq
      <4>3. stack' # <<>> /\ Len(stack') = 1 /\ stack'[1] = New("irq")
        BY <1>a, <4>2, PushStack DEF Kinds
      <4> QED
        BY <4>1, <4>3 DEF StackShape, New
    <3>2. CASE stack # <<>>
      <4>1. pc = "running"
        BY <2>1, <3>2, AboveMain DEF TakeIrq, Unmasked, DacKinds
      <4> QED
        BY <1>6, <2>1, <3>2, <4>1 DEF TakeIrq, Kinds
    <3> QED
      BY <3>1, <3>2
  <2>2. CASE DispatchIrq
    BY <1>1, <1>4, <2>2 DEF DispatchIrq, TriggerPrgExit, AddInterruptEnd, cpuVars
  <2>3. CASE RunEvent
    <3>1. CASE Terminate(TRUE)
      BY <1>5, <3>1
    <3>2. CASE events[Min(Queued)] = "captured" /\ Push("handler") /\ UNCHANGED <<pc, mainMasked>>
      <4>1. Min(Queued) \in Slots
        BY <2>3, FirstQueued DEF RunEvent, EnterHandler, Queued
      <4>2. pc = "running" /\ Len(stack) >= 2 /\ stack # <<>>
        BY <2>3, <3>2, <4>1, HandlerOverProgram DEF RunEvent, EnterHandler, Running
      <4> QED
        BY <1>6, <3>2, <4>2 DEF Kinds
    <3> QED
      BY <2>3, <3>1, <3>2 DEF RunEvent, EnterHandler
  <2>4. CASE ReturnFromIrq
    <3>1. stack # <<>> /\ pc' = pc /\ Pop
      BY <2>4 DEF ReturnFromIrq, Running
    <3>2. Len(stack') = Len(stack) - 1 /\ \A i \in 1..Len(stack) - 1 : stack'[i] = stack[i]
      BY <1>a, <3>1, PopStack
    <3>3. CASE pc = "running"
      <4>1. Len(stack) # 1
        BY <2>4, <3>1, <3>3, TopFrame DEF ReturnFromIrq, Running, StackShape, Top
      <4>2. Len(stack) \in Nat /\ Len(stack) # 0
        BY <1>a, <3>1, EmptySeq
      <4>3. \A n \in Nat : n # 0 /\ n # 1 => n - 1 \in 1..n
        OBVIOUS
      <4>4. Len(stack) - 1 \in 1..Len(stack)
        BY <4>1, <4>2, <4>3
      <4> QED
        BY <1>7, <3>1, <3>2, <3>3, <4>4
    <3>4. CASE pc # "running"
      <4>1. Len(stack) = 1
        BY <3>1, <3>4 DEF StackShape
      <4>2. stack' = <<>>
        BY <1>a, <3>1, <3>2, <4>1, PopStack, EmptySeq
      <4> QED
        BY <1>3, <3>1, <3>4, <4>2
    <3> QED
      BY <3>3, <3>4
  <2>5. CASE HandlerReturns /\ ReturnToInterrupted
    <3>1. stack # <<>> /\ pc = "running" /\ pc' = pc
      BY <2>5, AboveMain DEF HandlerReturns, ReturnToInterrupted, ResumeDeadSession, Derail,
         Running
    <3>2. Len(stack) >= 3
      BY <1>a, <2>5, TopFrame DEF HandlerReturns, ReturnToInterrupted, ResumeDeadSession, Derail,
         Running, StackShape
    <3>3. Len(stack') = Len(stack) - 2 /\ \A i \in 1..Len(stack) - 2 : stack'[i].kind = stack[i].kind
      BY <1>a, <2>5, <3>2, UnwindStack
    <3>4. Len(stack) - 2 \in 1..Len(stack)
      BY <1>a, <3>2
    <3> QED
      BY <1>7, <3>1, <3>3, <3>4
  <2>6. CASE HandlerReturns /\ ResumeDeadSession
    <3>1. stack # <<>> /\ pc = "running" /\ pc' = pc
      BY <2>6, AboveMain DEF HandlerReturns, ResumeDeadSession, Running
    <3> QED
      BY <1>a, <2>6, <3>1, ResumeStack, EmptySeq DEF StackShape
  <2>7. CASE HandlerReturns /\ Derail
    BY <1>4, <2>7
  <2> QED
    BY <1>13, <2>1, <2>2, <2>3, <2>4, <2>5, <2>6, <2>7 DEF Interrupts, HandlerReturns
<1>14. CASE Environment \/ SystemHalted
  BY <1>1, <1>14 DEF Environment, PrgExitPressed, UartReceives, TimerFires, Raise,
     QuarterSecondPasses, DebounceTimePasses, SystemHalted, vars, cpuVars
<1> QED
  BY <1>10, <1>11, <1>12, <1>13, <1>14 DEF Next

\* Code that is not an interrupt over a fault runs with no fault below it.
LEMMA NoFaultBelow ==
  ASSUME TypeOK, FaultQuiet, stack # <<>>, Top.kind \notin {"irq", "fault"}
  PROVE  \A i \in 1..Len(stack) : stack[i].kind # "fault"
<1>1. /\ Len(stack) \in Nat \ {0} /\ Len(stack) \in 1..Len(stack)
      /\ Top = stack[Len(stack)]
  BY TopFrame DEF TypeOK
<1>2. ASSUME NEW i \in 1..Len(stack), stack[i].kind = "fault"
      PROVE  FALSE
  <2>1. i # Len(stack)
    BY <1>1, <1>2
  <2>2. Len(stack) > i
    BY <1>1, <2>1
  <2> QED
    BY <1>1, <1>2, <2>2 DEF FaultQuiet
<1> QED
  BY <1>2

LEMMA FaultQuietStep ==
  ASSUME TypeOK, ControlInvariant, Next
  PROVE  FaultQuiet'
<1> USE DEF ControlInvariant
<1>a. stack \in Seq(Frame) /\ Len(stack) \in Nat
  BY LenProperties DEF TypeOK
<1>b. InProgram => stack # <<>> /\ Top.kind \notin {"irq", "fault"}
  BY DEF InProgram, Running
<1>1. ASSUME UNCHANGED <<stack, handler>>
      PROVE  FaultQuiet'
  BY <1>1 DEF FaultQuiet
<1>2. ASSUME stack' = <<>>
      PROVE  FaultQuiet'
  BY <1>2, EmptySeq DEF FaultQuiet
<1>3. ASSUME NEW m \in BOOLEAN, SystemCallExit(m) \/ Derail
      PROVE  FaultQuiet'
  BY <1>2, <1>3 DEF SystemCallExit, Derail
<1>4. ASSUME NEW m \in BOOLEAN, Terminate(m), handler' = handler
      PROVE  FaultQuiet'
  BY <1>1, <1>3, <1>4 DEF Terminate, cpuVars
<1>5. ASSUME handler' = handler, NEW n \in 0..Len(stack), Len(stack') = n,
             \A i \in 1..n : stack'[i].kind = stack[i].kind
      PROVE  FaultQuiet'
  BY <1>a, <1>5 DEF FaultQuiet
<1>6. ASSUME \A i \in 1..Len(stack') : stack'[i].kind # "fault"
      PROVE  FaultQuiet'
  BY <1>6 DEF FaultQuiet
<1>7. ASSUME stack # <<>>, Top.kind \notin {"irq", "fault"}, stack' = stack
      PROVE  FaultQuiet'
  BY <1>6, <1>7, NoFaultBelow
<1>8. ASSUME stack # <<>>, Top.kind \notin {"irq", "fault"}, NEW k \in Kinds \ {"fault"}, Push(k)
      PROVE  FaultQuiet'
  <2>1. /\ Len(stack') = Len(stack) + 1
        /\ \A i \in 1..Len(stack) : stack'[i] = stack[i]
        /\ stack'[Len(stack) + 1] = New(k)
    BY <1>8, <1>a, PushStack
  <2>2. New(k).kind # "fault"
    BY DEF New
  <2>3. \A i \in 1..Len(stack) : stack[i].kind # "fault"
    BY <1>8, NoFaultBelow
  <2> QED
    BY <1>6, <1>a, <2>1, <2>2, <2>3
<1>9. ASSUME stack # <<>>, Top.kind \notin {"irq", "fault"}, NEW k \in DacKinds, Become(k)
      PROVE  FaultQuiet'
  <2>1. \A i \in 1..Len(stack) : stack[i].kind # "fault"
    BY <1>9, NoFaultBelow
  <2>2. /\ Len(stack') = Len(stack)
        /\ \A i \in 1..Len(stack) : i # Len(stack) => stack'[i] = stack[i]
        /\ stack'[Len(stack)].kind = k
    BY <1>9, <1>a, BecomeStack DEF Kinds
  <2>3. k # "fault"
    BY DEF DacKinds
  <2> QED
    BY <1>6, <1>a, <2>1, <2>2, <2>3
<1>10. ASSUME stack # <<>>, Pop, handler' = handler
      PROVE  FaultQuiet'
  <2>1. Len(stack') = Len(stack) - 1 /\ \A i \in 1..Len(stack) - 1 : stack'[i] = stack[i]
    BY <1>10, <1>a, PopStack
  <2>2. Len(stack) - 1 \in 0..Len(stack)
    BY <1>10, <1>a, EmptySeq
  <2> QED
    BY <1>5, <1>10, <2>1, <2>2
<1>11. CASE Main
  <2>1. CASE Eret
    <3>1. CASE elr = "program"
      <4>1. Push("user") /\ Len(stack) = 0
        BY <2>1, <3>1, EmptySeq DEF Eret, InMain
      <4>2. Len(stack') = 1 /\ stack'[1] = New("user")
        BY <1>a, <4>1, PushStack DEF Kinds
      <4>3. New("user").kind # "fault"
        BY DEF New
      <4> QED
        BY <1>6, <4>2, <4>3
    <3>2. CASE elr # "program"
      BY <1>2, <2>1, <3>2 DEF Eret, InMain, Goto
    <3> QED
      BY <3>1, <3>2
  <2> QED
    BY <1>2, <1>11, <2>1 DEF Main, LoadProgram, LoadFails, SetActive, SetEntry, SaveRegisters,
       StoreReturn, ClearActive, ResetProgramState, Recycle, InMain, Goto
<1>12. CASE Program
  <2>1. CASE ProgramFaults
    <3>1. /\ Len(stack') = Len(stack) + 1
          /\ \A i \in 1..Len(stack) : stack'[i] = stack[i]
      BY <1>a, <2>1, PushStack DEF ProgramFaults, Kinds
    <3>2. \A i \in 1..Len(stack) : stack[i].kind # "fault"
      BY <1>b, <2>1, NoFaultBelow DEF ProgramFaults
    <3>3. \A i \in 1..Len(stack') : stack'[i].kind = "fault" => i = Len(stack')
      BY <1>a, <3>1, <3>2
    <3>4. handler' = "default"
      BY <2>1 DEF ProgramFaults, OnUserProgramExiting
    <3> QED
      BY <1>a, <3>1, <3>3, <3>4 DEF FaultQuiet
  <2>2. CASE UartGetc
    BY <1>8, <1>b, <2>2 DEF UartGetc, Kinds
  <2>3. CASE UartByteArrives
    BY <1>10, <2>3 DEF UartByteArrives, Running, exitVars
  <2>4. CASE Exit \/ SystemCallAborts \/ FaultAcknowledged \/ \E a \in Apps : SwitchTo(a)
    BY <1>3, <1>4, <2>4 DEF Exit, SystemCallAborts, FaultAcknowledged, SwitchTo, exitVars
  <2>5. CASE CapturePrgExit \/ ReleasePrgExit
    BY <1>7, <1>b, <2>5 DEF CapturePrgExit, ReleasePrgExit, cpuVars
  <2>6. CASE \E r \in Resources : UseResource(r)
    BY <1>1, <2>6 DEF UseResource, cpuVars, exitVars
  <2> QED
    BY <1>12, <2>1, <2>2, <2>3, <2>4, <2>5, <2>6 DEF Program
<1>13. CASE Dac
  <2>1. CASE DacOutputStart
    BY <1>8, <1>b, <2>1 DEF DacOutputStart, Kinds, DacKinds
  <2>2. CASE DacSaveStack \/ DacFinishes
    BY <1>3, <1>9, <2>2 DEF DacSaveStack, DacFinishes, Running, DacKinds
  <2>3. CASE DacReturns
    BY <1>10, <2>3 DEF DacReturns, Running, exitVars
  <2>4. CASE DacMisreturns
    BY <1>3, <2>4 DEF DacMisreturns
  <2>5. CASE DacOutputEnd
    <3>1. CASE dacReturn \in DOMAIN stack /\ stack' = SubSeq(stack, 1, dacReturn - 1)
      <4>1. dacReturn - 1 \in 0..Len(stack)
        BY <1>a, <3>1, LenProperties
      <4>2. /\ Len(stack') = dacReturn - 1
            /\ \A i \in 1..dacReturn - 1 : stack'[i] = stack[i]
        BY <1>a, <3>1, <4>1, PrefixStack
      <4> QED
        BY <1>5, <2>5, <4>1, <4>2 DEF DacOutputEnd, exitVars
    <3> QED
      BY <1>1, <1>3, <2>5, <3>1 DEF DacOutputEnd, cpuVars, exitVars
  <2> QED
    BY <1>13, <2>1, <2>2, <2>3, <2>4, <2>5 DEF Dac
<1>14. CASE Interrupts
  <2>1. CASE TakeIrq
    <3>1. /\ Len(stack') = Len(stack) + 1 /\ handler' = handler
          /\ \A i \in 1..Len(stack) : stack'[i] = stack[i]
          /\ stack'[Len(stack) + 1] = New("irq")
      BY <1>a, <2>1, PushStack DEF TakeIrq, Kinds
    <3>2. New("irq").kind = "irq"
      BY DEF New
    <3> QED
      BY <1>a, <3>1, <3>2 DEF FaultQuiet
  <2>2. CASE DispatchIrq
    BY <1>1, <1>3, <2>2 DEF DispatchIrq, TriggerPrgExit, AddInterruptEnd, cpuVars
  <2>3. CASE RunEvent
    <3>1. CASE Terminate(TRUE)
      BY <1>4, <2>3, <3>1 DEF RunEvent, EnterHandler
    <3>2. CASE events[Min(Queued)] = "captured" /\ Push("handler")
      <4>1. Min(Queued) \in Slots
        BY <2>3, FirstQueued DEF RunEvent, EnterHandler, Queued
      <4>2. handler = "captured" /\ stack # <<>>
        BY <2>3, <3>2, <4>1, HandlerOverProgram DEF RunEvent, EnterHandler, Running
      <4>3. \A i \in 1..Len(stack) : stack[i].kind # "fault"
        BY <4>2 DEF FaultQuiet
      <4>4. /\ Len(stack') = Len(stack) + 1
            /\ \A i \in 1..Len(stack) : stack'[i] = stack[i]
            /\ stack'[Len(stack) + 1] = New("handler")
        BY <1>a, <3>2, PushStack DEF Kinds
      <4>5. New("handler").kind # "fault"
        BY DEF New
      <4> QED
        BY <1>6, <1>a, <4>3, <4>4, <4>5
    <3> QED
      BY <2>3, <3>1, <3>2 DEF RunEvent, EnterHandler
  <2>4. CASE ReturnFromIrq
    BY <1>10, <2>4 DEF ReturnFromIrq, Running, exitVars
  <2>5. CASE HandlerReturns /\ ReturnToInterrupted
    <3>1. Len(stack) >= 3
      BY <1>a, <2>5, TopFrame DEF HandlerReturns, ReturnToInterrupted, ResumeDeadSession, Derail,
         Running, StackShape
    <3>2. Len(stack') = Len(stack) - 2 /\ \A i \in 1..Len(stack) - 2 : stack'[i].kind = stack[i].kind
      BY <1>a, <2>5, <3>1, UnwindStack
    <3>3. Len(stack) - 2 \in 0..Len(stack)
      BY <1>a, <3>1
    <3> QED
      BY <1>5, <2>5, <3>2, <3>3 DEF HandlerReturns, ReturnToInterrupted, ResumeDeadSession,
         Derail, exitVars
  <2>6. CASE HandlerReturns /\ ResumeDeadSession
    <3>1. \A i \in 1..Len(stack) : stack[i].kind # "fault"
      BY <2>6, NoFaultBelow DEF HandlerReturns, Running
    <3> QED
      BY <1>6, <1>a, <2>6, <3>1, ResumeStack
  <2>7. CASE HandlerReturns /\ Derail
    BY <1>3, <2>7
  <2> QED
    BY <1>14, <2>1, <2>2, <2>3, <2>4, <2>5, <2>6, <2>7 DEF Interrupts, HandlerReturns
<1>15. CASE Environment \/ SystemHalted
  BY <1>1, <1>15 DEF Environment, PrgExitPressed, UartReceives, TimerFires, Raise,
     QuarterSecondPasses, DebounceTimePasses, SystemHalted, vars, cpuVars, exitVars
<1> QED
  BY <1>11, <1>12, <1>13, <1>14, <1>15 DEF Next

\* The interrupt that is being dispatched is the running frame.
LEMMA InterruptOnTopStep ==
  ASSUME InterruptOnTop, Next
  PROVE  InterruptOnTop'
<1>1. ASSUME ~interruptActive' \/ (~Running("irq") /\ interruptActive' = interruptActive)
      PROVE  InterruptOnTop'
  BY <1>1 DEF InterruptOnTop
<1>2. ASSUME stack' = stack, interruptActive' = interruptActive
      PROVE  InterruptOnTop'
  BY <1>2 DEF InterruptOnTop, Running, Top
<1>3. CASE Main
  BY <1>1, <1>3 DEF Main, LoadProgram, LoadFails, SetActive, SetEntry, SaveRegisters, StoreReturn,
     Eret, ClearActive, ResetProgramState, Recycle, InMain, Running, exitVars
<1>4. CASE Program
  BY <1>1, <1>4 DEF Program, UseResource, SwitchTo, CapturePrgExit, ReleasePrgExit, Exit,
     SystemCallAborts, ProgramFaults, FaultAcknowledged, UartGetc, UartByteArrives, InProgram,
     Running, DacKinds, exitVars
<1>5. CASE Dac
  BY <1>1, <1>5 DEF Dac, DacOutputStart, DacSaveStack, DacFinishes, DacReturns, DacMisreturns,
     DacOutputEnd, InProgram, Running, DacKinds, exitVars
<1>6. CASE TakeIrq
  BY <1>6 DEF TakeIrq, Push, New, InterruptOnTop, Running, Top
<1>7. CASE DispatchIrq \/ RunEvent \/ ReturnFromIrq \/ HandlerReturns
  BY <1>1, <1>7 DEF DispatchIrq, RunEvent, EnterHandler, ReturnFromIrq, HandlerReturns,
     ReturnToInterrupted, ResumeDeadSession, Derail, Running, exitVars
<1>8. CASE Environment \/ SystemHalted
  BY <1>2, <1>8 DEF Environment, PrgExitPressed, UartReceives, TimerFires, Raise,
     QuarterSecondPasses, DebounceTimePasses, SystemHalted, vars, cpuVars, exitVars
<1> QED
  BY <1>3, <1>4, <1>5, <1>6, <1>7, <1>8 DEF Next, Interrupts

\* A push at the end of a stack leaves it with that frame on top.
LEMMA PushedTop ==
  ASSUME stack \in Seq(Frame), NEW k \in Kinds, Push(k)
  PROVE  stack' # <<>> /\ Top' = New(k)
BY PushStack DEF Top

\* Resources are used by the program that runs, and by no other code.
LEMMA DirtyNeedsProgramStep ==
  ASSUME TypeOK, StackShape, DirtyNeedsProgram, Next
  PROVE  DirtyNeedsProgram'
<1>1. ASSUME dirty' \in {dirty, {}}, pc' \in {pc, "running", "returned", "lost"}
      PROVE  DirtyNeedsProgram'
  BY <1>1 DEF DirtyNeedsProgram
<1>2. ASSUME NEW m \in BOOLEAN, SystemCallExit(m) \/ Terminate(m) \/ Derail \/ UNCHANGED cpuVars
      PROVE  pc' \in {pc, "running", "returned", "lost"}
  BY <1>2 DEF Terminate, SystemCallExit, Derail, cpuVars
<1>3. CASE Main
  <2>1. CASE ClearActive \/ ResetProgramState
    BY <2>1 DEF ClearActive, ResetProgramState, OnUserProgramExiting, Goto, DirtyNeedsProgram
  <2>2. CASE Main /\ ~ClearActive /\ ~ResetProgramState
    <3>1. pc \notin {"running", "returned", "inactive", "lost"} /\ dirty' = dirty
      BY <2>2 DEF Main, LoadProgram, LoadFails, SetActive, SetEntry, SaveRegisters, StoreReturn,
         Eret, Recycle, InMain
    <3> QED
      BY <3>1 DEF DirtyNeedsProgram
  <2> QED
    BY <1>3, <2>1, <2>2
<1>4. CASE \E r \in Resources : UseResource(r)
  BY <1>4, AboveMain DEF UseResource, InProgram, Running, DirtyNeedsProgram, cpuVars
<1>5. CASE Program /\ ~\E r \in Resources : UseResource(r)
  BY <1>1, <1>2, <1>5 DEF Program, SwitchTo, CapturePrgExit, ReleasePrgExit, Exit,
     SystemCallAborts, ProgramFaults, FaultAcknowledged, UartGetc, UartByteArrives,
     OnUserProgramExiting
<1>6. CASE Dac
  BY <1>1, <1>2, <1>6 DEF Dac, DacOutputStart, DacSaveStack, DacFinishes, DacReturns,
     DacMisreturns, DacOutputEnd
<1>7. CASE Interrupts
  BY <1>1, <1>2, <1>7 DEF Interrupts, TakeIrq, DispatchIrq, TriggerPrgExit, AddInterruptEnd,
     RunEvent, EnterHandler, ReturnFromIrq, HandlerReturns, ReturnToInterrupted,
     ResumeDeadSession, Derail
<1>8. CASE Environment \/ SystemHalted
  BY <1>1, <1>2, <1>8 DEF Environment, PrgExitPressed, UartReceives, TimerFires, Raise,
     QuarterSecondPasses, DebounceTimePasses, SystemHalted, vars
<1> QED
  BY <1>3, <1>4, <1>5, <1>6, <1>7, <1>8 DEF Next

\* A request is made by the system call that ends its program.
LEMMA RequestAwaitsEndStep ==
  ASSUME TypeOK, StackShape, LaunchReady, RequestAwaitsEnd, Next
  PROVE  RequestAwaitsEnd'
<1>1. ASSUME request' = request, pc' \in {pc, "returned", "lost"}
      PROVE  RequestAwaitsEnd'
  BY <1>1 DEF RequestAwaitsEnd
<1>2. ASSUME NEW m \in BOOLEAN, SystemCallExit(m) \/ Terminate(m) \/ Derail \/ UNCHANGED cpuVars
      PROVE  pc' \in {pc, "returned", "lost"}
  BY <1>2 DEF Terminate, SystemCallExit, Derail, cpuVars
<1>3. CASE Main
  <2>1. CASE LoadProgram \/ LoadFails
    BY <2>1 DEF LoadProgram, LoadFails, RequestAwaitsEnd
  <2>2. CASE ClearActive \/ ResetProgramState \/ Recycle
    BY <2>2 DEF ClearActive, ResetProgramState, Recycle, InMain, Goto, programVars,
       RequestAwaitsEnd
  <2>3. CASE SetActive \/ SetEntry \/ SaveRegisters \/ StoreReturn \/ Eret
    BY <2>3 DEF SetActive, SetEntry, SaveRegisters, StoreReturn, Eret, InMain, programVars,
       RequestAwaitsEnd
  <2> QED
    BY <1>3, <2>1, <2>2, <2>3 DEF Main
<1>4. CASE \E a \in Apps : SwitchTo(a)
  <2>1. pc = "running"
    BY <1>4, AboveMain DEF SwitchTo, InProgram, Running
  <2>2. active /\ returnSet /\ block = "own"
    BY <2>1 DEF LaunchReady
  <2>3. pc' = "returned"
    BY <1>4, <2>2 DEF SwitchTo, Terminate, SystemCallExit
  <2> QED
    BY <2>3 DEF RequestAwaitsEnd
<1>5. CASE Program /\ ~\E a \in Apps : SwitchTo(a)
  BY <1>1, <1>2, <1>5 DEF Program, UseResource, CapturePrgExit, ReleasePrgExit, Exit,
     SystemCallAborts, ProgramFaults, FaultAcknowledged, UartGetc, UartByteArrives, programVars
<1>6. CASE Dac
  BY <1>1, <1>2, <1>6 DEF Dac, DacOutputStart, DacSaveStack, DacFinishes, DacReturns,
     DacMisreturns, DacOutputEnd, programVars
<1>7. CASE Interrupts
  BY <1>1, <1>2, <1>7 DEF Interrupts, TakeIrq, DispatchIrq, TriggerPrgExit, AddInterruptEnd,
     RunEvent, EnterHandler, ReturnFromIrq, HandlerReturns, ReturnToInterrupted,
     ResumeDeadSession, Derail, programVars
<1>8. CASE Environment \/ SystemHalted
  BY <1>1, <1>2, <1>8 DEF Environment, PrgExitPressed, UartReceives, TimerFires, Raise,
     QuarterSecondPasses, DebounceTimePasses, SystemHalted, vars, programVars
<1> QED
  BY <1>3, <1>4, <1>5, <1>6, <1>7, <1>8 DEF Next

\* What a frame can lie over, for the frame on top.
LayerOver(k) ==
    /\ k # "user"
    /\ k = "irq" => Top.kind \in {"user", "fault"} \cup DacKinds
    /\ k = "handler" => Top.kind = "irq"
    /\ k \in {"getc", "fault"} \cup DacKinds => Top.kind \in {"user", "handler"}

LEMMA StackLayersStep ==
  ASSUME TypeOK, ControlInvariant, Next
  PROVE  StackLayers'
<1> USE DEF ControlInvariant
<1>a. stack \in Seq(Frame) /\ Len(stack) \in Nat
  BY LenProperties DEF TypeOK
<1>b. InProgram => stack # <<>> /\ Top.kind \in {"user", "handler"}
  BY DEF InProgram, Running
<1>1. ASSUME stack' = stack
      PROVE  StackLayers'
  BY <1>1 DEF StackLayers
<1>2. ASSUME NEW n \in 0..Len(stack), Len(stack') = n,
             \A i \in 1..n : stack'[i].kind = stack[i].kind
      PROVE  StackLayers'
  BY <1>a, <1>2 DEF StackLayers
<1>3. ASSUME stack' = <<>>
      PROVE  StackLayers'
  BY <1>3, EmptySeq DEF StackLayers
<1>4. ASSUME NEW m \in BOOLEAN, SystemCallExit(m) \/ Terminate(m) \/ Derail
      PROVE  StackLayers'
  BY <1>1, <1>3, <1>4 DEF SystemCallExit, Terminate, Derail, cpuVars
<1>5. ASSUME NEW k, Len(stack') = Len(stack) + 1, stack'[Len(stack) + 1].kind = k,
             \A i \in 1..Len(stack) : stack'[i] = stack[i], stack # <<>> => LayerOver(k)
      PROVE  StackLayers'
  <2>1. /\ Len(stack') = Len(stack) + 1
        /\ \A i \in 1..Len(stack) : stack'[i] = stack[i]
        /\ stack'[Len(stack) + 1].kind = k
    BY <1>5
  <2>2. ASSUME NEW i \in 2..Len(stack'), i = Len(stack) + 1
        PROVE  /\ stack # <<>> /\ LayerOver(k)
               /\ stack'[i].kind = k /\ stack'[i - 1].kind = Top.kind
    <3>1. Len(stack) # 0 /\ i - 1 = Len(stack)
      BY <1>a, <2>2
    <3>2. stack # <<>>
      BY <3>1, EmptySeq
    <3> QED
      BY <1>5, <1>a, <2>1, <2>2, <3>1, <3>2, TopFrame DEF Top
  <2>3. \A i \in 2..Len(stack') : i # Len(stack) + 1 =>
          i \in 2..Len(stack) /\ stack'[i] = stack[i] /\ stack'[i - 1] = stack[i - 1]
    BY <1>a, <2>1
  <2> QED
    BY <2>2, <2>3 DEF StackLayers, LayerOver
<1>p. ASSUME NEW k \in Kinds, Push(k), stack # <<>> => LayerOver(k)
      PROVE  StackLayers'
  BY <1>5, <1>a, <1>p, PushStack, NewKind
<1>6. ASSUME Top.kind \in DacKinds, stack # <<>>, NEW k \in DacKinds, Become(k)
      PROVE  StackLayers'
  <2>1. /\ Len(stack') = Len(stack)
        /\ \A i \in 1..Len(stack) : i # Len(stack) => stack'[i] = stack[i]
        /\ stack'[Len(stack)].kind = k
    BY <1>6, <1>a, BecomeStack DEF Kinds
  <2>2. ASSUME NEW i \in 2..Len(stack')
        PROVE  /\ i \in 2..Len(stack) /\ stack'[i - 1] = stack[i - 1]
               /\ \/ stack'[i] = stack[i]
                  \/ stack[i].kind \in DacKinds /\ stack'[i].kind \in DacKinds
    BY <1>6, <1>a, <2>1, <2>2 DEF Top
  <2> QED
    BY SMTT(40), <2>2 DEF StackLayers, DacKinds
<1>7. ASSUME stack # <<>>, Pop
      PROVE  StackLayers'
  <2>1. Len(stack) # 0
    BY <1>7, <1>a, EmptySeq
  <2>2. Len(stack) - 1 \in 0..Len(stack)
    BY <1>a, <2>1
  <2>3. Len(stack') = Len(stack) - 1 /\ \A i \in 1..Len(stack) - 1 : stack'[i] = stack[i]
    BY <1>7, <1>a, PopStack
  <2> QED
    BY <1>2, <2>2, <2>3
<1>8. CASE Main
  BY <1>1, <1>p, <1>8 DEF Main, LoadProgram, LoadFails, SetActive, SetEntry, SaveRegisters,
     StoreReturn, Eret, ClearActive, ResetProgramState, Recycle, InMain, Goto, Kinds
<1>9. CASE Program
  <2>1. CASE ProgramFaults \/ UartGetc
    BY <1>p, <1>b, <2>1 DEF ProgramFaults, UartGetc, LayerOver, Kinds
  <2>2. CASE UartByteArrives
    BY <1>7, <2>2 DEF UartByteArrives, Running
  <2>3. CASE Exit \/ SystemCallAborts \/ FaultAcknowledged \/ \E a \in Apps : SwitchTo(a)
    BY <1>4, <2>3 DEF Exit, SystemCallAborts, FaultAcknowledged, SwitchTo
  <2>4. CASE (\E r \in Resources : UseResource(r)) \/ CapturePrgExit \/ ReleasePrgExit
    BY <1>1, <2>4 DEF UseResource, CapturePrgExit, ReleasePrgExit, cpuVars
  <2> QED
    BY <1>9, <2>1, <2>2, <2>3, <2>4 DEF Program
<1>10. CASE Dac
  <2>1. CASE DacOutputStart
    BY <1>p, <1>b, <2>1 DEF DacOutputStart, LayerOver, Kinds, DacKinds
  <2>2. CASE DacSaveStack \/ DacFinishes
    BY <1>4, <1>6, <2>2 DEF DacSaveStack, DacFinishes, Running, DacKinds
  <2>3. CASE DacReturns
    BY <1>7, <2>3 DEF DacReturns, Running
  <2>4. CASE DacMisreturns
    BY <1>4, <2>4 DEF DacMisreturns
  <2>5. CASE DacOutputEnd
    <3>1. CASE dacReturn \in DOMAIN stack /\ stack' = SubSeq(stack, 1, dacReturn - 1)
      <4>1. dacReturn - 1 \in 0..Len(stack)
        BY <1>a, <3>1, LenProperties
      <4>2. /\ Len(stack') = dacReturn - 1
            /\ \A i \in 1..dacReturn - 1 : stack'[i] = stack[i]
        BY <1>a, <3>1, <4>1, PrefixStack
      <4> QED
        BY <1>2, <4>1, <4>2
    <3> QED
      BY <1>1, <1>4, <2>5, <3>1 DEF DacOutputEnd, cpuVars
  <2> QED
    BY <1>10, <2>1, <2>2, <2>3, <2>4, <2>5 DEF Dac
<1>11. CASE Interrupts
  <2>1. CASE TakeIrq
    BY <1>p, <2>1 DEF TakeIrq, Unmasked, LayerOver, Kinds, DacKinds
  <2>2. CASE DispatchIrq
    BY <1>1, <1>4, <2>2 DEF DispatchIrq, TriggerPrgExit, AddInterruptEnd, cpuVars
  <2>3. CASE RunEvent
    BY <1>4, <1>p, <2>3 DEF RunEvent, EnterHandler, Running, LayerOver, Kinds, DacKinds
  <2>4. CASE ReturnFromIrq
    BY <1>7, <2>4 DEF ReturnFromIrq, Running
  <2>5. CASE HandlerReturns /\ ReturnToInterrupted
    <3>1. Len(stack) >= 3
      BY <1>a, <2>5, TopFrame DEF HandlerReturns, ReturnToInterrupted, ResumeDeadSession, Derail,
         Running, StackShape
    <3>2. Len(stack') = Len(stack) - 2 /\ \A i \in 1..Len(stack) - 2 : stack'[i].kind = stack[i].kind
      BY <1>a, <2>5, <3>1, UnwindStack
    <3>3. Len(stack) - 2 \in 0..Len(stack)
      BY <1>a, <3>1
    <3> QED
      BY <1>2, <3>2, <3>3
  <2>6. CASE HandlerReturns /\ ResumeDeadSession
    <3>1. stack # <<>> /\ LayerOver("dac")
      BY <2>6 DEF HandlerReturns, Running, LayerOver, DacKinds
    <3> QED
      BY <1>5, <1>a, <2>6, <3>1, ResumeStack
  <2>7. CASE HandlerReturns /\ Derail
    BY <1>4, <2>7
  <2> QED
    BY <1>11, <2>1, <2>2, <2>3, <2>4, <2>5, <2>6, <2>7 DEF Interrupts, HandlerReturns
<1>12. CASE Environment \/ SystemHalted
  BY <1>1, <1>12 DEF Environment, PrgExitPressed, UartReceives, TimerFires, Raise,
     QuarterSecondPasses, DebounceTimePasses, SystemHalted, vars, cpuVars
<1> QED
  BY <1>8, <1>9, <1>10, <1>11, <1>12 DEF Next

\* The frame under a system call's is code of the program.
LEMMA UnderSystemCall ==
  ASSUME TypeOK, ControlInvariant, NEW i \in 1..Len(stack),
         stack[i].kind \in {"getc", "fault"} \cup DacKinds
  PROVE  i - 1 \in 1..Len(stack) /\ stack[i - 1].kind \in {"user", "handler"}
<1> USE DEF ControlInvariant
<1>1. stack \in Seq(Frame) /\ Len(stack) \in Nat
  BY LenProperties DEF TypeOK
<1>2. stack # <<>>
  BY <1>1, EmptySeq
<1>3. i # 1
  BY <1>2 DEF StackShape, DacKinds
<1>4. i \in 2..Len(stack) /\ i - 1 \in 1..Len(stack)
  BY <1>1, <1>3
<1> QED
  BY <1>4 DEF StackLayers

LEMMA SessionWordStep ==
  ASSUME TypeOK, ControlInvariant, Next
  PROVE  SessionWord'
<1> USE DEF ControlInvariant
<1>a. stack \in Seq(Frame) /\ Len(stack) \in Nat
  BY LenProperties DEF TypeOK
<1>1. ASSUME stack' = stack, dacReturn' = dacReturn
      PROVE  SessionWord'
  BY <1>1 DEF SessionWord
<1>2. ASSUME stack' = <<>>
      PROVE  SessionWord'
  BY <1>2, EmptySeq DEF SessionWord
<1>3. ASSUME NEW m \in BOOLEAN, SystemCallExit(m) \/ Derail \/ (Terminate(m) /\ dacReturn' = dacReturn)
      PROVE  SessionWord'
  BY <1>1, <1>2, <1>3 DEF SystemCallExit, Terminate, Derail, cpuVars
<1>4. ASSUME NEW n \in Nat \ {0}, Len(stack') = n, stack'[n].kind # "irq",
             stack'[n].kind = "dac" /\ stack'[n].intact => dacReturn' = n
      PROVE  SessionWord'
  <2>1. \A i \in 1..n : i # n => n \in i + 1 .. n
    OBVIOUS
  <2> QED
    BY <1>4, <2>1 DEF SessionWord
<1>5. ASSUME NEW k \in Kinds \ {"irq", "dac"}, Push(k)
      PROVE  SessionWord'
  <2>1. Len(stack') = Len(stack) + 1 /\ stack'[Len(stack) + 1].kind = k
    BY <1>5, <1>a, PushStack, NewKind
  <2> QED
    BY <1>4, <1>5, <1>a, <2>1
<1>6. ASSUME NEW i \in 1..Len(stack), stack[i].kind \in {"getc"} \cup DacKinds,
             Len(stack') = i - 1, \A j \in 1..i - 1 : stack'[j] = stack[j]
      PROVE  SessionWord'
  <2>1. i - 1 \in 1..Len(stack) /\ stack[i - 1].kind \in {"user", "handler"}
    BY <1>6, UnderSystemCall
  <2>2. i - 1 \in Nat \ {0} /\ stack'[i - 1] = stack[i - 1]
    BY <1>6, <1>a, <2>1
  <2> QED
    BY <1>4, <1>6, <2>1, <2>2
<1>7. ASSUME stack # <<>>, Pop, Top.kind \in {"getc"} \cup DacKinds
      PROVE  SessionWord'
  <2>1. Len(stack') = Len(stack) - 1 /\ \A i \in 1..Len(stack) - 1 : stack'[i] = stack[i]
    BY <1>7, <1>a, PopStack
  <2>2. Len(stack) \in 1..Len(stack) /\ stack[Len(stack)].kind \in {"getc"} \cup DacKinds
    BY <1>7, <1>a, TopFrame
  <2> QED
    BY <1>6, <2>1, <2>2
<1>8. CASE Main
  BY <1>1, <1>5, <1>8 DEF Main, LoadProgram, LoadFails, SetActive, SetEntry, SaveRegisters,
     StoreReturn, Eret, ClearActive, ResetProgramState, Recycle, InMain, Goto, Kinds, returnVars
<1>9. CASE Program
  <2>1. CASE ProgramFaults \/ UartGetc
    BY <1>5, <2>1 DEF ProgramFaults, UartGetc, Kinds
  <2>2. CASE UartByteArrives
    BY <1>7, <2>2 DEF UartByteArrives, Running
  <2>3. CASE Exit \/ SystemCallAborts \/ FaultAcknowledged \/ \E a \in Apps : SwitchTo(a)
    BY <1>3, <2>3 DEF Exit, SystemCallAborts, FaultAcknowledged, SwitchTo, returnVars
  <2>4. CASE (\E r \in Resources : UseResource(r)) \/ CapturePrgExit \/ ReleasePrgExit
    BY <1>1, <2>4 DEF UseResource, CapturePrgExit, ReleasePrgExit, cpuVars, returnVars
  <2> QED
    BY <1>9, <2>1, <2>2, <2>3, <2>4 DEF Program
<1>10. CASE Dac
  <2>1. CASE DacOutputStart
    BY <1>5, <2>1 DEF DacOutputStart, Kinds, DacKinds
  <2>2. CASE DacSaveStack
    <3>1. stack # <<>> /\ Become("dac") /\ dacReturn' = Len(stack)
      BY <2>2 DEF DacSaveStack, Running
    <3>2. Len(stack') = Len(stack) /\ stack'[Len(stack)].kind = "dac"
      BY <1>a, <3>1, BecomeStack DEF Kinds, DacKinds
    <3> QED
      BY <1>4, <1>a, <3>1, <3>2, TopFrame
  <2>3. CASE DacFinishes
    <3>1. CASE dacReturn = Len(stack)
      <4>1. stack # <<>> /\ Become("dacExit")
        BY <2>3, <3>1 DEF DacFinishes, Running
      <4>2. Len(stack') = Len(stack) /\ stack'[Len(stack)].kind = "dacExit"
        BY <1>a, <4>1, BecomeStack DEF Kinds, DacKinds
      <4> QED
        BY <1>4, <1>a, <4>1, <4>2, TopFrame
    <3> QED
      BY <1>3, <2>3, <3>1 DEF DacFinishes
  <2>4. CASE DacReturns
    BY <1>7, <2>4 DEF DacReturns, Running, DacKinds
  <2>5. CASE DacMisreturns
    BY <1>3, <2>5 DEF DacMisreturns
  <2>6. CASE DacOutputEnd
    <3>1. CASE dacReturn \in DOMAIN stack /\ stack[dacReturn].kind = "dac"
               /\ stack' = SubSeq(stack, 1, dacReturn - 1)
      <4>1. dacReturn \in 1..Len(stack) /\ dacReturn - 1 \in 0..Len(stack)
        BY <1>a, <3>1, LenProperties
      <4>2. /\ Len(stack') = dacReturn - 1
            /\ \A i \in 1..dacReturn - 1 : stack'[i] = stack[i]
        BY <1>a, <3>1, <4>1, PrefixStack
      <4> QED
        BY <1>6, <3>1, <4>1, <4>2 DEF DacKinds
    <3> QED
      BY <1>1, <1>3, <2>6, <3>1 DEF DacOutputEnd, cpuVars, returnVars
  <2> QED
    BY <1>10, <2>1, <2>2, <2>3, <2>4, <2>5, <2>6 DEF Dac
<1>11. CASE Interrupts
  <2>1. CASE TakeIrq
    <3>1. /\ Len(stack') = Len(stack) + 1 /\ dacReturn' = dacReturn
          /\ \A i \in 1..Len(stack) : stack'[i] = stack[i]
          /\ stack'[Len(stack) + 1].kind = "irq"
      BY <1>a, <2>1, PushStack, NewKind DEF TakeIrq, Kinds, returnVars
    <3>2. ASSUME NEW i \in 1..Len(stack'), stack'[i].kind = "dac", stack'[i].intact,
                 \A j \in i + 1 .. Len(stack') : stack'[j].kind = "irq"
          PROVE  dacReturn' = i
      <4>1. i \in 1..Len(stack) /\ \A j \in i + 1 .. Len(stack) : j \in i + 1 .. Len(stack')
        BY <1>a, <3>1, <3>2
      <4>2. \A j \in i + 1 .. Len(stack) : stack[j].kind = "irq"
        BY <1>a, <3>1, <3>2, <4>1
      <4> QED
        BY <3>1, <3>2, <4>1, <4>2 DEF SessionWord
    <3> QED
      BY <3>2 DEF SessionWord
  <2>2. CASE DispatchIrq
    BY <1>1, <1>3, <2>2 DEF DispatchIrq, TriggerPrgExit, AddInterruptEnd, cpuVars, returnVars
  <2>3. CASE RunEvent
    BY <1>3, <1>5, <2>3 DEF RunEvent, EnterHandler, Kinds
  <2>4. CASE ReturnFromIrq
    <3>1. /\ stack # <<>> /\ Top.kind = "irq" /\ dacReturn' = dacReturn
          /\ Len(stack') = Len(stack) - 1
          /\ \A i \in 1..Len(stack) - 1 : stack'[i] = stack[i]
      BY <1>a, <2>4, PopStack DEF ReturnFromIrq, Running, returnVars
    <3>2. ASSUME NEW i \in 1..Len(stack'), stack'[i].kind = "dac", stack'[i].intact,
                 \A j \in i + 1 .. Len(stack') : stack'[j].kind = "irq"
          PROVE  dacReturn' = i
      <4>1. i \in 1..Len(stack) /\ stack'[i] = stack[i]
        BY <1>a, <3>1, <3>2
      <4>2. ASSUME NEW j \in i + 1 .. Len(stack)
            PROVE  stack[j].kind = "irq"
        <5>1. CASE j = Len(stack)
          BY <3>1, <5>1 DEF Top
        <5>2. CASE j # Len(stack)
          <6> HIDE <3>2, <4>2
          <6>1. i \in Nat /\ i >= 1
            BY <4>1
          <6>2. j \in i + 1 .. Len(stack) - 1 /\ j \in 1..Len(stack) - 1
            BY <1>a, <4>2, <5>2, <6>1
          <6> QED
            BY <3>1, <3>2, <6>2
        <5> QED
          BY <5>1, <5>2
      <4> QED
        BY <3>1, <3>2, <4>1, <4>2 DEF SessionWord
    <3> QED
      BY <3>2 DEF SessionWord
  <2>5. CASE HandlerReturns /\ ReturnToInterrupted
    <3>1. Len(stack) >= 3 /\ stack[Len(stack)].kind = "handler"
      BY <1>a, <2>5, TopFrame DEF HandlerReturns, ReturnToInterrupted, ResumeDeadSession, Derail,
         Running, StackShape
    <3>2. /\ Len(stack') = Len(stack) - 2 /\ stack'[Len(stack) - 2].intact = FALSE
          /\ stack'[Len(stack) - 2].kind = stack[Len(stack) - 2].kind
      <4>1. Len(stack) - 2 \in 1..Len(stack) - 2
        BY <1>a, <3>1
      <4> QED
        BY <1>a, <2>5, <3>1, <4>1, UnwindStack
    <3>3. /\ Len(stack) \in 2..Len(stack) /\ Len(stack) - 1 \in 2..Len(stack)
          /\ Len(stack) - 2 \in Nat \ {0} /\ (Len(stack) - 1) - 1 = Len(stack) - 2
      BY <1>a, <3>1
    <3>4. stack[Len(stack) - 1].kind = "irq"
      BY <3>1, <3>3 DEF StackLayers
    <3>5. stack[Len(stack) - 2].kind # "irq"
      BY <3>3, <3>4 DEF StackLayers, DacKinds
    <3> QED
      BY <1>4, <3>2, <3>3, <3>5
  <2>6. CASE HandlerReturns /\ ResumeDeadSession
    <3>1. Len(stack) + 1 \in Nat \ {0}
      BY <1>a
    <3>2. Len(stack') = Len(stack) + 1 /\ stack'[Len(stack) + 1].kind = "dac"
          /\ stack'[Len(stack) + 1].intact = FALSE
      BY <1>a, <2>6, ResumeStack
    <3> QED
      BY <1>4, <3>1, <3>2
  <2>7. CASE HandlerReturns /\ Derail
    BY <1>3, <2>7
  <2> QED
    BY <1>11, <2>1, <2>2, <2>3, <2>4, <2>5, <2>6, <2>7 DEF Interrupts, HandlerReturns
<1>12. CASE Environment \/ SystemHalted
  BY <1>1, <1>12 DEF Environment, PrgExitPressed, UartReceives, TimerFires, Raise,
     QuarterSecondPasses, DebounceTimePasses, SystemHalted, vars, cpuVars, returnVars
<1> QED
  BY <1>8, <1>9, <1>10, <1>11, <1>12 DEF Next

\* The word a running handler returns through is its own, or a dead handler's
\* above it.
LEMMA HandlerWordStep ==
  ASSUME TypeOK, ControlInvariant, Next
  PROVE  HandlerWord'
<1> USE DEF ControlInvariant
<1>a. stack \in Seq(Frame) /\ Len(stack) \in Nat /\ handlerReturn \in Nat
  BY LenProperties DEF TypeOK
<1>1. ASSUME stack' = <<>>
      PROVE  HandlerWord'
  BY <1>1, EmptySeq DEF HandlerWord
<1>2. ASSUME handlerReturn' = handlerReturn, NEW n \in 0..Len(stack), Len(stack') = n,
             \A i \in 1..n : stack'[i].kind = stack[i].kind
      PROVE  HandlerWord'
  BY <1>a, <1>2 DEF HandlerWord
<1>3. ASSUME handlerReturn' = handlerReturn, Len(stack') = Len(stack) + 1,
             \A i \in 1..Len(stack) : stack'[i] = stack[i],
             stack'[Len(stack) + 1].kind # "handler"
      PROVE  HandlerWord'
  BY <1>a, <1>3 DEF HandlerWord
<1>4. ASSUME handlerReturn' = handlerReturn, NEW k \in Kinds \ {"handler"}, Push(k)
      PROVE  HandlerWord'
  BY <1>3, <1>4, <1>a, PushStack, NewKind
<1>5. ASSUME handlerReturn' = handlerReturn, stack # <<>>, Pop
      PROVE  HandlerWord'
  <2>1. Len(stack) - 1 \in 0..Len(stack)
    BY <1>5, <1>a, EmptySeq
  <2> QED
    BY <1>2, <1>5, <1>a, <2>1, PopStack
<1>6. ASSUME handlerReturn' = handlerReturn,
             NEW m \in BOOLEAN, SystemCallExit(m) \/ Terminate(m) \/ Derail \/ UNCHANGED cpuVars
      PROVE  HandlerWord'
  BY <1>1, <1>6 DEF SystemCallExit, Terminate, Derail, HandlerWord, cpuVars
<1>7. ASSUME handlerReturn' = handlerReturn, stack # <<>>, NEW k \in DacKinds, Become(k)
      PROVE  HandlerWord'
  <2>1. /\ Len(stack') = Len(stack) /\ k # "handler"
        /\ \A i \in 1..Len(stack) : i # Len(stack) => stack'[i] = stack[i]
        /\ stack'[Len(stack)].kind = k
    BY <1>7, <1>a, BecomeStack DEF Kinds, DacKinds
  <2> QED
    BY <1>7, <1>a, <2>1 DEF HandlerWord
<1>8. CASE Main
  BY <1>4, <1>6, <1>8 DEF Main, LoadProgram, LoadFails, SetActive, SetEntry, SaveRegisters,
     StoreReturn, Eret, ClearActive, ResetProgramState, Recycle, Goto, HandlerWord, Kinds,
     returnVars
<1>9. CASE Program
  BY <1>4, <1>5, <1>6, <1>9 DEF Program, UseResource, SwitchTo, CapturePrgExit, ReleasePrgExit,
     Exit, SystemCallAborts, ProgramFaults, FaultAcknowledged, UartGetc, UartByteArrives, Running,
     Kinds, returnVars
<1>10. CASE Dac
  <2>1. CASE DacOutputEnd /\ dacReturn \in DOMAIN stack /\ stack' = SubSeq(stack, 1, dacReturn - 1)
    <3>1. dacReturn - 1 \in 0..Len(stack)
      BY <1>a, <2>1, LenProperties
    <3>2. Len(stack') = dacReturn - 1 /\ \A i \in 1..dacReturn - 1 : stack'[i] = stack[i]
      BY <1>a, <2>1, <3>1, PrefixStack
    <3> QED
      BY <1>2, <2>1, <3>1, <3>2 DEF DacOutputEnd
  <2>2. CASE DacSaveStack \/ DacFinishes
    BY <1>6, <1>7, <2>2 DEF DacSaveStack, DacFinishes, Running, DacKinds
  <2>3. CASE DacOutputStart \/ DacReturns \/ DacMisreturns
    BY <1>4, <1>5, <1>6, <2>3 DEF DacOutputStart, DacReturns, DacMisreturns, Running, Kinds,
       DacKinds, returnVars
  <2> QED
    BY <1>6, <1>10, <2>1, <2>2, <2>3 DEF Dac, DacOutputEnd
<1>11. CASE Interrupts
  <2>1. CASE TakeIrq \/ ReturnFromIrq
    BY <1>4, <1>5, <2>1 DEF TakeIrq, ReturnFromIrq, Running, Kinds, returnVars
  <2>2. CASE DispatchIrq
    BY <1>6, <2>2 DEF DispatchIrq, TriggerPrgExit, AddInterruptEnd, returnVars
  <2>3. CASE RunEvent /\ handlerReturn' = handlerReturn /\ ~EnterHandler
    BY <1>6, <2>3 DEF RunEvent
  <2>4. CASE EnterHandler
    <3>1. /\ Len(stack') = Len(stack) + 1 /\ handlerReturn' = Len(stack) + 1
      BY <1>a, <2>4, PushStack DEF EnterHandler, Kinds
    <3> QED
      BY <1>a, <3>1 DEF HandlerWord
  <2>5. CASE HandlerReturns /\ ReturnToInterrupted
    <3>1. Len(stack) >= 3
      BY <1>a, <2>5, TopFrame DEF HandlerReturns, Running, StackShape
    <3>2. /\ Len(stack') = Len(stack) - 2
          /\ \A i \in 1..Len(stack) - 2 : stack'[i].kind = stack[i].kind
      BY <1>a, <2>5, <3>1, UnwindStack
    <3>3. Len(stack) - 2 \in 0..Len(stack)
      BY <1>a, <3>1
    <3> QED
      BY <1>2, <2>5, <3>2, <3>3 DEF HandlerReturns, returnVars
  <2>6. CASE HandlerReturns /\ ResumeDeadSession
    BY <1>3, <1>a, <2>6, ResumeStack DEF HandlerReturns, returnVars
  <2>7. CASE HandlerReturns /\ Derail
    BY <1>6, <2>7 DEF HandlerReturns, returnVars
  <2> QED
    BY <1>11, <2>1, <2>2, <2>3, <2>4, <2>5, <2>6, <2>7 DEF Interrupts, RunEvent, HandlerReturns
<1>12. CASE Environment \/ SystemHalted
  BY <1>6, <1>12 DEF Environment, PrgExitPressed, UartReceives, TimerFires, Raise,
     QuarterSecondPasses, DebounceTimePasses, SystemHalted, vars, cpuVars, returnVars
<1> QED
  BY <1>8, <1>9, <1>10, <1>11, <1>12 DEF Next

-----------------------------------------------------------------------------
(* The theorems.                                                            *)

\* The parts hold at the start ...
LEMMA ControlInit == Init => ControlInvariant
<1> SUFFICES ASSUME Init
             PROVE  ControlInvariant
  OBVIOUS
<1>1. Queued = {} /\ 1..Len(stack) = {}
  BY EmptySeq DEF Init, Queued, FreeSlots
<1>2. ExitsDrained /\ QueuedIsCurrent
  BY <1>1 DEF Init, ExitsDrained, QueuedIsCurrent
<1>3. StackShape /\ FaultQuiet
  BY <1>1 DEF Init, StackShape, FaultQuiet
<1>4. LaunchReady /\ CaptureNeedsProgram
  BY DEF Init, LaunchReady, CaptureNeedsProgram
<1>5. StackLayers /\ SessionWord /\ HandlerWord
  BY EmptySeq DEF Init, StackLayers, SessionWord, HandlerWord
<1>6. InterruptOnTop /\ DirtyNeedsProgram /\ RequestAwaitsEnd
  BY DEF Init, InterruptOnTop, DirtyNeedsProgram, RequestAwaitsEnd
<1> QED
  BY <1>2, <1>3, <1>4, <1>5, <1>6 DEF ControlInvariant

\* ... and together survive every step.
LEMMA ControlStep ==
  ASSUME TypeOK, ControlInvariant, [Next]_vars
  PROVE  TypeOK' /\ ControlInvariant'
<1>1. CASE Next
  <2>1. StackShape' /\ FaultQuiet'
    BY <1>1, StackShapeStep, FaultQuietStep
  <2>2. TypeOK' /\ LaunchReady' /\ ExitsDrained' /\ QueuedIsCurrent' /\ CaptureNeedsProgram'
    BY <1>1, TypeStep, LaunchReadyStep, ExitsDrainedStep, QueuedIsCurrentStep,
       CaptureNeedsProgramStep DEF ControlInvariant
  <2>3. StackLayers' /\ SessionWord' /\ HandlerWord'
    BY <1>1, StackLayersStep, SessionWordStep, HandlerWordStep
  <2>4. InterruptOnTop' /\ DirtyNeedsProgram' /\ RequestAwaitsEnd'
    BY <1>1, InterruptOnTopStep, DirtyNeedsProgramStep, RequestAwaitsEndStep DEF ControlInvariant
  <2> QED
    BY <2>1, <2>2, <2>3, <2>4 DEF ControlInvariant
<1>2. CASE UNCHANGED vars
  <2> USE <1>2 DEF vars, cpuVars, programVars, launchVars, exitVars, returnVars
  <2>1. TypeOK'
    BY DEF TypeOK
  <2>2. ExitsDrained' /\ QueuedIsCurrent'
    BY DEF ControlInvariant, ExitsDrained, QueuedIsCurrent, Queued, FreeSlots, Running, Top
  <2>3. StackShape' /\ FaultQuiet'
    BY DEF ControlInvariant, StackShape, FaultQuiet
  <2>4. LaunchReady' /\ CaptureNeedsProgram'
    BY DEF ControlInvariant, LaunchReady, CaptureNeedsProgram
  <2>5. StackLayers' /\ SessionWord' /\ HandlerWord'
    BY DEF ControlInvariant, StackLayers, SessionWord, HandlerWord
  <2>6. InterruptOnTop' /\ DirtyNeedsProgram' /\ RequestAwaitsEnd'
    BY DEF ControlInvariant, InterruptOnTop, Running, Top, DirtyNeedsProgram, RequestAwaitsEnd
  <2> QED
    BY <2>1, <2>2, <2>3, <2>4, <2>5, <2>6 DEF ControlInvariant
<1> QED
  BY <1>1, <1>2

\* Every reachable state is of its type and satisfies the control invariant:
\* the shape and the layers of the stack, the readiness of the program launch,
\* the queue of deferred exits, the quiet of a faulted program, the reach of a
\* capture, the words of a DAC session and of a handler, and what outlives a program.
THEOREM ControlCorrect == Spec => [](TypeOK /\ ControlInvariant)
<1>1. Init => TypeOK /\ ControlInvariant
  BY InitTyped, ControlInit
<1>2. TypeOK /\ ControlInvariant /\ [Next]_vars => (TypeOK /\ ControlInvariant)'
  BY ControlStep
<1> QED
  BY <1>1, <1>2, PTL DEF Spec

\* The variables keep their types: main() never returns to a place that is not
\* one of its own, as it would by an eret through a word no one has written.
THEOREM TypeCorrect == Spec => []TypeOK
BY ControlCorrect, PTL

\* A PRG_EXIT deferred by an interrupt is handled before that interrupt ends.
THEOREM ExitsAreDrained == Spec => []ExitsDrained
<1>1. ControlInvariant => ExitsDrained
  BY DEF ControlInvariant
<1> QED
  BY <1>1, ControlCorrect, PTL

\* No captured PRG_EXIT handler outlives the program that owns it.
THEOREM CaptureIsOwned == Spec => []CaptureNeedsProgram
<1>1. ControlInvariant => CaptureNeedsProgram
  BY DEF ControlInvariant
<1> QED
  BY <1>1, ControlCorrect, PTL

\* The word dac_output_end jumps through is the running session's own.
THEOREM SessionsOwnReturn == Spec => []SessionOwnsReturn
<1>1. TypeOK /\ ControlInvariant => SessionOwnsReturn
  <2> SUFFICES ASSUME TypeOK, ControlInvariant, Running("dac"), Top.intact
               PROVE  dacReturn = Len(stack)
    BY DEF SessionOwnsReturn
  <2>1. Len(stack) \in Nat /\ Len(stack) \in 1..Len(stack) /\ Top = stack[Len(stack)]
    BY TopFrame DEF Running, TypeOK
  <2>2. Len(stack) + 1 .. Len(stack) = {}
    BY <2>1
  <2> QED
    BY <2>1, <2>2 DEF ControlInvariant, SessionWord, Running
<1> QED
  BY <1>1, ControlCorrect, PTL

-----------------------------------------------------------------------------
(* What a step may do to a program's life.                                  *)

\* The jump out of a program, or out of an interrupt of main(), or nothing.
Leaves(m) == SystemCallExit(m) \/ Terminate(m) \/ Derail \/ UNCHANGED cpuVars

LEMMA LeavesTo ==
  ASSUME NEW m \in BOOLEAN, Leaves(m)
  PROVE  pc' \in {pc, "returned", "lost"}
BY DEF Leaves, Terminate, SystemCallExit, Derail, cpuVars

\* Only main() itself, and only by its eret, enters a program.
LEMMA OnlyEretStarts ==
  ASSUME LaunchReady, Next, pc = "armed", pc' = "running"
  PROVE  Eret
<1>1. CASE Main
  BY <1>1 DEF Main, LoadProgram, LoadFails, SetActive, SetEntry, SaveRegisters, StoreReturn,
     ClearActive, ResetProgramState, Recycle, InMain
<1>2. CASE Program
  BY <1>2, LeavesTo DEF Program, UseResource, SwitchTo, CapturePrgExit, ReleasePrgExit, Exit,
     SystemCallAborts, ProgramFaults, FaultAcknowledged, UartGetc, UartByteArrives, Leaves,
     cpuVars
<1>3. CASE Dac
  BY <1>3, LeavesTo DEF Dac, DacOutputStart, DacSaveStack, DacFinishes, DacReturns,
     DacMisreturns, DacOutputEnd, Leaves
<1>4. CASE Interrupts
  BY <1>4, LeavesTo DEF Interrupts, TakeIrq, DispatchIrq, TriggerPrgExit, AddInterruptEnd,
     RunEvent, EnterHandler, ReturnFromIrq, HandlerReturns, ReturnToInterrupted,
     ResumeDeadSession, Derail, Leaves
<1>5. CASE Environment \/ SystemHalted
  BY <1>5 DEF Environment, PrgExitPressed, UartReceives, TimerFires, Raise,
     QuarterSecondPasses, DebounceTimePasses, SystemHalted, vars, cpuVars
<1> QED
  BY <1>1, <1>2, <1>3, <1>4, <1>5 DEF Next

\* However the last program ended, the next starts with the default PRG_EXIT
\* handler, nothing queued and every resource put back.
THEOREM StartsClean == Spec => CleanStart
<1> DEFINE Clean == pc = "armed" /\ pc' = "running" =>
                      /\ handler = "default" /\ dirty = {} /\ Queued = {} /\ ~interruptActive
<1>1. ASSUME TypeOK, ControlInvariant, [Next]_vars
      PROVE  [Clean]_vars
  <2> SUFFICES ASSUME Next, pc = "armed", pc' = "running"
               PROVE  Clean
    BY <1>1
  <2>1. stack = <<>>
    BY <1>1, OnlyEretStarts DEF ControlInvariant, Eret, InMain
  <2>2. ~Running("irq")
    BY <2>1 DEF Running
  <2> QED
    BY <1>1, <2>2 DEF ControlInvariant, ExitsDrained, InterruptOnTop, DirtyNeedsProgram,
       CaptureNeedsProgram, TypeOK
<1> QED
  BY <1>1, ControlCorrect, PTL DEF Spec, CleanStart

LEMMA LifecycleInit == Init => Lifecycle!Init
BY DEF Init, Lifecycle!Init, Phase

\* A jump that leaves the program selected or running ends it or derails.
LEMMA LeavingEnds ==
  ASSUME TypeOK, ControlInvariant, UNCHANGED <<program, request>>, pc # "stopped",
         pc' \in {pc, "lost"} \/ (pc' = "returned" /\ active /\ pc # "lost")
  PROVE  [Lifecycle!Next]_(Lifecycle!vars)
<1>1. CASE pc' = pc
  BY <1>1 DEF Phase, Lifecycle!vars
<1>2. CASE pc' = "lost" /\ pc # "lost"
  <2>1. Phase # "stopped" /\ Phase' = "lost"
    BY <1>2 DEF Phase, TypeOK, PCs
  <2> QED
    BY <2>1 DEF Lifecycle!Next, Lifecycle!Derail
<1>3. CASE pc' = "returned" /\ pc # "returned"
  <2>1. pc \in {"active", "entry", "saved", "armed", "running"}
    BY <1>3 DEF ControlInvariant, LaunchReady
  <2>2. request = NoProgram /\ Phase \in {"selected", "running"} /\ Phase' = "over"
    BY <1>3, <2>1 DEF ControlInvariant, RequestAwaitsEnd, Phase
  <2> QED
    BY <2>2 DEF Lifecycle!Next, Lifecycle!End
<1> QED
  BY <1>1, <1>2, <1>3

LEMMA MainLifecycle ==
  ASSUME TypeOK, ControlInvariant, Main
  PROVE  [Lifecycle!Next]_(Lifecycle!vars)
<1>1. CASE LoadProgram
  <2>1. Phase = "select" /\ Phase' = "selected"
    BY <1>1 DEF LoadProgram, InMain, Goto, Phase
  <2> QED
    BY <1>1, <2>1 DEF LoadProgram, Lifecycle!Next, Lifecycle!Select
<1>2. CASE LoadFails
  <2>1. Phase = "select" /\ Phase' = "stopped"
    BY <1>2 DEF LoadFails, InMain, Goto, Phase
  <2> QED
    BY <1>2, <2>1 DEF LoadFails, Lifecycle!Next, Lifecycle!Abandon
<1>3. CASE SetActive \/ SetEntry \/ SaveRegisters \/ StoreReturn \/ ClearActive
           \/ ResetProgramState
  <2>1. Phase' = Phase
    BY <1>3 DEF SetActive, SetEntry, SaveRegisters, StoreReturn, ClearActive, ResetProgramState,
       InMain, Goto, Phase
  <2> QED
    BY <1>3, <2>1 DEF SetActive, SetEntry, SaveRegisters, StoreReturn, ClearActive,
       ResetProgramState, programVars, Lifecycle!vars
<1>4. CASE Eret
  <2>1. CASE elr = "program"
    <3>1. Phase = "selected" /\ Phase' = "running"
      BY <1>4, <2>1 DEF Eret, InMain, Phase
    <3> QED
      BY <1>4, <3>1 DEF Eret, programVars, Lifecycle!Next, Lifecycle!Start
  <2>2. CASE elr # "program"
    <3>1. Phase' = Phase
      BY <1>4, <2>2 DEF Eret, InMain, Goto, ControlInvariant, LaunchReady, Phase
    <3> QED
      BY <1>4, <3>1 DEF Eret, programVars, Lifecycle!vars
  <2> QED
    BY <2>1, <2>2
<1>5. CASE Recycle
  <2>1. /\ Phase = "over"
        /\ Phase' \in {"select"} \cup (IF program = MainInterface THEN {"stopped"} ELSE {})
    BY <1>5 DEF Recycle, InMain, Goto, Phase
  <2> QED
    BY <1>5, <2>1 DEF Recycle, programVars, Lifecycle!Next, Lifecycle!Recycle
<1> QED
  BY <1>1, <1>2, <1>3, <1>4, <1>5 DEF Main

LEMMA ProgramLifecycleStep ==
  ASSUME TypeOK, ControlInvariant, Program
  PROVE  [Lifecycle!Next]_(Lifecycle!vars)
<1>a. pc = "running" /\ active /\ returnSet /\ block = "own"
  BY AboveMain DEF Program, UseResource, SwitchTo, CapturePrgExit, ReleasePrgExit, Exit,
     SystemCallAborts, ProgramFaults, FaultAcknowledged, UartGetc, UartByteArrives, InProgram,
     Running, DacKinds, ControlInvariant, LaunchReady
<1>1. CASE \E a \in Apps : SwitchTo(a)
  <2>1. PICK a \in Apps : SwitchTo(a)
    BY <1>1
  <2>2. pc' = "returned"
    BY <1>a, <2>1 DEF SwitchTo, Terminate, SystemCallExit
  <2>3. Phase = "running" /\ Phase' = "over"
    BY <1>a, <2>2 DEF Phase
  <2>4. Lifecycle!SwitchTo(a)
    BY <2>1, <2>3 DEF SwitchTo, Lifecycle!SwitchTo
  <2> QED
    BY <2>4 DEF Lifecycle!Next
<1>2. CASE Program /\ ~\E a \in Apps : SwitchTo(a)
  <2>1. UNCHANGED <<program, request>>
    BY <1>2 DEF Program, UseResource, CapturePrgExit, ReleasePrgExit, Exit, SystemCallAborts,
       ProgramFaults, FaultAcknowledged, UartGetc, UartByteArrives, programVars
  <2>2. pc' \in {pc, "returned", "lost"}
    BY <1>2, LeavesTo DEF Program, UseResource, CapturePrgExit, ReleasePrgExit, Exit,
       SystemCallAborts, ProgramFaults, FaultAcknowledged, UartGetc, UartByteArrives, Leaves,
       cpuVars
  <2> QED
    BY <1>a, <2>1, <2>2, LeavingEnds
<1> QED
  BY <1>1, <1>2

LEMMA DacLifecycle ==
  ASSUME TypeOK, ControlInvariant, Dac
  PROVE  [Lifecycle!Next]_(Lifecycle!vars)
<1>1. pc = "running"
  BY AboveMain DEF Dac, DacOutputStart, DacSaveStack, DacFinishes, DacReturns, DacMisreturns,
     DacOutputEnd, InProgram, Running, DacKinds, ControlInvariant
<1>2. UNCHANGED <<program, request>> /\ pc' \in {pc, "lost"}
  BY DEF Dac, DacOutputStart, DacSaveStack, DacFinishes, DacReturns, DacMisreturns,
     DacOutputEnd, Derail, programVars, cpuVars
<1> QED
  BY <1>1, <1>2, LeavingEnds

\* An interrupt handler that finds the event table full would derail; it does
\* not, for it is empty whenever an interrupt is dispatched.
LEMMA DispatchKeepsControl ==
  ASSUME TypeOK, ControlInvariant, DispatchIrq
  PROVE  UNCHANGED cpuVars
<1>1. Queued = {}
  BY DEF ControlInvariant, ExitsDrained, DispatchIrq
<1>2. FreeSlots # {}
  BY <1>1, FirstFree
<1> QED
  BY <1>2 DEF DispatchIrq, TriggerPrgExit, AddInterruptEnd

LEMMA InterruptLifecycle ==
  ASSUME TypeOK, ControlInvariant, Interrupts
  PROVE  [Lifecycle!Next]_(Lifecycle!vars)
<1>1. UNCHANGED <<program, request>>
  BY DEF Interrupts, TakeIrq, DispatchIrq, RunEvent, EnterHandler, ReturnFromIrq, HandlerReturns,
     ReturnToInterrupted, ResumeDeadSession, Derail, programVars
<1>2. CASE pc' = pc
  BY <1>1, <1>2 DEF Phase, Lifecycle!vars
<1>3. CASE pc' # pc /\ RunEvent
  <2>1. active /\ SystemCallExit(TRUE)
    BY <1>3 DEF RunEvent, EnterHandler, Terminate, cpuVars
  <2>2. pc # "lost" /\ pc # "stopped"
    BY <1>3, <2>1 DEF RunEvent, Running, ControlInvariant, StackShape, LaunchReady
  <2> QED
    BY <1>1, <2>1, <2>2, LeavingEnds DEF SystemCallExit
<1>4. CASE pc' # pc /\ ~RunEvent
  <2>1. HandlerReturns /\ pc' = "lost"
    BY <1>4, DispatchKeepsControl DEF Interrupts, TakeIrq, ReturnFromIrq, HandlerReturns,
       ReturnToInterrupted, ResumeDeadSession, Derail, cpuVars
  <2>2. pc = "running"
    BY <2>1, AboveMain DEF HandlerReturns, Running, ControlInvariant
  <2> QED
    BY <1>1, <2>1, <2>2, LeavingEnds
<1> QED
  BY <1>2, <1>3, <1>4

\* The kernel implements the life cycle: one program at a time, started once
\* selected, over once, followed by the program it asked for and no other.
THEOREM LifecycleImplemented == Spec => ImplementsLifecycle
<1>1. ASSUME TypeOK, ControlInvariant, [Next]_vars
      PROVE  [Lifecycle!Next]_(Lifecycle!vars)
  <2>1. CASE Environment \/ SystemHalted \/ UNCHANGED vars
    <3>1. UNCHANGED <<pc, program, request>>
      BY <2>1 DEF Environment, PrgExitPressed, UartReceives, TimerFires, Raise,
         QuarterSecondPasses, DebounceTimePasses, SystemHalted, vars, cpuVars, programVars
    <3> QED
      BY <3>1 DEF Phase, Lifecycle!vars
  <2> QED
    BY <1>1, <2>1, MainLifecycle, ProgramLifecycleStep, DacLifecycle, InterruptLifecycle DEF Next
<1> QED
  BY <1>1, LifecycleInit, ControlCorrect, PTL DEF Spec, ImplementsLifecycle, Lifecycle!Spec
=============================================================================
