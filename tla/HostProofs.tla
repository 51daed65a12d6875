----------------------------- MODULE HostProofs -----------------------------
(***************************************************************************)
(* Proofs about Panel, for any matrix of buttons, any channels and any     *)
(* length of the host's messages, and about UartLink, for files of any     *)
(* size, any chunk, any receiver and any number of commands.               *)
(***************************************************************************)
EXTENDS Panel, UartLink, FiniteSetTheorems, SequenceTheorems, TLAPS

-----------------------------------------------------------------------------
(* The panel: the inductive invariant.                                      *)

PanelTypes ==
    /\ held \subseteq Keys /\ latched \subseteq Keys
    /\ register \in [row : Rows, resolution : 0 .. 3, bypass : SUBSET Channels]
    /\ asked \in [Emulated -> {"off", "on", "forcedOff", "forcedOn"}]
    /\ standed \subseteq Emulated
    /\ buffered \in [Channels -> BOOLEAN]
    /\ outputs \in Seq(SUBSET Channels)

\* While a poll runs, its row is the one that is driven, and what it has read
\* so far is what the rows before that one showed.
PollInStep ==
    irq = "poll" => /\ scan \in 0 .. 4
                    /\ wired.row = (IF scan \in Rows THEN scan ELSE 0)
                    /\ rows = {k \in latched : k[1] < scan}

\* An output is begun and not left as long as one runs, or a handler inside it.
OutputRuns == outputs = <<>> <=> pc \notin {"output", "handler"}

PanelInvariant == /\ PanelTypes /\ PollInStep /\ OutputRuns
                  /\ RowsReadInPlace /\ KeysAsAsked /\ OutputsWired

-----------------------------------------------------------------------------
(* The register.                                                            *)

LEMMA ResolutionBitsTyped == \A r : ResolutionBits(r) \in 0 .. 3
BY DEF ResolutionBits

\* Each writer of the register writes its own field and no other.
LEMMA RegisterFields ==
  ASSUME PanelTypes, NEW x
  PROVE  /\ [register EXCEPT !.row = x] =
              [row |-> x, resolution |-> register.resolution, bypass |-> register.bypass]
         /\ [register EXCEPT !.resolution = x] =
              [row |-> register.row, resolution |-> x, bypass |-> register.bypass]
         /\ [register EXCEPT !.bypass = x] =
              [row |-> register.row, resolution |-> register.resolution, bypass |-> x]
BY DEF PanelTypes

\* What the register is after a step, and who wrote it.
LEMMA RegisterStep ==
  ASSUME PanelTypes, OutputsWired, Next
  PROVE  \/ UNCHANGED <<register, wired>>
         \/ /\ PollRow
            /\ register' = [register EXCEPT !.row = Target(scan)] /\ wired' = register'
         \/ /\ irq # "poll" /\ \E r \in Resolutions : DacResolution(r)
            /\ \E b \in 0 .. 3 : register' = [register EXCEPT !.resolution = b]
            /\ wired' = register'
         \/ /\ irq # "poll" /\ \E c \in Channels, on \in BOOLEAN : DacChannelBuffering(c, on)
            /\ \E cs \in SUBSET Channels : register' = [register EXCEPT !.bypass = cs]
            /\ wired' = register'
<1>1. CASE PollRow
  BY <1>1 DEF PollRow
<1>2. CASE \E r \in Resolutions : DacResolution(r)
  <2>1. PICK r \in Resolutions : DacResolution(r)
    BY <1>2
  <2> QED
    BY <1>2, <2>1, ResolutionBitsTyped DEF DacResolution, WriteRegister, Calls
<1>3. CASE \E c \in Channels, on \in BOOLEAN : DacChannelBuffering(c, on)
  <2>1. PICK c \in Channels, on \in BOOLEAN : DacChannelBuffering(c, on)
    BY <1>3
  <2>2. \A cs : [register EXCEPT !.bypass = IF on THEN @ \ {c} ELSE @ \cup {c}] =
                [register EXCEPT !.bypass = IF on THEN register.bypass \ {c}
                                                  ELSE register.bypass \cup {c}]
    BY DEF PanelTypes
  <2>3. (IF on THEN register.bypass \ {c} ELSE register.bypass \cup {c}) \in SUBSET Channels
    BY DEF PanelTypes
  <2> QED
    BY <1>3, <2>1, <2>2, <2>3 DEF DacChannelBuffering, WriteRegister, Calls
<1>4. CASE ~PollRow /\ ~(\E r \in Resolutions : DacResolution(r))
           /\ ~(\E c \in Channels, on \in BOOLEAN : DacChannelBuffering(c, on))
  BY <1>4 DEF Next, Press, TimerFires, MessageArrives, Handlers, PollEnds, Entries, KeyEntry,
     OtherEntry, NextEntry, MessageEnds, KeypadPolling, UartEmulation, GetKeypadState,
     DacOutputStart, DacOutputEnds, DacOutputEnd, LeaveOutputs, HandlerBegins, HandlerReturn,
     ProgramExits, ProgramFaults, Exiting, Halts, HaltReads, HaltClears, HaltWaits, HaltEnds
<1> QED
  BY <1>1, <1>2, <1>3, <1>4

-----------------------------------------------------------------------------
(* Types.                                                                   *)

LEMMA TypesInit == Init => PanelTypes
<1> SUFFICES ASSUME Init
             PROVE  PanelTypes
  OBVIOUS
<1>1. SupportsBypass \ SupportsBuffered \subseteq Channels
  BY PanelAssumption
<1>2. register \in [row : Rows, resolution : 0 .. 3, bypass : SUBSET Channels]
  BY <1>1, ResolutionBitsTyped DEF Init, FirstRegister, Rows
<1> QED
  BY <1>2 DEF Init, PanelTypes, FirstBuffering, NoOutput

\* Leaving the outputs inside the first n.
LEMMA OutputsLeft ==
  ASSUME PanelTypes, NEW n \in Nat, n <= Len(outputs), LeaveOutputs(n)
  PROVE  /\ outputs' \in Seq(SUBSET Channels) /\ Len(outputs') = n
         /\ \A i \in 1 .. n : outputs'[i] = outputs[i]
BY DEF PanelTypes, LeaveOutputs

\* The outputs begun lose what they count on, gain one, or end from the last on.
LEMMA OutputsChange ==
  ASSUME PanelTypes, OutputRuns, Next
  PROVE  /\ outputs' \in Seq(SUBSET Channels)
         /\ \/ outputs' = [i \in DOMAIN outputs |-> {}]
            \/ \E channels \in SUBSET Channels \ {{}} : DacOutputStart(channels)
            \/ \A i \in DOMAIN outputs' : i \in DOMAIN outputs /\ outputs'[i] = outputs[i]
<1>1. CASE outputs' = [i \in DOMAIN outputs |-> {}]
  BY <1>1 DEF PanelTypes
<1>2. CASE \E channels \in SUBSET Channels \ {{}} : DacOutputStart(channels)
  BY <1>2 DEF PanelTypes, DacOutputStart
<1>3. CASE DacOutputEnds \/ DacOutputEnd
  <2>1. PICK n \in Nat : n <= Len(outputs) /\ LeaveOutputs(n)
    <3>1. CASE DacOutputEnds
      BY <3>1 DEF DacOutputEnds, OutputRuns, PanelTypes
    <3>2. CASE DacOutputEnd
      BY <3>2 DEF DacOutputEnd, PanelTypes
    <3> QED
      BY <1>3, <3>1, <3>2
  <2> QED
    BY <2>1, OutputsLeft DEF PanelTypes
<1>4. CASE outputs' = outputs
  BY <1>4 DEF PanelTypes
<1>5. CASE outputs' = <<>>
  BY <1>5
<1>6. CASE /\ ~(\E channels \in SUBSET Channels \ {{}} : DacOutputStart(channels))
           /\ ~DacOutputEnds /\ ~DacOutputEnd
  <2>1. outputs' \in {outputs, <<>>, [i \in DOMAIN outputs |-> {}]}
    BY <1>6 DEF Next, Press, TimerFires, MessageArrives, Handlers, PollRow, PollEnds, Entries,
       KeyEntry, OtherEntry, NextEntry, MessageEnds, KeypadPolling, UartEmulation,
       GetKeypadState, DacResolution, DacChannelBuffering, Reconfigured, HandlerBegins,
       HandlerReturn, ProgramExits, ProgramFaults, Exiting, Halts, HaltReads, HaltClears,
       HaltWaits, HaltEnds, dacVars, NoOutput
  <2> QED
    BY <1>1, <1>4, <1>5, <2>1
<1> QED
  BY <1>2, <1>3, <1>6

LEMMA TypesStep ==
  ASSUME PanelTypes, PollInStep, OutputRuns, OutputsWired, Next
  PROVE  PanelTypes'
<1>1. register' \in [row : Rows, resolution : 0 .. 3, bypass : SUBSET Channels]
  <2>1. CASE PollRow
    <3>1. Target(scan) \in Rows
      BY <2>1 DEF PollRow, Target, Rows
    <3> QED
      BY <2>1, <3>1, RegisterFields DEF PollRow, PanelTypes
  <2>2. CASE \E b \in 0 .. 3 : register' = [register EXCEPT !.resolution = b]
    BY <2>2, RegisterFields DEF PanelTypes
  <2>3. CASE \E cs \in SUBSET Channels : register' = [register EXCEPT !.bypass = cs]
    BY <2>3, RegisterFields DEF PanelTypes
  <2> QED
    BY <2>1, <2>2, <2>3, RegisterStep DEF PanelTypes
<1>2. held' \subseteq Keys /\ latched' \subseteq Keys
  BY DEF PanelTypes, Next, Press, TimerFires, MessageArrives, Handlers, PollRow, PollEnds,
     Entries, KeyEntry, OtherEntry, NextEntry, MessageEnds, KeypadPolling, UartEmulation,
     GetKeypadState, DacResolution, DacChannelBuffering, DacOutputStart, DacOutputEnds,
     DacOutputEnd, LeaveOutputs, HandlerBegins, HandlerReturn, ProgramExits, ProgramFaults,
     Exiting, Halts, HaltReads, HaltClears, HaltWaits, HaltEnds, keypadVars, OfRow
<1>3. /\ asked' \in [Emulated -> {"off", "on", "forcedOff", "forcedOn"}]
      /\ standed' \subseteq Emulated
  BY DEF PanelTypes, Next, Press, TimerFires, MessageArrives, Handlers, PollRow, PollEnds,
     Entries, KeyEntry, OtherEntry, NextEntry, MessageEnds, KeypadPolling, UartEmulation,
     GetKeypadState, DacResolution, DacChannelBuffering, DacOutputStart, DacOutputEnds,
     DacOutputEnd, LeaveOutputs, HandlerBegins, HandlerReturn, ProgramExits, ProgramFaults,
     Exiting, Halts, HaltReads, HaltClears, HaltWaits, HaltEnds, hostVars, Entry, Cleared
<1>4. buffered' \in [Channels -> BOOLEAN]
  BY DEF PanelTypes, Next, Press, TimerFires, MessageArrives, Handlers, PollRow, PollEnds,
     Entries, KeyEntry, OtherEntry, NextEntry, MessageEnds, KeypadPolling, UartEmulation,
     GetKeypadState, DacResolution, DacChannelBuffering, DacOutputStart, DacOutputEnds,
     DacOutputEnd, LeaveOutputs, HandlerBegins, HandlerReturn, ProgramExits, ProgramFaults,
     Exiting, Halts, HaltReads, HaltClears, HaltWaits, HaltEnds, dacVars
<1>5. outputs' \in Seq(SUBSET Channels)
  BY OutputsChange
<1> QED
  BY <1>1, <1>2, <1>3, <1>4, <1>5 DEF PanelTypes

-----------------------------------------------------------------------------
(* The keypad's rows.                                                       *)

\* What reading one row out adds is what that row showed.
LEMMA RowRead ==
  ASSUME PanelTypes, PollInStep, PollRow
  PROVE  /\ wired'.row = Target(scan)
         /\ rows' = {k \in latched' : k[1] < scan + 1}
<1>1. scan \in 0 .. 3 /\ scan \in Rows /\ wired.row = scan /\ rows = {k \in latched : k[1] < scan}
  BY DEF PollRow, PollInStep, Rows
<1>2. wired'.row = Target(scan)
  BY RegisterFields DEF PollRow
<1>3. \A k \in Keys : k = <<k[1], k[2]>> /\ k[1] \in 0 .. 3
  BY PanelAssumption DEF Rows
<1>4. {<<scan, k[2]>> : k \in OfRow(wired.row, held)} = {k \in held : k[1] = scan}
  <2>1. \A k \in held : k[1] = scan => <<scan, k[2]>> = k
    BY <1>3 DEF PanelTypes
  <2> QED
    BY <1>1, <2>1 DEF OfRow
<1>5. latched' = {k \in latched : k[1] # scan} \cup {k \in held : k[1] = scan}
  BY <1>1 DEF PollRow, OfRow, PanelTypes
<1>6. \A k \in Keys : k[1] < scan + 1 <=> k[1] < scan \/ k[1] = scan
  BY <1>1, <1>3
<1>7. \A k \in latched \cup held : k[1] < scan => k[1] # scan
  BY <1>1, <1>3 DEF PanelTypes
<1>8. rows' = rows \cup {k \in held : k[1] = scan}
  BY <1>4 DEF PollRow
<1>9. \A k \in held : k[1] = scan => k[1] < scan + 1
  BY <1>1
<1> QED
  BY <1>1, <1>2, <1>5, <1>6, <1>7, <1>8, <1>9 DEF PanelTypes

\* A write of another field keeps the row that is driven.
LEMMA RowKept ==
  ASSUME PanelTypes, OutputsWired, Next, ~PollRow
  PROVE  wired'.row = wired.row
<1>1. ASSUME NEW b, register' = [register EXCEPT !.resolution = b] \/
                    register' = [register EXCEPT !.bypass = b], wired' = register'
      PROVE  wired'.row = wired.row
  BY <1>1, RegisterFields DEF OutputsWired
<1> QED
  BY <1>1, RegisterStep

LEMMA RowOfKey ==
  ASSUME PanelTypes
  PROVE  \A k \in latched : k[1] \in 0 .. 3
<1>1. latched \subseteq Keys
  BY DEF PanelTypes
<1> QED
  BY <1>1, PanelAssumption DEF Rows

LEMMA RowsStep ==
  ASSUME PanelTypes, PollInStep, RowsReadInPlace, OutputsWired, Next
  PROVE  PollInStep' /\ RowsReadInPlace'
<1>1. CASE TimerFires
  <2>1. /\ irq # "poll" /\ wired' = wired /\ scan' = 0 /\ rows' = {}
        /\ latched' = latched /\ irq' = "poll"
    BY <1>1 DEF TimerFires, Interruptible
  <2>2. \A k \in latched : ~(k[1] < 0)
    BY RowOfKey
  <2> QED
    BY <2>1, <2>2 DEF PollInStep, RowsReadInPlace, Rows
<1>2. CASE PollRow
  <2>1. scan \in 0 .. 3 /\ scan' = scan + 1 /\ irq' = "poll"
    BY <1>2 DEF PollRow, Rows
  <2>2. wired'.row = Target(scan) /\ rows' = {k \in latched' : k[1] < scan'}
    BY <1>2, <2>1, RowRead
  <2>3. scan' \in 0 .. 4 /\ Target(scan) = (IF scan' \in Rows THEN scan' ELSE 0)
    BY <2>1 DEF Target, Rows
  <2> QED
    BY <2>1, <2>2, <2>3 DEF PollInStep, RowsReadInPlace
<1>3. CASE PollEnds
  <2>1. /\ rows = {k \in latched : k[1] < scan} /\ scan = 4 /\ wired.row = 0
        /\ physical' = rows /\ latched' = latched /\ wired' = wired /\ irq' = "none"
    BY <1>3 DEF PollEnds, PollInStep, Rows
  <2>2. \A k \in latched : k[1] < 4
    BY RowOfKey
  <2> QED
    BY <2>1, <2>2 DEF PollInStep, RowsReadInPlace
<1>4. CASE ~TimerFires /\ ~PollRow /\ ~PollEnds
  <2>1. wired'.row = wired.row
    BY <1>4, RowKept
  <2>2. UNCHANGED <<scan, rows, physical, latched>>
    BY <1>4 DEF Next, Press, MessageArrives, Handlers, Entries, KeyEntry, OtherEntry, NextEntry,
       MessageEnds, KeypadPolling, UartEmulation, GetKeypadState, DacResolution,
       DacChannelBuffering, DacOutputStart, DacOutputEnds, DacOutputEnd, LeaveOutputs,
       HandlerBegins, HandlerReturn, ProgramExits, ProgramFaults, Exiting, Halts, HaltReads,
       HaltClears, HaltWaits, HaltEnds, keypadVars
  <2>3. irq' = "poll" <=> irq = "poll"
    BY <1>4 DEF Next, Press, MessageArrives, Interruptible, Handlers, Entries, KeyEntry,
       OtherEntry, NextEntry, MessageEnds, KeypadPolling, UartEmulation, GetKeypadState,
       DacResolution, DacChannelBuffering, DacOutputStart, DacOutputEnds, DacOutputEnd,
       LeaveOutputs, HandlerBegins, HandlerReturn, ProgramExits, ProgramFaults, Exiting, Halts,
       HaltReads, HaltClears, HaltWaits, HaltEnds, Calls
  <2> QED
    BY <2>1, <2>2, <2>3 DEF PollInStep, RowsReadInPlace
<1> QED
  BY <1>1, <1>2, <1>3, <1>4

-----------------------------------------------------------------------------
(* The host's keys.                                                         *)

LEMMA KeysStep ==
  ASSUME PanelTypes, KeysAsAsked, Next
  PROVE  KeysAsAsked'
<1>1. CASE \E k \in Emulated, new \in {"off", "on", "forcedOff", "forcedOn"} : KeyEntry(k, new)
  <2>1. PICK k \in Emulated, new \in {"off", "on", "forcedOff", "forcedOn"} : KeyEntry(k, new)
    BY <1>1
  <2>2. /\ asked'[k] = new
        /\ \A q \in Emulated : q # k => asked'[q] = asked[q]
    BY <2>1 DEF KeyEntry, PanelTypes
  <2>3. \A q \in standed' : asked'[q] = "on"
    <3>1. standed \subseteq Emulated
      BY DEF PanelTypes
    <3> QED
      BY <2>1, <2>2, <3>1 DEF KeyEntry, Entry, KeysAsAsked
  <2>4. forcedOff' = {q \in Emulated : asked'[q] = "forcedOff"}
    BY <2>1, <2>2 DEF KeyEntry, Entry, KeysAsAsked
  <2>5. forcedOn' = {q \in Emulated : asked'[q] = "forcedOn"}
    BY <2>1, <2>2 DEF KeyEntry, Entry, KeysAsAsked
  <2> QED
    BY <2>3, <2>4, <2>5 DEF KeysAsAsked
<1>2. ASSUME Cleared, UNCHANGED <<forcedOff, forcedOn>>
      PROVE  KeysAsAsked'
  BY <1>2 DEF Cleared, KeysAsAsked
<1>3. ASSUME UNCHANGED <<standed, forcedOff, forcedOn, asked>>
      PROVE  KeysAsAsked'
  BY <1>3 DEF KeysAsAsked
<1>4. CASE GetKeypadState \/ HaltClears
  BY <1>2, <1>3, <1>4 DEF GetKeypadState, HaltClears
<1>5. CASE ~GetKeypadState /\ ~HaltClears /\
           ~\E k \in Emulated, new \in {"off", "on", "forcedOff", "forcedOn"} : KeyEntry(k, new)
  <2>1. UNCHANGED <<standed, forcedOff, forcedOn, asked>>
    BY <1>5 DEF Next, Press, TimerFires, MessageArrives, Handlers, PollRow, PollEnds, Entries,
       OtherEntry, MessageEnds, KeypadPolling, UartEmulation, DacResolution, DacChannelBuffering,
       DacOutputStart, DacOutputEnds, DacOutputEnd, LeaveOutputs, HandlerBegins, HandlerReturn,
       ProgramExits, ProgramFaults, Exiting, Halts, HaltReads, HaltWaits, HaltEnds, hostVars
  <2> QED
    BY <1>3, <2>1
<1> QED
  BY <1>1, <1>4, <1>5

-----------------------------------------------------------------------------
(* The outputs.                                                             *)

LEMMA OutputRunsStep ==
  ASSUME PanelTypes, OutputRuns, Next
  PROVE  OutputRuns'
<1>1. CASE DacOutputEnds \/ DacOutputEnd
  <2>1. PICK n \in Nat : n <= Len(outputs) /\ LeaveOutputs(n)
    <3>1. CASE DacOutputEnds
      BY <3>1 DEF DacOutputEnds, OutputRuns, PanelTypes
    <3>2. CASE DacOutputEnd
      BY <3>2 DEF DacOutputEnd, PanelTypes
    <3> QED
      BY <1>1, <3>1, <3>2
  <2>2. outputs' = <<>> <=> n = 0
    BY <2>1, OutputsLeft
  <2> QED
    BY <2>1, <2>2 DEF OutputRuns, LeaveOutputs
<1>2. CASE \E channels \in SUBSET Channels \ {{}} : DacOutputStart(channels)
  BY <1>2 DEF PanelTypes, OutputRuns, DacOutputStart
<1>3. CASE HandlerBegins \/ HandlerReturn
  BY <1>3 DEF OutputRuns, HandlerBegins, HandlerReturn, dacVars
<1>4. CASE (\E r \in Resolutions : DacResolution(r)) \/
           (\E c \in Channels, on \in BOOLEAN : DacChannelBuffering(c, on))
  <2>1. /\ pc' = pc
        /\ outputs' = outputs \/ outputs' = [i \in DOMAIN outputs |-> {}]
    BY <1>4 DEF DacResolution, DacChannelBuffering, Reconfigured
  <2>2. outputs' = <<>> <=> outputs = <<>>
    BY <2>1 DEF PanelTypes
  <2> QED
    BY <2>1, <2>2 DEF OutputRuns
<1>5. CASE /\ ~DacOutputEnds /\ ~DacOutputEnd /\ ~HandlerBegins /\ ~HandlerReturn
           /\ ~(\E channels \in SUBSET Channels \ {{}} : DacOutputStart(channels))
           /\ ~(\E r \in Resolutions : DacResolution(r))
           /\ ~(\E c \in Channels, on \in BOOLEAN : DacChannelBuffering(c, on))
  BY <1>5 DEF OutputRuns, Next, Press, TimerFires, MessageArrives, Interruptible, Handlers,
     PollRow, PollEnds, Entries, KeyEntry, OtherEntry, NextEntry, MessageEnds, KeypadPolling,
     UartEmulation, GetKeypadState, ProgramExits, ProgramFaults, Exiting, Halts, HaltReads,
     HaltClears, HaltWaits, HaltEnds, Calls, dacVars, NoOutput
<1> QED
  BY <1>1, <1>2, <1>3, <1>4, <1>5

LEMMA OutputsStep ==
  ASSUME PanelTypes, OutputRuns, OutputsWired, Next
  PROVE  OutputsWired'
<1>1. CASE \E r \in Resolutions : DacResolution(r)
  <2>1. PICK r \in Resolutions : DacResolution(r)
    BY <1>1
  <2>2. buffered' = buffered
    BY <2>1 DEF DacResolution
  <2>3. CASE /\ resolution' = r /\ Reconfigured
             /\ WriteRegister([register EXCEPT !.resolution = ResolutionBits(r)])
    <3>1. /\ wired' = register' /\ wired'.resolution = ResolutionBits(resolution')
          /\ wired'.bypass = wired.bypass
      BY <2>3 DEF WriteRegister, OutputsWired, PanelTypes
    <3> QED
      BY <2>2, <2>3, <3>1 DEF OutputsWired, Reconfigured, PanelTypes
  <2>4. CASE UNCHANGED <<register, wired, resolution, outputs>>
    BY <2>2, <2>4 DEF OutputsWired
  <2> QED
    BY <2>1, <2>3, <2>4 DEF DacResolution
<1>2. CASE \E c \in Channels, on \in BOOLEAN : DacChannelBuffering(c, on)
  <2>1. PICK c \in Channels, on \in BOOLEAN : DacChannelBuffering(c, on)
    BY <1>2
  <2>2. resolution' = resolution
    BY <2>1 DEF DacChannelBuffering
  <2>3. CASE /\ buffered' = [buffered EXCEPT ![c] = on] /\ Reconfigured
             /\ WriteRegister([register EXCEPT !.bypass = IF on THEN @ \ {c} ELSE @ \cup {c}])
    <3>1. /\ wired' = register' /\ wired'.resolution = wired.resolution
          /\ wired'.bypass = IF on THEN wired.bypass \ {c} ELSE wired.bypass \cup {c}
      BY <2>3 DEF WriteRegister, OutputsWired, PanelTypes
    <3>2. buffered'[c] = on /\ \A d \in Channels : d # c => buffered'[d] = buffered[d]
      BY <2>3 DEF PanelTypes
    <3>3. SupportsBuffered \cup SupportsBypass \subseteq Channels
      BY PanelAssumption
    <3>4. \A d \in SupportsBuffered \cup SupportsBypass : buffered'[d] <=> d \notin wired'.bypass
      BY <3>1, <3>2, <3>3 DEF OutputsWired
    <3> QED
      BY <2>2, <2>3, <3>1, <3>4 DEF OutputsWired, Reconfigured, PanelTypes
  <2>4. CASE UNCHANGED <<register, wired, buffered, outputs>>
    BY <2>2, <2>4 DEF OutputsWired
  <2> QED
    BY <2>1, <2>3, <2>4 DEF DacChannelBuffering
<1>3. CASE PollRow
  BY <1>3, RegisterFields DEF PollRow, OutputsWired, dacVars
<1>4. CASE \E channels \in SUBSET Channels \ {{}} : DacOutputStart(channels)
  <2>1. PICK channels \in SUBSET Channels \ {{}} : DacOutputStart(channels)
    BY <1>4
  <2>2. UNCHANGED <<register, wired, resolution, buffered>> /\ outputs' = Append(outputs, channels)
    BY <2>1 DEF DacOutputStart
  <2>3. \A c \in channels : /\ c \in (IF buffered[c] THEN SupportsBuffered ELSE SupportsBypass)
                            /\ resolution \in Supports[c]
    BY <2>1 DEF DacOutputStart, SupportsConfig
  <2>4. \A c \in channels : buffered[c] <=> c \notin wired.bypass
    BY <2>3 DEF OutputsWired
  <2> QED
    BY <2>2, <2>3, <2>4 DEF OutputsWired, PanelTypes
<1>5. CASE ~PollRow /\ (~\E r \in Resolutions : DacResolution(r))
           /\ (~\E c \in Channels, on \in BOOLEAN : DacChannelBuffering(c, on))
           /\ (~\E channels \in SUBSET Channels \ {{}} : DacOutputStart(channels))
  <2>1. UNCHANGED <<register, wired, resolution, buffered>>
    BY <1>5 DEF Next, Press, TimerFires, MessageArrives, Handlers, PollEnds, Entries, KeyEntry,
       OtherEntry, NextEntry, MessageEnds, KeypadPolling, UartEmulation, GetKeypadState,
       DacOutputEnds, DacOutputEnd, LeaveOutputs, HandlerBegins, HandlerReturn, ProgramExits,
       ProgramFaults, Exiting, Halts, HaltReads, HaltClears, HaltWaits, HaltEnds, dacVars,
       NoOutput
  <2>2. \/ outputs' = [i \in DOMAIN outputs |-> {}]
        \/ \A i \in DOMAIN outputs' : i \in DOMAIN outputs /\ outputs'[i] = outputs[i]
    BY <1>5, OutputsChange
  <2> QED
    BY <2>1, <2>2 DEF OutputsWired
<1> QED
  BY <1>1, <1>2, <1>3, <1>4, <1>5

-----------------------------------------------------------------------------
(* The theorems about the panel.                                            *)

LEMMA PanelInit == Init => PanelInvariant
<1> SUFFICES ASSUME Init
             PROVE  PanelInvariant
  OBVIOUS
<1>1. PollInStep /\ OutputRuns /\ RowsReadInPlace
  BY DEF Init, FirstRegister, PollInStep, OutputRuns, RowsReadInPlace, NoOutput
<1>2. KeysAsAsked
  BY DEF Init, KeysAsAsked
<1>3. OutputsWired
  <2>1. \A c \in SupportsBuffered \cup SupportsBypass :
            FirstBuffering[c] <=> c \notin SupportsBypass \ SupportsBuffered
    BY PanelAssumption DEF FirstBuffering
  <2>2. DOMAIN outputs = {}
    BY DEF Init, NoOutput
  <2> QED
    BY <2>1, <2>2 DEF Init, FirstRegister, OutputsWired
<1> QED
  BY <1>1, <1>2, <1>3, TypesInit DEF PanelInvariant

\* Every reachable state satisfies the panel's invariant.
THEOREM PanelCorrect == Spec => []PanelInvariant
<1>1. ASSUME PanelInvariant, [Next]_vars
      PROVE  PanelInvariant'
  <2>1. CASE Next
    BY <1>1, <2>1, TypesStep, RowsStep, KeysStep, OutputRunsStep, OutputsStep DEF PanelInvariant
  <2>2. CASE UNCHANGED vars
    <3> USE <1>1, <2>2 DEF vars, keypadVars, hostVars, dacVars, waitVars, PanelInvariant
    <3>1. PanelTypes' /\ PollInStep' /\ OutputRuns'
      BY DEF PanelTypes, PollInStep, OutputRuns
    <3>2. RowsReadInPlace' /\ KeysAsAsked' /\ OutputsWired'
      BY DEF RowsReadInPlace, KeysAsAsked, OutputsWired
    <3> QED
      BY <3>1, <3>2
  <2> QED
    BY <1>1, <2>1, <2>2
<1> QED
  BY <1>1, PanelInit, PTL DEF Spec

\* Whatever the outputs write to the register between a poll's rows, the buttons
\* it reports are those the rows themselves showed.
THEOREM RowsAreReadInPlace == Spec => []RowsReadInPlace
<1>1. PanelInvariant => RowsReadInPlace
  BY DEF PanelInvariant
<1> QED
  BY <1>1, PanelCorrect, PTL

\* The three masks of the emulated keys hold what the host last asked for.
THEOREM KeysStayAsAsked == Spec => []KeysAsAsked
<1>1. PanelInvariant => KeysAsAsked
  BY DEF PanelInvariant
<1> QED
  BY <1>1, PanelCorrect, PTL

\* The relays are set as the configuration reports, and as long as no handler
\* inside an output changes it, the output's channels support it.
THEOREM OutputsStayWired == Spec => []OutputsWired
<1>1. PanelInvariant => OutputsWired
  BY DEF PanelInvariant
<1> QED
  BY <1>1, PanelCorrect, PTL

-----------------------------------------------------------------------------
(* The link: numbers.                                                       *)

LEMMA LeastNumber ==
  ASSUME NEW B \in SUBSET Nat, B # {}
  PROVE  \E m \in B : \A n \in B : m <= n
<1> DEFINE T == {0 .. n : n \in B}
<1>1. T # {} /\ T \subseteq FiniteSubsetsOf(Nat)
  <2>1. \A n \in B : IsFiniteSet(0 .. n) /\ 0 .. n \in SUBSET Nat
    BY FS_Interval
  <2> QED
    BY <2>1 DEF FiniteSubsetsOf
<1>2. PICK x \in T : \A y \in T : <<y, x>> \notin StrictSubsetOrdering(Nat)
  <2> HIDE DEF T
  <2> QED
    BY <1>1, WFMin, FS_StrictSubsetOrderingWellFounded
<1>3. PICK m \in B : x = 0 .. m
  OBVIOUS
<1>4. ASSUME NEW n \in B, n < m
      PROVE  FALSE
  <2>1. m \in 0 .. m /\ m \notin 0 .. n
    BY <1>4
  <2>2. 0 .. n \subseteq 0 .. m /\ 0 .. n # 0 .. m /\ 0 .. n \in T
    BY <1>4, <2>1
  <2>3. <<0 .. n, 0 .. m>> \in StrictSubsetOrdering(Nat)
    BY <2>2 DEF StrictSubsetOrdering
  <2> QED
    BY <1>2, <1>3, <2>2, <2>3
<1> QED
  BY <1>4

LEMMA Induction ==
  ASSUME NEW G \in SUBSET Nat, 0 \in G, \A n \in G : n + 1 \in G
  PROVE  G = Nat
<1> SUFFICES ASSUME Nat \ G # {}
             PROVE  FALSE
  OBVIOUS
<1>1. PICK m \in Nat \ G : \A n \in Nat \ G : m <= n
  BY LeastNumber
<1>2. m # 0 /\ m - 1 \in Nat
  BY <1>1
<1>3. m - 1 \in G /\ (m - 1) + 1 = m
  BY <1>1, <1>2
<1> QED
  BY <1>1, <1>3

LEMMA DivUnique ==
  ASSUME NEW d \in Nat \ {0}, NEW q \in Int, NEW r \in 0 .. d - 1
  PROVE  (d * q + r) \div d = q /\ (d * q + r) % d = r
<1> DEFINE n == d * q + r
           p == n \div d
           m == n % d
<1>1. n = d * p + m /\ m \in 0 .. d - 1 /\ p \in Int /\ n \in Int
  OBVIOUS
<1>2. d * (p - q) = r - m
  BY <1>1
<1>3. p - q \in Int /\ r - m \in Int /\ r - m < d /\ r - m > -d
  BY <1>1
<1> HIDE DEF p, m
<1>4. p - q < 1
  BY <1>2, <1>3
<1>5. p - q > -1
  BY <1>2, <1>3
<1>6. p = q
  BY <1>1, <1>3, <1>4, <1>5
<1>7. m = r
  BY <1>1, <1>6
<1> QED
  BY <1>6, <1>7 DEF p, m

-----------------------------------------------------------------------------
(* What the two ends of the line make of what is on it.                     *)

Packets == Known("uartupld") \cup Known("uartrun")

Tokens == ({"type"} \X Packets) \cup ({"args"} \X Nat) \cup ({"char", "nul"} \X {0})
          \cup ({"data"} \X Nat)

Letters == {"U", "R", "n", "x"}

\* What has been heard of the text that is on its way, character by character.
Heard == Hearing([offset |-> offset, ready |-> ready], down)

\* A ready word that the client has not taken yet.
Pending == Heard[Len(down)].ready

\* A unit of a file of which a units can be read.
UnitOf(a, i) == IF i <= a THEN i ELSE 0

\* What has been read and not yet written.
Held == IF dev.at \in {"data", "write"} THEN dev.buffer ELSE <<>>

\* The lengths of a source that explain the units received so far.
Sources ==
    {a \in Sizes : /\ \A i \in 1 .. dev.written : card[i] = UnitOf(a, i)
                   /\ \A i \in 1 .. Len(Held) : Held[i] = UnitOf(a, dev.written + i)}

\* What the device will read next, when it has done what it can without reading.
Settled(at, remaining) ==
    CASE at \in {"ready", "truncate", "operate", "left"} -> "type"
      [] at = "askPath" -> "path"
      [] at = "askData" -> "data"
      [] at \in {"open", "write"} -> IF remaining > 0 THEN "data" ELSE "type"
      [] OTHER -> at

(* How far the device is.  open: it may be sent something.  Where strict is *)
(* TRUE that takes a ready word which the client has heard.                 *)
Phase(strict) ==
    LET at == Settled(dev.at, dev.left)
    IN  [at |-> at, open |-> ~strict \/ (Reading /\ ~Pending),
         packet |-> dev.packet, paths |-> dev.paths, size |-> dev.size, left |-> dev.left,
         room |-> IF dev.at = "data" THEN Chunk - Len(dev.buffer) ELSE Chunk,
         sources |-> IF ~strict /\ at = "data" THEN Sources ELSE Sizes]

PacketStarts(strict, q, packet) ==
    [at |-> IF packet \in HasArguments THEN "args"
            ELSE Settled(After(packet, Paths(packet)), q.left),
     open |-> packet \in HasArguments \/ ~strict,
     packet |-> packet, paths |-> Paths(packet),
     size |-> q.size, left |-> q.left, room |-> q.room, sources |-> q.sources]

ArgumentsEnd(strict, q, n) ==
    [at |-> Settled(After(q.packet, q.paths), n), open |-> ~strict,
     packet |-> q.packet, paths |-> q.paths,
     size |-> n, left |-> n, room |-> q.room, sources |-> q.sources]

PathEnds(strict, q) ==
    [at |-> Settled(After(q.packet, q.paths - 1), q.left), open |-> ~strict,
     packet |-> q.packet, paths |-> q.paths - 1,
     size |-> q.size, left |-> q.left, room |-> q.room, sources |-> q.sources]

Explaining(strict, q, unit) ==
    IF strict THEN q.sources ELSE {a \in q.sources : unit = UnitOf(a, q.size - q.left + 1)}

\* The last unit before the device does something else.
ChunkEnds(q) == q.left <= 1 \/ (q.packet # "memcpy" /\ q.room <= 1)

UnitRead(strict, q, unit) ==
    [at |-> IF Explaining(strict, q, unit) = {} THEN "bad"
            ELSE IF q.left > 1 THEN "data" ELSE "type",
     open |-> ~ChunkEnds(q) \/ ~strict,
     packet |-> q.packet, paths |-> q.paths, size |-> q.size, left |-> q.left - 1,
     room |-> IF ChunkEnds(q) THEN Chunk ELSE q.room - 1,
     sources |-> IF q.left > 1 THEN Explaining(strict, q, unit) ELSE Sizes]

\* How far it is when it has read one token more.
OneMore(strict, known, q, token) ==
    CASE q.open /\ q.at = "type" /\ token[1] = "type" /\ token[2] \in known ->
            PacketStarts(strict, q, token[2])
      [] q.open /\ q.at = "args" /\ token[1] = "args" -> ArgumentsEnd(strict, q, token[2])
      [] q.open /\ q.at = "path" /\ token[1] = "char" -> q
      [] q.open /\ q.at = "path" /\ token[1] = "nul" -> PathEnds(strict, q)
      [] q.open /\ q.at = "data" /\ token[1] = "data" -> UnitRead(strict, q, token[2])
      [] OTHER -> [q EXCEPT !.at = "bad"]

Run(strict, known, q, tokens) ==
    LET run[i \in 0 .. Len(tokens)] ==
            IF i = 0 THEN q ELSE OneMore(strict, known, run[i - 1], tokens[i])
    IN  run[Len(tokens)]

\* How far it is when it has read all that is on its way.
Reached(strict) == Run(strict, Known(dev.app), Phase(strict), rx \o up)
-----------------------------------------------------------------------------
(* The inductive invariant of the link.                                     *)

\* The step that a client is at, and what the device reads next when it has
\* what that client has sent.
StepOf(cl) == IF cl.command # Idle /\ cl.at <= Len(Script(cl.command))
              THEN Script(cl.command)[cl.at] ELSE <<"none">>

StageOf(cl) ==
    LET c == cl.command
        at == cl.at
    IN  CASE c.name = "file_upload" -> IF at \in 3 .. 4 THEN "path"
                                       ELSE IF at \in 5 .. 6 /\ c.size > 0 THEN "data" ELSE "type"
          [] c.name = "file_move" -> IF at \in 2 .. 5 THEN "path" ELSE "type"
          [] c.name = "singal_path_packet" -> IF at \in 2 .. 3 THEN "path" ELSE "type"
          [] c.name = "run_user_app" -> IF at \in 5 .. 6 THEN "data" ELSE "type"
          [] OTHER -> "type"

Sends(cl) == StepOf(cl)[1] = "send" \/ (StepOf(cl)[1] = "data" /\ ~cl.due)

PathFollows(q, cl) ==
    LET c == cl.command
    IN  /\ q.packet = CASE c.name = "file_upload" -> "create"
                        [] c.name = "file_move" -> "rename"
                        [] OTHER -> "delete"
        /\ q.paths = IF c.name = "file_move" /\ cl.at < 4 THEN 2 ELSE 1
        /\ q.packet = "create" => q.size = c.size /\ q.left = c.size

DataFollow(q, cl) ==
    LET c == cl.command
    IN  /\ q.packet = IF c.name = "file_upload" THEN "create" ELSE "memcpy"
        /\ q.size = c.size /\ q.left = c.size - cl.sent /\ q.left > 0
        /\ q.packet = "create" => q.room = Chunk - (cl.sent % Chunk)
        /\ c.avail \in q.sources

Follows(strict, q, cl) ==
    /\ q.at = StageOf(cl)
    /\ Sends(cl) \/ ~strict => q.open
    /\ q.at # "data" => q.room = Chunk /\ q.sources = Sizes
    /\ q.at = "path" => PathFollows(q, cl)
    /\ q.at = "data" => DataFollow(q, cl)

\* A client's place in its script, and how much of a file it has sent.
Sound(cl, app) ==
    LET c == cl.command
        step == StepOf(cl)
    IN  c # Idle =>
        /\ c \in Commands /\ c.app = app /\ c.avail <= c.size
        /\ cl.at \in 1 .. Len(Script(c)) + 1
        /\ cl.sent <= c.size
        /\ cl.at <= 5 => cl.sent = 0
        /\ step[1] # "data" => ~cl.due
        /\ step[1] = "data" => cl.sent < c.size
        /\ cl.due => step[2] # 0 /\ cl.sent % step[2] = 0
ClientSound == Sound(client, dev.app)

Locations == {"ready", "type", "args", "askPath", "path", "open", "askData", "data", "write",
              "truncate", "operate", "left", "misled"}

Devices == [app : Apps, at : Locations, packet : Packets \cup {"none"}, size : Nat,
            paths : Int, left : Int, buffer : Seq(Nat), written : Nat,
            cluster : Int, old : Nat]

Clients == [command : Commands \cup {Idle}, at : Nat \ {0}, sent : Nat, due : BOOLEAN]

LinkTypes ==
    /\ dev \in Devices
    /\ client \in Clients
    /\ ready \in BOOLEAN /\ offset \in 0 .. 2
    /\ up \in Seq(Tokens) /\ rx \in Seq(Tokens) /\ down \in Seq(Letters)
    /\ card \in Seq(Int)
    /\ early \in BOOLEAN

\* How much of a file the device has read, and written.
DeviceSound ==
    /\ dev.packet \in Known(dev.app) \cup {"none"}
    /\ dev.at = "args" => dev.packet \in HasArguments
    /\ dev.at \in {"askPath", "path"} => dev.packet # "none"
    /\ dev.at \in {"open", "write", "truncate"} => dev.packet = "create"
    /\ dev.at \in {"askData", "data"} => dev.packet \in {"create", "memcpy"}
    /\ dev.packet = "create" =>
          /\ dev.at # "operate"
          /\ dev.at \in {"askPath", "path", "open"} => dev.written = 0 /\ dev.left = dev.size
          /\ dev.at \in {"askData", "data"} => dev.left > 0
          /\ dev.at = "write" => dev.left >= 0
          /\ dev.at = "truncate" => dev.left = 0
          /\ dev.at \in {"askData", "data", "write", "truncate"} =>
                dev.written + Len(Held) = dev.size - dev.left /\ dev.written <= Len(card)

\* A word that the device has said ends what is on its way: it waits then.
WordsRight ==
    /\ Heard[Len(down)].offset = 0
    /\ \A n \in 0 .. Len(down) - 1 : ~Heard[n].ready
    /\ Pending => Reading

FileIsSource ==
    /\ Len(card) = dev.size
    /\ \E a \in Sizes : card = [i \in 1 .. dev.size |-> UnitOf(a, i)]

\* A write after the first continues a file that ends with what was written,
\* at the end of a cluster, unless that file had been longer than a chunk.
InPlace ==
    /\ dev.written = 0 => dev.cluster = 0 /\ dev.old = Len(card)
    /\ dev.written > 0 => /\ ClusterSize * dev.cluster < dev.written
                          /\ dev.written <= ClusterSize * (dev.cluster + 1)
    /\ dev.written > 0 /\ dev.written < dev.size =>
          /\ dev.written % ClusterSize = 0
          /\ dev.old <= Chunk => Len(card) = dev.written

ChunkSound ==
    /\ dev.at = "data" => Len(dev.buffer) < Chunk
    /\ dev.at = "write" => /\ Len(dev.buffer) > 0 /\ Len(dev.buffer) <= Chunk
                           /\ dev.left > 0 => Len(dev.buffer) = Chunk

\* What has been read explains itself, and what has been written is the file.
CardSound ==
    /\ dev.packet = "create" => ChunkSound
    /\ dev.packet = "create" /\ dev.at \in {"askData", "data", "write", "truncate"} => InPlace
    /\ dev.at \in {"askData", "data", "write", "truncate"} /\ dev.written + Len(Held) > 0 =>
          Sources # {}
    /\ dev.at \in {"ready", "type"} /\ dev.packet = "create" /\ dev.written > 0 => FileIsSource

Strict == ~early /\ faults \cap {"open", "write", "aborted"} = {} /\ dev.at # "left"
Loose == faults = {} /\ dev.app = "uartupld"

InStep(strict) == dev.at # "misled" /\ Follows(strict, Reached(strict), client)

LinkInvariant ==
    /\ LinkTypes
    /\ ClientSound
    /\ DeviceSound
    /\ Strict => WordsRight /\ InStep(TRUE)
    /\ Loose => InStep(FALSE) /\ CardSound
-----------------------------------------------------------------------------
(* Remainders.                                                              *)

LEMMA ModOf ==
  ASSUME NEW n \in Nat, NEW d \in Nat \ {0}
  PROVE  /\ n % d \in 0 .. d - 1 /\ n \div d \in Nat
         /\ n = d * (n \div d) + (n % d)
<1> DEFINE q == n \div d
           r == n % d
<1>1. q \in Int /\ r \in 0 .. d - 1 /\ n = d * q + r
  OBVIOUS
<1> HIDE DEF q, r
<1>2. q >= 0
  <2>1. SUFFICES ASSUME q <= -1
                 PROVE  FALSE
    BY <1>1
  <2>2. d * q = -d + d * (q + 1) /\ q + 1 <= 0
    BY <1>1, <2>1
  <2>3. d * (q + 1) <= 0 /\ d * (q + 1) \in Int
    BY <1>1, <2>2
  <2>4. d * q <= -d /\ d * q \in Int
    BY <1>1, <2>2, <2>3
  <2> QED
    BY <1>1, <2>4
<1>3. q \in Nat
  BY <1>1, <1>2
<1> QED
  BY <1>1, <1>3 DEF q, r

LEMMA ModNext ==
  ASSUME NEW n \in Nat, NEW d \in Nat \ {0}
  PROVE  (n + 1) % d = IF (n % d) + 1 = d THEN 0 ELSE (n % d) + 1
<1> DEFINE q == n \div d
           r == n % d
<1>1. r \in 0 .. d - 1 /\ q \in Nat /\ n = d * q + r
  BY ModOf
<1> HIDE DEF q, r
<1>2. CASE r + 1 = d
  <2>1. n + 1 = d * (q + 1) + 0
    BY <1>1, <1>2
  <2>2. q + 1 \in Int /\ 0 \in 0 .. d - 1
    BY <1>1
  <2>3. (d * (q + 1) + 0) % d = 0
    BY <2>2, DivUnique
  <2> QED
    BY <1>2, <2>1, <2>3 DEF r
<1>3. CASE r + 1 # d
  <2>1. n + 1 = d * q + (r + 1)
    BY <1>1
  <2>2. q \in Int /\ r + 1 \in 0 .. d - 1
    BY <1>1, <1>3
  <2>3. (d * q + (r + 1)) % d = r + 1
    BY <2>2, DivUnique
  <2> QED
    BY <1>3, <2>1, <2>3 DEF r
<1> QED
  BY <1>2, <1>3

\* What stays of n units that reach the end of a chunk ends with one.
LEMMA CutEnds ==
  ASSUME NEW s \in Nat, NEW d \in Nat \ {0}, NEW n \in Nat, (s % d) + n >= d
  PROVE  LET k == n - (((s % d) + n) % d)
         IN  k \in 1 .. n /\ (s + k) % d = 0
<1> DEFINE m == s % d
           r == (m + n) % d
           q == (m + n) \div d
           p == s \div d
<1>1. m \in 0 .. d - 1 /\ p \in Nat /\ s = d * p + m
  BY ModOf
<1>2. m + n \in Nat /\ m + n >= d
  BY <1>1
<1>3. r \in 0 .. d - 1 /\ q \in Nat /\ m + n = d * q + r
  BY <1>2, ModOf
<1> HIDE DEF m, r, q, p
<1>4. q >= 1
  <2>1. q = 0 => m + n = r
    BY <1>3
  <2> QED
    BY <1>2, <1>3, <2>1
<1>5. d * q >= d
  <2>1. d * q = d + d * (q - 1) /\ q - 1 \in Nat
    BY <1>3, <1>4
  <2>2. d * (q - 1) >= 0
    BY <2>1
  <2>3. d * (q - 1) \in Int /\ d * q \in Int
    BY <2>1, <1>3
  <2> QED
    BY <2>1, <2>2, <2>3
<1>6. n - r = d * q - m /\ d * q \in Int
  BY <1>1, <1>3
<1>7. n - r \in 1 .. n
  BY <1>1, <1>3, <1>5, <1>6
<1>8. s + (n - r) = d * (p + q) + 0
  BY <1>1, <1>3, <1>6
<1>9. (s + (n - r)) % d = 0
  <2>1. p + q \in Int /\ 0 \in 0 .. d - 1
    BY <1>1, <1>3
  <2>2. (d * (p + q) + 0) % d = 0
    BY <2>1, DivUnique
  <2> QED
    BY <1>8, <2>2
<1> QED
  BY <1>7, <1>9 DEF m, r

LEMMA ModWithin ==
  ASSUME NEW s \in Nat, NEW d \in Nat \ {0}, NEW n \in Nat, (s % d) + n < d
  PROVE  (s + n) % d = (s % d) + n
<1> DEFINE m == s % d
           p == s \div d
<1>1. m \in 0 .. d - 1 /\ p \in Nat /\ s = d * p + m
  BY ModOf
<1> HIDE DEF m, p
<1>2. s + n = d * p + (m + n) /\ p \in Int /\ m + n \in 0 .. d - 1
  <2>1. m + n < d
    BY DEF m
  <2> QED
    BY <1>1, <2>1
<1>3. (d * p + (m + n)) % d = m + n
  BY <1>2, DivUnique
<1> QED
  BY <1>2, <1>3 DEF m

-----------------------------------------------------------------------------
(* What is heard of a text.                                                 *)

LEMMA HearingIs ==
  ASSUME NEW w, NEW s, Len(s) \in Nat
  PROVE  Hearing(w, s) = [n \in 0 .. Len(s) |->
                             IF n = 0 THEN w ELSE Matched(Hearing(w, s)[n - 1], s[n])]
<1> DEFINE D == 0 .. Len(s)
           Turns(f, n) == IF n = 0 THEN w ELSE Matched(f[n - 1], s[n])
           Upto(f, k) == f = [n \in D |-> f[n]] /\ \A n \in D : n <= k => f[n] = Turns(f, n)
           G == {k \in Nat : \E f : Upto(f, k)}
           All(f) == f = [n \in D |-> IF n = 0 THEN w ELSE Matched(f[n - 1], s[n])]
<1>1. 0 \in G
  <2> DEFINE f == [n \in D |-> w]
  <2>1. f = [n \in D |-> f[n]]
    OBVIOUS
  <2>2. \A n \in D : n <= 0 => f[n] = Turns(f, n)
    <3>1. \A n \in D : n <= 0 => n = 0
      OBVIOUS
    <3> QED
      BY <3>1
  <2> QED
    BY <2>1, <2>2
<1>2. ASSUME NEW k \in G
      PROVE  k + 1 \in G
  <2>1. PICK f : Upto(f, k)
    OBVIOUS
  <2> DEFINE g == [n \in D |-> IF n <= k THEN f[n] ELSE Turns(f, n)]
  <2>2. k \in Nat /\ k + 1 \in Nat
    OBVIOUS
  <2>3. g = [n \in D |-> g[n]]
    OBVIOUS
  <2>4. \A n \in D : n <= k => g[n] = f[n]
    OBVIOUS
  <2>5. \A n \in D : ~(n <= k) => g[n] = Turns(f, n)
    OBVIOUS
  <2>6. ASSUME NEW n \in D, n <= k + 1
        PROVE  g[n] = Turns(g, n)
    <3>1. CASE n = 0
      BY <2>1, <2>2, <2>4, <3>1
    <3>2. CASE n # 0
      <4>1. n - 1 \in D /\ n - 1 <= k
        BY <2>2, <2>6, <3>2
      <4>2. g[n - 1] = f[n - 1]
        BY <2>4, <4>1
      <4>3. g[n] = Turns(f, n)
        BY <2>1, <2>4, <2>5
      <4> HIDE DEF g
      <4> QED
        BY <4>2, <4>3
    <3> QED
      BY <3>1, <3>2
  <2> HIDE DEF g
  <2>7. Upto(g, k + 1)
    BY <2>3, <2>6
  <2> HIDE DEF Upto
  <2> QED
    BY <2>2, <2>7
<1>3. G = Nat
  <2> HIDE DEF G
  <2>1. G \in SUBSET Nat
    BY DEF G
  <2> QED
    BY <1>1, <1>2, <2>1, Induction
<1>4. PICK f : Upto(f, Len(s))
  BY <1>3
<1>5. All(f)
  <2>1. \A n \in D : f[n] = Turns(f, n)
    <3>1. \A n \in D : n <= Len(s)
      OBVIOUS
    <3>2. \A n \in D : n <= Len(s) => f[n] = Turns(f, n)
      BY <1>4
    <3> HIDE DEF D, Turns
    <3> QED
      BY <3>1, <3>2
  <2> QED
    BY <1>4, <2>1
<1>6. Hearing(w, s) = CHOOSE g : All(g)
  BY DEF Hearing
<1> HIDE DEF All
<1>7. All(Hearing(w, s))
  BY <1>5, <1>6
<1> QED
  BY <1>7 DEF All

LEMMA HearingSteps ==
  ASSUME NEW w, NEW s, Len(s) \in Nat
  PROVE  /\ Hearing(w, s)[0] = w
         /\ \A n \in 1 .. Len(s) : Hearing(w, s)[n] = Matched(Hearing(w, s)[n - 1], s[n])
<1> DEFINE f == Hearing(w, s)
<1>1. f = [n \in 0 .. Len(s) |-> IF n = 0 THEN w ELSE Matched(f[n - 1], s[n])]
  BY HearingIs
<1> HIDE DEF f
<1>2. f[0] = w
  BY <1>1
<1>3. ASSUME NEW n \in 1 .. Len(s)
      PROVE  f[n] = Matched(f[n - 1], s[n])
  <2>1. n \in 0 .. Len(s) /\ n # 0
    OBVIOUS
  <2> QED
    BY <1>1, <2>1
<1> QED
  BY <1>2, <1>3 DEF f

\* Of texts that begin alike, the same is heard so far.
LEMMA HearingBegins ==
  ASSUME NEW w, NEW s, Len(s) \in Nat, NEW u, Len(u) \in Nat, Len(s) <= Len(u),
         \A i \in 1 .. Len(s) : s[i] = u[i]
  PROVE  \A n \in 0 .. Len(s) : Hearing(w, u)[n] = Hearing(w, s)[n]
<1> DEFINE f == Hearing(w, s)
           g == Hearing(w, u)
           G == {n \in Nat : n <= Len(s) => g[n] = f[n]}
<1>1. f[0] = w /\ \A n \in 1 .. Len(s) : f[n] = Matched(f[n - 1], s[n])
  BY HearingSteps
<1>2. g[0] = w /\ \A n \in 1 .. Len(u) : g[n] = Matched(g[n - 1], u[n])
  BY HearingSteps
<1> HIDE DEF f, g
<1>3. 0 \in G
  BY <1>1, <1>2
<1>4. ASSUME NEW n \in G
      PROVE  n + 1 \in G
  <2>1. n \in Nat /\ n + 1 \in Nat /\ (n + 1) - 1 = n
    OBVIOUS
  <2>2. SUFFICES ASSUME n + 1 <= Len(s)
                 PROVE  g[n + 1] = f[n + 1]
    BY <2>1
  <2>3. n + 1 \in 1 .. Len(s) /\ n + 1 \in 1 .. Len(u) /\ g[n] = f[n]
    BY <2>1, <2>2
  <2> QED
    BY <1>1, <1>2, <2>1, <2>3
<1>5. G = Nat
  <2> HIDE DEF G
  <2>1. G \in SUBSET Nat
    BY DEF G
  <2> QED
    BY <1>3, <1>4, <2>1, Induction
<1>6. ASSUME NEW n \in 0 .. Len(s)
      PROVE  g[n] = f[n]
  <2>1. n \in G /\ n <= Len(s)
    <3> HIDE DEF G
    <3> QED
      BY <1>5
  <2> QED
    BY <2>1
<1> QED
  BY <1>6 DEF f, g

\* What follows the first a characters of s is u.
EndsAs(s, a, u) == /\ Len(s) \in Nat /\ Len(u) \in Nat /\ a \in Nat /\ Len(s) = a + Len(u)
                   /\ \A i \in 1 .. Len(u) : s[a + i] = u[i]

\* What is heard of the end of a text goes on from what was heard before it.
LEMMA HearingGoesOn ==
  ASSUME NEW w, NEW s, NEW u, NEW a, EndsAs(s, a, u)
  PROVE  \A n \in 0 .. Len(u) : Hearing(w, s)[a + n] = Hearing(Hearing(w, s)[a], u)[n]
<1> DEFINE v == Hearing(w, s)[a]
           f == Hearing(w, s)
           g == Hearing(v, u)
           G == {n \in Nat : n <= Len(u) => f[a + n] = g[n]}
<1>0. /\ Len(s) \in Nat /\ Len(u) \in Nat /\ a \in Nat /\ Len(s) = a + Len(u)
      /\ \A i \in 1 .. Len(u) : s[a + i] = u[i]
  BY DEF EndsAs
<1>1. f[a] = v /\ \A n \in 1 .. Len(s) : f[n] = Matched(f[n - 1], s[n])
  BY <1>0, HearingSteps
<1>2. g[0] = v /\ \A n \in 1 .. Len(u) : g[n] = Matched(g[n - 1], u[n])
  BY <1>0, HearingSteps
<1> HIDE DEF f, g, v
<1>3. 0 \in G
  BY <1>0, <1>1, <1>2
<1>4. ASSUME NEW n \in G
      PROVE  n + 1 \in G
  <2>1. n \in Nat /\ n + 1 \in Nat /\ (n + 1) - 1 = n
    OBVIOUS
  <2>2. SUFFICES ASSUME n + 1 <= Len(u)
                 PROVE  f[a + (n + 1)] = g[n + 1]
    BY <2>1
  <2>3. /\ a + (n + 1) \in 1 .. Len(s) /\ (a + (n + 1)) - 1 = a + n
        /\ n + 1 \in 1 .. Len(u) /\ f[a + n] = g[n]
    BY <1>0, <2>1, <2>2
  <2>4. f[a + (n + 1)] = Matched(f[a + n], s[a + (n + 1)])
    BY <1>1, <2>3
  <2>5. g[n + 1] = Matched(g[n], u[n + 1])
    BY <1>2, <2>1, <2>3
  <2>6. s[a + (n + 1)] = u[n + 1]
    BY <1>0, <2>3
  <2> QED
    BY <2>3, <2>4, <2>5, <2>6
<1>5. G = Nat
  <2> HIDE DEF G
  <2>1. G \in SUBSET Nat
    BY DEF G
  <2> QED
    BY <1>3, <1>4, <2>1, Induction
<1>6. ASSUME NEW n \in 0 .. Len(u)
      PROVE  f[a + n] = g[n]
  <2>1. n \in G /\ n <= Len(u)
    <3> HIDE DEF G
    <3> QED
      BY <1>5
  <2> QED
    BY <2>1
<1> QED
  BY <1>6 DEF f, g, v

-----------------------------------------------------------------------------
(* What the device makes of what is on its way.                             *)

Runs(f, strict, known, q, s) ==
    f = [i \in 0 .. Len(s) |-> IF i = 0 THEN q ELSE OneMore(strict, known, f[i - 1], s[i])]

LEMMA RunExists ==
  ASSUME NEW strict, NEW known, NEW q, NEW s, Len(s) \in Nat
  PROVE  \E f : Runs(f, strict, known, q, s) /\ Run(strict, known, q, s) = f[Len(s)]
<1> DEFINE D == 0 .. Len(s)
           Turns(f, n) == IF n = 0 THEN q ELSE OneMore(strict, known, f[n - 1], s[n])
           Upto(f, k) == f = [n \in D |-> f[n]] /\ \A n \in D : n <= k => f[n] = Turns(f, n)
           G == {k \in Nat : \E f : Upto(f, k)}
<1>1. 0 \in G
  <2> DEFINE f == [n \in D |-> q]
  <2>1. f = [n \in D |-> f[n]]
    OBVIOUS
  <2>2. \A n \in D : n <= 0 => f[n] = Turns(f, n)
    <3>1. \A n \in D : n <= 0 => n = 0
      OBVIOUS
    <3> QED
      BY <3>1
  <2> QED
    BY <2>1, <2>2
<1>2. ASSUME NEW k \in G
      PROVE  k + 1 \in G
  <2>1. PICK f : Upto(f, k)
    OBVIOUS
  <2> DEFINE g == [n \in D |-> IF n <= k THEN f[n] ELSE Turns(f, n)]
  <2>2. k \in Nat /\ k + 1 \in Nat
    OBVIOUS
  <2>3. g = [n \in D |-> g[n]]
    OBVIOUS
  <2>4. \A n \in D : n <= k => g[n] = f[n]
    OBVIOUS
  <2>5. \A n \in D : ~(n <= k) => g[n] = Turns(f, n)
    OBVIOUS
  <2>6. ASSUME NEW n \in D, n <= k + 1
        PROVE  g[n] = Turns(g, n)
    <3>1. CASE n = 0
      BY <2>1, <2>2, <2>4, <3>1
    <3>2. CASE n # 0
      <4>1. n - 1 \in D /\ n - 1 <= k
        BY <2>2, <2>6, <3>2
      <4>2. g[n - 1] = f[n - 1]
        BY <2>4, <4>1
      <4>3. g[n] = Turns(f, n)
        BY <2>1, <2>4, <2>5
      <4> HIDE DEF g
      <4> QED
        BY <4>2, <4>3
    <3> QED
      BY <3>1, <3>2
  <2> HIDE DEF g
  <2>7. Upto(g, k + 1)
    BY <2>3, <2>6
  <2> HIDE DEF Upto
  <2> QED
    BY <2>2, <2>7
<1>3. G = Nat
  <2> HIDE DEF G
  <2>1. G \in SUBSET Nat
    BY DEF G
  <2> QED
    BY <1>1, <1>2, <2>1, Induction
<1>4. PICK f : Upto(f, Len(s))
  BY <1>3
<1>5. Runs(f, strict, known, q, s)
  <2>1. \A n \in D : f[n] = Turns(f, n)
    <3>1. \A n \in D : n <= Len(s)
      OBVIOUS
    <3>2. \A n \in D : n <= Len(s) => f[n] = Turns(f, n)
      BY <1>4
    <3> HIDE DEF D, Turns
    <3> QED
      BY <3>1, <3>2
  <2> QED
    BY <1>4, <2>1 DEF Runs
<1>6. Run(strict, known, q, s) = (CHOOSE g : Runs(g, strict, known, q, s))[Len(s)]
  BY DEF Run, Runs
<1> QED
  BY <1>5, <1>6

\* Two runs that begin alike agree so far.
LEMMA RunsAgree ==
  ASSUME NEW strict, NEW known, NEW q, NEW s, Len(s) \in Nat, NEW u, Len(u) \in Nat,
         NEW k \in Nat, k <= Len(s), k <= Len(u), \A i \in 1 .. k : s[i] = u[i],
         NEW f, Runs(f, strict, known, q, s), NEW g, Runs(g, strict, known, q, u)
  PROVE  f[k] = g[k]
<1> DEFINE G == {n \in Nat : n <= k => f[n] = g[n]}
<1>1. \A n \in 0 .. Len(s) : f[n] = IF n = 0 THEN q ELSE OneMore(strict, known, f[n - 1], s[n])
  BY DEF Runs
<1>2. \A n \in 0 .. Len(u) : g[n] = IF n = 0 THEN q ELSE OneMore(strict, known, g[n - 1], u[n])
  BY DEF Runs
<1>3. 0 \in G
  BY <1>1, <1>2
<1>4. ASSUME NEW n \in G
      PROVE  n + 1 \in G
  <2>1. n \in Nat /\ n + 1 \in Nat /\ (n + 1) - 1 = n /\ n + 1 # 0
    OBVIOUS
  <2>2. SUFFICES ASSUME n + 1 <= k
                 PROVE  f[n + 1] = g[n + 1]
    BY <2>1
  <2>3. /\ n + 1 \in 0 .. Len(s) /\ n + 1 \in 0 .. Len(u) /\ n + 1 \in 1 .. k
        /\ f[n] = g[n]
    BY <2>1, <2>2
  <2> QED
    BY <1>1, <1>2, <2>1, <2>3
<1>5. G = Nat
  <2> HIDE DEF G
  <2>1. G \in SUBSET Nat
    BY DEF G
  <2> QED
    BY <1>3, <1>4, <2>1, Induction
<1> QED
  BY <1>5

LEMMA RunNone ==
  ASSUME NEW strict, NEW known, NEW q
  PROVE  Run(strict, known, q, <<>>) = q
<1>1. PICK f : Runs(f, strict, known, q, <<>>) /\ Run(strict, known, q, <<>>) = f[Len(<<>>)]
  BY RunExists
<1> QED
  BY <1>1 DEF Runs

LEMMA RunOne ==
  ASSUME NEW strict, NEW known, NEW q, NEW e
  PROVE  Run(strict, known, q, <<e>>) = OneMore(strict, known, q, e)
<1>1. Len(<<e>>) = 1 /\ <<e>>[1] = e
  OBVIOUS
<1>2. PICK f : Runs(f, strict, known, q, <<e>>) /\ Run(strict, known, q, <<e>>) = f[Len(<<e>>)]
  BY <1>1, RunExists
<1>3. f[1] = OneMore(strict, known, f[0], e) /\ f[0] = q
  BY <1>1, <1>2 DEF Runs
<1> QED
  BY <1>1, <1>2, <1>3

\* Tokens that follow others are taken from where those lead.
LEMMA RunOn ==
  ASSUME NEW strict, NEW known, NEW q, NEW S, NEW s \in Seq(S), NEW u \in Seq(S)
  PROVE  Run(strict, known, q, s \o u) = Run(strict, known, Run(strict, known, q, s), u)
<1> DEFINE w == s \o u
           m == Run(strict, known, q, s)
<1>1. /\ Len(s) \in Nat /\ Len(u) \in Nat /\ Len(w) = Len(s) + Len(u) /\ Len(w) \in Nat
      /\ \A i \in 1 .. Len(s) : w[i] = s[i]
      /\ \A i \in 1 .. Len(u) : w[Len(s) + i] = u[i]
  <2>1. Len(s) \in Nat /\ Len(u) \in Nat /\ Len(w) = Len(s) + Len(u)
    BY ConcatProperties, LenProperties
  <2>2. \A i \in 1 .. Len(s) + Len(u) : w[i] = IF i <= Len(s) THEN s[i] ELSE u[i - Len(s)]
    BY ConcatProperties
  <2> HIDE DEF w
  <2>3. \A i \in 1 .. Len(s) : w[i] = s[i]
    BY <2>1, <2>2
  <2>4. ASSUME NEW i \in 1 .. Len(u)
        PROVE  w[Len(s) + i] = u[i]
    <3>1. /\ Len(s) + i \in 1 .. Len(s) + Len(u) /\ ~(Len(s) + i <= Len(s))
          /\ (Len(s) + i) - Len(s) = i
      BY <2>1
    <3> QED
      BY <2>2, <3>1
  <2> QED
    BY <2>1, <2>3, <2>4
<1> HIDE DEF w
<1>2. PICK f : Runs(f, strict, known, q, s) /\ m = f[Len(s)]
  BY <1>1, RunExists
<1> HIDE DEF m
<1>3. PICK g : Runs(g, strict, known, q, w) /\ Run(strict, known, q, w) = g[Len(w)]
  <2>1. Len(w) \in Nat
    BY <1>1
  <2> QED
    BY <2>1, RunExists
<1>4. PICK h : Runs(h, strict, known, m, u) /\ Run(strict, known, m, u) = h[Len(u)]
  BY <1>1, RunExists
<1>5. g[Len(s)] = m
  <2>1. f[Len(s)] = g[Len(s)]
    <3>1. Len(s) <= Len(s) /\ Len(s) <= Len(w) /\ \A i \in 1 .. Len(s) : s[i] = w[i]
      BY <1>1
    <3>2. Len(s) \in Nat /\ Len(w) \in Nat
      BY <1>1
    <3>3. Runs(f, strict, known, q, s) /\ Runs(g, strict, known, q, w)
      BY <1>2, <1>3
    <3> QED
      BY <3>1, <3>2, <3>3, RunsAgree
  <2> QED
    BY <1>2, <2>1
<1> DEFINE G == {n \in Nat : n <= Len(u) => g[Len(s) + n] = h[n]}
<1>6. 0 \in G
  <2>1. h[0] = m
    BY <1>1, <1>4 DEF Runs
  <2> QED
    BY <1>1, <1>5, <2>1
<1>7. ASSUME NEW n \in G
      PROVE  n + 1 \in G
  <2>1. n \in Nat /\ n + 1 \in Nat /\ (n + 1) - 1 = n /\ n + 1 # 0
    OBVIOUS
  <2>2. SUFFICES ASSUME n + 1 <= Len(u)
                 PROVE  g[Len(s) + (n + 1)] = h[n + 1]
    BY <2>1
  <2>3. /\ Len(s) + (n + 1) \in 0 .. Len(w) /\ Len(s) + (n + 1) # 0
        /\ (Len(s) + (n + 1)) - 1 = Len(s) + n
        /\ n + 1 \in 1 .. Len(u) /\ n + 1 \in 0 .. Len(u)
    BY <1>1, <2>1, <2>2
  <2>4. g[Len(s) + n] = h[n]
    BY <1>1, <2>1, <2>2
  <2>5. g[Len(s) + (n + 1)] = OneMore(strict, known, g[Len(s) + n], w[Len(s) + (n + 1)])
    BY <1>3, <2>3 DEF Runs
  <2>6. h[n + 1] = OneMore(strict, known, h[n], u[n + 1])
    BY <1>4, <2>1, <2>3 DEF Runs
  <2> QED
    BY <1>1, <2>3, <2>4, <2>5, <2>6
<1>8. G = Nat
  <2> HIDE DEF G
  <2>1. G \in SUBSET Nat
    BY DEF G
  <2> QED
    BY <1>6, <1>7, <2>1, Induction
<1>9. g[Len(s) + Len(u)] = h[Len(u)]
  <2>1. Len(u) \in G
    <3> HIDE DEF G
    <3> QED
      BY <1>1, <1>8
  <2>2. Len(u) <= Len(u)
    BY <1>1
  <2> QED
    BY <2>1, <2>2
<1> QED
  BY <1>1, <1>3, <1>4, <1>9 DEF w, m

\* The first token, then the others.
LEMMA RunFirst ==
  ASSUME NEW strict, NEW known, NEW q, NEW S, NEW s \in Seq(S), s # <<>>
  PROVE  Run(strict, known, q, s) =
             Run(strict, known, OneMore(strict, known, q, Head(s)), Tail(s))
<1>1. Head(s) \in S /\ Tail(s) \in Seq(S) /\ Head(s) = s[1] /\ Len(s) \in Nat \ {0}
  BY HeadTailProperties, EmptySeq
<1>2. s = <<Head(s)>> \o Tail(s)
  <2>1. SubSeq(s, 1, Len(s)) = <<s[1]>> \o SubSeq(s, 2, Len(s))
    <3>1. 1 \in 1 .. Len(s) /\ Len(s) \in 1 .. Len(s) /\ 1 + 1 = 2
      BY <1>1
    <3> QED
      BY <3>1, SubSeqRecursiveFirst
  <2>2. SubSeq(s, 1, Len(s)) = s /\ Tail(s) = SubSeq(s, 2, Len(s))
    BY SubSeqFull, TailIsSubSeq
  <2> QED
    BY <1>1, <2>1, <2>2
<1>3. <<Head(s)>> \in Seq(S)
  BY <1>1
<1> DEFINE one == <<Head(s)>>
           rest == Tail(s)
<1>4. Run(strict, known, q, one \o rest) = Run(strict, known, Run(strict, known, q, one), rest)
  <2>1. one \in Seq(S) /\ rest \in Seq(S)
    BY <1>1, <1>3
  <2> HIDE DEF one, rest
  <2> QED
    BY <2>1, RunOn
<1> QED
  BY <1>2, <1>4, RunOne

LEMMA RunTwo ==
  ASSUME NEW strict, NEW known, NEW q, NEW S, NEW d \in S, NEW e \in S
  PROVE  Run(strict, known, q, <<d, e>>) =
             OneMore(strict, known, OneMore(strict, known, q, d), e)
<1>1. <<d, e>> \in Seq(S) /\ <<d, e>> # <<>> /\ Head(<<d, e>>) = d /\ Tail(<<d, e>>) = <<e>>
  OBVIOUS
<1> DEFINE both == <<d, e>>
<1>2. Run(strict, known, q, both) =
          Run(strict, known, OneMore(strict, known, q, Head(both)), Tail(both))
  <2>1. both \in Seq(S) /\ both # <<>>
    BY <1>1
  <2> HIDE DEF both
  <2> QED
    BY <2>1, RunFirst
<1> QED
  BY <1>1, <1>2, RunOne

Phases == [at : Locations \cup {"bad"}, open : BOOLEAN, packet : Packets \cup {"none"},
           paths : Int, size : Int, left : Int, room : Int, sources : SUBSET Sizes]

LEMMA SettledTyped ==
  ASSUME NEW at \in Locations, NEW n \in Int
  PROVE  Settled(at, n) \in Locations /\ Settled(at, n) # "bad"
BY DEF Settled, Locations

LEMMA AfterTyped ==
  ASSUME NEW packet, NEW n \in Int
  PROVE  After(packet, n) \in Locations
BY DEF After, Locations

LEMMA PathsTyped ==
  ASSUME NEW packet
  PROVE  Paths(packet) \in 0 .. 2
BY DEF Paths

LEMMA OneMoreTyped ==
  ASSUME NEW strict \in BOOLEAN, NEW known \in SUBSET Packets, NEW q \in Phases,
         NEW token \in Tokens
  PROVE  OneMore(strict, known, q, token) \in Phases
<1>1. /\ q.at \in Locations \cup {"bad"} /\ q.open \in BOOLEAN /\ q.paths \in Int
      /\ q.packet \in Packets \cup {"none"}
      /\ q.left \in Int /\ q.size \in Int /\ q.room \in Int /\ q.sources \in SUBSET Sizes
  BY DEF Phases
<1>2. CASE q.open /\ q.at = "type" /\ token[1] = "type" /\ token[2] \in known
  <2> DEFINE at == IF token[2] \in HasArguments THEN "args"
                   ELSE Settled(After(token[2], Paths(token[2])), q.left)
             goes == token[2] \in HasArguments \/ ~strict
  <2>1. at \in Locations
    <3>1. "args" \in Locations
      BY DEF Locations
    <3> QED
      BY <1>1, <3>1, PathsTyped, AfterTyped, SettledTyped
  <2>2. Paths(token[2]) \in Int /\ token[2] \in Packets /\ goes \in BOOLEAN
    BY <1>2, PathsTyped
  <2>3. OneMore(strict, known, q, token) = PacketStarts(strict, q, token[2])
    BY <1>2 DEF OneMore
  <2>4. PacketStarts(strict, q, token[2]) =
            [at |-> at, open |-> goes, packet |-> token[2], paths |-> Paths(token[2]),
             size |-> q.size, left |-> q.left, room |-> q.room, sources |-> q.sources]
    BY DEF PacketStarts
  <2> HIDE DEF at, goes
  <2> QED
    BY <1>1, <2>1, <2>2, <2>3, <2>4 DEF Phases
<1>3. CASE q.open /\ q.at = "args" /\ token[1] = "args"
  <2> DEFINE at == Settled(After(q.packet, q.paths), token[2])
             goes == ~strict
  <2>1. token[2] \in Nat /\ goes \in BOOLEAN
    BY <1>3 DEF Tokens
  <2>2. at \in Locations
    BY <1>1, <2>1, AfterTyped, SettledTyped
  <2>3. OneMore(strict, known, q, token) = ArgumentsEnd(strict, q, token[2])
    BY <1>3 DEF OneMore
  <2>4. ArgumentsEnd(strict, q, token[2]) =
            [at |-> at, open |-> goes, packet |-> q.packet, paths |-> q.paths,
             size |-> token[2], left |-> token[2], room |-> q.room, sources |-> q.sources]
    BY DEF ArgumentsEnd
  <2> HIDE DEF at, goes
  <2> QED
    BY <1>1, <2>1, <2>2, <2>3, <2>4 DEF Phases
<1>4. CASE q.open /\ q.at = "path" /\ token[1] = "char"
  BY <1>4 DEF OneMore
<1>5. CASE q.open /\ q.at = "path" /\ token[1] = "nul"
  <2> DEFINE at == Settled(After(q.packet, q.paths - 1), q.left)
             goes == ~strict
  <2>1. at \in Locations /\ goes \in BOOLEAN
    BY <1>1, AfterTyped, SettledTyped
  <2>2. OneMore(strict, known, q, token) = PathEnds(strict, q)
    BY <1>5 DEF OneMore
  <2>3. PathEnds(strict, q) =
            [at |-> at, open |-> goes, packet |-> q.packet, paths |-> q.paths - 1,
             size |-> q.size, left |-> q.left, room |-> q.room, sources |-> q.sources]
    BY DEF PathEnds
  <2> HIDE DEF at, goes
  <2> QED
    BY <1>1, <2>1, <2>2, <2>3 DEF Phases
<1>6. CASE q.open /\ q.at = "data" /\ token[1] = "data"
  <2> DEFINE sources == Explaining(strict, q, token[2])
             at == IF sources = {} THEN "bad" ELSE IF q.left > 1 THEN "data" ELSE "type"
             room == IF ChunkEnds(q) THEN Chunk ELSE q.room - 1
             rest == IF q.left > 1 THEN sources ELSE Sizes
             goes == ~ChunkEnds(q) \/ ~strict
  <2>1. sources \in SUBSET Sizes
    BY <1>1 DEF Explaining
  <2>2. at \in Locations \cup {"bad"}
    BY DEF Locations
  <2>3. room \in Int /\ q.left - 1 \in Int /\ goes \in BOOLEAN
    BY <1>1, LinkAssumption DEF LinkAssumption
  <2>4. rest \in SUBSET Sizes
    BY <2>1
  <2>5. OneMore(strict, known, q, token) = UnitRead(strict, q, token[2])
    BY <1>6 DEF OneMore
  <2>6. UnitRead(strict, q, token[2]) =
            [at |-> at, open |-> goes, packet |-> q.packet, paths |-> q.paths,
             size |-> q.size, left |-> q.left - 1, room |-> room, sources |-> rest]
    BY DEF UnitRead
  <2> HIDE DEF at, room, rest, goes
  <2> QED
    BY <1>1, <2>2, <2>3, <2>4, <2>5, <2>6 DEF Phases
<1>7. CASE OneMore(strict, known, q, token) = [q EXCEPT !.at = "bad"]
  BY <1>7 DEF Phases
<1> QED
  BY <1>2, <1>3, <1>4, <1>5, <1>6, <1>7 DEF OneMore

LEMMA RunTyped ==
  ASSUME NEW strict \in BOOLEAN, NEW known \in SUBSET Packets, NEW q \in Phases,
         NEW s \in Seq(Tokens)
  PROVE  Run(strict, known, q, s) \in Phases
<1>1. Len(s) \in Nat /\ \A i \in 1 .. Len(s) : s[i] \in Tokens
  BY LenProperties, ElementOfSeq
<1>2. PICK f : Runs(f, strict, known, q, s) /\ Run(strict, known, q, s) = f[Len(s)]
  BY <1>1, RunExists
<1>3. \A n \in 0 .. Len(s) : f[n] = IF n = 0 THEN q ELSE OneMore(strict, known, f[n - 1], s[n])
  BY <1>2 DEF Runs
<1> DEFINE G == {n \in Nat : n <= Len(s) => f[n] \in Phases}
<1>4. 0 \in G
  BY <1>1, <1>3
<1>5. ASSUME NEW n \in G
      PROVE  n + 1 \in G
  <2>1. n \in Nat /\ n + 1 \in Nat /\ (n + 1) - 1 = n /\ n + 1 # 0
    OBVIOUS
  <2>2. SUFFICES ASSUME n + 1 <= Len(s)
                 PROVE  f[n + 1] \in Phases
    BY <2>1
  <2>3. n + 1 \in 0 .. Len(s) /\ n + 1 \in 1 .. Len(s) /\ f[n] \in Phases
    BY <1>1, <2>1, <2>2
  <2>4. f[n + 1] = OneMore(strict, known, f[n], s[n + 1])
    BY <1>3, <2>1, <2>3
  <2>5. s[n + 1] \in Tokens
    BY <1>1, <2>3
  <2> QED
    BY <2>3, <2>4, <2>5, OneMoreTyped
<1>6. G = Nat
  <2> HIDE DEF G
  <2>1. G \in SUBSET Nat
    BY DEF G
  <2> QED
    BY <1>4, <1>5, <2>1, Induction
<1> QED
  BY <1>1, <1>2, <1>6

\* Nothing is made good of what has been misread.
LEMMA BadStays ==
  ASSUME NEW strict \in BOOLEAN, NEW known \in SUBSET Packets, NEW q \in Phases, q.at = "bad",
         NEW s \in Seq(Tokens)
  PROVE  Run(strict, known, q, s).at = "bad"
<1>1. Len(s) \in Nat /\ \A i \in 1 .. Len(s) : s[i] \in Tokens
  BY LenProperties, ElementOfSeq
<1>2. PICK f : Runs(f, strict, known, q, s) /\ Run(strict, known, q, s) = f[Len(s)]
  BY <1>1, RunExists
<1>3. \A n \in 0 .. Len(s) : f[n] = IF n = 0 THEN q ELSE OneMore(strict, known, f[n - 1], s[n])
  BY <1>2 DEF Runs
<1>4. ASSUME NEW r \in Phases, r.at = "bad", NEW e
      PROVE  OneMore(strict, known, r, e) \in Phases /\ OneMore(strict, known, r, e).at = "bad"
  <2>1. OneMore(strict, known, r, e) = [r EXCEPT !.at = "bad"]
    BY <1>4 DEF OneMore
  <2> QED
    BY <2>1 DEF Phases
<1> DEFINE G == {n \in Nat : n <= Len(s) => f[n] \in Phases /\ f[n].at = "bad"}
<1>5. 0 \in G
  BY <1>1, <1>3
<1>6. ASSUME NEW n \in G
      PROVE  n + 1 \in G
  <2>1. n \in Nat /\ n + 1 \in Nat /\ (n + 1) - 1 = n /\ n + 1 # 0
    OBVIOUS
  <2>2. SUFFICES ASSUME n + 1 <= Len(s)
                 PROVE  f[n + 1] \in Phases /\ f[n + 1].at = "bad"
    BY <2>1
  <2>3. n + 1 \in 0 .. Len(s) /\ f[n] \in Phases /\ f[n].at = "bad"
    BY <1>1, <2>1, <2>2
  <2>4. f[n + 1] = OneMore(strict, known, f[n], s[n + 1])
    BY <1>3, <2>1, <2>3
  <2> QED
    BY <1>4, <2>3, <2>4
<1>7. G = Nat
  <2> HIDE DEF G
  <2>1. G \in SUBSET Nat
    BY DEF G
  <2> QED
    BY <1>5, <1>6, <2>1, Induction
<1> QED
  BY <1>1, <1>2, <1>7

\* A token that is sent unasked is misread.
LEMMA Unasked ==
  ASSUME NEW strict \in BOOLEAN, NEW known \in SUBSET Packets, NEW q \in Phases, ~q.open,
         NEW s \in Seq(Tokens), s # <<>>
  PROVE  Run(strict, known, q, s).at = "bad"
<1> DEFINE r == OneMore(strict, known, q, Head(s))
<1>1. Head(s) \in Tokens /\ Tail(s) \in Seq(Tokens)
  BY HeadTailProperties
<1>2. r = [q EXCEPT !.at = "bad"]
  BY DEF OneMore
<1>3. r \in Phases /\ r.at = "bad"
  BY <1>2 DEF Phases
<1> HIDE DEF r
<1>4. Run(strict, known, r, Tail(s)).at = "bad"
  BY <1>1, <1>3, BadStays
<1>5. Run(strict, known, q, s) = Run(strict, known, r, Tail(s))
  BY RunFirst DEF r
<1> QED
  BY <1>4, <1>5

-----------------------------------------------------------------------------
(* Steps, as seen from what is on the line.                                 *)

LEMMA KnownPackets == \A app : Known(app) \in SUBSET Packets
BY DEF Known, Packets

LEMMA PhaseTyped ==
  ASSUME LinkTypes, NEW strict \in BOOLEAN
  PROVE  Phase(strict) \in Phases
<1>1. dev \in Devices
  BY DEF LinkTypes
<1>2. /\ dev.at \in Locations /\ dev.packet \in Packets \cup {"none"} /\ dev.paths \in Int
      /\ dev.size \in Nat /\ dev.left \in Int /\ Len(dev.buffer) \in Nat
  BY <1>1, LenProperties DEF Devices
<1> DEFINE at == Settled(dev.at, dev.left)
           goes == ~strict \/ (Reading /\ ~Pending)
           room == IF dev.at = "data" THEN Chunk - Len(dev.buffer) ELSE Chunk
           sources == IF ~strict /\ at = "data" THEN Sources ELSE Sizes
<1>3. at \in Locations
  BY <1>2, SettledTyped
<1>4. goes \in BOOLEAN
  OBVIOUS
<1>5. room \in Int
  BY <1>2, LinkAssumption DEF LinkAssumption
<1>6. sources \in SUBSET Sizes
  BY DEF Sources
<1>7. Phase(strict) = [at |-> at, open |-> goes, packet |-> dev.packet, paths |-> dev.paths,
                       size |-> dev.size, left |-> dev.left, room |-> room, sources |-> sources]
  BY DEF Phase
<1> HIDE DEF at, goes, room, sources
<1> QED
  BY <1>2, <1>3, <1>4, <1>5, <1>6, <1>7 DEF Phases

LEMMA ReachedTyped ==
  ASSUME LinkTypes, NEW strict \in BOOLEAN
  PROVE  rx \o up \in Seq(Tokens) /\ Reached(strict) \in Phases
<1>1. rx \in Seq(Tokens) /\ up \in Seq(Tokens)
  BY DEF LinkTypes
<1>2. rx \o up \in Seq(Tokens)
  BY <1>1, ConcatProperties
<1>3. Phase(strict) \in Phases /\ Known(dev.app) \in SUBSET Packets
  BY PhaseTyped, KnownPackets
<1> QED
  BY <1>2, <1>3, RunTyped DEF Reached

LEMMA StageIs == \A cl : StageOf(cl) \in {"type", "path", "data"}
BY DEF StageOf

\* What is on its way was asked for.
LEMMA AskedFor ==
  ASSUME LinkTypes, NEW strict \in BOOLEAN, InStep(strict), rx \o up # <<>>
  PROVE  Phase(strict).open /\ (strict => Reading /\ ~Pending)
<1>1. Phase(strict).open
  <2>1. SUFFICES ASSUME ~Phase(strict).open
                 PROVE  FALSE
    OBVIOUS
  <2>2. Reached(strict).at = "bad"
    BY <2>1, ReachedTyped, PhaseTyped, KnownPackets, Unasked DEF Reached
  <2> QED
    BY <2>2, StageIs DEF InStep, Follows
<1>2. Phase(strict).open = (~strict \/ (Reading /\ ~Pending))
  BY DEF Phase
<1> QED
  BY <1>1, <1>2

LEMMA OnTheWay ==
  ASSUME NEW S, NEW s \in Seq(S), NEW u \in Seq(S), s # <<>>
  PROVE  s \o u # <<>> /\ Head(s \o u) = Head(s) /\ Tail(s \o u) = Tail(s) \o u
<1> DEFINE w == s \o u
<1>1. /\ Len(s) \in Nat \ {0} /\ Len(u) \in Nat /\ Head(s) = s[1] /\ Tail(s) \in Seq(S)
      /\ Len(Tail(s)) = Len(s) - 1
      /\ \A i \in 1 .. Len(Tail(s)) : Tail(s)[i] = s[i + 1]
  BY LenProperties, HeadTailProperties, EmptySeq
<1>2. /\ w \in Seq(S) /\ Len(w) = Len(s) + Len(u)
      /\ \A i \in 1 .. Len(s) + Len(u) : w[i] = IF i <= Len(s) THEN s[i] ELSE u[i - Len(s)]
  BY ConcatProperties
<1> DEFINE v == Tail(s) \o u
<1>3. /\ v \in Seq(S) /\ Len(v) = Len(Tail(s)) + Len(u)
      /\ \A i \in 1 .. Len(Tail(s)) + Len(u) :
             v[i] = IF i <= Len(Tail(s)) THEN Tail(s)[i] ELSE u[i - Len(Tail(s))]
  BY <1>1, ConcatProperties
<1> HIDE DEF w, v
<1>4. w # <<>>
  BY <1>1, <1>2, EmptySeq
<1>5. /\ Head(w) = w[1] /\ Tail(w) \in Seq(S) /\ Len(Tail(w)) = Len(w) - 1
      /\ \A i \in 1 .. Len(Tail(w)) : Tail(w)[i] = w[i + 1]
  BY <1>2, <1>4, HeadTailProperties
<1>6. Head(w) = Head(s)
  BY <1>1, <1>2, <1>5
<1>7. Len(Tail(w)) = Len(v)
  BY <1>1, <1>2, <1>3, <1>5
<1>8. ASSUME NEW i \in 1 .. Len(v)
      PROVE  Tail(w)[i] = v[i]
  <2>1. Tail(w)[i] = w[i + 1] /\ i + 1 \in 1 .. Len(s) + Len(u)
    BY <1>1, <1>2, <1>3, <1>5, <1>7
  <2>2. w[i + 1] = IF i + 1 <= Len(s) THEN s[i + 1] ELSE u[(i + 1) - Len(s)]
    BY <1>2, <2>1
  <2>3. v[i] = IF i <= Len(s) - 1 THEN Tail(s)[i] ELSE u[i - (Len(s) - 1)]
    BY <1>1, <1>3
  <2>4. CASE i <= Len(s) - 1
    <3>1. i \in 1 .. Len(Tail(s)) /\ i + 1 <= Len(s)
      BY <1>1, <2>4
    <3> QED
      BY <1>1, <2>1, <2>2, <2>3, <2>4, <3>1
  <2>5. CASE ~(i <= Len(s) - 1)
    <3>1. (i + 1) - Len(s) = i - (Len(s) - 1) /\ ~(i + 1 <= Len(s))
      BY <1>1, <1>3, <2>5
    <3> QED
      BY <2>1, <2>2, <2>3, <2>5, <3>1
  <2> QED
    BY <2>4, <2>5
<1>9. Tail(w) = v
  BY <1>3, <1>5, <1>7, <1>8, SeqEqual
<1> QED
  BY <1>4, <1>6, <1>9 DEF w, v

LEMMA TokenRead ==
  ASSUME LinkTypes, NEW strict \in BOOLEAN, rx # <<>>, rx' = Tail(rx), up' = up,
         dev'.app = dev.app,
         Phase(strict)' = OneMore(strict, Known(dev.app), Phase(strict), Head(rx))
  PROVE  Reached(strict)' = Reached(strict)
<1>1. rx \in Seq(Tokens) /\ up \in Seq(Tokens)
  BY DEF LinkTypes
<1> DEFINE way == rx \o up
<1>2. way # <<>> /\ Head(way) = Head(rx) /\ Tail(way) = Tail(rx) \o up /\ way \in Seq(Tokens)
  BY <1>1, OnTheWay, ConcatProperties
<1> HIDE DEF way
<1>3. Run(strict, Known(dev.app), Phase(strict), way) =
          Run(strict, Known(dev.app),
              OneMore(strict, Known(dev.app), Phase(strict), Head(way)), Tail(way))
  BY <1>2, RunFirst
<1> QED
  BY <1>2, <1>3 DEF Reached, way

\* What the device is about to read, it expects.
LEMMA Expects ==
  ASSUME LinkTypes, NEW strict \in BOOLEAN, InStep(strict), rx # <<>>
  PROVE  /\ OneMore(strict, Known(dev.app), Phase(strict), Head(rx)).at # "bad"
         /\ Phase(strict).open /\ (strict => Reading /\ ~Pending)
         /\ Head(rx) \in Tokens
<1>1. rx \in Seq(Tokens) /\ up \in Seq(Tokens)
  BY DEF LinkTypes
<1> DEFINE way == rx \o up
           q == OneMore(strict, Known(dev.app), Phase(strict), Head(rx))
<1>2. way # <<>> /\ Head(way) = Head(rx) /\ way \in Seq(Tokens)
  BY <1>1, OnTheWay, ConcatProperties
<1>3. Head(rx) \in Tokens
  BY <1>1, HeadTailProperties
<1>4. q \in Phases
  BY <1>3, PhaseTyped, KnownPackets, OneMoreTyped
<1>5. Phase(strict).open /\ (strict => Reading /\ ~Pending)
  BY <1>2, AskedFor
<1> HIDE DEF way
<1>6. Reached(strict) = Run(strict, Known(dev.app), q, Tail(way))
  <2>1. Run(strict, Known(dev.app), Phase(strict), way) =
            Run(strict, Known(dev.app),
                OneMore(strict, Known(dev.app), Phase(strict), Head(way)), Tail(way))
    BY <1>2, RunFirst
  <2> QED
    BY <1>2, <2>1 DEF Reached, way
<1>7. Tail(way) \in Seq(Tokens)
  BY <1>2, HeadTailProperties
<1> HIDE DEF q
<1>8. q.at # "bad"
  <2>1. SUFFICES ASSUME q.at = "bad"
                 PROVE  FALSE
    OBVIOUS
  <2> DEFINE known == Known(dev.app)
             rest == Tail(way)
  <2>2. known \in SUBSET Packets /\ rest \in Seq(Tokens) /\ q \in Phases /\ q.at = "bad"
    BY <1>4, <1>7, <2>1, KnownPackets
  <2> HIDE DEF known, rest
  <2>3. Run(strict, known, q, rest).at = "bad"
    BY <2>2, BadStays
  <2>4. Reached(strict).at = "bad"
    BY <1>6, <2>3 DEF known, rest
  <2> QED
    BY <2>4, StageIs DEF InStep, Follows
<1> QED
  BY <1>3, <1>5, <1>8 DEF q

LEMMA TokensSent ==
  ASSUME LinkTypes, NEW strict \in BOOLEAN, NEW tokens \in Seq(Tokens), up' = up \o tokens,
         rx' = rx, dev'.app = dev.app, Phase(strict)' = Phase(strict)
  PROVE  Reached(strict)' = Run(strict, Known(dev.app), Reached(strict), tokens)
<1>1. rx \in Seq(Tokens) /\ up \in Seq(Tokens)
  BY DEF LinkTypes
<1> DEFINE way == rx \o up
<1>2. way \in Seq(Tokens) /\ rx \o (up \o tokens) = way \o tokens
  BY SMTT(40), <1>1, ConcatProperties, ConcatAssociative
<1> HIDE DEF way
<1>3. Run(strict, Known(dev.app), Phase(strict), way \o tokens) =
          Run(strict, Known(dev.app), Run(strict, Known(dev.app), Phase(strict), way), tokens)
  BY <1>2, RunOn
<1> QED
  BY <1>2, <1>3 DEF Reached, way

-----------------------------------------------------------------------------
(* The ready word.                                                          *)

HeardWords == [offset : 0 .. 2, ready : BOOLEAN]

LEMMA MatchedTyped ==
  ASSUME NEW word \in HeardWords, NEW char
  PROVE  Matched(word, char) \in HeardWords
<1>1. word.offset \in 0 .. 2 /\ Len(Magic) = 3
  BY DEF HeardWords, Magic
<1>2. word.offset + 1 # 3 => word.offset + 1 \in 0 .. 2
  BY <1>1
<1> QED
  BY <1>1, <1>2 DEF Matched, HeardWords

LEMMA HearingTyped ==
  ASSUME NEW word \in HeardWords, NEW s, Len(s) \in Nat
  PROVE  \A n \in 0 .. Len(s) : Hearing(word, s)[n] \in HeardWords
<1> DEFINE f == Hearing(word, s)
           G == {n \in Nat : n <= Len(s) => f[n] \in HeardWords}
<1>1. f[0] = word /\ \A n \in 1 .. Len(s) : f[n] = Matched(f[n - 1], s[n])
  BY HearingSteps
<1> HIDE DEF f
<1>2. 0 \in G
  BY <1>1
<1>3. ASSUME NEW n \in G
      PROVE  n + 1 \in G
  <2>1. n \in Nat /\ n + 1 \in Nat /\ (n + 1) - 1 = n
    OBVIOUS
  <2>2. SUFFICES ASSUME n + 1 <= Len(s)
                 PROVE  f[n + 1] \in HeardWords
    BY <2>1
  <2>3. n + 1 \in 1 .. Len(s) /\ f[n] \in HeardWords
    BY <2>1, <2>2
  <2>4. f[n + 1] = Matched(f[n], s[n + 1])
    BY <1>1, <2>1, <2>3
  <2> QED
    BY <2>3, <2>4, MatchedTyped
<1>4. G = Nat
  <2> HIDE DEF G
  <2>1. G \in SUBSET Nat
    BY DEF G
  <2> QED
    BY <1>2, <1>3, <2>1, Induction
<1>5. ASSUME NEW n \in 0 .. Len(s)
      PROVE  f[n] \in HeardWords
  <2>1. n \in G /\ n <= Len(s)
    <3> HIDE DEF G
    <3> QED
      BY <1>4
  <2> QED
    BY <2>1
<1> QED
  BY <1>5 DEF f

LEMMA HeardTyped ==
  ASSUME LinkTypes
  PROVE  Len(down) \in Nat /\ \A n \in 0 .. Len(down) : Heard[n] \in HeardWords
<1>1. down \in Seq(Letters) /\ [offset |-> offset, ready |-> ready] \in HeardWords
  BY DEF LinkTypes, HeardWords
<1>2. Len(down) \in Nat
  BY <1>1, LenProperties
<1> QED
  BY <1>1, <1>2, HearingTyped DEF Heard

Fresh == [offset |-> 0, ready |-> FALSE]

\* A text in which no ready word ends, nor one begins that goes on behind it.
Harmless(text) ==
    /\ text \in Seq(Letters)
    /\ Hearing(Fresh, text)[Len(text)].offset = 0
    /\ \A n \in 0 .. Len(text) : ~Hearing(Fresh, text)[n].ready

LEMMA MatchedLetters ==
  ASSUME NEW word \in HeardWords
  PROVE  /\ Matched(word, "x") = Fresh
         /\ word.offset = 0 => /\ Matched(word, "n") = Fresh
                               /\ Matched(word, "U") = [offset |-> 1, ready |-> FALSE]
         /\ word.offset = 1 => /\ Matched(word, "U") = Fresh /\ Matched(word, "n") = Fresh
                               /\ Matched(word, "R") = [offset |-> 2, ready |-> FALSE]
         /\ word.offset = 2 => Matched(word, "n") = [offset |-> 0, ready |-> TRUE]
<1>1. word.offset \in 0 .. 2
  BY DEF HeardWords
<1>2. Len(Magic) = 3 /\ Magic[1] = "U" /\ Magic[2] = "R" /\ Magic[3] = "n"
  BY DEF Magic
<1>3. CASE word.offset = 0
  BY <1>2, <1>3 DEF Matched, Fresh
<1>4. CASE word.offset = 1
  BY <1>2, <1>4 DEF Matched, Fresh
<1>5. CASE word.offset = 2
  BY <1>2, <1>5 DEF Matched, Fresh
<1> QED
  BY <1>1, <1>3, <1>4, <1>5

LEMMA HarmlessTexts ==
  /\ Harmless(<<>>) /\ Harmless(Done) /\ Harmless(Message) /\ Harmless(Message \o Done)
  /\ Harmless(<<>> \o Done) /\ Harmless(Greeting)
<1>1. /\ Fresh \in HeardWords /\ Fresh.offset = 0 /\ ~Fresh.ready
      /\ [offset |-> 1, ready |-> FALSE] \in HeardWords
  BY DEF Fresh, HeardWords
<1>2. Harmless(<<>>)
  <2>1. <<>> \in Seq(Letters) /\ Len(<<>>) = 0
    OBVIOUS
  <2>2. Hearing(Fresh, <<>>)[0] = Fresh
    <3>1. Len(<<>>) \in Nat
      BY <2>1
    <3> QED
      BY <3>1, HearingSteps
  <2>3. \A n \in 0 .. 0 : n = 0
    OBVIOUS
  <2> QED
    BY <1>1, <2>1, <2>2, <2>3 DEF Harmless
<1>3. Harmless(Done)
  <2>1. /\ Done \in Seq(Letters) /\ Len(Done) = 2
        /\ Done[1] = "x" /\ Done[2] = "n"
    BY DEF Done, Letters
  <2> DEFINE f == Hearing(Fresh, Done)
  <2>2. f[0] = Fresh /\ \A n \in 1 .. 2 : f[n] = Matched(f[n - 1], Done[n])
    BY <2>1, HearingSteps
  <2> HIDE DEF f
  <2>3. /\ f[1] = Matched(f[0], "x")
        /\ f[2] = Matched(f[1], "n")
    <3>1. 1 \in 1 .. 2 /\ 1 - 1 = 0 /\ 2 \in 1 .. 2 /\ 2 - 1 = 1
      OBVIOUS
    <3> QED
      BY <2>1, <2>2, <3>1
  <2>4. f[1] = Fresh
    BY <1>1, <2>3, <2>2, MatchedLetters
  <2>5. f[2] = Fresh
    BY <1>1, <2>3, <2>4, MatchedLetters
  <2>6. \A n \in 0 .. 2 : ~f[n].ready
    <3>1. \A n \in 0 .. 2 : n = 0 \/ n = 1 \/ n = 2
      OBVIOUS
    <3> QED
      BY <1>1, <2>2, <2>4, <2>5, <3>1
  <2> QED
    BY <1>1, <2>1, <2>5, <2>6 DEF Harmless, f
<1>4. Harmless(Message)
  <2>1. /\ Message \in Seq(Letters) /\ Len(Message) = 3
        /\ Message[1] = "x" /\ Message[2] = "U" /\ Message[3] = "n"
    BY DEF Message, Letters
  <2> DEFINE f == Hearing(Fresh, Message)
  <2>2. f[0] = Fresh /\ \A n \in 1 .. 3 : f[n] = Matched(f[n - 1], Message[n])
    <3>1. Len(Message) \in Nat
      BY <2>1
    <3>2. /\ f[0] = Fresh
          /\ \A n \in 1 .. Len(Message) : f[n] = Matched(f[n - 1], Message[n])
      BY <3>1, HearingSteps
    <3> QED
      BY <2>1, <3>2
  <2> HIDE DEF f
  <2>3. /\ f[1] = Matched(f[0], "x")
        /\ f[2] = Matched(f[1], "U")
        /\ f[3] = Matched(f[2], "n")
    <3>1. 1 \in 1 .. 3 /\ 1 - 1 = 0 /\ 2 \in 1 .. 3 /\ 2 - 1 = 1 /\ 3 \in 1 .. 3 /\ 3 - 1 = 2
      OBVIOUS
    <3> QED
      BY <2>1, <2>2, <3>1
  <2>4. f[1] = Fresh
    BY <1>1, <2>3, <2>2, MatchedLetters
  <2>5. f[2] = [offset |-> 1, ready |-> FALSE]
    BY <1>1, <2>3, <2>4, MatchedLetters
  <2>6. f[3] = Fresh
    BY <1>1, <2>3, <2>5, MatchedLetters
  <2>7. \A n \in 0 .. 3 : ~f[n].ready
    <3>1. \A n \in 0 .. 3 : n = 0 \/ n = 1 \/ n = 2 \/ n = 3
      OBVIOUS
    <3> QED
      BY <1>1, <2>2, <2>4, <2>5, <2>6, <3>1
  <2> QED
    BY <1>1, <2>1, <2>6, <2>7 DEF Harmless, f
<1>5. Harmless(Message \o Done)
  <2> DEFINE t == Message \o Done
  <2>12. /\ Message \in Seq(Letters) /\ Len(Message) = 3
         /\ Done \in Seq(Letters) /\ Len(Done) = 2
    BY DEF Message, Done, Letters
  <2>13. /\ t \in Seq(Letters) /\ Len(t) = 3 + 2
         /\ \A i \in 1 .. 3 + 2 : t[i] = IF i <= 3 THEN Message[i] ELSE Done[i - 3]
    <3>1. /\ t \in Seq(Letters) /\ Len(t) = Len(Message) + Len(Done)
          /\ \A i \in 1 .. Len(Message) + Len(Done) :
                 t[i] = IF i <= Len(Message) THEN Message[i] ELSE Done[i - Len(Message)]
      BY <2>12, ConcatProperties
    <3> QED
      BY <2>12, <3>1
  <2> HIDE DEF t
  <2>14. /\ t[1] = Message[1] /\ t[2] = Message[2] /\ t[3] = Message[3]
         /\ t[4] = Done[1] /\ t[5] = Done[2]
    BY <2>13
  <2>1. /\ t \in Seq(Letters) /\ Len(t) = 5
        /\ t[1] = "x" /\ t[2] = "U" /\ t[3] = "n" /\ t[4] = "x" /\ t[5] = "n"
    BY <2>12, <2>13, <2>14 DEF Message, Done, Letters
  <2> DEFINE f == Hearing(Fresh, t)
  <2>2. f[0] = Fresh /\ \A n \in 1 .. 5 : f[n] = Matched(f[n - 1], t[n])
    BY <2>1, HearingSteps
  <2> HIDE DEF f
  <2>3. /\ f[1] = Matched(f[0], "x")
        /\ f[2] = Matched(f[1], "U")
        /\ f[3] = Matched(f[2], "n")
        /\ f[4] = Matched(f[3], "x")
        /\ f[5] = Matched(f[4], "n")
    <3>1. /\ 1 \in 1 .. 5 /\ 1 - 1 = 0 /\ 2 \in 1 .. 5 /\ 2 - 1 = 1
          /\ 3 \in 1 .. 5 /\ 3 - 1 = 2 /\ 4 \in 1 .. 5 /\ 4 - 1 = 3
          /\ 5 \in 1 .. 5 /\ 5 - 1 = 4
      OBVIOUS
    <3> QED
      BY <2>1, <2>2, <3>1
  <2>4. f[1] = Fresh
    BY <1>1, <2>3, <2>2, MatchedLetters
  <2>5. f[2] = [offset |-> 1, ready |-> FALSE]
    BY <1>1, <2>3, <2>4, MatchedLetters
  <2>6. f[3] = Fresh
    BY <1>1, <2>3, <2>5, MatchedLetters
  <2>7. f[4] = Fresh
    BY <1>1, <2>3, <2>6, MatchedLetters
  <2>8. f[5] = Fresh
    BY <1>1, <2>3, <2>7, MatchedLetters
  <2>9. \A n \in 0 .. 5 : ~f[n].ready
    <3>1. \A n \in 0 .. 5 : n = 0 \/ n = 1 \/ n = 2 \/ n = 3 \/ n = 4 \/ n = 5
      OBVIOUS
    <3> QED
      BY <1>1, <2>2, <2>4, <2>5, <2>6, <2>7, <2>8, <3>1
  <2>10. Harmless(t)
    BY <1>1, <2>1, <2>8, <2>9 DEF Harmless, f
  <2> QED
    BY <2>10 DEF t
<1>6. <<>> \o Done = Done
  <2>1. Done \in Seq(Letters)
    BY DEF Done, Letters
  <2> QED
    BY <2>1, ConcatEmptySeq
<1>7. Harmless(Greeting)
  <2>1. /\ Greeting \in Seq(Letters) /\ Len(Greeting) = 3
        /\ Greeting[1] = "U" /\ Greeting[2] = "x" /\ Greeting[3] = "n"
    BY DEF Greeting, Letters
  <2> DEFINE f == Hearing(Fresh, Greeting)
  <2>2. f[0] = Fresh /\ \A n \in 1 .. 3 : f[n] = Matched(f[n - 1], Greeting[n])
    BY <2>1, HearingSteps
  <2> HIDE DEF f
  <2>3. /\ f[1] = Matched(f[0], "U")
        /\ f[2] = Matched(f[1], "x")
        /\ f[3] = Matched(f[2], "n")
    <3>1. 1 \in 1 .. 3 /\ 1 - 1 = 0 /\ 2 \in 1 .. 3 /\ 2 - 1 = 1 /\ 3 \in 1 .. 3 /\ 3 - 1 = 2
      OBVIOUS
    <3> QED
      BY <2>1, <2>2, <3>1
  <2>4. f[1] = [offset |-> 1, ready |-> FALSE]
    BY <1>1, <2>3, <2>2, MatchedLetters
  <2>5. f[2] = Fresh
    BY <1>1, <2>3, <2>4, MatchedLetters
  <2>6. f[3] = Fresh
    BY <1>1, <2>3, <2>5, MatchedLetters
  <2>7. \A n \in 0 .. 3 : ~f[n].ready
    <3>1. \A n \in 0 .. 3 : n = 0 \/ n = 1 \/ n = 2 \/ n = 3
      OBVIOUS
    <3> QED
      BY <1>1, <2>2, <2>4, <2>5, <2>6, <3>1
  <2> QED
    BY <1>1, <2>1, <2>6, <2>7 DEF Harmless, f
<1> QED
  BY <1>2, <1>3, <1>4, <1>5, <1>6, <1>7

LEMMA MagicHeard ==
  /\ Magic \in Seq(Letters) /\ Len(Magic) = 3
  /\ \A n \in 0 .. 2 : ~Hearing(Fresh, Magic)[n].ready
  /\ Hearing(Fresh, Magic)[3] = [offset |-> 0, ready |-> TRUE]
<1>9. /\ Fresh \in HeardWords /\ Fresh.offset = 0 /\ ~Fresh.ready
      /\ [offset |-> 1, ready |-> FALSE] \in HeardWords
      /\ [offset |-> 2, ready |-> FALSE] \in HeardWords
  BY DEF Fresh, HeardWords
<1>1. /\ Magic \in Seq(Letters) /\ Len(Magic) = 3
      /\ Magic[1] = "U" /\ Magic[2] = "R" /\ Magic[3] = "n"
  BY DEF Magic, Letters
<1> DEFINE f == Hearing(Fresh, Magic)
<1>2. f[0] = Fresh /\ \A n \in 1 .. 3 : f[n] = Matched(f[n - 1], Magic[n])
  <2>1. Len(Magic) \in Nat
    BY <1>1
  <2>2. f[0] = Fresh /\ \A n \in 1 .. Len(Magic) : f[n] = Matched(f[n - 1], Magic[n])
    BY <2>1, HearingSteps
  <2> QED
    BY <1>1, <2>2
<1> HIDE DEF f
<1>3. /\ f[1] = Matched(f[0], "U")
      /\ f[2] = Matched(f[1], "R")
      /\ f[3] = Matched(f[2], "n")
  <2>1. 1 \in 1 .. 3 /\ 1 - 1 = 0 /\ 2 \in 1 .. 3 /\ 2 - 1 = 1 /\ 3 \in 1 .. 3 /\ 3 - 1 = 2
    OBVIOUS
  <2> QED
    BY <1>1, <1>2, <2>1
<1>4. f[1] = [offset |-> 1, ready |-> FALSE]
  BY <1>9, <1>3, <1>2, MatchedLetters
<1>5. f[2] = [offset |-> 2, ready |-> FALSE]
  BY <1>9, <1>3, <1>4, MatchedLetters
<1>6. f[3] = [offset |-> 0, ready |-> TRUE]
  BY <1>9, <1>3, <1>5, MatchedLetters
<1>7. \A n \in 0 .. 2 : ~f[n].ready
  <2>1. \A n \in 0 .. 2 : n = 0 \/ n = 1 \/ n = 2
    OBVIOUS
  <2> QED
    BY <1>9, <1>2, <1>4, <1>5, <2>1
<1> QED
  BY <1>1, <1>6, <1>7 DEF f

\* What is said is heard behind what was said before.
LEMMA SaidIsHeard ==
  ASSUME LinkTypes, WordsRight, ~Pending, NEW text \in Seq(Letters),
         down' = down \o text, ready' = ready, offset' = offset
  PROVE  /\ down' \in Seq(Letters)
         /\ Len(down') = Len(down) + Len(text)
         /\ \A n \in 0 .. Len(down) : ~Heard'[n].ready
         /\ \A n \in 0 .. Len(text) : Heard'[Len(down) + n] = Hearing(Fresh, text)[n]
<1> DEFINE w == [offset |-> offset, ready |-> ready]
           s == down \o text
<1>1. down \in Seq(Letters)
  BY DEF LinkTypes
<1>2. /\ Len(down) \in Nat /\ Len(text) \in Nat
      /\ s \in Seq(Letters) /\ Len(s) = Len(down) + Len(text)
      /\ \A i \in 1 .. Len(down) + Len(text) :
             s[i] = IF i <= Len(down) THEN down[i] ELSE text[i - Len(down)]
  BY <1>1, ConcatProperties, LenProperties
<1>3. Heard' = Hearing(w, s) /\ Heard = Hearing(w, down)
  BY DEF Heard
<1> HIDE DEF w, s
<1>4. \A n \in 0 .. Len(down) : Hearing(w, s)[n] = Hearing(w, down)[n]
  <2>1. Len(s) \in Nat /\ Len(down) <= Len(s) /\ \A i \in 1 .. Len(down) : down[i] = s[i]
    BY <1>2
  <2> QED
    BY <1>2, <2>1, HearingBegins
<1>5. \A n \in 0 .. Len(down) : Heard'[n] = Heard[n]
  BY <1>3, <1>4
<1>6. \A n \in 0 .. Len(down) : ~Heard[n].ready
  <2>1. \A n \in 0 .. Len(down) : n \in 0 .. Len(down) - 1 \/ n = Len(down)
    BY <1>2
  <2> QED
    BY <2>1 DEF WordsRight, Pending
<1>7. Heard[Len(down)] = Fresh
  <2>1. Heard[Len(down)] \in HeardWords
    BY <1>2, HeardTyped
  <2>2. Heard[Len(down)].offset = 0 /\ ~Heard[Len(down)].ready
    BY DEF WordsRight, Pending
  <2> QED
    BY <2>1, <2>2 DEF HeardWords, Fresh
<1>8. \A n \in 0 .. Len(text) : Hearing(w, s)[Len(down) + n] = Hearing(Fresh, text)[n]
  <2>1. \A i \in 1 .. Len(text) : s[Len(down) + i] = text[i]
    <3>1. ASSUME NEW i \in 1 .. Len(text)
          PROVE  /\ Len(down) + i \in 1 .. Len(down) + Len(text)
                 /\ ~(Len(down) + i <= Len(down)) /\ (Len(down) + i) - Len(down) = i
      BY <1>2
    <3> QED
      BY <1>2, <3>1
  <2>2. Hearing(w, s)[Len(down)] = Fresh
    BY <1>2, <1>3, <1>5, <1>7
  <2>3. Len(s) \in Nat /\ Len(s) = Len(down) + Len(text)
    BY <1>2
  <2>4. Len(text) \in Nat /\ Len(down) \in Nat
    BY <1>2
  <2>5. EndsAs(s, Len(down), text)
    BY <2>1, <2>3, <2>4 DEF EndsAs
  <2> DEFINE a == Len(down)
  <2>6. EndsAs(s, a, text)
    BY <2>5
  <2> HIDE DEF a
  <2>7. ASSUME NEW n \in 0 .. Len(text)
        PROVE  Hearing(w, s)[a + n] = Hearing(Hearing(w, s)[a], text)[n]
    BY <2>6, HearingGoesOn
  <2> QED
    BY <2>2, <2>7 DEF a
<1>9. \A n \in 0 .. Len(text) : Heard'[Len(down) + n] = Hearing(Fresh, text)[n]
  BY <1>3, <1>8
<1> QED
  BY <1>2, <1>5, <1>6, <1>9 DEF s

LEMMA SaidQuietly ==
  ASSUME LinkTypes, WordsRight, ~Pending, NEW text, Harmless(text),
         down' = down \o text, ready' = ready, offset' = offset
  PROVE  WordsRight' /\ ~Pending' /\ down' \in Seq(Letters)
<1>1. text \in Seq(Letters) /\ Len(text) \in Nat /\ Len(down) \in Nat
  BY LenProperties, HeardTyped DEF Harmless
<1>2. /\ down' \in Seq(Letters) /\ Len(down') = Len(down) + Len(text)
      /\ \A n \in 0 .. Len(down) : ~Heard'[n].ready
      /\ \A n \in 0 .. Len(text) : Heard'[Len(down) + n] = Hearing(Fresh, text)[n]
  BY <1>1, SaidIsHeard
<1>3. Heard'[Len(down')].offset = 0 /\ ~Heard'[Len(down')].ready
  <2>1. Len(text) \in 0 .. Len(text)
    BY <1>1
  <2> QED
    BY <1>2, <2>1 DEF Harmless
<1>4. ASSUME NEW n \in 0 .. Len(down')
      PROVE  ~Heard'[n].ready
  <2>1. CASE n <= Len(down)
    BY <1>1, <1>2, <2>1
  <2>2. CASE ~(n <= Len(down))
    <3>1. n - Len(down) \in 0 .. Len(text) /\ Len(down) + (n - Len(down)) = n
      BY <1>1, <1>2, <2>2
    <3>2. Heard'[Len(down) + (n - Len(down))] = Hearing(Fresh, text)[n - Len(down)]
      BY <1>2, <3>1
    <3> QED
      BY <3>1, <3>2 DEF Harmless
  <2> QED
    BY <2>1, <2>2
<1>5. \A n \in 0 .. Len(down') - 1 : ~Heard'[n].ready
  <2>1. \A n \in 0 .. Len(down') - 1 : n \in 0 .. Len(down')
    BY <1>1, <1>2
  <2> QED
    BY <1>4, <2>1
<1>6. ~Pending'
  BY <1>3 DEF Pending
<1> QED
  BY <1>2, <1>3, <1>5, <1>6 DEF WordsRight

LEMMA SaidReady ==
  ASSUME LinkTypes, WordsRight, ~Pending,
         down' = down \o Magic, ready' = ready, offset' = offset, Reading'
  PROVE  WordsRight' /\ Pending' /\ down' \in Seq(Letters)
<1>1. Len(down) \in Nat /\ Magic \in Seq(Letters) /\ Len(Magic) = 3
  BY HeardTyped, MagicHeard
<1>2. /\ down' \in Seq(Letters) /\ Len(down') = Len(down) + 3
      /\ \A n \in 0 .. Len(down) : ~Heard'[n].ready
      /\ \A n \in 0 .. 3 : Heard'[Len(down) + n] = Hearing(Fresh, Magic)[n]
  BY <1>1, SaidIsHeard
<1>3. Heard'[Len(down')] = [offset |-> 0, ready |-> TRUE]
  BY <1>1, <1>2, MagicHeard
<1>4. ASSUME NEW n \in 0 .. Len(down') - 1
      PROVE  ~Heard'[n].ready
  <2>1. CASE n <= Len(down)
    BY <1>1, <1>2, <2>1
  <2>2. CASE ~(n <= Len(down))
    <3>1. n - Len(down) \in 0 .. 2 /\ Len(down) + (n - Len(down)) = n
      BY <1>1, <1>2, <2>2
    <3>2. Heard'[Len(down) + (n - Len(down))] = Hearing(Fresh, Magic)[n - Len(down)]
      BY <1>2, <3>1
    <3> QED
      BY <3>1, <3>2, MagicHeard
  <2> QED
    BY <2>1, <2>2
<1> QED
  BY <1>2, <1>3, <1>4 DEF WordsRight, Pending

-----------------------------------------------------------------------------
(* What a step leaves alone.                                                *)

LEMMA HearingOn ==
  ASSUME ready' = ready, offset' = offset, down' = down
  PROVE  Heard' = Heard /\ Pending' = Pending
<1>1. Heard' = Heard
  BY DEF Heard
<1> QED
  BY <1>1 DEF Pending

LEMMA ClientOn ==
  ASSUME ClientSound, client' = client, dev'.app = dev.app
  PROVE  ClientSound'
BY DEF ClientSound

LEMMA InStepOn ==
  ASSUME NEW strict \in BOOLEAN, InStep(strict), dev'.at # "misled", client' = client,
         Reached(strict)' = Reached(strict)
  PROVE  InStep(strict)'
BY DEF InStep

LEMMA StrictBefore ==
  ASSUME Strict', early' = early, faults \subseteq faults', dev.at # "left"
  PROVE  Strict
BY DEF Strict

LEMMA LooseBefore ==
  ASSUME Loose', faults \subseteq faults', dev'.app = dev.app
  PROVE  Loose
BY DEF Loose

-----------------------------------------------------------------------------
(* The device reads a token.                                                *)

\* One more token read takes the device as far as it was to be taken.
LEMMA ReadingStep ==
  ASSUME LinkInvariant, Reading, rx # <<>>, rx' = Tail(rx),
         UNCHANGED <<card, client, ready, offset, up, down, early, faults>>,
         dev' \in Devices, dev'.app = dev.app, dev'.at # "misled", DeviceSound',
         Strict /\ InStep(TRUE) =>
             Phase(TRUE)' = OneMore(TRUE, Known(dev.app), Phase(TRUE), Head(rx)),
         Loose /\ InStep(FALSE) =>
             Phase(FALSE)' = OneMore(FALSE, Known(dev.app), Phase(FALSE), Head(rx)),
         Loose /\ InStep(FALSE) /\ CardSound => CardSound'
  PROVE  LinkInvariant'
<1>1. LinkTypes /\ ClientSound
  BY DEF LinkInvariant
<1>2. dev.at # "left"
  BY DEF Reading, Expected
<1>3. LinkTypes'
  <2>1. rx \in Seq(Tokens)
    BY <1>1 DEF LinkTypes
  <2>2. rx' \in Seq(Tokens)
    BY <2>1, HeadTailProperties
  <2> QED
    BY <1>1, <2>2 DEF LinkTypes
<1>4. ClientSound'
  BY <1>1, ClientOn
<1>5. ASSUME Strict'
      PROVE  WordsRight' /\ InStep(TRUE)'
  <2>1. Strict
    BY <1>2, <1>5, StrictBefore
  <2>2. WordsRight /\ InStep(TRUE)
    BY <2>1 DEF LinkInvariant
  <2>3. Phase(TRUE).open /\ ~Pending
    BY <1>1, <2>2, Expects
  <2>4. Heard' = Heard /\ Pending' = Pending
    BY HearingOn
  <2>5. WordsRight'
    BY <2>2, <2>3, <2>4 DEF WordsRight
  <2>6. Reached(TRUE)' = Reached(TRUE)
    BY <1>1, <2>1, <2>2, TokenRead
  <2> QED
    BY <2>2, <2>5, <2>6, InStepOn
<1>6. ASSUME Loose'
      PROVE  InStep(FALSE)' /\ CardSound'
  <2>1. Loose
    BY <1>6, LooseBefore
  <2>2. CardSound /\ InStep(FALSE)
    BY <2>1 DEF LinkInvariant
  <2>3. Reached(FALSE)' = Reached(FALSE)
    BY <1>1, <2>1, <2>2, TokenRead
  <2> QED
    BY <2>1, <2>2, <2>3, InStepOn
<1> QED
  BY <1>3, <1>4, <1>5, <1>6 DEF LinkInvariant

\* The device does what it does between two reads: nothing that is on its
\* way was sent too early, and it will read the same as before.
LEMMA WorkingStep ==
  ASSUME LinkInvariant, ~Reading, dev.at # "left",
         UNCHANGED <<client, ready, offset, up, rx, early>>, faults \subseteq faults',
         dev' \in Devices, dev'.app = dev.app, dev'.at # "misled", DeviceSound',
         card' \in Seq(Int), down' \in Seq(Letters),
         Strict' /\ Strict /\ WordsRight => WordsRight' /\ Phase(TRUE)' = Phase(TRUE),
         Loose' /\ Loose /\ CardSound => CardSound' /\ Phase(FALSE)' = Phase(FALSE)
  PROVE  LinkInvariant'
<1>1. LinkTypes /\ ClientSound
  BY DEF LinkInvariant
<1>3. LinkTypes'
  BY <1>1 DEF LinkTypes
<1>4. ClientSound'
  BY <1>1, ClientOn
<1>5. ASSUME Strict'
      PROVE  WordsRight' /\ InStep(TRUE)'
  <2>1. Strict
    BY <1>5, StrictBefore
  <2>2. WordsRight /\ InStep(TRUE)
    BY <2>1 DEF LinkInvariant
  <2>3. WordsRight' /\ Phase(TRUE)' = Phase(TRUE)
    BY <1>5, <2>1, <2>2
  <2>4. Reached(TRUE)' = Reached(TRUE)
    BY <2>3 DEF Reached
  <2> QED
    BY <2>2, <2>3, <2>4, InStepOn
<1>6. ASSUME Loose'
      PROVE  InStep(FALSE)' /\ CardSound'
  <2>1. Loose
    BY <1>6, LooseBefore
  <2>2. CardSound /\ InStep(FALSE)
    BY <2>1 DEF LinkInvariant
  <2>3. CardSound' /\ Phase(FALSE)' = Phase(FALSE)
    BY <1>6, <2>1, <2>2
  <2>4. Reached(FALSE)' = Reached(FALSE)
    BY <2>3 DEF Reached
  <2> QED
    BY <2>2, <2>3, <2>4, InStepOn
<1> QED
  BY <1>3, <1>4, <1>5, <1>6 DEF LinkInvariant

LEMMA ReadingIs ==
  /\ Reading = (dev.at \in {"type", "args", "path", "data"})
  /\ Expected["type"] = {"type"} /\ Expected["args"] = {"args"}
  /\ Expected["path"] = {"char", "nul"} /\ Expected["data"] = {"data"}
BY DEF Reading, Expected

LEMMA AcceptedIs ==
  ASSUME NEW kind, Accepted(kind)
  PROVE  /\ Reading /\ rx # <<>> /\ Head(rx)[1] = kind /\ rx' = Tail(rx)
         /\ UNCHANGED <<card, client, ready, offset, up, down, early, faults>>
         /\ kind = "type" => dev.at = "type"
         /\ kind = "args" => dev.at = "args"
         /\ kind \in {"char", "nul"} => dev.at = "path"
         /\ kind = "data" => dev.at = "data"
<1>1. /\ Reading /\ rx # <<>> /\ Head(rx)[1] = kind /\ rx' = Tail(rx)
      /\ UNCHANGED <<card, client, ready, offset, up, down, early, faults>>
      /\ kind \in Expected[dev.at]
  BY DEF Accepted
<1>2. dev.at \in {"type", "args", "path", "data"}
  BY <1>1, ReadingIs
<1> QED
  BY <1>1, <1>2, ReadingIs

\* What the device is about to read was sent as what it takes it for.
LEMMA ReadAsSent ==
  ASSUME LinkTypes, NEW strict \in BOOLEAN, InStep(strict), rx # <<>>, Reading
  PROVE  /\ Phase(strict).open /\ (strict => ~Pending) /\ Head(rx) \in Tokens
         /\ Phase(strict).at = dev.at
         /\ OneMore(strict, Known(dev.app), Phase(strict), Head(rx)).at # "bad"
<1>1. /\ OneMore(strict, Known(dev.app), Phase(strict), Head(rx)).at # "bad"
      /\ Phase(strict).open /\ (strict => ~Pending) /\ Head(rx) \in Tokens
  BY Expects
<1>2. Phase(strict).at = dev.at
  <2>1. Phase(strict).at = Settled(dev.at, dev.left)
    BY DEF Phase
  <2> QED
    BY <2>1, ReadingIs DEF Settled
<1> QED
  BY <1>1, <1>2

LEMMA TokenKinds ==
  ASSUME NEW token \in Tokens
  PROVE  /\ token[1] \in {"type", "args", "char", "nul", "data"}
         /\ token[1] = "type" => token[2] \in Packets
         /\ token[1] \in {"args", "data"} => token[2] \in Nat
BY DEF Tokens

LEMMA DevFields ==
  ASSUME LinkTypes
  PROVE  /\ dev.app \in Apps /\ dev.at \in Locations /\ dev.packet \in Packets \cup {"none"}
         /\ dev.size \in Nat /\ dev.paths \in Int /\ dev.left \in Int
         /\ dev.buffer \in Seq(Nat) /\ Len(dev.buffer) \in Nat /\ dev.written \in Nat
         /\ dev.cluster \in Int /\ dev.old \in Nat
         /\ card \in Seq(Int) /\ Len(card) \in Nat
<1>1. dev \in Devices /\ card \in Seq(Int)
  BY DEF LinkTypes
<1>2. dev.buffer \in Seq(Nat)
  BY <1>1 DEF Devices
<1> QED
  BY <1>1, <1>2, LenProperties DEF Devices

\* A device that is known by its fields.
LEMMA DevOf ==
  ASSUME NEW d, NEW at \in Locations, NEW packet \in Packets \cup {"none"}, NEW size \in Nat,
         NEW paths \in Int, NEW left \in Int, NEW buffer \in Seq(Nat), NEW written \in Nat,
         NEW cluster \in Int, NEW old \in Nat, NEW app \in Apps,
         d = [app |-> app, at |-> at, packet |-> packet, size |-> size, paths |-> paths,
              left |-> left, buffer |-> buffer, written |-> written,
              cluster |-> cluster, old |-> old]
  PROVE  d \in Devices
BY DEF Devices

\* The fields of a phase.
LEMMA PhaseIs ==
  ASSUME NEW strict \in BOOLEAN
  PROVE  /\ Phase(strict).at = Settled(dev.at, dev.left)
         /\ Phase(strict).open = (~strict \/ (Reading /\ ~Pending))
         /\ Phase(strict).packet = dev.packet /\ Phase(strict).paths = dev.paths
         /\ Phase(strict).size = dev.size /\ Phase(strict).left = dev.left
         /\ Phase(strict).room = IF dev.at = "data" THEN Chunk - Len(dev.buffer) ELSE Chunk
         /\ Phase(strict).sources =
               IF ~strict /\ Settled(dev.at, dev.left) = "data" THEN Sources ELSE Sizes
BY DEF Phase

LEMMA AfterIs ==
  ASSUME NEW packet, NEW n \in Int
  PROVE  /\ n > 0 => After(packet, n) = "askPath"
         /\ ~(n > 0) => After(packet, n) = IF packet = "create" THEN "open"
                                          ELSE IF packet = "memcpy" THEN "askData"
                                          ELSE "operate"
         /\ After(packet, n) \in {"askPath", "open", "askData", "operate"}
BY DEF After

LEMMA ParsePacketOn ==
  ASSUME LinkInvariant, ParsePacket
  PROVE  LinkInvariant'
<1> DEFINE packet == Head(rx)[2]
           at == IF packet \in HasArguments THEN "args" ELSE After(packet, Paths(packet))
<1>1. LinkTypes /\ DeviceSound
  BY DEF LinkInvariant
<1>2. /\ Reading /\ rx # <<>> /\ Head(rx)[1] = "type" /\ rx' = Tail(rx) /\ dev.at = "type"
      /\ UNCHANGED <<card, client, ready, offset, up, down, early, faults>>
      /\ packet \in Known(dev.app)
  BY AcceptedIs DEF ParsePacket
<1>3. dev' = [dev EXCEPT !.packet = packet, !.paths = Paths(packet), !.at = at]
  BY DEF ParsePacket
<1>4. packet \in Packets /\ Paths(packet) \in Int /\ at \in Locations
  BY <1>2, KnownPackets, PathsTyped, AfterTyped DEF Locations
<1>5. at = "args" \/ (packet \notin HasArguments /\ at = "askPath")
  <2>1. SUFFICES ASSUME packet \notin HasArguments
                 PROVE  at = "askPath"
    OBVIOUS
  <2>2. Paths(packet) > 0
    BY <2>1 DEF Paths
  <2> QED
    BY <2>1, <2>2, <1>4, AfterIs
<1> HIDE DEF packet, at
<1>6. /\ dev' \in Devices /\ dev'.app = dev.app /\ dev'.at = at /\ dev'.packet = packet
      /\ dev'.paths = Paths(packet) /\ dev'.size = dev.size /\ dev'.left = dev.left
      /\ dev'.buffer = dev.buffer /\ dev'.written = dev.written
  BY <1>1, <1>3, <1>4 DEF LinkTypes, Devices
<1>7. at # "args" => packet \notin HasArguments
  BY <1>5
<1>8. at = "args" => packet \in HasArguments
  <2>1. SUFFICES ASSUME packet \notin HasArguments
                 PROVE  at # "args"
    OBVIOUS
  <2>2. at = After(packet, Paths(packet))
    BY <2>1 DEF at
  <2> QED
    BY <1>4, <2>2, AfterIs
<1>9. packet # "none"
  BY <1>4 DEF Packets, Known
<1>10. DeviceSound'
  BY <1>5, <1>6, <1>2, <1>7, <1>8, <1>9 DEF DeviceSound, HasArguments
<1>11. ASSUME NEW strict \in BOOLEAN, InStep(strict)
       PROVE  Phase(strict)' = OneMore(strict, Known(dev.app), Phase(strict), Head(rx))
  <2>1. Phase(strict).open /\ (strict => ~Pending) /\ Phase(strict).at = "type"
    BY <1>1, <1>2, <1>11, ReadAsSent
  <2>2. OneMore(strict, Known(dev.app), Phase(strict), Head(rx)) =
            PacketStarts(strict, Phase(strict), packet)
    BY <1>2, <2>1 DEF OneMore, packet
  <2>3. Pending' = Pending
    BY <1>2, HearingOn
  <2>4. Reading' = (at = "args")
    BY <1>5, <1>6 DEF Reading, Expected
  <2>5. /\ Phase(strict).left = dev.left /\ Phase(strict).size = dev.size
        /\ Phase(strict).room = Chunk /\ Phase(strict).sources = Sizes
    BY <1>2, PhaseIs DEF Settled
  <2>6. Settled(at, dev.left) = IF packet \in HasArguments THEN "args"
                                ELSE Settled(After(packet, Paths(packet)), dev.left)
    <3>1. packet \in HasArguments => at = "args"
      BY DEF at
    <3>2. packet \notin HasArguments => at = After(packet, Paths(packet))
      BY DEF at
    <3> QED
      BY <3>1, <3>2 DEF Settled
  <2>7. Settled(at, dev.left) # "data" /\ at # "data"
    BY <1>5 DEF Settled
  <2>8. (~strict \/ (Reading' /\ ~Pending')) = (packet \in HasArguments \/ ~strict)
    BY <2>1, <2>3, <2>4, <1>7, <1>8
  <2>9. PacketStarts(strict, Phase(strict), packet) =
            [at |-> Settled(at, dev.left), open |-> packet \in HasArguments \/ ~strict,
             packet |-> packet, paths |-> Paths(packet), size |-> dev.size,
             left |-> dev.left, room |-> Chunk, sources |-> Sizes]
    BY <2>5, <2>6 DEF PacketStarts
  <2>10. Phase(strict)' =
            [at |-> Settled(at, dev.left), open |-> ~strict \/ (Reading' /\ ~Pending'),
             packet |-> packet, paths |-> Paths(packet), size |-> dev.size,
             left |-> dev.left, room |-> Chunk, sources |-> Sizes]
    BY <1>6, <2>7 DEF Phase
  <2> QED
    BY <2>2, <2>8, <2>9, <2>10
<1>12. Loose /\ InStep(FALSE) /\ CardSound => CardSound'
  BY <1>5, <1>6 DEF CardSound, ChunkSound
<1>13. dev'.at # "misled"
  BY <1>5, <1>6
<1> QED
  BY <1>2, <1>6, <1>10, <1>11, <1>12, <1>13, ReadingStep

LEMMA ReadArgumentsOn ==
  ASSUME LinkInvariant, ReadArguments
  PROVE  LinkInvariant'
<1> DEFINE n == Head(rx)[2]
           at == After(dev.packet, dev.paths)
<1>1. LinkTypes /\ DeviceSound
  BY DEF LinkInvariant
<1>2. /\ Reading /\ rx # <<>> /\ Head(rx)[1] = "args" /\ rx' = Tail(rx) /\ dev.at = "args"
      /\ UNCHANGED <<card, client, ready, offset, up, down, early, faults>>
  BY AcceptedIs DEF ReadArguments
<1>3. dev' = [dev EXCEPT !.size = n, !.left = n, !.written = 0, !.at = at]
  BY DEF ReadArguments
<1>4. n \in Nat /\ at \in Locations
  <2>1. rx \in Seq(Tokens)
    BY <1>1 DEF LinkTypes
  <2>2. Head(rx) \in Tokens
    BY <1>2, <2>1, HeadTailProperties
  <2> QED
    BY <1>1, <1>2, <2>2, TokenKinds, DevFields, AfterTyped
<1>5. at \in {"askPath", "open", "askData", "operate"}
  BY <1>1, DevFields, AfterIs
<1>6. /\ at = "open" => dev.packet = "create"
      /\ at = "askData" => dev.packet = "memcpy"
      /\ dev.packet = "create" => at \in {"askPath", "open"}
  BY <1>1, DevFields, AfterIs
<1> HIDE DEF n, at
<1>7. /\ dev' \in Devices /\ dev'.app = dev.app /\ dev'.at = at /\ dev'.packet = dev.packet
      /\ dev'.paths = dev.paths /\ dev'.size = n /\ dev'.left = n
      /\ dev'.buffer = dev.buffer /\ dev'.written = 0
  <2>1. dev \in Devices
    BY <1>1 DEF LinkTypes
  <2>2. dev' = [app |-> dev.app, at |-> at, packet |-> dev.packet, size |-> n,
                paths |-> dev.paths, left |-> n, buffer |-> dev.buffer, written |-> 0,
                cluster |-> dev.cluster, old |-> dev.old]
    BY <1>3, <2>1 DEF Devices
  <2>3. dev' \in Devices
    BY <1>1, <1>4, <2>2, DevFields, DevOf
  <2> QED
    BY <2>2, <2>3
<1>8. dev.packet \in HasArguments /\ dev.packet # "none"
  BY <1>1, <1>2 DEF DeviceSound, HasArguments
<1>9. DeviceSound'
  BY <1>1, <1>5, <1>6, <1>7, <1>8 DEF DeviceSound
<1>10. Held' = <<>>
  BY <1>5, <1>7 DEF Held
<1>11. Sources' = Sizes
  <2>1. Sources' = {a \in Sizes : /\ \A i \in 1 .. 0 : card'[i] = UnitOf(a, i)
                                  /\ \A i \in 1 .. Len(<<>>) : Held'[i] = UnitOf(a, 0 + i)}
    BY <1>7, <1>10 DEF Sources
  <2>2. \A i \in 1 .. 0 : FALSE
    OBVIOUS
  <2>3. Len(<<>>) = 0
    OBVIOUS
  <2> QED
    BY <2>1, <2>2, <2>3
<1>12. ASSUME NEW strict \in BOOLEAN, InStep(strict)
       PROVE  Phase(strict)' = OneMore(strict, Known(dev.app), Phase(strict), Head(rx))
  <2>1. Phase(strict).open /\ (strict => ~Pending) /\ Phase(strict).at = "args"
    BY <1>1, <1>2, <1>12, ReadAsSent
  <2>2. OneMore(strict, Known(dev.app), Phase(strict), Head(rx)) =
            ArgumentsEnd(strict, Phase(strict), n)
    BY <1>2, <2>1 DEF OneMore, n
  <2>4. ~Reading'
    BY <1>5, <1>7 DEF Reading, Expected
  <2>5. /\ Phase(strict).packet = dev.packet /\ Phase(strict).paths = dev.paths
        /\ Phase(strict).room = Chunk /\ Phase(strict).sources = Sizes
    BY <1>2, PhaseIs DEF Settled
  <2>8. (~strict \/ (Reading' /\ ~Pending')) = ~strict
    BY <2>4
  <2>9. ArgumentsEnd(strict, Phase(strict), n) =
            [at |-> Settled(at, n), open |-> ~strict,
             packet |-> dev.packet, paths |-> dev.paths, size |-> n,
             left |-> n, room |-> Chunk, sources |-> Sizes]
    BY <2>5 DEF ArgumentsEnd, at
  <2>10. Phase(strict)' =
            [at |-> Settled(at, n), open |-> ~strict \/ (Reading' /\ ~Pending'),
             packet |-> dev.packet, paths |-> dev.paths, size |-> n,
             left |-> n, room |-> Chunk, sources |-> Sizes]
    BY <1>5, <1>7, <1>11 DEF Phase
  <2> QED
    BY <2>2, <2>8, <2>9, <2>10
<1>13. Loose /\ InStep(FALSE) /\ CardSound => CardSound'
  <2>1. dev'.written + Len(Held') = 0
    BY <1>7, <1>10
  <2>2. dev'.at \notin {"ready", "type", "data", "write", "truncate"}
        /\ (dev'.packet = "create" => dev'.at # "askData")
    BY <1>5, <1>6, <1>7
  <2> QED
    BY <2>1, <2>2 DEF CardSound, ChunkSound
<1>14. dev'.at # "misled"
  BY <1>5, <1>7
<1> QED
  BY <1>2, <1>7, <1>9, <1>12, <1>13, <1>14, ReadingStep

LEMMA PathCharOn ==
  ASSUME LinkInvariant, Accepted("char"), UNCHANGED dev
  PROVE  LinkInvariant'
<1>1. LinkTypes /\ DeviceSound
  BY DEF LinkInvariant
<1>2. /\ Reading /\ rx # <<>> /\ Head(rx)[1] = "char" /\ rx' = Tail(rx) /\ dev.at = "path"
      /\ UNCHANGED <<card, client, ready, offset, up, down, early, faults>>
  BY AcceptedIs
<1>3. Held' = Held /\ Sources' = Sources
  BY <1>2 DEF Held, Sources
<1>4. DeviceSound'
  BY <1>1, <1>2, <1>3 DEF DeviceSound
<1>5. CardSound => CardSound'
  BY <1>2, <1>3 DEF CardSound, FileIsSource, ChunkSound, InPlace
<1>6. ASSUME NEW strict \in BOOLEAN, InStep(strict)
      PROVE  Phase(strict)' = OneMore(strict, Known(dev.app), Phase(strict), Head(rx))
  <2>1. Phase(strict).open /\ Phase(strict).at = "path"
    BY <1>1, <1>2, <1>6, ReadAsSent
  <2>2. OneMore(strict, Known(dev.app), Phase(strict), Head(rx)) = Phase(strict)
    BY <1>2, <2>1 DEF OneMore
  <2>3. Pending' = Pending /\ Reading' = Reading
    BY <1>2, HearingOn DEF Reading
  <2>4. Phase(strict)' = Phase(strict)
    BY <1>3, <2>3 DEF Phase
  <2> QED
    BY <2>2, <2>4
<1>7. dev' \in Devices /\ dev'.at # "misled" /\ dev'.app = dev.app
  BY <1>1, <1>2 DEF LinkTypes
<1> QED
  BY <1>2, <1>4, <1>5, <1>6, <1>7, ReadingStep

PathEnd ==
  /\ Accepted("nul")
  /\ dev' = [dev EXCEPT !.paths = @ - 1, !.at = After(dev.packet, dev.paths - 1)]

LEMMA PathEndOn ==
  ASSUME LinkInvariant, PathEnd
  PROVE  LinkInvariant'
<1> DEFINE p == dev.paths - 1
           at == After(dev.packet, p)
<1>1. LinkTypes /\ DeviceSound
  BY DEF LinkInvariant
<1>2. /\ Reading /\ rx # <<>> /\ Head(rx)[1] = "nul" /\ rx' = Tail(rx) /\ dev.at = "path"
      /\ UNCHANGED <<card, client, ready, offset, up, down, early, faults>>
  BY AcceptedIs DEF PathEnd
<1>3. dev' = [dev EXCEPT !.paths = p, !.at = at]
  BY DEF PathEnd
<1>4. p \in Int /\ at \in Locations
  BY <1>1, DevFields, AfterTyped
<1>5. at \in {"askPath", "open", "askData", "operate"}
  BY <1>4, AfterIs
<1>6. /\ at = "open" => dev.packet = "create"
      /\ at = "askData" => dev.packet = "memcpy"
      /\ dev.packet = "create" => at \in {"askPath", "open"}
  BY <1>4, AfterIs
<1>15. p = dev.paths - 1 /\ at = After(dev.packet, dev.paths - 1)
  OBVIOUS
<1> HIDE DEF p, at
<1>7. /\ dev' \in Devices /\ dev'.app = dev.app /\ dev'.at = at /\ dev'.packet = dev.packet
      /\ dev'.paths = p /\ dev'.size = dev.size /\ dev'.left = dev.left
      /\ dev'.buffer = dev.buffer /\ dev'.written = dev.written
  <2>1. dev \in Devices
    BY <1>1 DEF LinkTypes
  <2>2. dev' = [app |-> dev.app, at |-> at, packet |-> dev.packet, size |-> dev.size,
                paths |-> p, left |-> dev.left, buffer |-> dev.buffer,
                written |-> dev.written, cluster |-> dev.cluster, old |-> dev.old]
    BY <1>3, <2>1 DEF Devices
  <2>3. dev' \in Devices
    BY <1>1, <1>4, <2>2, DevFields, DevOf
  <2> QED
    BY <2>2, <2>3
<1>8. dev.packet # "none" /\ (dev.packet = "create" => dev.written = 0 /\ dev.left = dev.size)
  BY <1>1, <1>2 DEF DeviceSound
<1>9. DeviceSound'
  BY <1>1, <1>5, <1>6, <1>7, <1>8 DEF DeviceSound
<1>10. Held' = <<>>
  BY <1>5, <1>7 DEF Held
<1>11. dev.packet = "create" => Sources' = Sizes
  <2>0. SUFFICES ASSUME dev.packet = "create"
                 PROVE  Sources' = Sizes
    OBVIOUS
  <2>1. Sources' = {a \in Sizes : /\ \A i \in 1 .. 0 : card'[i] = UnitOf(a, i)
                                  /\ \A i \in 1 .. Len(<<>>) : Held'[i] = UnitOf(a, 0 + i)}
    BY <2>0, <1>7, <1>8, <1>10 DEF Sources
  <2>2. \A i \in 1 .. 0 : FALSE
    OBVIOUS
  <2>3. Len(<<>>) = 0
    OBVIOUS
  <2> QED
    BY <2>1, <2>2, <2>3
<1>12. ASSUME NEW strict \in BOOLEAN, InStep(strict), ~strict => Loose
       PROVE  Phase(strict)' = OneMore(strict, Known(dev.app), Phase(strict), Head(rx))
  <2>1. Phase(strict).open /\ (strict => ~Pending) /\ Phase(strict).at = "path"
    BY <1>1, <1>2, <1>12, ReadAsSent
  <2>2. OneMore(strict, Known(dev.app), Phase(strict), Head(rx)) =
            PathEnds(strict, Phase(strict))
    BY <1>2, <2>1 DEF OneMore
  <2>4. ~Reading'
    BY <1>5, <1>7 DEF Reading, Expected
  <2>5. /\ Phase(strict).packet = dev.packet /\ Phase(strict).paths = dev.paths
        /\ Phase(strict).size = dev.size /\ Phase(strict).left = dev.left
        /\ Phase(strict).room = Chunk /\ Phase(strict).sources = Sizes
    BY <1>2, PhaseIs DEF Settled
  <2>6. ~strict /\ Settled(at, dev.left) = "data" => Sources' = Sizes
    <3>1. SUFFICES ASSUME ~strict, Settled(at, dev.left) = "data"
                   PROVE  dev.packet = "create"
      BY <1>11
    <3>2. dev.packet # "memcpy"
      BY <1>1, <1>12, <3>1 DEF DeviceSound, Known, Loose
    <3>3. at \notin {"askPath", "operate"}
      BY <3>1 DEF Settled
    <3> QED
      BY <1>5, <1>6, <3>2, <3>3
  <2>8. (~strict \/ (Reading' /\ ~Pending')) = ~strict
    BY <2>4
  <2>9. PathEnds(strict, Phase(strict)) =
            [at |-> Settled(at, dev.left), open |-> ~strict,
             packet |-> dev.packet, paths |-> p, size |-> dev.size,
             left |-> dev.left, room |-> Chunk, sources |-> Sizes]
    BY <1>15, <2>5 DEF PathEnds
  <2>10. Phase(strict)' =
            [at |-> Settled(at, dev.left), open |-> ~strict \/ (Reading' /\ ~Pending'),
             packet |-> dev.packet, paths |-> p, size |-> dev.size,
             left |-> dev.left, room |-> Chunk, sources |-> Sizes]
    BY <1>5, <1>7, <2>6 DEF Phase
  <2> QED
    BY <2>2, <2>8, <2>9, <2>10
<1>13. Loose /\ InStep(FALSE) /\ CardSound => CardSound'
  <2>1. SUFFICES ASSUME Loose
                 PROVE  CardSound'
    OBVIOUS
  <2>2. dev'.at \notin {"ready", "type", "truncate", "data", "write"}
    BY <1>5, <1>7
  <2>3. dev'.at # "askData"
    <3>1. dev.packet # "memcpy"
      BY <1>1, <2>1 DEF DeviceSound, Known, Loose
    <3> QED
      BY <1>6, <1>7, <3>1
  <2> QED
    BY <2>2, <2>3 DEF CardSound, ChunkSound
<1>14. dev'.at # "misled"
  BY <1>5, <1>7
<1> QED
  BY <1>2, <1>7, <1>9, <1>12, <1>13, <1>14, ReadingStep

LEMMA GetPathOn ==
  ASSUME LinkInvariant, GetPath
  PROVE  LinkInvariant'
BY PathCharOn, PathEndOn DEF GetPath, PathEnd

\* What is about to be misread contradicts that the device is in step.
LEMMA MisreadNot ==
  ASSUME LinkTypes, NEW strict \in BOOLEAN, InStep(strict), Misread
  PROVE  FALSE
<1>1. Reading /\ rx # <<>>
      /\ (Head(rx)[1] \in Expected[dev.at] =>
             dev.at = "type" /\ Head(rx)[2] \notin Known(dev.app))
  BY DEF Misread
<1> DEFINE q == Phase(strict)
           e == Head(rx)
<1>2. q.open /\ q.at = dev.at /\ OneMore(strict, Known(dev.app), q, e).at # "bad"
  BY <1>1, ReadAsSent
<1>3. q \in Phases
  BY PhaseTyped
<1>4. dev.at \in {"type", "args", "path", "data"}
  BY <1>1, ReadingIs
<1>5. OneMore(strict, Known(dev.app), q, e) = [q EXCEPT !.at = "bad"]
  <2>1. dev.at = "type" => ~(e[1] = "type" /\ e[2] \in Known(dev.app))
    BY <1>1, ReadingIs
  <2>2. dev.at = "args" => e[1] # "args"
    BY <1>1, ReadingIs
  <2>3. dev.at = "path" => e[1] # "char" /\ e[1] # "nul"
    BY <1>1, ReadingIs
  <2>4. dev.at = "data" => e[1] # "data"
    BY <1>1, ReadingIs
  <2> HIDE DEF q, e
  <2> QED
    BY <1>2, <1>4, <2>1, <2>2, <2>3, <2>4 DEF OneMore
<1> HIDE DEF q, e
<1> QED
  BY <1>2, <1>3, <1>5 DEF Phases

LEMMA MisreadOn ==
  ASSUME LinkInvariant, Misread
  PROVE  LinkInvariant'
<1>1. LinkTypes /\ DeviceSound /\ ClientSound
  BY DEF LinkInvariant
<1>2. /\ dev' = [dev EXCEPT !.at = "misled"] /\ rx' = Tail(rx) /\ rx # <<>> /\ Reading
      /\ UNCHANGED <<card, client, ready, offset, up, down, early, faults>>
  BY DEF Misread
<1>3. ~Strict /\ ~Loose
  BY <1>1, MisreadNot DEF LinkInvariant
<1>4. dev \in Devices
  BY <1>1 DEF LinkTypes
<1>5. /\ dev' \in Devices /\ dev'.app = dev.app /\ dev'.at = "misled" /\ dev'.packet = dev.packet
  BY <1>2, <1>4 DEF Devices, Locations
<1>6. LinkTypes'
  <2>1. rx \in Seq(Tokens)
    BY <1>1 DEF LinkTypes
  <2>2. rx' \in Seq(Tokens)
    BY <1>2, <2>1, HeadTailProperties
  <2> QED
    BY <1>1, <1>2, <1>5, <2>2 DEF LinkTypes
<1>7. ClientSound'
  BY <1>1, <1>2, <1>5, ClientOn
<1>8. DeviceSound'
  BY <1>1, <1>5 DEF DeviceSound
<1>9. ~Strict' /\ ~Loose'
  BY <1>2, <1>3, <1>5, ReadingIs DEF Strict, Loose
<1> QED
  BY <1>6, <1>7, <1>8, <1>9 DEF LinkInvariant

LEMMA ReceiveDataOn ==
  ASSUME LinkInvariant, ReceiveData
  PROVE  LinkInvariant'
<1> DEFINE unit == Head(rx)[2]
           goes == dev.left > 1 /\ (dev.packet = "memcpy" \/ Len(dev.buffer) + 1 < Chunk)
           at == IF goes THEN "data" ELSE IF dev.packet = "memcpy" THEN "operate" ELSE "write"
           more == Append(dev.buffer, unit)
<1>1. LinkTypes /\ DeviceSound
  BY DEF LinkInvariant
<1>2. /\ Reading /\ rx # <<>> /\ Head(rx)[1] = "data" /\ rx' = Tail(rx) /\ dev.at = "data"
      /\ UNCHANGED <<card, client, ready, offset, up, down, early, faults>>
  BY AcceptedIs DEF ReceiveData
<1>3. dev' = [dev EXCEPT !.buffer = more, !.left = dev.left - 1, !.at = at]
  BY DEF ReceiveData
<1>4. unit \in Nat /\ at \in Locations
  <2>1. rx \in Seq(Tokens)
    BY <1>1 DEF LinkTypes
  <2>2. Head(rx) \in Tokens
    BY <1>2, <2>1, HeadTailProperties
  <2> QED
    BY <1>2, <2>2, TokenKinds DEF Locations
<1>5. dev.buffer \in Seq(Nat) /\ Len(dev.buffer) \in Nat /\ dev.left \in Int /\ Chunk \in Nat \ {0}
  BY <1>1, DevFields, LinkAssumption DEF LinkAssumption
<1>6. /\ more \in Seq(Nat) /\ Len(more) = Len(dev.buffer) + 1
      /\ \A i \in 1 .. Len(dev.buffer) : more[i] = dev.buffer[i]
      /\ more[Len(dev.buffer) + 1] = unit
  BY <1>4, <1>5, AppendProperties
<1>15. at \in {"data", "operate", "write"} /\ (at = "data" => dev.left > 1)
       /\ (at = "data" <=> goes)
  OBVIOUS
<1>16. (at = "operate" => dev.packet = "memcpy") /\ (at = "write" => dev.packet # "memcpy")
  OBVIOUS
<1> HIDE DEF unit, at, more
<1>7. /\ dev' \in Devices /\ dev'.app = dev.app /\ dev'.at = at /\ dev'.packet = dev.packet
      /\ dev'.paths = dev.paths /\ dev'.size = dev.size /\ dev'.left = dev.left - 1
      /\ dev'.buffer = more /\ dev'.written = dev.written
      /\ dev'.cluster = dev.cluster /\ dev'.old = dev.old
  <2>1. dev \in Devices
    BY <1>1 DEF LinkTypes
  <2>2. dev' = [app |-> dev.app, at |-> at, packet |-> dev.packet, size |-> dev.size,
                paths |-> dev.paths, left |-> dev.left - 1, buffer |-> more,
                written |-> dev.written, cluster |-> dev.cluster, old |-> dev.old]
    BY <1>3, <2>1 DEF Devices
  <2>3. dev.left - 1 \in Int
    BY <1>5
  <2>4. dev' \in Devices
    BY <1>1, <1>4, <1>6, <2>2, <2>3, DevFields, DevOf
  <2> QED
    BY <2>2, <2>4
<1>8. dev.packet \in {"create", "memcpy"} /\ dev.packet \in Known(dev.app) \cup {"none"}
      /\ Held = dev.buffer
  BY <1>1, <1>2 DEF DeviceSound, Held
<1>17. dev.packet = "create" =>
          dev.left > 0 /\ dev.written + Len(dev.buffer) = dev.size - dev.left
          /\ dev.written <= Len(card)
  BY <1>1, <1>2, <1>8 DEF DeviceSound
<1>10. dev.packet = "create" => Held' = more
  BY <1>7, <1>8, <1>15, <1>16 DEF Held
<1>18. dev.written \in Nat /\ dev.size \in Nat
  BY <1>1, DevFields
<1>9. DeviceSound'
  <2>1. dev'.packet \in Known(dev'.app) \cup {"none"} /\ dev'.packet # "none"
    BY <1>7, <1>8
  <2>2. dev'.at \in {"data", "operate", "write"} /\ (dev'.at = "write" => dev'.packet = "create")
    BY <1>7, <1>8, <1>15, <1>16
  <2>3. ASSUME dev'.packet = "create"
        PROVE  /\ dev'.at # "operate"
               /\ dev'.at = "data" => dev'.left > 0
               /\ dev'.at = "write" => dev'.left >= 0
               /\ dev'.written + Len(Held') = dev'.size - dev'.left /\ dev'.written <= Len(card')
    <3>1. dev.packet = "create" /\ Held' = more
      BY <1>7, <1>10, <2>3
    <3>2. dev.left > 0 /\ dev.written + Len(dev.buffer) = dev.size - dev.left
          /\ dev.written <= Len(card)
      BY <1>17, <3>1
    <3>3. dev.written + Len(more) = dev.size - (dev.left - 1)
      <4>1. Len(more) = Len(dev.buffer) + 1 /\ Len(dev.buffer) \in Nat /\ dev.left \in Int
        BY <1>5, <1>6
      <4>2. dev.written + Len(dev.buffer) = dev.size - dev.left
        BY <3>2
      <4> QED
        BY SMTT(40), <1>18, <4>1, <4>2
    <3> QED
      BY <1>2, <1>5, <1>7, <1>15, <1>16, <3>1, <3>2, <3>3
  <2> QED
    BY <1>7, <1>8, <2>1, <2>2, <2>3 DEF DeviceSound
<1>11. ASSUME Loose
       PROVE  Sources' = Explaining(FALSE, [sources |-> Sources, size |-> dev.size,
                                            left |-> dev.left], unit)
  <2>1. dev.packet = "create"
    BY <1>8, <1>11 DEF Loose, Known
  <2> DEFINE b == Len(dev.buffer)
             w == dev.written
  <2>2. b \in Nat /\ w \in Nat /\ w + (b + 1) = dev.size - dev.left + 1
    BY <1>5, <1>17, <1>18, <2>1
  <2>3. Sources' = {a \in Sizes : /\ \A i \in 1 .. w : card[i] = UnitOf(a, i)
                                  /\ \A i \in 1 .. b + 1 : more[i] = UnitOf(a, w + i)}
    BY SMTT(40), <1>2, <1>6, <1>7, <1>10, <2>1 DEF Sources
  <2>4. Sources = {a \in Sizes : /\ \A i \in 1 .. w : card[i] = UnitOf(a, i)
                                 /\ \A i \in 1 .. b : dev.buffer[i] = UnitOf(a, w + i)}
    BY <1>8 DEF Sources
  <2>5. more[b + 1] = unit /\ \A i \in 1 .. b : more[i] = dev.buffer[i]
    BY <1>6
  <2> HIDE DEF b, w
  <2>6. ASSUME NEW a
        PROVE  (\A i \in 1 .. b + 1 : more[i] = UnitOf(a, w + i)) <=>
               (\A i \in 1 .. b : dev.buffer[i] = UnitOf(a, w + i))
               /\ unit = UnitOf(a, dev.size - dev.left + 1)
    <3>1. \A i \in 1 .. b + 1 : i \in 1 .. b \/ i = b + 1
      BY <2>2
    <3>2. b + 1 \in 1 .. b + 1 /\ \A i \in 1 .. b : i \in 1 .. b + 1
      BY <2>2
    <3> QED
      BY <2>2, <2>5, <3>1, <3>2
  <2>7. Explaining(FALSE, [sources |-> Sources, size |-> dev.size, left |-> dev.left], unit)
            = {a \in Sources : unit = UnitOf(a, dev.size - dev.left + 1)}
    BY DEF Explaining
  <2> QED
    BY <2>3, <2>4, <2>6, <2>7
<1>12. ASSUME NEW strict \in BOOLEAN, InStep(strict), ~strict => Loose
       PROVE  /\ Phase(strict)' = OneMore(strict, Known(dev.app), Phase(strict), Head(rx))
              /\ Explaining(strict, Phase(strict), unit) # {}
              /\ ~strict => Sources' = Explaining(strict, Phase(strict), unit)
  <2> DEFINE q == Phase(strict)
             expl == Explaining(strict, q, unit)
  <2>1. /\ q.open /\ (strict => ~Pending) /\ q.at = "data"
        /\ OneMore(strict, Known(dev.app), q, Head(rx)).at # "bad"
    BY <1>1, <1>2, <1>12, ReadAsSent
  <2>2. OneMore(strict, Known(dev.app), q, Head(rx)) = UnitRead(strict, q, unit)
    BY <1>2, <2>1 DEF OneMore, unit
  <2>3. expl # {}
    BY <2>1, <2>2 DEF UnitRead
  <2>5. /\ q.packet = dev.packet /\ q.paths = dev.paths
        /\ q.size = dev.size /\ q.left = dev.left
        /\ q.room = Chunk - Len(dev.buffer)
        /\ q.sources = IF strict THEN Sizes ELSE Sources
    BY <1>2, PhaseIs DEF Settled
  <2> HIDE DEF q
  <2>6. ~strict => Sources' = expl
    <3>1. SUFFICES ASSUME ~strict
                   PROVE  Sources' = expl
      OBVIOUS
    <3>2. strict = FALSE /\ Loose
      BY <3>1, <1>12
    <3> QED
      BY <1>11, <2>5, <3>2 DEF Explaining
  <2>7. strict => expl = Sizes
    BY <2>5 DEF Explaining
  <2>8. ChunkEnds(q) <=> ~goes
    BY <1>5, <2>5 DEF ChunkEnds
  <2>9. Reading' = goes
    BY <1>7, <1>15 DEF Reading, Expected
  <2>10. Pending' = Pending
    BY <1>2, HearingOn
  <2>11. Settled(at, dev.left - 1) = IF dev.left > 1 THEN "data" ELSE "type"
    <3>1. at = "operate" => ~(dev.left > 1)
      BY <1>15, <1>16, <1>5
    <3>2. dev.left - 1 > 0 <=> dev.left > 1
      BY <1>5
    <3> QED
      BY <1>15, <3>1, <3>2 DEF Settled
  <2>12. (~strict \/ (Reading' /\ ~Pending')) = (~ChunkEnds(q) \/ ~strict)
    BY <2>1, <2>8, <2>9, <2>10
  <2> HIDE DEF expl
  <2>13. UnitRead(strict, q, unit) =
             [at |-> Settled(at, dev.left - 1), open |-> ~ChunkEnds(q) \/ ~strict,
              packet |-> dev.packet, paths |-> dev.paths, size |-> dev.size,
              left |-> dev.left - 1,
              room |-> IF ChunkEnds(q) THEN Chunk ELSE (Chunk - Len(dev.buffer)) - 1,
              sources |-> IF dev.left > 1 THEN expl ELSE Sizes]
    BY <2>3, <2>5, <2>11 DEF UnitRead, expl
  <2>14. (IF at = "data" THEN Chunk - Len(more) ELSE Chunk)
             = IF ChunkEnds(q) THEN Chunk ELSE (Chunk - Len(dev.buffer)) - 1
    BY <1>5, <1>6, <1>15, <2>8
  <2>15. (IF ~strict /\ Settled(at, dev.left - 1) = "data" THEN Sources' ELSE Sizes)
             = IF dev.left > 1 THEN expl ELSE Sizes
    BY <2>6, <2>7, <2>11
  <2>16. Phase(strict)' =
             [at |-> Settled(at, dev.left - 1), open |-> ~strict \/ (Reading' /\ ~Pending'),
              packet |-> dev.packet, paths |-> dev.paths, size |-> dev.size,
              left |-> dev.left - 1,
              room |-> IF at = "data" THEN Chunk - Len(more) ELSE Chunk,
              sources |-> IF ~strict /\ Settled(at, dev.left - 1) = "data" THEN Sources'
                          ELSE Sizes]
    BY <1>7 DEF Phase
  <2>17. Phase(strict)' = UnitRead(strict, q, unit)
    BY <2>12, <2>13, <2>14, <2>15, <2>16
  <2> QED
    BY <2>2, <2>3, <2>6, <2>17 DEF q, expl
<1>13. Loose /\ InStep(FALSE) /\ CardSound => CardSound'
  <2>1. SUFFICES ASSUME Loose, InStep(FALSE), CardSound
                 PROVE  CardSound'
    OBVIOUS
  <2>2. Sources' # {}
    BY <1>12, <2>1
  <2>3. dev'.at \in {"data", "write", "operate"}
    BY <1>7, <1>15
  <2>4. ASSUME dev'.packet = "create"
        PROVE  ChunkSound' /\ InPlace'
    <3>1. dev.packet = "create" /\ ChunkSound /\ InPlace
      BY <1>2, <1>7, <2>1, <2>4 DEF CardSound
    <3>2. Len(dev.buffer) < Chunk /\ dev.left > 0
      BY <1>2, <1>17, <3>1 DEF ChunkSound
    <3>3. InPlace'
      BY <1>2, <1>7, <3>1 DEF InPlace
    <3>4. goes => Len(more) < Chunk
      BY <1>5, <1>6, <3>1
    <3>5. ~goes => Len(more) > 0 /\ Len(more) <= Chunk /\ (dev.left - 1 > 0 => Len(more) = Chunk)
      BY <1>5, <1>6, <3>1, <3>2
    <3>6. ChunkSound'
      BY <1>7, <1>15, <3>4, <3>5 DEF ChunkSound
    <3> QED
      BY <3>3, <3>6
  <2> QED
    BY <2>2, <2>3, <2>4 DEF CardSound
<1>14. dev'.at # "misled"
  BY <1>7, <1>15
<1> QED
  BY <1>2, <1>7, <1>9, <1>12, <1>13, <1>14, ReadingStep

-----------------------------------------------------------------------------
(* The device does something between two reads.                             *)

LEMMA SaidTyped ==
  ASSUME LinkTypes, NEW text \in Seq(Letters), down' = down \o text
  PROVE  down' \in Seq(Letters)
<1>1. down \in Seq(Letters)
  BY DEF LinkTypes
<1> QED
  BY <1>1, ConcatProperties

LEMMA NotPending ==
  ASSUME WordsRight, ~Reading
  PROVE  ~Pending
BY DEF WordsRight

\* Where nothing is said, nothing more is heard.
LEMMA QuietStep ==
  ASSUME WordsRight, ~Reading, UNCHANGED <<down, ready, offset>>
  PROVE  WordsRight'
<1>1. Heard' = Heard /\ Pending' = Pending
  BY HearingOn
<1> QED
  BY <1>1, NotPending DEF WordsRight

LEMMA SendMagicWordOn ==
  ASSUME LinkInvariant, SendMagicWord
  PROVE  LinkInvariant'
<1> DEFINE at == CASE dev.at = "ready" -> "type" [] dev.at = "askPath" -> "path" [] OTHER -> "data"
<1>1. LinkTypes /\ DeviceSound
  BY DEF LinkInvariant
<1>2. /\ dev.at \in {"ready", "askPath", "askData"} /\ down' = down \o Magic
      /\ UNCHANGED <<card, client, ready, offset, up, rx, early, faults>>
  BY DEF SendMagicWord, Say
<1>3. dev' = [dev EXCEPT !.at = at, !.buffer = <<>>]
  BY DEF SendMagicWord
<1>4. /\ dev.at = "ready" => at = "type"
      /\ dev.at = "askPath" => at = "path"
      /\ dev.at = "askData" => at = "data"
      /\ at \in {"type", "path", "data"} /\ at \in Locations
  BY <1>2 DEF Locations
<1> HIDE DEF at
<1>5. <<>> \in Seq(Nat) /\ Len(<<>>) = 0
  OBVIOUS
<1>7. /\ dev' \in Devices /\ dev'.app = dev.app /\ dev'.at = at /\ dev'.packet = dev.packet
      /\ dev'.paths = dev.paths /\ dev'.size = dev.size /\ dev'.left = dev.left
      /\ dev'.buffer = <<>> /\ dev'.written = dev.written
      /\ dev'.cluster = dev.cluster /\ dev'.old = dev.old
  <2>1. dev \in Devices
    BY <1>1 DEF LinkTypes
  <2>2. dev' = [app |-> dev.app, at |-> at, packet |-> dev.packet, size |-> dev.size,
                paths |-> dev.paths, left |-> dev.left, buffer |-> <<>>,
                written |-> dev.written, cluster |-> dev.cluster, old |-> dev.old]
    BY <1>3, <2>1 DEF Devices
  <2>4. dev' \in Devices
    BY <1>1, <1>4, <1>5, <2>2, DevFields, DevOf
  <2> QED
    BY <2>2, <2>4
<1>8. ~Reading /\ Reading'
  BY <1>2, <1>4, <1>7 DEF Reading, Expected
<1>9. Held = <<>> /\ Held' = <<>>
  BY <1>2, <1>4, <1>7 DEF Held
<1>10. Sources' = Sources
  BY <1>2, <1>7, <1>9 DEF Sources
<1>11. DeviceSound'
  BY <1>1, <1>2, <1>4, <1>7, <1>9 DEF DeviceSound
<1>12. down' \in Seq(Letters)
  BY <1>1, <1>2, SaidTyped, MagicHeard
<1>13. Settled(at, dev.left) = Settled(dev.at, dev.left)
  BY <1>2, <1>4 DEF Settled
<1>14. ASSUME NEW strict \in BOOLEAN, strict => Pending'
       PROVE  Phase(strict)' = Phase(strict)
  <2>1. (~strict \/ (Reading' /\ ~Pending')) = (~strict \/ (Reading /\ ~Pending))
    BY <1>8, <1>14
  <2>2. (IF dev'.at = "data" THEN Chunk - Len(dev'.buffer) ELSE Chunk)
            = (IF dev.at = "data" THEN Chunk - Len(dev.buffer) ELSE Chunk)
    BY <1>2, <1>5, <1>7, LinkAssumption DEF LinkAssumption
  <2> QED
    BY <1>7, <1>10, <1>13, <2>1, <2>2 DEF Phase
<1>15. WordsRight => WordsRight' /\ Phase(TRUE)' = Phase(TRUE)
  <2>1. SUFFICES ASSUME WordsRight
                 PROVE  WordsRight' /\ Phase(TRUE)' = Phase(TRUE)
    OBVIOUS
  <2>2. ~Pending
    BY <1>8, <2>1, NotPending
  <2>3. WordsRight' /\ Pending'
    BY <1>1, <1>2, <1>8, <2>1, <2>2, SaidReady
  <2> QED
    BY <1>14, <2>3
<1>16. CardSound => CardSound' /\ Phase(FALSE)' = Phase(FALSE)
  <2>1. CardSound => CardSound'
    <3>1. CardSound => (dev'.packet = "create" => ChunkSound')
      BY <1>4, <1>5, <1>7, LinkAssumption DEF LinkAssumption, ChunkSound
    <3>2. InPlace => InPlace'
      BY <1>2, <1>7 DEF InPlace
    <3>3. dev'.at = "data" => dev.at = "askData"
      BY <1>2, <1>4, <1>7
    <3> QED
      BY <1>2, <1>4, <1>7, <1>9, <1>10, <3>1, <3>2, <3>3 DEF CardSound, FileIsSource
  <2> QED
    BY <1>14, <2>1
<1>17. dev'.at # "misled" /\ dev.at # "left" /\ card' \in Seq(Int)
  BY <1>1, <1>2, <1>4, <1>7 DEF LinkTypes
<1> QED
  BY <1>2, <1>7, <1>8, <1>11, <1>12, <1>15, <1>16, <1>17, WorkingStep

\* A packet ends with a text that no ready word is heard in.
LEMMA FinishOn ==
  ASSUME LinkInvariant, NEW text, Finish(text), Harmless(text \o Done),
         dev.at \in {"open", "write", "truncate", "operate"},
         UNCHANGED <<client, ready, offset, up, rx, early>>, faults \subseteq faults',
         card' \in Seq(Int), Strict' \/ Loose' => dev.at \in {"truncate", "operate"},
         Loose' /\ Loose /\ CardSound => CardSound'
  PROVE  LinkInvariant'
<1>1. LinkTypes /\ DeviceSound
  BY DEF LinkInvariant
<1>2. dev' = [dev EXCEPT !.at = "ready"] /\ down' = down \o (text \o Done)
  BY DEF Finish, Say
<1>7. /\ dev' \in Devices /\ dev'.app = dev.app /\ dev'.at = "ready" /\ dev'.packet = dev.packet
      /\ dev'.paths = dev.paths /\ dev'.size = dev.size /\ dev'.left = dev.left
      /\ dev'.buffer = dev.buffer /\ dev'.written = dev.written
  <2>1. dev \in Devices /\ "ready" \in Locations
    BY <1>1 DEF LinkTypes, Locations
  <2> QED
    BY <1>2, <2>1 DEF Devices
<1>8. ~Reading /\ ~Reading' /\ dev.at # "left" /\ dev'.at # "misled"
  BY <1>7 DEF Reading, Expected
<1>9. DeviceSound'
  BY <1>1, <1>7 DEF DeviceSound
<1>10. down' \in Seq(Letters)
  <2>1. text \o Done \in Seq(Letters)
    BY DEF Harmless
  <2> QED
    BY <1>1, <1>2, <2>1, SaidTyped
<1>11. ASSUME NEW strict \in BOOLEAN, dev.at \in {"truncate", "operate"}
       PROVE  Phase(strict)' = Phase(strict)
  <2>1. Settled(dev.at, dev.left) = "type" /\ Settled("ready", dev.left) = "type"
    BY <1>11 DEF Settled
  <2> QED
    BY <1>7, <1>8, <1>11, <2>1 DEF Phase
<1>12. WordsRight => WordsRight'
  <2>1. SUFFICES ASSUME WordsRight
                 PROVE  WordsRight'
    OBVIOUS
  <2>2. ~Pending
    BY <1>8, <2>1, NotPending
  <2>3. ready' = ready /\ offset' = offset
    OBVIOUS
  <2> QED
    BY <1>1, <1>2, <2>1, <2>2, <2>3, SaidQuietly
<1>13. Strict' /\ Strict /\ WordsRight => WordsRight' /\ Phase(TRUE)' = Phase(TRUE)
  BY <1>11, <1>12
<1>14. Loose' /\ Loose /\ CardSound => CardSound' /\ Phase(FALSE)' = Phase(FALSE)
  BY <1>11
<1> QED
  BY <1>7, <1>8, <1>9, <1>10, <1>13, <1>14, WorkingStep

LEMMA WiderSeq ==
  ASSUME NEW s \in Seq(Nat)
  PROVE  s \in Seq(Int)
<1>1. Len(s) \in Nat /\ s \in [1 .. Len(s) -> Nat]
  BY LenProperties
<1>2. s \in [1 .. Len(s) -> Int]
  BY <1>1
<1> QED
  BY <1>1, <1>2

LEMMA OverwrittenIs ==
  ASSUME NEW file \in Seq(Int), NEW length \in Nat, NEW from \in Int, NEW data \in Seq(Int)
  PROVE  LET all == Overwritten(file, length, from, data)
         IN  /\ all \in Seq(Int) /\ Len(all) = Larger(Len(file), length)
             /\ \A i \in 1 .. Larger(Len(file), length) :
                    all[i] = IF i \in from + 1 .. from + Len(data) THEN data[i - from]
                             ELSE IF i <= Len(file) THEN file[i] ELSE -1
<1> DEFINE n == Larger(Len(file), length)
           unit(i) == IF i \in from + 1 .. from + Len(data) THEN data[i - from]
                      ELSE IF i <= Len(file) THEN file[i] ELSE -1
<1>1. Len(file) \in Nat /\ Len(data) \in Nat /\ n \in Nat
  BY LenProperties DEF Larger
<1>2. /\ \A i \in 1 .. Len(file) : file[i] \in Int
      /\ \A i \in 1 .. Len(data) : data[i] \in Int
  BY ElementOfSeq
<1>3. ASSUME NEW i \in 1 .. n
      PROVE  unit(i) \in Int
  <2>1. i \in from + 1 .. from + Len(data) => i - from \in 1 .. Len(data)
    BY <1>1
  <2>2. i <= Len(file) => i \in 1 .. Len(file)
    BY <1>1
  <2> QED
    BY <1>2, <2>1, <2>2
<1>4. Overwritten(file, length, from, data) = [i \in 1 .. n |-> unit(i)]
  BY DEF Overwritten
<1> HIDE DEF n, unit
<1>5. [i \in 1 .. n |-> unit(i)] \in Seq(Int) /\ Len([i \in 1 .. n |-> unit(i)]) = n
  BY <1>1, <1>3
<1> QED
  BY <1>4, <1>5 DEF n, unit

\* A place at the end of a cluster is behind that cluster.
LEMMA EndOfCluster ==
  ASSUME NEW d \in Nat \ {0}, NEW w \in Nat, w % d = 0, NEW c \in Int,
         d * c < w, w <= d * (c + 1)
  PROVE  w = d * (c + 1)
<1> DEFINE k == w \div d
<1>1. k \in Nat /\ w = d * k
  BY ModOf
<1> HIDE DEF k
<1>2. k > c
  <2>1. SUFFICES ASSUME k <= c
                 PROVE  FALSE
    BY <1>1
  <2>2. c - k \in Nat /\ d * c = d * k + d * (c - k)
    BY <1>1, <2>1
  <2>3. d * (c - k) >= 0 /\ d * (c - k) \in Int /\ d * k \in Int
    BY <1>1, <2>2
  <2> QED
    BY <1>1, <2>2, <2>3
<1>3. k <= c + 1
  <2>1. SUFFICES ASSUME k >= c + 2
                 PROVE  FALSE
    BY <1>1
  <2>2. k - (c + 2) \in Nat /\ d * k = d * (c + 1) + d + d * (k - (c + 2))
    BY <1>1, <2>1
  <2>3. d * (k - (c + 2)) >= 0 /\ d * (k - (c + 2)) \in Int /\ d * (c + 1) \in Int
    BY <1>1, <2>2
  <2> QED
    BY <1>1, <2>2, <2>3
<1>4. k = c + 1
  BY <1>1, <1>2, <1>3
<1> QED
  BY <1>1, <1>4

LEMMA WithinCluster ==
  ASSUME NEW d \in Nat \ {0}, NEW n \in Nat \ {0}
  PROVE  LET c == (n - 1) \div d
         IN  c \in Nat /\ d * c < n /\ n <= d * (c + 1)
<1> DEFINE c == (n - 1) \div d
           r == (n - 1) % d
<1>1. c \in Nat /\ r \in 0 .. d - 1 /\ n - 1 = d * c + r
  <2>1. n - 1 \in Nat
    OBVIOUS
  <2> QED
    BY <2>1, ModOf
<1> HIDE DEF c, r
<1>2. d * (c + 1) = d * c + d /\ d * c \in Int
  BY <1>1
<1>3. d * c < n /\ n <= d * (c + 1)
  BY <1>1, <1>2
<1> QED
  BY <1>1, <1>3 DEF c

LEMMA ClustersForIs ==
  ASSUME NEW n \in Nat \ {0}, NEW c \in Int, ClusterSize * c < n, n <= ClusterSize * (c + 1)
  PROVE  ClustersFor(n) = c + 1
<1> DEFINE r == n - (ClusterSize * c) - 1
<1>1. ClusterSize \in Nat \ {0}
  BY LinkAssumption DEF LinkAssumption
<1>2. ClusterSize * (c + 1) = ClusterSize * c + ClusterSize /\ ClusterSize * c \in Int
  BY <1>1
<1>3. r \in 0 .. ClusterSize - 1 /\ n + ClusterSize - 1 = ClusterSize * (c + 1) + r
  BY <1>1, <1>2
<1> HIDE DEF r
<1>4. (ClusterSize * (c + 1) + r) \div ClusterSize = c + 1
  BY <1>1, <1>3, DivUnique
<1> QED
  BY <1>3, <1>4 DEF ClustersFor

LEMMA WholeClusters ==
  ASSUME NEW d \in Nat \ {0}, NEW m \in Nat, m % d = 0, NEW n \in Nat, n % d = 0
  PROVE  (m + n) % d = 0
<1> DEFINE p == m \div d
           q == n \div d
<1>1. p \in Nat /\ m = d * p /\ q \in Nat /\ n = d * q
  BY ModOf
<1> HIDE DEF p, q
<1>2. m + n = d * (p + q) + 0 /\ p + q \in Int /\ 0 \in 0 .. d - 1
  BY <1>1
<1>3. (d * (p + q) + 0) % d = 0
  BY <1>2, DivUnique
<1> QED
  BY <1>2, <1>3

\* The device after a file was opened.
FileOpened ==
  dev' = [dev EXCEPT !.at = IF dev.left > 0 THEN "askData" ELSE "truncate",
                     !.cluster = 0, !.old = Len(card)]

LEMMA OpenedOn ==
  ASSUME LinkInvariant, dev.at = "open", FileOpened,
         UNCHANGED <<down, faults, card, client, ready, offset, up, rx, early>>
  PROVE  LinkInvariant'
<1> DEFINE at == IF dev.left > 0 THEN "askData" ELSE "truncate"
           length == Len(card)
           start == 0
<1>1. LinkTypes /\ DeviceSound
  BY DEF LinkInvariant
<1>2. at \in {"askData", "truncate"} /\ at \in Locations
  BY DEF Locations
<1>3. dev.left \in Int /\ dev.size \in Nat /\ Len(card) \in Nat
  BY <1>1, DevFields
<1>4. /\ dev.packet = "create" /\ dev.written = 0 /\ dev.left = dev.size
      /\ dev.packet \in Known(dev.app) \cup {"none"}
  BY <1>1 DEF DeviceSound
<1>5. (at = "askData" <=> dev.left > 0) /\ (at = "truncate" => dev.left = 0)
  BY <1>3, <1>4
<1>6. Settled(at, dev.left) = Settled(dev.at, dev.left)
  BY <1>5 DEF Settled
<1>7. /\ dev' \in Devices /\ dev'.app = dev.app /\ dev'.at = at /\ dev'.packet = dev.packet
      /\ dev'.paths = dev.paths /\ dev'.size = dev.size /\ dev'.left = dev.left
      /\ dev'.buffer = dev.buffer /\ dev'.written = dev.written
      /\ dev'.cluster = 0 /\ dev'.old = Len(card)
  <2>1. dev \in Devices
    BY <1>1 DEF LinkTypes
  <2>2. dev' = [dev EXCEPT !.at = at, !.cluster = start, !.old = length]
    BY DEF FileOpened
  <2>5. length \in Nat /\ start \in Int
    BY <1>3
  <2> HIDE DEF at, length, start
  <2>3. dev' = [app |-> dev.app, at |-> at, packet |-> dev.packet, size |-> dev.size,
                paths |-> dev.paths, left |-> dev.left, buffer |-> dev.buffer,
                written |-> dev.written, cluster |-> start, old |-> length]
    BY <2>1, <2>2 DEF Devices
  <2>4. dev' \in Devices
    BY <1>1, <1>2, <2>3, <2>5, DevFields, DevOf
  <2>6. /\ dev'.app = dev.app /\ dev'.at = at /\ dev'.packet = dev.packet
        /\ dev'.paths = dev.paths /\ dev'.size = dev.size /\ dev'.left = dev.left
        /\ dev'.buffer = dev.buffer /\ dev'.written = dev.written
        /\ dev'.cluster = start /\ dev'.old = length
    BY <2>3
  <2> QED
    BY <2>4, <2>6 DEF start, length
<1> HIDE DEF at
<1>8. Held = <<>> /\ Held' = <<>> /\ Len(<<>>) = 0
  BY <1>2, <1>7 DEF Held
<1>9. Sources' = Sources
  BY <1>7, <1>8 DEF Sources
<1>10. DeviceSound'
  BY <1>2, <1>3, <1>4, <1>5, <1>7, <1>8 DEF DeviceSound
<1>11. ~Reading /\ ~Reading' /\ dev.at # "left" /\ dev'.at # "misled"
  BY <1>2, <1>7 DEF Reading, Expected
<1>12. ASSUME NEW strict \in BOOLEAN
       PROVE  Phase(strict)' = Phase(strict)
  BY <1>2, <1>6, <1>7, <1>9, <1>11 DEF Phase
<1>13. WordsRight => WordsRight'
  BY <1>11, QuietStep
<1>14. CardSound'
  BY <1>2, <1>4, <1>7, <1>8 DEF CardSound, ChunkSound, InPlace
<1>15. card' \in Seq(Int) /\ down' \in Seq(Letters) /\ faults \subseteq faults'
  BY <1>1 DEF LinkTypes
<1> QED
  BY <1>7, <1>10, <1>11, <1>12, <1>13, <1>14, <1>15, WorkingStep

LEMMA OpenFileOn ==
  ASSUME LinkInvariant, OpenFile
  PROVE  LinkInvariant'
<1>1. dev.at = "open" /\ UNCHANGED <<card, client, ready, offset, up, rx, early>>
  BY DEF OpenFile
<1>2. CASE FileOpened /\ UNCHANGED <<down, faults>>
  BY <1>1, <1>2, OpenedOn
<1>3. CASE Finish(Message) /\ faults' = faults \cup {"open"}
  <2>1. ~Strict' /\ ~Loose'
    BY <1>3 DEF Strict, Loose
  <2>2. card' \in Seq(Int)
    BY <1>1 DEF LinkInvariant, LinkTypes
  <2> QED
    BY <1>1, <1>3, <2>1, <2>2, HarmlessTexts, FinishOn
<1> QED
  BY <1>2, <1>3 DEF OpenFile, FileOpened

\* Where a write puts the first of its units.
WritePlace == ClusterSize * WriteCluster + (dev.written % ClusterSize)

FileWritten ==
  /\ card' = Overwritten(card, dev.written + Len(dev.buffer), WritePlace, dev.buffer)
  /\ dev' = [dev EXCEPT !.written = @ + Len(dev.buffer),
                        !.cluster = (WritePlace + Len(dev.buffer) - 1) \div ClusterSize,
                        !.at = IF dev.left > 0 THEN "askData" ELSE "truncate"]
  /\ faults' = IF dev.written > 0 /\ dev.old > Chunk THEN faults \cup {"overlong"} ELSE faults
  /\ UNCHANGED down

LEMMA PlaceTyped ==
  ASSUME LinkTypes
  PROVE  WritePlace \in Int /\ ClusterSize \in Nat \ {0}
<1>1. dev.cluster \in Int /\ dev.written \in Nat /\ ClusterSize \in Nat \ {0}
  BY DevFields, LinkAssumption DEF LinkAssumption
<1>2. WriteCluster \in Int
  BY <1>1 DEF WriteCluster
<1>3. ClusterSize * WriteCluster \in Int /\ dev.written % ClusterSize \in Nat
  BY <1>1, <1>2, ModOf
<1> QED
  BY <1>1, <1>3 DEF WritePlace

\* A chunk is written behind the one before it, unless the file had been longer
\* than a chunk.
LEMMA WrittenInPlace ==
  ASSUME LinkTypes, DeviceSound, dev.at = "write", ChunkSound, InPlace,
         dev.written > 0 => dev.old <= Chunk
  PROVE  WritePlace = dev.written /\ (dev.written > 0 => Len(card) = dev.written)
<1>1. /\ dev.cluster \in Int /\ dev.written \in Nat /\ ClusterSize \in Nat \ {0}
      /\ dev.size \in Nat /\ dev.left \in Int /\ Len(dev.buffer) \in Nat
  BY DevFields, LinkAssumption DEF LinkAssumption
<1>2. CASE dev.written = 0
  <2>1. WriteCluster = 0
    BY <1>2 DEF InPlace, WriteCluster
  <2>2. 0 % ClusterSize = 0 /\ ClusterSize * 0 = 0
    BY <1>1
  <2> QED
    BY <1>2, <2>1, <2>2 DEF WritePlace
<1>3. CASE dev.written # 0
  <2>1. Held = dev.buffer
    BY DEF Held
  <2>2. dev.written + Len(dev.buffer) = dev.size - dev.left /\ dev.left >= 0
        /\ Len(dev.buffer) > 0
    BY <2>1 DEF DeviceSound, ChunkSound
  <2>3. dev.written > 0 /\ dev.written < dev.size
    BY <1>1, <1>3, <2>2
  <2>4. /\ dev.written % ClusterSize = 0 /\ Len(card) = dev.written
        /\ ClusterSize * dev.cluster < dev.written
        /\ dev.written <= ClusterSize * (dev.cluster + 1)
    BY <2>3 DEF InPlace
  <2>5. dev.written = ClusterSize * (dev.cluster + 1)
    BY <1>1, <2>4, EndOfCluster
  <2>6. WriteCluster = dev.cluster + 1
    BY <1>3, <2>4 DEF WriteCluster
  <2>7. WritePlace = ClusterSize * (dev.cluster + 1) + 0
    BY <2>4, <2>6 DEF WritePlace
  <2> QED
    BY <1>1, <2>4, <2>5, <2>7
<1> QED
  BY <1>2, <1>3

LEMMA FileWrittenOn ==
  ASSUME LinkInvariant, dev.at = "write", FileWritten,
         UNCHANGED <<client, ready, offset, up, rx, early>>
  PROVE  LinkInvariant'
<1> DEFINE at == IF dev.left > 0 THEN "askData" ELSE "truncate"
           b == Len(dev.buffer)
           w == dev.written
           next == (WritePlace + b - 1) \div ClusterSize
           length == Larger(Len(card), w + b)
<1>1. LinkTypes /\ DeviceSound
  BY DEF LinkInvariant
<1>2. at \in {"askData", "truncate"} /\ at \in Locations
  BY DEF Locations
<1>3. /\ dev.left \in Int /\ dev.size \in Nat /\ Len(card) \in Nat /\ b \in Nat /\ w \in Nat
      /\ card \in Seq(Int) /\ dev.buffer \in Seq(Nat) /\ dev.old \in Nat
  BY <1>1, DevFields
<1>8. Held = dev.buffer
  BY DEF Held
<1>4. /\ dev.packet = "create" /\ dev.left >= 0 /\ w + b = dev.size - dev.left
      /\ w <= Len(card) /\ dev.packet \in Known(dev.app) \cup {"none"}
  BY <1>1, <1>8 DEF DeviceSound
<1>5. (at = "askData" <=> dev.left > 0) /\ (at = "truncate" => dev.left = 0)
  BY <1>3, <1>4
<1>6. Settled(at, dev.left) = Settled(dev.at, dev.left)
  BY <1>5 DEF Settled
<1>18. WritePlace \in Int /\ ClusterSize \in Nat \ {0} /\ next \in Int
  <2>1. WritePlace \in Int /\ ClusterSize \in Nat \ {0}
    BY <1>1, PlaceTyped
  <2>2. WritePlace + b - 1 \in Int
    BY <1>3, <2>1
  <2> QED
    BY <2>1, <2>2
<1>19. /\ length \in Nat /\ length >= Len(card) /\ length >= w + b
       /\ length = Len(card) \/ length = w + b
  BY <1>3 DEF Larger
<1>16. /\ card' \in Seq(Int) /\ Len(card') = length
       /\ \A i \in 1 .. length :
              card'[i] = IF i \in WritePlace + 1 .. WritePlace + b
                         THEN dev.buffer[i - WritePlace]
                         ELSE IF i <= Len(card) THEN card[i] ELSE -1
  <2>1. dev.buffer \in Seq(Int) /\ w + b \in Nat
    BY <1>3, WiderSeq
  <2>2. card' = Overwritten(card, w + b, WritePlace, dev.buffer)
    BY DEF FileWritten
  <2>3. card \in Seq(Int) /\ WritePlace \in Int
    BY <1>3, <1>18
  <2> DEFINE upto == w + b
             all == Overwritten(card, upto, WritePlace, dev.buffer)
  <2> HIDE DEF upto
  <2>4. /\ all \in Seq(Int) /\ Len(all) = Larger(Len(card), upto)
        /\ \A i \in 1 .. Larger(Len(card), upto) :
               all[i] = IF i \in WritePlace + 1 .. WritePlace + Len(dev.buffer)
                        THEN dev.buffer[i - WritePlace]
                        ELSE IF i <= Len(card) THEN card[i] ELSE -1
    <3>1. upto \in Nat
      BY <2>1 DEF upto
    <3> QED
      BY ZenonT(90), <2>1, <2>3, <3>1, OverwrittenIs
  <2>5. card' = all
    BY <2>2 DEF upto
  <2> HIDE DEF all
  <2> QED
    BY <2>4, <2>5 DEF upto
<1>7. /\ dev' \in Devices /\ dev'.app = dev.app /\ dev'.at = at /\ dev'.packet = dev.packet
      /\ dev'.paths = dev.paths /\ dev'.size = dev.size /\ dev'.left = dev.left
      /\ dev'.buffer = dev.buffer /\ dev'.written = w + b
      /\ dev'.cluster = next /\ dev'.old = dev.old
  <2>1. dev \in Devices
    BY <1>1 DEF LinkTypes
  <2>2. dev' = [dev EXCEPT !.written = w + b, !.cluster = next, !.at = at]
    BY DEF FileWritten
  <2> HIDE DEF at, next
  <2>3. dev' = [app |-> dev.app, at |-> at, packet |-> dev.packet, size |-> dev.size,
                paths |-> dev.paths, left |-> dev.left, buffer |-> dev.buffer,
                written |-> w + b, cluster |-> next, old |-> dev.old]
    BY <2>1, <2>2 DEF Devices
  <2>5. w + b \in Nat
    BY <1>3
  <2>4. dev' \in Devices
    BY <1>1, <1>2, <1>18, <2>3, <2>5, DevFields, DevOf
  <2> QED
    BY <2>3, <2>4
<1>20. next = (WritePlace + b - 1) \div ClusterSize
  OBVIOUS
<1> HIDE DEF at, next, length
<1>9. Held' = <<>> /\ Len(<<>>) = 0
  BY <1>2, <1>7 DEF Held
<1>21. ASSUME Loose', CardSound
       PROVE  /\ ChunkSound /\ InPlace /\ WritePlace = w /\ (w > 0 => Len(card) = w)
              /\ w > 0 => dev.old <= Chunk
  <2>1. ChunkSound /\ InPlace
    BY <1>4, <1>21 DEF CardSound
  <2>2. w > 0 => dev.old <= Chunk
    <3>1. SUFFICES ASSUME w > 0, dev.old > Chunk
                   PROVE  FALSE
      BY <1>3, LinkAssumption DEF LinkAssumption
    <3>2. "overlong" \in faults'
      BY <3>1 DEF FileWritten
    <3> QED
      BY <1>21, <3>2 DEF Loose
  <2> QED
    BY <1>1, <2>1, <2>2, WrittenInPlace
<1>10. ASSUME Loose', CardSound
       PROVE  Sources' = Sources
  <2>0. /\ \A i \in 1 .. w : card'[i] = card[i]
        /\ \A i \in 1 .. b : card'[w + i] = dev.buffer[i]
    <3>1. WritePlace = w
      BY <1>10, <1>21
    <3>4. w \in Nat /\ b \in Nat /\ length \in Nat /\ length >= w + b /\ w <= Len(card)
          /\ Len(card) \in Nat
      BY <1>3, <1>4, <1>19
    <3> HIDE DEF w, b
    <3>2. \A i \in 1 .. w : i \in 1 .. length /\ i \notin w + 1 .. w + b /\ i <= Len(card)
      BY <3>4
    <3>3. \A i \in 1 .. b : w + i \in 1 .. length /\ w + i \in w + 1 .. w + b /\ (w + i) - w = i
      BY <3>4
    <3> QED
      BY <1>16, <3>1, <3>2, <3>3
  <2>1. Sources' = {a \in Sizes : \A i \in 1 .. w + b : card'[i] = UnitOf(a, i)}
    <3>1. Sources' = {a \in Sizes :
                         /\ \A i \in 1 .. w + b : card'[i] = UnitOf(a, i)
                         /\ \A i \in 1 .. Len(<<>>) : Held'[i] = UnitOf(a, (w + b) + i)}
      BY <1>7, <1>9 DEF Sources
    <3>2. \A i \in 1 .. Len(<<>>) : FALSE
      BY <1>9
    <3> QED
      BY <3>1, <3>2
  <2>2. Sources = {a \in Sizes : /\ \A i \in 1 .. w : card[i] = UnitOf(a, i)
                                 /\ \A i \in 1 .. b : dev.buffer[i] = UnitOf(a, w + i)}
    BY <1>8 DEF Sources
  <2> HIDE DEF w, b
  <2>3. ASSUME NEW a
        PROVE  (\A i \in 1 .. w + b : card'[i] = UnitOf(a, i)) <=>
               /\ \A i \in 1 .. w : card[i] = UnitOf(a, i)
               /\ \A i \in 1 .. b : dev.buffer[i] = UnitOf(a, w + i)
    <3>1. ASSUME \A i \in 1 .. w + b : card'[i] = UnitOf(a, i)
          PROVE  /\ \A i \in 1 .. w : card[i] = UnitOf(a, i)
                 /\ \A i \in 1 .. b : dev.buffer[i] = UnitOf(a, w + i)
      <4>1. ASSUME NEW i \in 1 .. w
            PROVE  card[i] = UnitOf(a, i)
        <5>1. i \in 1 .. w + b
          BY <1>3
        <5> QED
          BY <2>0, <3>1, <5>1
      <4>2. ASSUME NEW i \in 1 .. b
            PROVE  dev.buffer[i] = UnitOf(a, w + i)
        <5>1. w + i \in 1 .. w + b
          BY <1>3
        <5> QED
          BY <2>0, <3>1, <5>1
      <4> QED
        BY <4>1, <4>2
    <3>2. ASSUME /\ \A i \in 1 .. w : card[i] = UnitOf(a, i)
                 /\ \A i \in 1 .. b : dev.buffer[i] = UnitOf(a, w + i),
                 NEW i \in 1 .. w + b
          PROVE  card'[i] = UnitOf(a, i)
      <4>1. CASE i <= w
        <5>1. i \in 1 .. w
          BY <1>3, <4>1
        <5> QED
          BY <2>0, <3>2, <5>1
      <4>2. CASE ~(i <= w)
        <5>1. i - w \in 1 .. b /\ w + (i - w) = i
          BY <1>3, <4>2
        <5>2. card'[w + (i - w)] = dev.buffer[i - w]
          BY <2>0, <5>1
        <5>3. dev.buffer[i - w] = UnitOf(a, w + (i - w))
          BY <3>2, <5>1
        <5> QED
          BY <5>1, <5>2, <5>3
      <4> QED
        BY <4>1, <4>2
    <3> QED
      BY <3>1, <3>2
  <2> QED
    BY <2>1, <2>2, <2>3
<1>11. DeviceSound'
  <2>1. dev'.written + Len(Held') = dev'.size - dev'.left
    BY <1>3, <1>4, <1>7, <1>9
  <2>2. dev'.written <= Len(card')
    BY <1>3, <1>7, <1>16, <1>19
  <2> QED
    BY <1>2, <1>4, <1>5, <1>7, <2>1, <2>2 DEF DeviceSound
<1>12. ~Reading /\ ~Reading' /\ dev.at # "left" /\ dev'.at # "misled"
  BY <1>2, <1>7 DEF Reading, Expected
<1>13. Phase(TRUE)' = Phase(TRUE)
  BY <1>2, <1>6, <1>7, <1>12 DEF Phase
<1>14. WordsRight => WordsRight'
  BY <1>12, QuietStep DEF FileWritten
<1>22. ASSUME Loose', CardSound
       PROVE  InPlace'
  <2>1. /\ ChunkSound /\ InPlace /\ WritePlace = w /\ (w > 0 => Len(card) = w)
        /\ w > 0 => dev.old <= Chunk
    BY <1>21, <1>22
  <2>2. Chunk \in Nat \ {0} /\ Chunk % ClusterSize = 0
    BY LinkAssumption DEF LinkAssumption
  <2>3. b > 0 /\ b <= Chunk /\ (dev.left > 0 => b = Chunk)
    BY <2>1 DEF ChunkSound
  <2>4. w + b \in Nat \ {0} /\ next = (w + b - 1) \div ClusterSize
    BY <1>3, <1>20, <2>1, <2>3
  <2>5. ClusterSize * next < w + b /\ w + b <= ClusterSize * (next + 1)
    <3> DEFINE n == w + b
    <3> HIDE DEF w, b
    <3>0. w \in Nat /\ b \in Nat
      BY <1>3
    <3>3. w + (b - 1) = (w + b) - 1
      BY <3>0
    <3>1. n \in Nat \ {0} /\ next = (n - 1) \div ClusterSize /\ ClusterSize \in Nat \ {0}
      BY <1>18, <2>4, <3>3
    <3> HIDE DEF n
    <3>2. ClusterSize * next < n /\ n <= ClusterSize * (next + 1)
      BY <3>1, WithinCluster
    <3> QED
      BY <3>2 DEF n
  <2>6. ASSUME w + b < dev.size
        PROVE  /\ (w + b) % ClusterSize = 0
               /\ dev.old <= Chunk => Len(card') = w + b
    <3>1. dev.left > 0 /\ b = Chunk
      BY <1>3, <1>4, <2>3, <2>6
    <3>2. w % ClusterSize = 0
      <4>1. CASE w = 0
        <5>1. 0 % ClusterSize = 0
          BY <1>18
        <5> QED
          BY <4>1, <5>1
      <4>2. CASE w # 0
        <5>1. w > 0 /\ w < dev.size
          BY <1>3, <2>3, <2>6, <4>2
        <5> QED
          BY <2>1, <5>1 DEF InPlace
      <4> QED
        BY <4>1, <4>2
    <3>3. (w + b) % ClusterSize = 0
      BY <1>3, <1>18, <2>2, <3>1, <3>2, WholeClusters
    <3>4. dev.old <= Chunk => Len(card) <= w + b
      <4>1. w = 0 => Len(card) = dev.old
        BY <2>1 DEF InPlace
      <4> QED
        BY <1>3, <2>1, <2>2, <3>1, <4>1
    <3>5. dev.old <= Chunk => length = w + b
      <4>1. /\ length \in Nat /\ Len(card) \in Nat /\ w \in Nat /\ b \in Nat
            /\ length >= w + b /\ (length = Len(card) \/ length = w + b)
        BY <1>3, <1>19
      <4> HIDE DEF w, b
      <4> QED
        BY <3>4, <4>1
    <3> QED
      BY <1>16, <3>3, <3>5
  <2>7. dev'.written > 0 /\ dev'.written # 0
    BY <1>7, <2>4
  <2> HIDE DEF w, b
  <2> QED
    BY <1>7, <2>5, <2>6, <2>7 DEF InPlace
<1>15. Loose' /\ CardSound => CardSound' /\ Phase(FALSE)' = Phase(FALSE)
  <2>0. SUFFICES ASSUME Loose', CardSound
                 PROVE  CardSound' /\ Phase(FALSE)' = Phase(FALSE)
    OBVIOUS
  <2>1. dev'.written + Len(Held') = dev.written + Len(Held)
    BY <1>3, <1>7, <1>8, <1>9
  <2>2. InPlace' /\ Sources' = Sources
    BY <1>10, <1>22, <2>0
  <2>3. Phase(FALSE)' = Phase(FALSE)
    BY <1>2, <1>6, <1>7, <1>12, <2>2 DEF Phase
  <2>4. ChunkSound'
    BY <1>2, <1>7 DEF ChunkSound
  <2> QED
    BY <1>2, <1>7, <2>0, <2>1, <2>2, <2>3, <2>4 DEF CardSound
<1>17. down' \in Seq(Letters) /\ faults \subseteq faults'
  BY <1>1 DEF LinkTypes, FileWritten
<1> QED
  BY <1>7, <1>11, <1>12, <1>13, <1>14, <1>15, <1>16, <1>17, WorkingStep

LEMMA WriteFileOn ==
  ASSUME LinkInvariant, WriteFile
  PROVE  LinkInvariant'
<1>1. dev.at = "write" /\ UNCHANGED <<client, ready, offset, up, rx, early>>
  BY DEF WriteFile
<1>2. CASE FileWritten
  BY <1>1, <1>2, FileWrittenOn
<1>3. CASE Finish(Message) /\ faults' = faults \cup {"write"} /\ UNCHANGED card
  <2>1. ~Strict' /\ ~Loose'
    BY <1>3 DEF Strict, Loose
  <2>2. card' \in Seq(Int)
    BY <1>3 DEF LinkInvariant, LinkTypes
  <2> QED
    BY <1>1, <1>3, <2>1, <2>2, HarmlessTexts, FinishOn
<1> QED
  BY <1>2, <1>3 DEF WriteFile, FileWritten, WritePlace

LEMMA TruncateFileOn ==
  ASSUME LinkInvariant, TruncateFile
  PROVE  LinkInvariant'
<1> DEFINE kept == Larger(1, dev.size)
           fails == /\ ClustersFor(Len(card)) > ClustersFor(kept)
                    /\ dev.cluster # ClustersFor(kept) - 1
<1>1. /\ dev.at = "truncate" /\ UNCHANGED <<client, ready, offset, up, rx, early, faults>>
      /\ card' = (IF Len(card) <= kept \/ fails THEN card ELSE SubSeq(card, 1, kept))
      /\ Finish(<<>>)
  BY DEF TruncateFile
<1>2. LinkTypes /\ DeviceSound
  BY DEF LinkInvariant
<1>3. /\ dev.size \in Nat /\ Len(card) \in Nat /\ dev.written \in Nat /\ card \in Seq(Int)
      /\ dev.cluster \in Int
  BY <1>2, DevFields
<1>4. Held = <<>> /\ Len(<<>>) = 0
  BY <1>1 DEF Held
<1>5. dev.written = dev.size /\ dev.size <= Len(card) /\ dev.packet = "create"
  BY <1>1, <1>2, <1>3, <1>4 DEF DeviceSound
<1>9. kept \in Nat \ {0} /\ (dev.size # 0 => kept = dev.size)
  BY <1>3 DEF Larger
<1> HIDE DEF kept
<1>6. /\ card' \in Seq(Int)
      /\ card' # card => Len(card') = kept /\ \A i \in 1 .. kept : card'[i] = card[i]
  <2>1. CASE card' = card
    BY <1>3, <2>1
  <2>2. CASE card' # card
    <3>1. card' = SubSeq(card, 1, kept) /\ ~(Len(card) <= kept)
      BY <1>1, <2>2
    <3>2. \A i \in 1 .. Len(card) : card[i] \in Int
      BY <1>3, ElementOfSeq
    <3>3. 1 \in Int /\ kept \in Int /\ \A i \in 1 .. kept : card[i] \in Int
      BY <1>3, <1>9, <3>1, <3>2
    <3>4. /\ card' \in Seq(Int) /\ Len(card') = IF 1 <= kept THEN kept - 1 + 1 ELSE 0
          /\ \A i \in 1 .. kept - 1 + 1 : card'[i] = card[1 + i - 1]
      BY <3>1, <3>3, SubSeqProperties
    <3> QED
      BY <1>9, <3>4
  <2> QED
    BY <2>1, <2>2
<1>7. dev'.size = dev.size /\ dev'.packet = dev.packet /\ dev'.written = dev.written
      /\ dev'.at = "ready"
  BY <1>1, <1>2 DEF Finish, LinkTypes, Devices
<1>8. CardSound => CardSound'
  <2>1. SUFFICES ASSUME CardSound, dev.written > 0
                 PROVE  FileIsSource'
    BY <1>7 DEF CardSound, ChunkSound
  <2>2. Sources # {} /\ InPlace
    BY <1>1, <1>3, <1>4, <1>5, <2>1 DEF CardSound
  <2>3. PICK a \in Sources : TRUE
    BY <2>2
  <2>4. a \in Sizes /\ \A i \in 1 .. dev.size : card[i] = UnitOf(a, i)
    BY <1>5, <2>3 DEF Sources
  <2>6. kept = dev.size /\ dev.size \in Nat \ {0}
    BY <1>3, <1>5, <1>9, <2>1
  <2>7. ~fails
    <3>1. ClusterSize * dev.cluster < dev.size /\ dev.size <= ClusterSize * (dev.cluster + 1)
      BY <1>5, <2>1, <2>2 DEF InPlace
    <3>2. ClustersFor(kept) = dev.cluster + 1
      BY <1>3, <2>6, <3>1, ClustersForIs
    <3> QED
      BY <1>3, <3>2
  <2> HIDE DEF fails
  <2>8. Len(card') = dev.size /\ \A i \in 1 .. dev.size : card'[i] = card[i]
    <3>1. CASE card' = card
      <4>1. Len(card) <= dev.size
        <5>1. SUFFICES ASSUME ~(Len(card) <= kept)
                       PROVE  FALSE
          BY <2>6
        <5>2. card = SubSeq(card, 1, kept)
          BY <1>1, <2>7, <3>1, <5>1
        <5>3. \A i \in 1 .. kept : card[i] \in Int
          <6>1. \A i \in 1 .. Len(card) : card[i] \in Int
            BY <1>3, ElementOfSeq
          <6> QED
            BY <1>3, <1>9, <5>1, <6>1
        <5>4. Len(SubSeq(card, 1, kept)) = IF 1 <= kept THEN kept - 1 + 1 ELSE 0
          BY <1>9, <5>3, SubSeqProperties
        <5>5. Len(card) = kept
          BY <1>9, <5>2, <5>4
        <5> QED
          BY <1>3, <5>1, <5>5
      <4> QED
        BY <1>3, <1>5, <3>1, <4>1
    <3>2. CASE card' # card
      BY <1>6, <2>6, <3>2
    <3> QED
      BY <3>1, <3>2
  <2>5. card' = [i \in 1 .. dev.size |-> UnitOf(a, i)]
    <3>1. \A i \in 1 .. dev.size : card'[i] = UnitOf(a, i)
      BY <2>4, <2>8
    <3>2. DOMAIN card' = 1 .. dev.size /\ card' = [i \in DOMAIN card' |-> card'[i]]
      <4>1. card' \in [1 .. Len(card') -> Int]
        BY <1>6, LenProperties
      <4> QED
        BY <2>8, <4>1
    <3> QED
      BY <3>1, <3>2
  <2> QED
    BY <1>7, <2>4, <2>5, <2>8 DEF FileIsSource
<1> QED
  BY <1>1, <1>6, <1>8, HarmlessTexts, FinishOn

LEMMA ChangeDirectoryOn ==
  ASSUME LinkInvariant, ChangeDirectory
  PROVE  LinkInvariant'
<1>1. /\ dev.at = "operate" /\ dev.packet \in {"rename", "delete", "list"}
      /\ UNCHANGED <<card, client, ready, offset, up, rx, early, faults>>
  BY DEF ChangeDirectory
<1>2. PICK text \in {<<>>, Message} : Finish(text)
  BY DEF ChangeDirectory
<1>3. Harmless(text \o Done)
  BY HarmlessTexts
<1>4. card' \in Seq(Int) /\ faults \subseteq faults'
  BY <1>1 DEF LinkInvariant, LinkTypes
<1>5. CardSound'
  <2>1. dev'.at = "ready" /\ dev'.packet = dev.packet
    BY <1>2 DEF Finish, LinkInvariant, LinkTypes, Devices
  <2> QED
    BY <1>1, <2>1 DEF CardSound, ChunkSound
<1> QED
  BY <1>1, <1>2, <1>3, <1>4, <1>5, FinishOn

LEMMA LeftOn ==
  ASSUME LinkInvariant, dev.at = "operate", dev' = [dev EXCEPT !.at = "left"],
         dev.packet \in {"section", "execute"},
         UNCHANGED <<card, client, ready, offset, up, rx, early>>, down' \in Seq(Letters)
  PROVE  LinkInvariant'
<1>1. LinkTypes /\ DeviceSound /\ ClientSound
  BY DEF LinkInvariant
<1>2. /\ dev' \in Devices /\ dev'.app = dev.app /\ dev'.at = "left" /\ dev'.packet = dev.packet
  <2>1. dev \in Devices /\ "left" \in Locations
    BY <1>1 DEF LinkTypes, Locations
  <2> QED
    BY <2>1 DEF Devices
<1>3. LinkTypes'
  BY <1>1, <1>2 DEF LinkTypes
<1>4. ClientSound'
  BY <1>1, <1>2, ClientOn
<1>5. DeviceSound'
  BY <1>1, <1>2 DEF DeviceSound
<1>6. ~Strict'
  BY <1>2 DEF Strict
<1>7. ~Loose'
  BY <1>1, <1>2 DEF Loose, DeviceSound, Known
<1> QED
  BY <1>3, <1>4, <1>5, <1>6, <1>7 DEF LinkInvariant

LEMMA ChangeMemoryOn ==
  ASSUME LinkInvariant, ChangeMemory
  PROVE  LinkInvariant'
<1>1. dev.at = "operate" /\ UNCHANGED <<card, client, ready, offset, up, rx, early>>
  BY DEF ChangeMemory
<1>2. card' \in Seq(Int) /\ LinkTypes /\ DeviceSound
  BY <1>1 DEF LinkInvariant, LinkTypes
<1>3. ASSUME NEW text \in {<<>>, Message}, Finish(text), UNCHANGED faults,
             dev.packet \in {"memcpy", "memset", "section"}
      PROVE  LinkInvariant'
  <2>1. Harmless(text \o Done)
    BY HarmlessTexts
  <2>2. CardSound'
    <3>1. dev'.at = "ready" /\ dev'.packet = dev.packet
      BY <1>2, <1>3 DEF Finish, LinkTypes, Devices
    <3> QED
      BY <1>3, <3>1 DEF CardSound, ChunkSound
  <2> QED
    BY <1>1, <1>2, <1>3, <2>1, <2>2, FinishOn
<1>4. CASE dev.packet \in {"memcpy", "memset"} /\ Finish(Message) /\ UNCHANGED faults
  BY <1>3, <1>4
<1>5. CASE dev.packet = "section" /\ Finish(<<>>) /\ UNCHANGED faults
  BY <1>3, <1>5
<1>6. CASE /\ dev.packet = "section"
           /\ dev' = [dev EXCEPT !.at = "left"] /\ Say(Message)
           /\ faults' = faults \cup {"section"}
  <2>1. down' = down \o Message /\ Message \in Seq(Letters)
    BY <1>6, HarmlessTexts DEF Say, Harmless
  <2>2. down' \in Seq(Letters)
    BY <1>2, <2>1, SaidTyped
  <2> QED
    BY <1>1, <1>6, <2>2, LeftOn
<1>7. CASE /\ dev.packet = "execute"
           /\ dev' = [dev EXCEPT !.at = "left"] /\ UNCHANGED <<down, faults>>
  <2>1. down' \in Seq(Letters)
    BY <1>2, <1>7 DEF LinkTypes
  <2> QED
    BY <1>1, <1>7, <2>1, LeftOn
<1> QED
  BY <1>4, <1>5, <1>6, <1>7 DEF ChangeMemory

LEMMA DeviceOn ==
  ASSUME LinkInvariant, Device
  PROVE  LinkInvariant'
BY SendMagicWordOn, ParsePacketOn, ReadArgumentsOn, GetPathOn, ReceiveDataOn, MisreadOn,
   OpenFileOn, WriteFileOn, TruncateFileOn, ChangeDirectoryOn, ChangeMemoryOn DEF Device

-----------------------------------------------------------------------------
(* The line.                                                                *)

LEMMA MovedOn ==
  ASSUME NEW S, NEW s \in Seq(S), NEW u \in Seq(S), u # <<>>
  PROVE  /\ Append(s, Head(u)) \in Seq(S) /\ Tail(u) \in Seq(S)
         /\ Append(s, Head(u)) \o Tail(u) = s \o u
<1>1. Head(u) \in S /\ Tail(u) \in Seq(S) /\ Head(u) = u[1]
  BY HeadTailProperties
<1>2. Append(s, Head(u)) \in Seq(S) /\ Append(s, Head(u)) = s \o <<Head(u)>>
  BY <1>1, AppendProperties, AppendIsConcat
<1>3. <<Head(u)>> \in Seq(S)
  BY <1>1
<1>4. u = <<Head(u)>> \o Tail(u)
  <2>1. Len(u) \in Nat \ {0}
    BY EmptySeq
  <2>2. SubSeq(u, 1, Len(u)) = <<u[1]>> \o SubSeq(u, 2, Len(u))
    <3>1. 1 \in 1 .. Len(u) /\ Len(u) \in 1 .. Len(u) /\ 1 + 1 = 2
      BY <2>1
    <3> QED
      BY <3>1, SubSeqRecursiveFirst
  <2>3. SubSeq(u, 1, Len(u)) = u /\ Tail(u) = SubSeq(u, 2, Len(u))
    BY SubSeqFull, TailIsSubSeq
  <2> QED
    BY <1>1, <2>2, <2>3
<1>5. (s \o <<Head(u)>>) \o Tail(u) = s \o (<<Head(u)>> \o Tail(u))
  BY <1>1, <1>3, ConcatAssociative
<1> QED
  BY <1>1, <1>2, <1>4, <1>5

\* The device and what it has been told are as before.
LEMMA DeviceStays ==
  ASSUME dev' = dev, card' = card
  PROVE  /\ Held' = Held /\ Sources' = Sources /\ Reading' = Reading
         /\ DeviceSound => DeviceSound'
         /\ CardSound => CardSound'
         /\ Phase(FALSE)' = Phase(FALSE)
         /\ Pending' = Pending => Phase(TRUE)' = Phase(TRUE)
<1>1. Held' = Held /\ Reading' = Reading
  BY DEF Held, Reading
<1>2. Sources' = Sources
  BY <1>1 DEF Sources
<1>3. DeviceSound => DeviceSound'
  BY <1>1 DEF DeviceSound
<1>4. CardSound => CardSound'
  BY <1>1, <1>2 DEF CardSound, FileIsSource, ChunkSound, InPlace
<1>5. Phase(FALSE)' = Phase(FALSE)
  BY <1>1, <1>2 DEF Phase
<1>6. Pending' = Pending => Phase(TRUE)' = Phase(TRUE)
  BY <1>1, <1>2 DEF Phase
<1> QED
  BY <1>1, <1>2, <1>3, <1>4, <1>5, <1>6

LEMMA ArriveOn ==
  ASSUME LinkInvariant, dev.at # "misled", Arrive
  PROVE  LinkInvariant'
<1>1. LinkTypes /\ DeviceSound /\ ClientSound
  BY DEF LinkInvariant
<1>2. /\ up # <<>> /\ (Len(rx) < Depth \/ ~Reading) /\ up' = Tail(up)
      /\ rx' = IF Len(rx) < Depth THEN Append(rx, Head(up)) ELSE rx
      /\ faults' = IF Len(rx) < Depth THEN faults ELSE faults \cup {"overrun"}
      /\ UNCHANGED <<dev, card, client, ready, offset, down, early>>
  BY DEF Arrive
<1>3. rx \in Seq(Tokens) /\ up \in Seq(Tokens)
  BY <1>1 DEF LinkTypes
<1>4. /\ Append(rx, Head(up)) \in Seq(Tokens) /\ Tail(up) \in Seq(Tokens)
      /\ Append(rx, Head(up)) \o Tail(up) = rx \o up
  BY <1>2, <1>3, MovedOn
<1>5. LinkTypes'
  BY <1>1, <1>2, <1>3, <1>4 DEF LinkTypes
<1>6. ClientSound' /\ DeviceSound'
  BY <1>1, <1>2, ClientOn, DeviceStays
<1>7. Heard' = Heard /\ Pending' = Pending /\ Reading' = Reading
  BY <1>2, HearingOn, DeviceStays
<1>8. ASSUME Len(rx) < Depth, NEW strict \in BOOLEAN, InStep(strict)
      PROVE  InStep(strict)'
  <2>1. Phase(strict)' = Phase(strict)
    BY <1>2, <1>7, DeviceStays
  <2>2. rx' \o up' = rx \o up
    BY <1>2, <1>4, <1>8
  <2>3. Reached(strict)' = Reached(strict)
    BY <1>2, <2>1, <2>2 DEF Reached
  <2> QED
    BY <1>2, <1>8, <2>3, InStepOn
<1>9. ASSUME Strict'
      PROVE  WordsRight' /\ InStep(TRUE)'
  <2>1. Strict
    BY <1>2, <1>9 DEF Strict
  <2>2. WordsRight /\ InStep(TRUE)
    BY <2>1 DEF LinkInvariant
  <2>3. Reading
    <3>1. rx \o up # <<>>
      <4>1. Len(rx) \in Nat /\ Len(up) \in Nat \ {0} /\ Len(rx \o up) = Len(rx) + Len(up)
        BY <1>2, <1>3, LenProperties, ConcatProperties, EmptySeq
      <4>2. Len(<<>>) = 0
        OBVIOUS
      <4> QED
        BY <4>1, <4>2
    <3> QED
      BY <1>1, <2>2, <3>1, AskedFor
  <2>4. InStep(TRUE)'
    BY <1>2, <1>8, <2>2, <2>3
  <2>5. WordsRight'
    BY <1>2, <1>7, <2>2 DEF WordsRight
  <2> QED
    BY <2>4, <2>5
<1>10. ASSUME Loose'
       PROVE  InStep(FALSE)' /\ CardSound'
  <2>1. Len(rx) < Depth /\ Loose
    BY <1>2, <1>10 DEF Loose
  <2>2. InStep(FALSE) /\ CardSound
    BY <2>1 DEF LinkInvariant
  <2> QED
    BY <1>2, <1>8, <2>1, <2>2, DeviceStays
<1> QED
  BY <1>5, <1>6, <1>9, <1>10 DEF LinkInvariant

LEMMA HandleUartInputOn ==
  ASSUME LinkInvariant, dev.at # "misled", HandleUartInput
  PROVE  LinkInvariant'
<1> DEFINE w == [offset |-> offset, ready |-> ready]
<1>1. LinkTypes /\ DeviceSound /\ ClientSound
  BY DEF LinkInvariant
<1>2. PICK n \in 1 .. Len(down) : /\ offset' = Heard[n].offset /\ ready' = Heard[n].ready
                                  /\ down' = SubSeq(down, n + 1, Len(down))
  BY DEF HandleUartInput, Heard
<1>3. UNCHANGED <<dev, card, client, up, rx, early, faults>>
  BY DEF HandleUartInput
<1>4. down \in Seq(Letters) /\ Len(down) \in Nat
  BY <1>1, HeardTyped DEF LinkTypes
<1>5. n \in Nat /\ n <= Len(down) /\ n \in 0 .. Len(down)
  BY <1>4
<1>6. Heard[n] \in HeardWords
  BY <1>1, <1>5, HeardTyped
<1>7. offset' \in 0 .. 2 /\ ready' \in BOOLEAN /\ Heard[n] = [offset |-> offset', ready |-> ready']
  BY <1>2, <1>6 DEF HeardWords
<1>8. /\ down' \in Seq(Letters) /\ Len(down') = Len(down) - n
      /\ \A i \in 1 .. Len(down') : down'[i] = down[n + i]
  <2>1. \A i \in 1 .. Len(down) : down[i] \in Letters
    BY <1>4, ElementOfSeq
  <2>2. n + 1 \in Int /\ Len(down) \in Int /\ \A i \in n + 1 .. Len(down) : down[i] \in Letters
    BY <1>4, <1>5, <2>1
  <2>3. /\ down' \in Seq(Letters)
        /\ Len(down') = IF n + 1 <= Len(down) THEN Len(down) - (n + 1) + 1 ELSE 0
        /\ \A i \in 1 .. Len(down) - (n + 1) + 1 : down'[i] = down[n + 1 + i - 1]
    BY <1>2, <2>2, SubSeqProperties
  <2>4. Len(down') = Len(down) - n /\ Len(down) - (n + 1) + 1 = Len(down) - n
    BY <1>4, <1>5, <2>3
  <2>5. \A i \in 1 .. Len(down') : n + 1 + i - 1 = n + i
    BY <1>5
  <2> QED
    BY <2>3, <2>4, <2>5
<1>9. \A k \in 0 .. Len(down') : Heard'[k] = Heard[n + k]
  <2> DEFINE s == down
             u == down'
             a == n
  <2>1. EndsAs(s, a, u)
    BY <1>4, <1>5, <1>8 DEF EndsAs
  <2>2. Heard = Hearing(w, s) /\ Heard' = Hearing(Heard[a], u)
    BY <1>7 DEF Heard
  <2> HIDE DEF s, u, w, a
  <2>3. ASSUME NEW k \in 0 .. Len(u)
        PROVE  Hearing(w, s)[a + k] = Hearing(Hearing(w, s)[a], u)[k]
    BY <2>1, HearingGoesOn
  <2> QED
    BY <2>2, <2>3 DEF u, a
<1>10. Pending' = Pending
  <2>1. Len(down') \in 0 .. Len(down') /\ n + Len(down') = Len(down)
    BY <1>4, <1>5, <1>8
  <2> QED
    BY <1>9, <2>1 DEF Pending
<1>11. WordsRight => WordsRight'
  <2>1. SUFFICES ASSUME WordsRight
                 PROVE  WordsRight'
    OBVIOUS
  <2>2. Heard'[Len(down')].offset = 0
    <3>1. Len(down') \in 0 .. Len(down') /\ n + Len(down') = Len(down)
      BY <1>4, <1>5, <1>8
    <3> QED
      BY <1>9, <2>1, <3>1 DEF WordsRight
  <2>3. ASSUME NEW k \in 0 .. Len(down') - 1
        PROVE  ~Heard'[k].ready
    <3>1. k \in 0 .. Len(down') /\ n + k \in 0 .. Len(down) - 1
      BY <1>4, <1>5, <1>8
    <3>2. Heard'[k] = Heard[n + k]
      BY <1>9, <3>1
    <3> QED
      BY <2>1, <3>1, <3>2 DEF WordsRight
  <2>4. Pending' => Reading'
    BY <1>3, <1>10, <2>1, DeviceStays DEF WordsRight
  <2> QED
    BY <2>2, <2>3, <2>4 DEF WordsRight
<1>12. LinkTypes'
  BY <1>1, <1>3, <1>7, <1>8 DEF LinkTypes
<1>13. ClientSound' /\ DeviceSound' /\ (CardSound => CardSound')
  BY <1>1, <1>3, ClientOn, DeviceStays
<1>14. ASSUME NEW strict \in BOOLEAN, InStep(strict)
       PROVE  InStep(strict)'
  <2>1. Phase(strict)' = Phase(strict)
    BY <1>3, <1>10, DeviceStays
  <2>2. Reached(strict)' = Reached(strict)
    BY <1>3, <2>1 DEF Reached
  <2> QED
    BY <1>3, <1>14, <2>2, InStepOn
<1>15. Strict' = Strict /\ Loose' = Loose
  BY <1>3 DEF Strict, Loose
<1> QED
  BY <1>11, <1>12, <1>13, <1>14, <1>15 DEF LinkInvariant

-----------------------------------------------------------------------------
(* The client: where its script is, and what has been sent when.            *)

LEMMA CommandFields ==
  ASSUME NEW c \in Commands
  PROVE  /\ c.name \in {"file_upload", "file_move", "singal_path_packet", "run_user_app",
                        "run_with_memset"}
         /\ c.app \in {"uartupld", "uartrun"} /\ c.size \in Nat /\ c.avail \in Nat
         /\ c.name = "file_upload" => c.app = "uartupld" /\ c.size \in Sizes /\ c.avail \in Sizes
         /\ c.name \in {"file_move", "singal_path_packet"} => c.app = "uartupld"
         /\ c.name \in {"run_user_app", "run_with_memset"} =>
               /\ c.app = "uartrun" /\ c.size > 0
               /\ c.size \in Sizes /\ c.avail \in Sizes
         /\ c # Idle
<1>1. Sizes \subseteq Nat
  BY LinkAssumption DEF LinkAssumption
<1>5. Idle.name = "none"
  BY DEF Idle
<1>2. CASE c \in [name : {"file_upload"}, app : {"uartupld"}, size : Sizes, avail : Sizes]
  <2>1. /\ c.name = "file_upload" /\ c.app = "uartupld" /\ c.size \in Sizes /\ c.avail \in Sizes
    BY <1>2
  <2> QED
    BY <1>1, <1>5, <2>1
<1>3. CASE c \in [name : {"file_move", "singal_path_packet"}, app : {"uartupld"},
                  size : {0}, avail : {0}]
  <2>1. /\ c.name \in {"file_move", "singal_path_packet"} /\ c.app = "uartupld"
        /\ c.size = 0 /\ c.avail = 0
    BY <1>3
  <2> QED
    BY <1>5, <2>1
<1>4. CASE c \in [name : {"run_user_app", "run_with_memset"}, app : {"uartrun"},
                  size : Sizes \ {0}, avail : Sizes \ {0}]
  <2>1. /\ c.name \in {"run_user_app", "run_with_memset"} /\ c.app = "uartrun"
        /\ c.size \in Sizes \ {0} /\ c.avail \in Sizes \ {0}
    BY <1>4
  <2>2. c.size \in Nat /\ c.size # 0 /\ c.avail \in Nat /\ c.size \in Sizes /\ c.avail \in Sizes
    BY <1>1, <2>1
  <2>3. c.size > 0 /\ c # Idle
    BY <1>5, <2>1, <2>2
  <2> QED
    BY <2>1, <2>2, <2>3
<1> QED
  BY <1>2, <1>3, <1>4 DEF Commands

LEMMA Scripts ==
  ASSUME NEW c \in Commands
  PROVE  /\ c.name = "file_upload" =>
               /\ Len(Script(c)) = 6
               /\ Script(c)[1] = Wait /\ Script(c)[2] = Send(Header("create", c.size))
               /\ Script(c)[3] = Wait /\ Script(c)[4] = Send(Path) /\ Script(c)[5] = Wait
               /\ Script(c)[6] = IF c.size = 0 THEN <<"raise">> ELSE <<"data", Chunk>>
         /\ c.name = "file_move" =>
               /\ Len(Script(c)) = 5
               /\ Script(c)[1] = Send(Packet("rename")) /\ Script(c)[2] = Wait
               /\ Script(c)[3] = Send(Path) /\ Script(c)[4] = Wait /\ Script(c)[5] = Send(Path)
         /\ c.name = "singal_path_packet" =>
               /\ Len(Script(c)) = 3
               /\ Script(c)[1] = Send(Packet("delete")) /\ Script(c)[2] = Wait
               /\ Script(c)[3] = Send(Path)
         /\ c.name = "run_with_memset" =>
               /\ Len(Script(c)) = 4
               /\ Script(c)[1] = Wait /\ Script(c)[2] = Send(Header("section", 0))
               /\ Script(c)[3] = Wait /\ Script(c)[4] = <<"raise">>
         /\ c.name = "run_user_app" =>
               /\ Len(Script(c)) = 10
               /\ Script(c)[1] = Wait /\ Script(c)[2] = Send(Header("section", 0))
               /\ Script(c)[3] = Wait /\ Script(c)[4] = Send(Header("memcpy", c.size))
               /\ Script(c)[5] = Wait /\ Script(c)[6] = <<"data", 0>>
               /\ Script(c)[7] = Wait /\ Script(c)[8] = Send(Header("section", 0))
               /\ Script(c)[9] = Wait /\ Script(c)[10] = Send(Header("execute", 0))
<1>1. CASE c.name = "file_upload"
  <2>1. Script(c) = UploadScript(c)
    BY <1>1 DEF Script
  <2> QED
    BY <1>1, <2>1 DEF UploadScript
<1>2. CASE c.name = "file_move"
  <2>1. Script(c) = MoveScript
    BY <1>2 DEF Script
  <2> QED
    BY <1>2, <2>1 DEF MoveScript
<1>3. CASE c.name = "singal_path_packet"
  <2>1. Script(c) = PathScript
    BY <1>3 DEF Script
  <2> QED
    BY <1>3, <2>1 DEF PathScript
<1>4. CASE c.name = "run_with_memset"
  <2>1. Script(c) = RunScript(c)
    BY <1>4 DEF Script
  <2> QED
    BY <1>4, <2>1 DEF RunScript
<1>5. CASE c.name = "run_user_app"
  <2>1. Script(c) = RunScript(c)
    BY <1>5 DEF Script
  <2>2. RunScript(c) =
            <<Wait, Send(Header("section", 0)), Wait, Send(Header("memcpy", c.size)), Wait,
              <<"data", 0>>, Wait, Send(Header("section", 0)), Wait, Send(Header("execute", 0))>>
    BY <1>5 DEF RunScript
  <2> QED
    BY <1>5, <2>1, <2>2
<1> QED
  BY <1>1, <1>2, <1>3, <1>4, <1>5, CommandFields

Kinds == {"wait", "send", "data", "raise", "none"}

\* The step that a client is at.
LEMMA Steps ==
  ASSUME NEW cl, NEW c \in Commands, NEW at \in 1 .. Len(Script(c)) + 1,
         cl.command = c, cl.at = at
  PROVE  /\ StepOf(cl)[1] \in Kinds
         /\ c.name = "file_upload" =>
               /\ at \in 1 .. 7
               /\ at \in {1, 3, 5} => StepOf(cl) = Wait
               /\ at = 2 => StepOf(cl) = Send(Header("create", c.size))
               /\ at = 4 => StepOf(cl) = Send(Path)
               /\ at = 6 => StepOf(cl) = IF c.size = 0 THEN <<"raise">> ELSE <<"data", Chunk>>
               /\ at = 7 => StepOf(cl) = <<"none">>
         /\ c.name = "file_move" =>
               /\ at \in 1 .. 6
               /\ at \in {2, 4} => StepOf(cl) = Wait
               /\ at = 1 => StepOf(cl) = Send(Packet("rename"))
               /\ at \in {3, 5} => StepOf(cl) = Send(Path)
               /\ at = 6 => StepOf(cl) = <<"none">>
         /\ c.name = "singal_path_packet" =>
               /\ at \in 1 .. 4
               /\ at = 1 => StepOf(cl) = Send(Packet("delete"))
               /\ at = 2 => StepOf(cl) = Wait
               /\ at = 3 => StepOf(cl) = Send(Path)
               /\ at = 4 => StepOf(cl) = <<"none">>
         /\ c.name = "run_with_memset" =>
               /\ at \in 1 .. 5
               /\ at \in {1, 3} => StepOf(cl) = Wait
               /\ at = 2 => StepOf(cl) = Send(Header("section", 0))
               /\ at = 4 => StepOf(cl) = <<"raise">>
               /\ at = 5 => StepOf(cl) = <<"none">>
         /\ c.name = "run_user_app" =>
               /\ at \in 1 .. 11
               /\ at \in {1, 3, 5, 7, 9} => StepOf(cl) = Wait
               /\ at \in {2, 8} => StepOf(cl) = Send(Header("section", 0))
               /\ at = 4 => StepOf(cl) = Send(Header("memcpy", c.size))
               /\ at = 6 => StepOf(cl) = <<"data", 0>>
               /\ at = 10 => StepOf(cl) = Send(Header("execute", 0))
               /\ at = 11 => StepOf(cl) = <<"none">>
<1> DEFINE step == StepOf(cl)
<1>1. c \in Commands /\ at \in 1 .. Len(Script(c)) + 1 /\ c # Idle
  BY CommandFields
<1>2. /\ at <= Len(Script(c)) => step = Script(c)[at]
      /\ ~(at <= Len(Script(c))) => step = <<"none">>
  BY <1>1 DEF StepOf
<1> HIDE DEF step
<1>3. CASE c.name = "file_upload"
  <2>1. at \in 1 .. 7 /\ Len(Script(c)) = 6
    <3>1. Len(Script(c)) = 6
      BY <1>1, <1>3, Scripts
    <3> QED
      BY <1>1, <3>1
  <2>2. /\ at \in {1, 3, 5} => step = Wait
        /\ at = 2 => step = Send(Header("create", c.size))
        /\ at = 4 => step = Send(Path)
        /\ at = 6 => step = IF c.size = 0 THEN <<"raise">> ELSE <<"data", Chunk>>
        /\ at = 7 => step = <<"none">>
    BY <1>1, <1>2, <1>3, <2>1, Scripts
  <2>3. step[1] \in Kinds
    BY <2>1, <2>2 DEF Kinds, Wait, Send
  <2> QED
    BY <1>1, <1>3, <2>1, <2>2, <2>3 DEF step
<1>4. CASE c.name = "file_move"
  <2>1. at \in 1 .. 6 /\ Len(Script(c)) = 5
    <3>1. Len(Script(c)) = 5
      BY <1>1, <1>4, Scripts
    <3> QED
      BY <1>1, <3>1
  <2>2. /\ at \in {2, 4} => step = Wait
        /\ at = 1 => step = Send(Packet("rename"))
        /\ at \in {3, 5} => step = Send(Path)
        /\ at = 6 => step = <<"none">>
    BY <1>1, <1>2, <1>4, <2>1, Scripts
  <2>3. step[1] \in Kinds
    BY <2>1, <2>2 DEF Kinds, Wait, Send
  <2> QED
    BY <1>1, <1>4, <2>1, <2>2, <2>3 DEF step
<1>5. CASE c.name = "singal_path_packet"
  <2>1. at \in 1 .. 4 /\ Len(Script(c)) = 3
    <3>1. Len(Script(c)) = 3
      BY <1>1, <1>5, Scripts
    <3> QED
      BY <1>1, <3>1
  <2>2. /\ at = 1 => step = Send(Packet("delete"))
        /\ at = 2 => step = Wait
        /\ at = 3 => step = Send(Path)
        /\ at = 4 => step = <<"none">>
    BY <1>1, <1>2, <1>5, <2>1, Scripts
  <2>3. step[1] \in Kinds
    BY <2>1, <2>2 DEF Kinds, Wait, Send
  <2> QED
    BY <1>1, <1>5, <2>1, <2>2, <2>3 DEF step
<1>6. CASE c.name = "run_with_memset"
  <2>1. at \in 1 .. 5 /\ Len(Script(c)) = 4
    <3>1. Len(Script(c)) = 4
      BY <1>1, <1>6, Scripts
    <3> QED
      BY <1>1, <3>1
  <2>2. /\ at \in {1, 3} => step = Wait
        /\ at = 2 => step = Send(Header("section", 0))
        /\ at = 4 => step = <<"raise">>
        /\ at = 5 => step = <<"none">>
    BY <1>1, <1>2, <1>6, <2>1, Scripts
  <2>3. step[1] \in Kinds
    BY <2>1, <2>2 DEF Kinds, Wait, Send
  <2> QED
    BY <1>1, <1>6, <2>1, <2>2, <2>3 DEF step
<1>7. CASE c.name = "run_user_app"
  <2>1. at \in 1 .. 11 /\ Len(Script(c)) = 10
    <3>1. Len(Script(c)) = 10
      BY <1>1, <1>7, Scripts
    <3> QED
      BY <1>1, <3>1
  <2>2. /\ at \in {1, 3, 5, 7, 9} => step = Wait
        /\ at \in {2, 8} => step = Send(Header("section", 0))
        /\ at = 4 => step = Send(Header("memcpy", c.size))
        /\ at = 6 => step = <<"data", 0>>
        /\ at = 10 => step = Send(Header("execute", 0))
        /\ at = 11 => step = <<"none">>
    BY <1>1, <1>2, <1>7, <2>1, Scripts
  <2>3. step[1] \in Kinds
    BY <2>1, <2>2 DEF Kinds, Wait, Send
  <2> QED
    BY <1>1, <1>7, <2>1, <2>2, <2>3 DEF step
<1> QED
  BY <1>1, <1>3, <1>4, <1>5, <1>6, <1>7, CommandFields

-----------------------------------------------------------------------------
(* The client's steps that leave what is on the line.                       *)

LEMMA StepIs == Step = StepOf(client)
BY DEF Step, StepOf

\* A client's fields, which its invariant relates.
LEMMA ClientFields ==
  ASSUME NEW cl \in Clients, NEW app, Sound(cl, app), cl.command # Idle
  PROVE  /\ cl.command \in Commands /\ cl.command.app = app
         /\ cl.command.avail <= cl.command.size
         /\ cl.at \in 1 .. Len(Script(cl.command)) + 1
         /\ cl.sent \in Nat /\ cl.sent <= cl.command.size
         /\ cl.due \in BOOLEAN
BY DEF Sound, Clients

\* Without a command nothing is expected of the device but the next packet's type.
LEMMA IdleFollows ==
  ASSUME NEW strict \in BOOLEAN, NEW q, NEW cl, Follows(strict, q, cl), StageOf(cl) = "type",
         NEW idle, idle.command = Idle
  PROVE  Follows(strict, q, idle)
<1>1. StageOf(idle) = "type" /\ StepOf(idle) = <<"none">>
  BY DEF StageOf, StepOf, Idle
<1>2. ~Sends(idle)
  BY <1>1 DEF Sends
<1> QED
  BY <1>1, <1>2 DEF Follows

\* Where a command ends, or raises, what the device reads next is a type.
LEMMA EndsAtType ==
  ASSUME NEW cl \in Clients, NEW app, Sound(cl, app), cl.command # Idle,
         StepOf(cl)[1] \in {"none", "raise"}
  PROVE  StageOf(cl) = "type"
<1> DEFINE c == cl.command
           at == cl.at
<1>1. c \in Commands /\ at \in 1 .. Len(Script(c)) + 1 /\ c.size \in Nat
  BY ClientFields, CommandFields
<1>2. StepOf(cl) # Wait /\ \A tokens : StepOf(cl) # Send(tokens)
  BY DEF Wait, Send
<1>3. \A n : StepOf(cl) # <<"data", n>>
  OBVIOUS
<1> HIDE DEF c, at
<1>4. cl.command = c /\ cl.at = at
  BY DEF c, at
<1>5. CASE c.name = "file_upload"
  <2>1. at \in 1 .. 7 /\ at \notin {1, 2, 3, 4, 5}
    BY <1>1, <1>2, <1>4, <1>5, Steps
  <2>2. at = 6 => c.size = 0
    BY <1>1, <1>3, <1>4, <1>5, Steps
  <2>3. at \notin 3 .. 4 /\ ~(at \in 5 .. 6 /\ c.size > 0)
    BY <1>1, <2>1, <2>2
  <2> QED
    BY <1>4, <1>5, <2>3 DEF StageOf
<1>6. CASE c.name = "file_move"
  <2>1. at \in 1 .. 6 /\ at \notin {1, 2, 3, 4, 5}
    BY <1>1, <1>2, <1>4, <1>6, Steps
  <2>2. at \notin 2 .. 5
    BY <1>1, <2>1
  <2> QED
    BY <1>4, <1>6, <2>2 DEF StageOf
<1>7. CASE c.name = "singal_path_packet"
  <2>1. at \in 1 .. 4 /\ at \notin {1, 2, 3}
    BY <1>1, <1>2, <1>4, <1>7, Steps
  <2>2. at \notin 2 .. 3
    BY <1>1, <2>1
  <2> QED
    BY <1>4, <1>7, <2>2 DEF StageOf
<1>8. CASE c.name = "run_with_memset"
  BY <1>4, <1>8 DEF StageOf
<1>9. CASE c.name = "run_user_app"
  <2>1. at \in 1 .. 11 /\ at \notin {5, 6}
    BY <1>1, <1>2, <1>3, <1>4, <1>9, Steps
  <2>2. at \notin 5 .. 6
    BY <1>1, <2>1
  <2> QED
    BY <1>4, <1>9, <2>2 DEF StageOf
<1> QED
  BY <1>1, <1>5, <1>6, <1>7, <1>8, <1>9, CommandFields

\* A command begins with a type, for which all but three wait.
LEMMA Begins ==
  ASSUME NEW c \in Commands, NEW app, c.app = app, c.avail <= c.size,
         NEW cl, cl = [command |-> c, at |-> 1, sent |-> 0, due |-> FALSE]
  PROVE  /\ cl \in Clients /\ Sound(cl, app) /\ StageOf(cl) = "type"
         /\ Script(c)[1][1] = "wait" => ~Sends(cl)
<1>1. cl.command = c /\ cl.at = 1 /\ cl.sent = 0 /\ ~cl.due /\ cl \in Clients
  BY DEF Clients
<1>2. c # Idle /\ c.size \in Nat
  BY CommandFields
<1>3. /\ Len(Script(c)) \in Nat /\ Len(Script(c)) >= 1
      /\ Script(c)[1][1] \in {"wait", "send"}
  <2>1. /\ Wait[1] = "wait" /\ \A tokens : Send(tokens)[1] = "send"
    BY DEF Wait, Send
  <2> QED
    BY <2>1, Scripts, CommandFields
<1>4. 1 \in 1 .. Len(Script(c)) + 1 /\ 1 <= Len(Script(c))
  BY <1>3
<1>5. StepOf(cl) = Script(c)[1]
  BY <1>1, <1>2, <1>4 DEF StepOf
<1>6. Sound(cl, app)
  BY <1>1, <1>2, <1>3, <1>4, <1>5 DEF Sound
<1>7. StageOf(cl) = "type"
  BY <1>1 DEF StageOf
<1>8. Script(c)[1][1] = "wait" => ~Sends(cl)
  BY <1>5 DEF Sends
<1> QED
  BY <1>1, <1>6, <1>7, <1>8

\* The client goes on, or stops, without a word to the device.
LEMMA SilentStep ==
  ASSUME LinkInvariant, UNCHANGED <<dev, card, ready, offset, up, rx, down>>,
         client' \in Clients, early' \in BOOLEAN, Sound(client', dev.app),
         Strict' => Strict, Loose' => Loose,
         Strict' /\ Follows(TRUE, Reached(TRUE), client) =>
             Follows(TRUE, Reached(TRUE), client'),
         Loose' /\ Follows(FALSE, Reached(FALSE), client) =>
             Follows(FALSE, Reached(FALSE), client')
  PROVE  LinkInvariant'
<1>1. LinkTypes /\ ClientSound /\ DeviceSound
  BY DEF LinkInvariant
<1>2. LinkTypes' /\ ClientSound'
  BY <1>1 DEF LinkTypes, ClientSound
<1>3. DeviceSound' /\ (CardSound => CardSound')
  BY <1>1 DEF DeviceSound, CardSound, ChunkSound, InPlace, FileIsSource,
         Sources, Held
<1>4. Heard' = Heard /\ Pending' = Pending
  BY HearingOn
<1>5. WordsRight => WordsRight'
  BY <1>4 DEF WordsRight, Reading
<1>6. ASSUME NEW strict \in BOOLEAN
      PROVE  Reached(strict)' = Reached(strict)
  <2>1. Phase(strict)' = Phase(strict)
    BY <1>4 DEF Phase, Reading, Sources, Held
  <2> QED
    BY <2>1 DEF Reached
<1>7. Strict' => WordsRight' /\ InStep(TRUE)'
  BY <1>5, <1>6 DEF LinkInvariant, InStep
<1>8. Loose' => InStep(FALSE)' /\ CardSound'
  BY <1>3, <1>6 DEF LinkInvariant, InStep
<1> QED
  BY <1>2, <1>3, <1>7, <1>8 DEF LinkInvariant

LEMMA StartCommandOn ==
  ASSUME LinkInvariant, NEW c \in Commands, StartCommand(c)
  PROVE  LinkInvariant'
<1>1. LinkTypes
  BY DEF LinkInvariant
<1>2. /\ client.command = Idle /\ c.app = dev.app /\ c.avail <= c.size
      /\ client' = [command |-> c, at |-> 1, sent |-> 0, due |-> FALSE]
      /\ early' = (early \/ Script(c)[1][1] # "wait")
      /\ UNCHANGED <<dev, card, ready, offset, up, rx, down, faults>>
  BY DEF StartCommand
<1>3. /\ client' \in Clients /\ Sound(client', dev.app) /\ StageOf(client') = "type"
      /\ Script(c)[1][1] = "wait" => ~Sends(client')
  BY <1>2, Begins
<1>4. StageOf(client) = "type"
  BY <1>2 DEF StageOf, Idle
<1>5. Strict' => Strict /\ ~Sends(client')
  BY <1>2, <1>3 DEF Strict
<1>6. Loose' => Loose
  BY <1>2 DEF Loose
<1>7. Strict' /\ Follows(TRUE, Reached(TRUE), client) => Follows(TRUE, Reached(TRUE), client')
  BY <1>3, <1>4, <1>5 DEF Follows
<1>8. Loose' /\ Follows(FALSE, Reached(FALSE), client) =>
          Follows(FALSE, Reached(FALSE), client')
  BY <1>3, <1>4 DEF Follows
<1>9. early' \in BOOLEAN
  BY <1>1, <1>2 DEF LinkTypes
<1> QED
  BY <1>2, <1>3, <1>5, <1>6, <1>7, <1>8, <1>9, SilentStep

LEMMA CommandStops ==
  ASSUME LinkInvariant, client.command # Idle,
         client' = [client EXCEPT !.command = Idle],
         UNCHANGED <<dev, card, ready, offset, up, rx, down, early>>, faults \subseteq faults',
         Strict' \/ Loose' => StepOf(client)[1] \in {"none", "raise"}
  PROVE  LinkInvariant'
<1>1. LinkTypes /\ ClientSound
  BY DEF LinkInvariant
<1>2. client \in Clients /\ early \in BOOLEAN /\ Sound(client, dev.app)
  BY <1>1 DEF LinkTypes, ClientSound
<1>3. client' \in Clients /\ client'.command = Idle
  BY <1>2 DEF Clients
<1>4. Sound(client', dev.app)
  BY <1>3 DEF Sound
<1>5. /\ Strict' => Strict
      /\ Loose' => Loose
  BY DEF Strict, Loose
<1>6. Strict' \/ Loose' => StageOf(client) = "type"
  BY <1>2, EndsAtType
<1>7. Strict' /\ Follows(TRUE, Reached(TRUE), client) => Follows(TRUE, Reached(TRUE), client')
  BY <1>3, <1>6, IdleFollows
<1>8. Loose' /\ Follows(FALSE, Reached(FALSE), client) =>
          Follows(FALSE, Reached(FALSE), client')
  BY <1>3, <1>6, IdleFollows
<1> QED
  BY <1>2, <1>3, <1>4, <1>5, <1>7, <1>8, SilentStep

LEMMA EndCommandOn ==
  ASSUME LinkInvariant, EndCommand
  PROVE  LinkInvariant'
BY StepIs, CommandStops DEF EndCommand

LEMMA CommandRaisesOn ==
  ASSUME LinkInvariant, CommandRaises
  PROVE  LinkInvariant'
<1>1. client.command # Idle
  BY DEF CommandRaises, Step
<1>2. faults \subseteq faults' /\ StepOf(client)[1] = "raise"
  BY StepIs DEF CommandRaises
<1> QED
  BY <1>1, <1>2, CommandStops DEF CommandRaises

LEMMA AbortCommandOn ==
  ASSUME LinkInvariant, AbortCommand
  PROVE  LinkInvariant'
<1>1. faults \subseteq faults' /\ ~Strict' /\ ~Loose'
  BY DEF AbortCommand, Strict, Loose
<1> QED
  BY <1>1, CommandStops DEF AbortCommand

-----------------------------------------------------------------------------
(* The client takes a ready word.                                           *)

\* Data is sent where a script has its sixth step, and only if there is some.
LEMMA DataAt ==
  ASSUME NEW c \in Commands, NEW cl, cl.command = c, cl.at \in 1 .. Len(Script(c)) + 1,
         StepOf(cl)[1] = "data"
  PROVE  /\ cl.at = 6 /\ StageOf(cl) = "data" /\ c.size > 0 /\ 6 <= Len(Script(c))
         /\ \/ c.name = "file_upload" /\ StepOf(cl) = <<"data", Chunk>>
            \/ c.name = "run_user_app" /\ StepOf(cl) = <<"data", 0>>
<1> DEFINE at == cl.at
<1>1. /\ StepOf(cl) # Wait /\ StepOf(cl) # <<"none">> /\ StepOf(cl) # <<"raise">>
      /\ \A tokens : StepOf(cl) # Send(tokens)
  BY DEF Wait, Send
<1>2. at \in 1 .. Len(Script(c)) + 1 /\ c.size \in Nat
  BY CommandFields
<1>3. cl.at = at
  OBVIOUS
<1> HIDE DEF at
<1>4. CASE c.name = "file_upload"
  <2>1. at \in 1 .. 7 /\ at \notin {1, 2, 3, 4, 5, 7}
    BY <1>1, <1>2, <1>3, <1>4, Steps
  <2>2. at = 6
    BY <2>1
  <2>3. StepOf(cl) = IF c.size = 0 THEN <<"raise">> ELSE <<"data", Chunk>>
    BY <1>2, <1>3, <1>4, <2>2, Steps
  <2>4. c.size > 0 /\ StepOf(cl) = <<"data", Chunk>>
    BY <1>1, <1>2, <2>3
  <2>5. StageOf(cl) = "data"
    BY <1>3, <1>4, <2>2, <2>4 DEF StageOf
  <2>6. Len(Script(c)) = 6
    BY <1>4, Scripts
  <2> QED
    BY <1>3, <1>4, <2>2, <2>4, <2>5, <2>6
<1>5. CASE c.name = "run_user_app"
  <2>1. at \in 1 .. 11 /\ at \notin {1, 2, 3, 4, 5, 7, 8, 9, 10, 11}
    BY <1>1, <1>2, <1>3, <1>5, Steps
  <2>2. at = 6
    BY <2>1
  <2>3. StepOf(cl) = <<"data", 0>> /\ c.size > 0
    BY <1>2, <1>3, <1>5, <2>2, Steps, CommandFields
  <2>4. StageOf(cl) = "data"
    BY <1>3, <1>5, <2>2 DEF StageOf
  <2>5. Len(Script(c)) = 10
    BY <1>5, Scripts
  <2> QED
    BY <1>3, <1>5, <2>2, <2>3, <2>4, <2>5
<1>6. CASE c.name = "file_move"
  <2>1. at \in 1 .. 6 /\ at \notin {1, 2, 3, 4, 5, 6}
    BY <1>1, <1>2, <1>3, <1>6, Steps
  <2> QED
    BY <2>1
<1>7. CASE c.name = "singal_path_packet"
  <2>1. at \in 1 .. 4 /\ at \notin {1, 2, 3, 4}
    BY <1>1, <1>2, <1>3, <1>7, Steps
  <2> QED
    BY <2>1
<1>8. CASE c.name = "run_with_memset"
  <2>1. at \in 1 .. 5 /\ at \notin {1, 2, 3, 4, 5}
    BY <1>1, <1>2, <1>3, <1>8, Steps
  <2> QED
    BY <2>1
<1> QED
  BY <1>4, <1>5, <1>6, <1>7, <1>8, CommandFields

\* A wait lies between two steps for which the device reads the same.
LEMMA WaitAt ==
  ASSUME NEW c \in Commands, NEW cl, cl.command = c, cl.at \in 1 .. Len(Script(c)) + 1,
         StepOf(cl) = Wait, NEW next, next.command = c, next.at = cl.at + 1
  PROVE  /\ cl.at <= Len(Script(c)) /\ StageOf(next) = StageOf(cl)
         /\ c.name = "file_move" => (cl.at < 4 <=> next.at < 4)
<1> DEFINE at == cl.at
<1>1. /\ StepOf(cl) # <<"none">> /\ StepOf(cl) # <<"raise">>
      /\ \A n : StepOf(cl) # <<"data", n>>
      /\ \A tokens : StepOf(cl) # Send(tokens)
  BY DEF Wait, Send
<1>2. at \in 1 .. Len(Script(c)) + 1 /\ c.size \in Nat
  BY CommandFields
<1>3. cl.at = at
  OBVIOUS
<1> HIDE DEF at
<1>4. CASE c.name = "file_upload"
  <2>1. at \in 1 .. 7 /\ at \notin {2, 4, 6, 7}
    BY <1>1, <1>2, <1>3, <1>4, Steps
  <2>2. at \in {1, 3, 5} /\ Len(Script(c)) = 6
    BY <1>4, <2>1, Scripts
  <2>3. /\ at \in 3 .. 4 <=> at + 1 \in 3 .. 4
        /\ at \in 5 .. 6 <=> at + 1 \in 5 .. 6
    BY <2>2
  <2>4. StageOf(next) = StageOf(cl)
    BY <1>3, <1>4, <2>3 DEF StageOf
  <2> QED
    BY <1>3, <1>4, <2>2, <2>4
<1>5. CASE c.name = "run_user_app"
  <2>1. at \in 1 .. 11 /\ at \notin {2, 4, 6, 8, 10, 11}
    BY <1>1, <1>2, <1>3, <1>5, Steps
  <2>2. at \in {1, 3, 5, 7, 9} /\ Len(Script(c)) = 10
    BY <1>5, <2>1, Scripts
  <2>3. at \in 5 .. 6 <=> at + 1 \in 5 .. 6
    BY <2>2
  <2>4. StageOf(next) = StageOf(cl)
    BY <1>3, <1>5, <2>3 DEF StageOf
  <2> QED
    BY <1>3, <1>5, <2>2, <2>4
<1>6. CASE c.name = "file_move"
  <2>1. at \in 1 .. 6 /\ at \notin {1, 3, 5, 6}
    BY <1>1, <1>2, <1>3, <1>6, Steps
  <2>2. at \in {2, 4} /\ Len(Script(c)) = 5
    BY <1>6, <2>1, Scripts
  <2>3. (at \in 2 .. 5 <=> at + 1 \in 2 .. 5) /\ (at < 4 <=> at + 1 < 4)
    BY <2>2
  <2>4. StageOf(next) = StageOf(cl)
    BY <1>3, <1>6, <2>3 DEF StageOf
  <2> QED
    BY <1>3, <1>6, <2>2, <2>3, <2>4
<1>7. CASE c.name = "singal_path_packet"
  <2>1. at \in 1 .. 4 /\ at \notin {1, 3, 4}
    BY <1>1, <1>2, <1>3, <1>7, Steps
  <2>2. at = 2 /\ Len(Script(c)) = 3
    BY <1>7, <2>1, Scripts
  <2>3. at \in 2 .. 3 <=> at + 1 \in 2 .. 3
    BY <2>2
  <2>4. StageOf(next) = StageOf(cl)
    BY <1>3, <1>7, <2>3 DEF StageOf
  <2> QED
    BY <1>3, <1>7, <2>2, <2>4
<1>8. CASE c.name = "run_with_memset"
  <2>1. at \in 1 .. 5 /\ at \notin {2, 4, 5}
    BY <1>1, <1>2, <1>3, <1>8, Steps
  <2>2. at \in {1, 3} /\ Len(Script(c)) = 4
    BY <1>8, <2>1, Scripts
  <2>3. StageOf(next) = StageOf(cl)
    BY <1>8 DEF StageOf
  <2> QED
    BY <1>3, <1>8, <2>2, <2>3
<1> QED
  BY <1>4, <1>5, <1>6, <1>7, <1>8, CommandFields

\* r is what q was, and the device has asked for more.
Opened(q, r) == /\ r.open
                /\ r.at = q.at /\ r.packet = q.packet /\ r.paths = q.paths /\ r.size = q.size
                /\ r.left = q.left /\ r.room = q.room /\ r.sources = q.sources

LEMMA WaitedOn ==
  ASSUME NEW cl \in Clients, NEW app, Sound(cl, app), cl.command # Idle,
         StepOf(cl)[1] = "wait" \/ (StepOf(cl)[1] = "data" /\ cl.due),
         NEW next, next = IF StepOf(cl)[1] = "wait" THEN [cl EXCEPT !.at = @ + 1]
                          ELSE [cl EXCEPT !.due = FALSE]
  PROVE  /\ next \in Clients /\ Sound(next, app)
         /\ \A strict \in BOOLEAN : \A q, r : Follows(strict, q, cl) /\ Opened(q, r) =>
               Follows(strict, r, next)
<1> DEFINE c == cl.command
<1>1. /\ c \in Commands /\ c.app = app /\ c.avail <= c.size
      /\ cl.at \in 1 .. Len(Script(c)) + 1 /\ cl.at \in Nat \ {0}
      /\ cl.sent \in Nat /\ cl.sent <= c.size /\ c.size \in Nat /\ cl.due \in BOOLEAN
      /\ Len(Script(c)) \in Nat
  <2>1. Len(Script(c)) \in Nat
    BY ClientFields, CommandFields, Scripts
  <2> QED
    BY <2>1, ClientFields, CommandFields DEF Clients
<1>2. cl.command = c /\ c # Idle
  OBVIOUS
<1>3. /\ cl.at <= 5 => cl.sent = 0
      /\ StepOf(cl)[1] # "data" => ~cl.due
      /\ StepOf(cl)[1] = "data" => cl.sent < c.size
  BY DEF Sound
<1> HIDE DEF c
<1>4. CASE StepOf(cl)[1] = "data" /\ cl.due
  <2>1. /\ next.command = c /\ next.at = cl.at /\ next.sent = cl.sent /\ ~next.due
        /\ next \in Clients
    BY <1>1, <1>2, <1>4 DEF Clients
  <2>2. StepOf(next) = StepOf(cl) /\ StageOf(next) = StageOf(cl) /\ StageOf(cl) = "data"
    BY <1>1, <1>2, <1>4, <2>1, DataAt DEF StepOf, StageOf
  <2>3. Sound(next, app)
    BY <1>1, <1>3, <1>4, <2>1, <2>2 DEF Sound
  <2>4. ASSUME NEW strict \in BOOLEAN, NEW q, NEW r, Follows(strict, q, cl), Opened(q, r)
        PROVE  Follows(strict, r, next)
    <3>1. DataFollow(q, cl) /\ q.at = "data"
      BY <2>2, <2>4 DEF Follows
    <3>2. DataFollow(r, next)
      BY <1>2, <2>1, <2>4, <3>1 DEF DataFollow, Opened
    <3> QED
      BY <2>2, <2>4, <3>1, <3>2 DEF Follows, Opened
  <2> QED
    BY <2>1, <2>3, <2>4
<1>5. CASE StepOf(cl)[1] = "wait"
  <2>1. /\ next.command = c /\ next.at = cl.at + 1 /\ next.sent = cl.sent /\ next.due = cl.due
        /\ next \in Clients
    BY <1>1, <1>2, <1>5 DEF Clients
  <2>2. StepOf(cl) = Wait
    <3>1. \A tokens : Send(tokens)[1] # "wait"
      BY DEF Send
    <3> DEFINE at == cl.at
    <3>2. at \in 1 .. Len(Script(c)) + 1 /\ cl.at = at
      BY <1>1
    <3> HIDE DEF at
    <3>4. CASE c.name = "file_upload"
      <4>1. at \in 1 .. 7 /\ at \notin {2, 4, 6, 7}
        BY SMTT(40), <1>1, <1>2, <1>5, <3>1, <3>2, <3>4, Steps
      <4>2. at \in {1, 3, 5}
        BY <4>1
      <4> QED
        BY <1>1, <1>2, <3>2, <3>4, <4>2, Steps
    <3>5. CASE c.name = "run_user_app"
      <4>1. at \in 1 .. 11 /\ at \notin {2, 8}
        BY <1>1, <1>2, <1>5, <3>1, <3>2, <3>5, Steps
      <4>2. at \notin {4, 10}
        BY <1>1, <1>2, <1>5, <3>1, <3>2, <3>5, Steps
      <4>3. at \notin {6, 11}
        BY <1>1, <1>2, <1>5, <3>1, <3>2, <3>5, Steps
      <4>4. at \in 1 .. 11 /\ at \notin {2, 4, 6, 8, 10, 11}
        BY <4>1, <4>2, <4>3
      <4>5. at \in {1, 3, 5, 7, 9}
        BY <4>4
      <4> QED
        BY <1>1, <1>2, <3>2, <3>5, <4>5, Steps
    <3>6. CASE c.name = "file_move"
      <4>1. at \in 1 .. 6 /\ at \notin {1, 3, 5, 6}
        BY <1>1, <1>2, <1>5, <3>1, <3>2, <3>6, Steps
      <4>2. at \in {2, 4}
        BY <4>1
      <4> QED
        BY <1>1, <1>2, <3>2, <3>6, <4>2, Steps
    <3>7. CASE c.name = "singal_path_packet"
      <4>1. at \in 1 .. 4 /\ at \notin {1, 3, 4}
        BY <1>1, <1>2, <1>5, <3>1, <3>2, <3>7, Steps
      <4>2. at = 2
        BY <4>1
      <4> QED
        BY <1>1, <1>2, <3>2, <3>7, <4>2, Steps
    <3>8. CASE c.name = "run_with_memset"
      <4>1. at \in 1 .. 5 /\ at \notin {2, 4, 5}
        BY <1>1, <1>2, <1>5, <3>1, <3>2, <3>8, Steps
      <4>2. at \in {1, 3}
        BY <4>1
      <4> QED
        BY <1>1, <1>2, <3>2, <3>8, <4>2, Steps
    <3> QED
      BY <1>1, <3>4, <3>5, <3>6, <3>7, <3>8, CommandFields
  <2>3. /\ cl.at <= Len(Script(c)) /\ StageOf(next) = StageOf(cl)
        /\ c.name = "file_move" => (cl.at < 4 <=> next.at < 4)
    BY <1>1, <1>2, <2>1, <2>2, WaitAt
  <2>4. next.at \in 1 .. Len(Script(c)) + 1 /\ ~next.due
    BY <1>1, <1>3, <1>5, <2>1, <2>3
  <2>5. StepOf(next)[1] = "data" => next.at = 6 /\ c.size > 0
    BY <1>1, <2>1, <2>4, DataAt
  <2>6. StepOf(next)[1] = "data" => next.sent < c.size
    BY <1>1, <1>3, <2>1, <2>5
  <2>7. next.at <= 5 => next.sent = 0
    BY <1>1, <1>3, <2>1
  <2>8. Sound(next, app)
    BY <1>1, <2>1, <2>4, <2>6, <2>7 DEF Sound
  <2>9. ASSUME NEW strict \in BOOLEAN, NEW q, NEW r, Follows(strict, q, cl), Opened(q, r)
        PROVE  Follows(strict, r, next)
    <3>1. r.at = StageOf(next) /\ r.open /\ r.at = q.at
          /\ (r.at # "data" => r.room = Chunk /\ r.sources = Sizes)
      BY <2>3, <2>9 DEF Follows, Opened
    <3>2. r.at = "data" => DataFollow(r, next)
      BY <1>2, <2>1, <2>9, <3>1 DEF DataFollow, Opened, Follows
    <3>3. r.at = "path" => PathFollows(r, next)
      BY <1>2, <2>1, <2>3, <2>9, <3>1 DEF PathFollows, Opened, Follows
    <3> QED
      BY <3>1, <3>2, <3>3 DEF Follows
  <2> QED
    BY <2>1, <2>8, <2>9
<1> QED
  BY <1>4, <1>5

LEMMA WaitForMagicWordOn ==
  ASSUME LinkInvariant, WaitForMagicWord
  PROVE  LinkInvariant'
<1>1. LinkTypes /\ ClientSound /\ DeviceSound
  BY DEF LinkInvariant
<1>2. /\ StepOf(client)[1] = "wait" \/ (StepOf(client)[1] = "data" /\ client.due)
      /\ client' = IF StepOf(client)[1] = "wait" THEN [client EXCEPT !.at = @ + 1]
                   ELSE [client EXCEPT !.due = FALSE]
      /\ ready /\ ~ready'
      /\ UNCHANGED <<dev, card, offset, up, rx, down, given, early, faults>>
  BY StepIs DEF WaitForMagicWord, Waiting
<1>3. client \in Clients /\ Sound(client, dev.app) /\ client.command # Idle
  <2>1. StepOf(client)[1] # "none"
    BY <1>2
  <2> QED
    BY <1>1, <2>1 DEF LinkTypes, ClientSound, StepOf
<1>4. /\ client' \in Clients /\ Sound(client', dev.app)
      /\ \A strict \in BOOLEAN : \A q, r : Follows(strict, q, client) /\ Opened(q, r) =>
            Follows(strict, r, client')
  BY <1>2, <1>3, WaitedOn
<1>5. LinkTypes' /\ ClientSound'
  <2>1. ready' \in BOOLEAN
    BY <1>2 DEF WaitForMagicWord
  <2> QED
    BY <1>1, <1>2, <1>4, <2>1 DEF LinkTypes, ClientSound
<1>6. DeviceSound' /\ (CardSound => CardSound')
  BY <1>1, <1>2 DEF DeviceSound, CardSound, ChunkSound, InPlace, FileIsSource,
         Sources, Held
<1>7. ASSUME Strict'
      PROVE  WordsRight' /\ InStep(TRUE)'
  <2>1. WordsRight /\ InStep(TRUE)
    BY <1>2, <1>7 DEF LinkInvariant, Strict
  <2>2. Heard[0] = [offset |-> offset, ready |-> ready] /\ Len(down) \in Nat
    BY <1>1, HeardTyped, HearingSteps DEF Heard
  <2>3. Len(down) = 0
    <3>1. Heard[0].ready
      BY <1>2, <2>2
    <3>2. 0 \notin 0 .. Len(down) - 1
      BY <2>1, <3>1 DEF WordsRight
    <3> QED
      BY <2>2, <3>2
  <2>4. Pending /\ Reading /\ offset = 0
    <3>1. Pending
      BY <1>2, <2>2, <2>3 DEF Pending
    <3>2. Heard[0].offset = 0
      BY <2>1, <2>3 DEF WordsRight
    <3> QED
      BY <2>1, <2>2, <3>1, <3>2 DEF WordsRight
  <2>5. rx \o up = <<>>
    BY <1>1, <2>1, <2>4, AskedFor
  <2>6. Heard'[0] = [offset |-> 0, ready |-> FALSE]
    <3>1. Heard' = Hearing([offset |-> 0, ready |-> FALSE], down)
      BY <1>2, <2>4 DEF Heard, WaitForMagicWord
    <3> QED
      BY <2>2, <3>1, HearingSteps
  <2>7. Len(down') = 0 /\ ~Pending' /\ WordsRight'
    <3>1. Len(down') = 0
      BY <1>2, <2>3
    <3>2. ~Pending'
      BY <2>6, <3>1 DEF Pending
    <3>3. 0 .. Len(down') - 1 = {}
      BY <3>1
    <3> QED
      BY <2>6, <3>1, <3>2, <3>3 DEF WordsRight
  <2>8. Opened(Phase(TRUE), Phase(TRUE)')
    <3>1. Reading'
      BY <1>2, <2>4 DEF Reading
    <3> QED
      BY <1>2, <2>7, <3>1 DEF Opened, Phase
  <2>9. Reached(TRUE) = Phase(TRUE) /\ Reached(TRUE)' = Phase(TRUE)'
    <3>1. Reached(TRUE) = Phase(TRUE)
      BY <2>5, RunNone DEF Reached
    <3>2. (rx \o up)' = <<>>
      BY <1>2, <2>5
    <3>3. Reached(TRUE)' = Phase(TRUE)'
      BY <3>2, RunNone DEF Reached
    <3> QED
      BY <3>1, <3>3
  <2>10. dev'.at # "misled" /\ Follows(TRUE, Reached(TRUE)', client')
    BY <1>2, <1>4, <2>1, <2>8, <2>9 DEF InStep
  <2> QED
    BY <2>7, <2>10 DEF InStep
<1>8. ASSUME Loose'
      PROVE  InStep(FALSE)' /\ CardSound'
  <2>1. CardSound /\ InStep(FALSE)
    BY <1>2, <1>8 DEF LinkInvariant, Loose
  <2>2. Reached(FALSE)' = Reached(FALSE)
    <3>1. Phase(FALSE)' = Phase(FALSE)
      BY <1>2 DEF Phase, Sources, Held
    <3> QED
      BY <1>2, <3>1 DEF Reached
  <2>3. Opened(Reached(FALSE), Reached(FALSE))
    BY <2>1 DEF Opened, InStep, Follows
  <2>4. dev'.at # "misled" /\ Follows(FALSE, Reached(FALSE), client')
    BY <1>2, <1>4, <2>1, <2>3 DEF InStep
  <2> QED
    BY <1>6, <2>1, <2>2, <2>4 DEF InStep
<1> QED
  BY <1>5, <1>6, <1>7, <1>8 DEF LinkInvariant

-----------------------------------------------------------------------------
(* The client sends a packet's header, its type or a path.                  *)

\* What a command sends where, and what the device reads then.
Sending(c, at, tokens, reads) ==
    \/ c.name = "file_upload" /\ at = 2 /\ tokens = Header("create", c.size)
       /\ reads = <<"type", "path">>
    \/ c.name = "file_upload" /\ at = 4 /\ tokens = Path
       /\ reads = <<"path", IF c.size > 0 THEN "data" ELSE "type">>
    \/ c.name = "file_move" /\ at = 1 /\ tokens = Packet("rename")
       /\ reads = <<"type", "path">>
    \/ c.name = "file_move" /\ at = 3 /\ tokens = Path
       /\ reads = <<"path", "path">>
    \/ c.name = "file_move" /\ at = 5 /\ tokens = Path
       /\ reads = <<"path", "type">>
    \/ c.name = "singal_path_packet" /\ at = 1 /\ tokens = Packet("delete")
       /\ reads = <<"type", "path">>
    \/ c.name = "singal_path_packet" /\ at = 3 /\ tokens = Path
       /\ reads = <<"path", "type">>
    \/ c.name = "run_with_memset" /\ at = 2 /\ tokens = Header("section", 0)
       /\ reads = <<"type", "type">>
    \/ c.name = "run_user_app" /\ at = 2 /\ tokens = Header("section", 0)
       /\ reads = <<"type", "type">>
    \/ c.name = "run_user_app" /\ at = 8 /\ tokens = Header("section", 0)
       /\ reads = <<"type", "type">>
    \/ c.name = "run_user_app" /\ at = 4 /\ tokens = Header("memcpy", c.size)
       /\ reads = <<"type", "data">>
    \/ c.name = "run_user_app" /\ at = 10 /\ tokens = Header("execute", 0)
       /\ reads = <<"type", "type">>

LEMMA SendAt ==
  ASSUME NEW c \in Commands, NEW cl, cl.command = c, cl.at \in 1 .. Len(Script(c)) + 1,
         StepOf(cl)[1] = "send", NEW next, next.command = c, next.at = cl.at + 1
  PROVE  /\ cl.at <= Len(Script(c)) /\ StepOf(next) \in {Wait, <<"none">>}
         /\ Sending(c, cl.at, StepOf(cl)[2], <<StageOf(cl), StageOf(next)>>)
<1> DEFINE at == cl.at
           on == at + 1
<1>1. /\ StepOf(cl) # Wait /\ StepOf(cl) # <<"none">> /\ StepOf(cl) # <<"raise">>
      /\ \A n : StepOf(cl) # <<"data", n>>
      /\ \A tokens : Send(tokens)[2] = tokens
  BY DEF Wait, Send
<1>2. at \in 1 .. Len(Script(c)) + 1 /\ c.size \in Nat /\ Len(Script(c)) \in Nat
  BY CommandFields, Scripts
<1>3. cl.at = at /\ next.at = on /\ on = at + 1
  OBVIOUS
<1> HIDE DEF at, on
<1>4. CASE c.name = "file_upload"
  <2>1. at \in 1 .. 7 /\ at \notin {1, 3, 5, 6, 7}
    <3>1. at \in 1 .. 7 /\ at \notin {1, 3}
      BY <1>1, <1>2, <1>3, <1>4, Steps
    <3>2. at \notin {5, 6, 7}
      BY <1>1, <1>2, <1>3, <1>4, Steps
    <3> QED
      BY <3>1, <3>2
  <2>2. Len(Script(c)) = 6 /\ (at = 2 \/ at = 4)
    BY <1>4, <2>1, Scripts
  <2>3. on \in 1 .. Len(Script(c)) + 1 /\ at <= Len(Script(c))
    BY <1>2, <1>3, <2>2
  <2>4. CASE at = 2
    <3>1. StepOf(cl) = Send(Header("create", c.size))
      BY <1>2, <1>3, <1>4, <2>4, Steps
    <3>2. on = 3
      BY <1>3, <2>4
    <3>3. StepOf(next) = Wait
      BY <1>2, <1>3, <1>4, <2>3, <3>2, Steps
    <3>4. StageOf(cl) = "type" /\ StageOf(next) = "path"
      BY <1>2, <1>3, <1>4, <2>4, <3>2 DEF StageOf
    <3> QED
      BY <1>1, <1>3, <1>4, <2>3, <2>4, <3>1, <3>3, <3>4 DEF Sending
  <2>5. CASE at = 4
    <3>1. StepOf(cl) = Send(Path)
      BY <1>2, <1>3, <1>4, <2>5, Steps
    <3>2. on = 5
      BY <1>3, <2>5
    <3>3. StepOf(next) = Wait
      BY <1>2, <1>3, <1>4, <2>3, <3>2, Steps
    <3>4. StageOf(cl) = "path" /\ StageOf(next) = IF c.size > 0 THEN "data" ELSE "type"
      BY <1>2, <1>3, <1>4, <2>5, <3>2 DEF StageOf
    <3> QED
      BY <1>1, <1>3, <1>4, <2>3, <2>5, <3>1, <3>3, <3>4 DEF Sending
  <2> QED
    BY <2>2, <2>4, <2>5
<1>5. CASE c.name = "file_move"
  <2>1. at \in 1 .. 6 /\ at \notin {2, 4, 6}
    BY <1>1, <1>2, <1>3, <1>5, Steps
  <2>2. Len(Script(c)) = 5 /\ (at = 1 \/ at = 3 \/ at = 5)
    BY <1>5, <2>1, Scripts
  <2>3. on \in 1 .. Len(Script(c)) + 1 /\ at <= Len(Script(c))
    BY <1>2, <1>3, <2>2
  <2>4. CASE at = 1
    <3>1. StepOf(cl) = Send(Packet("rename"))
      BY <1>2, <1>3, <1>5, <2>4, Steps
    <3>2. on = 2
      BY <1>3, <2>4
    <3>3. StepOf(next) = Wait
      BY <1>2, <1>3, <1>5, <2>3, <3>2, Steps
    <3>4. StageOf(cl) = "type" /\ StageOf(next) = "path"
      BY <1>2, <1>3, <1>5, <2>4, <3>2 DEF StageOf
    <3> QED
      BY <1>1, <1>3, <1>5, <2>3, <2>4, <3>1, <3>3, <3>4 DEF Sending
  <2>5. CASE at = 3
    <3>1. StepOf(cl) = Send(Path)
      BY <1>2, <1>3, <1>5, <2>5, Steps
    <3>2. on = 4
      BY <1>3, <2>5
    <3>3. StepOf(next) = Wait
      BY <1>2, <1>3, <1>5, <2>3, <3>2, Steps
    <3>4. StageOf(cl) = "path" /\ StageOf(next) = "path"
      BY <1>2, <1>3, <1>5, <2>5, <3>2 DEF StageOf
    <3> QED
      BY <1>1, <1>3, <1>5, <2>3, <2>5, <3>1, <3>3, <3>4 DEF Sending
  <2>6. CASE at = 5
    <3>1. StepOf(cl) = Send(Path)
      BY <1>2, <1>3, <1>5, <2>6, Steps
    <3>2. on = 6
      BY <1>3, <2>6
    <3>3. StepOf(next) = <<"none">>
      BY <1>2, <1>3, <1>5, <2>3, <3>2, Steps
    <3>4. StageOf(cl) = "path" /\ StageOf(next) = "type"
      BY <1>2, <1>3, <1>5, <2>6, <3>2 DEF StageOf
    <3> QED
      BY <1>1, <1>3, <1>5, <2>3, <2>6, <3>1, <3>3, <3>4 DEF Sending
  <2> QED
    BY <2>2, <2>4, <2>5, <2>6
<1>6. CASE c.name = "singal_path_packet"
  <2>1. at \in 1 .. 4 /\ at \notin {2, 4}
    BY <1>1, <1>2, <1>3, <1>6, Steps
  <2>2. Len(Script(c)) = 3 /\ (at = 1 \/ at = 3)
    BY <1>6, <2>1, Scripts
  <2>3. on \in 1 .. Len(Script(c)) + 1 /\ at <= Len(Script(c))
    BY <1>2, <1>3, <2>2
  <2>4. CASE at = 1
    <3>1. StepOf(cl) = Send(Packet("delete"))
      BY <1>2, <1>3, <1>6, <2>4, Steps
    <3>2. on = 2
      BY <1>3, <2>4
    <3>3. StepOf(next) = Wait
      BY <1>2, <1>3, <1>6, <2>3, <3>2, Steps
    <3>4. StageOf(cl) = "type" /\ StageOf(next) = "path"
      BY <1>2, <1>3, <1>6, <2>4, <3>2 DEF StageOf
    <3> QED
      BY <1>1, <1>3, <1>6, <2>3, <2>4, <3>1, <3>3, <3>4 DEF Sending
  <2>5. CASE at = 3
    <3>1. StepOf(cl) = Send(Path)
      BY <1>2, <1>3, <1>6, <2>5, Steps
    <3>2. on = 4
      BY <1>3, <2>5
    <3>3. StepOf(next) = <<"none">>
      BY <1>2, <1>3, <1>6, <2>3, <3>2, Steps
    <3>4. StageOf(cl) = "path" /\ StageOf(next) = "type"
      BY <1>2, <1>3, <1>6, <2>5, <3>2 DEF StageOf
    <3> QED
      BY <1>1, <1>3, <1>6, <2>3, <2>5, <3>1, <3>3, <3>4 DEF Sending
  <2> QED
    BY <2>2, <2>4, <2>5
<1>7. CASE c.name = "run_with_memset"
  <2>1. at \in 1 .. 5 /\ at \notin {1, 3, 4, 5}
    BY <1>1, <1>2, <1>3, <1>7, Steps
  <2>2. Len(Script(c)) = 4 /\ (at = 2)
    BY <1>7, <2>1, Scripts
  <2>3. on \in 1 .. Len(Script(c)) + 1 /\ at <= Len(Script(c))
    BY <1>2, <1>3, <2>2
  <2>4. CASE at = 2
    <3>1. StepOf(cl) = Send(Header("section", 0))
      BY <1>2, <1>3, <1>7, <2>4, Steps
    <3>2. on = 3
      BY <1>3, <2>4
    <3>3. StepOf(next) = Wait
      BY <1>2, <1>3, <1>7, <2>3, <3>2, Steps
    <3>4. StageOf(cl) = "type" /\ StageOf(next) = "type"
      BY <1>2, <1>3, <1>7, <2>4, <3>2 DEF StageOf
    <3> QED
      BY <1>1, <1>3, <1>7, <2>3, <2>4, <3>1, <3>3, <3>4 DEF Sending
  <2> QED
    BY <2>2, <2>4
<1>8. CASE c.name = "run_user_app"
  <2>1. at \in 1 .. 11 /\ at \notin {1, 3, 5, 6, 7, 9, 11}
    <3>1. at \in 1 .. 11 /\ at \notin {1, 3, 5}
      BY <1>1, <1>2, <1>3, <1>8, Steps
    <3>2. at \notin {6, 7, 9, 11}
      BY <1>1, <1>2, <1>3, <1>8, Steps
    <3> QED
      BY <3>1, <3>2
  <2>2. Len(Script(c)) = 10 /\ (at = 2 \/ at = 4 \/ at = 8 \/ at = 10)
    BY <1>8, <2>1, Scripts
  <2>3. on \in 1 .. Len(Script(c)) + 1 /\ at <= Len(Script(c))
    BY <1>2, <1>3, <2>2
  <2>4. CASE at = 2
    <3>1. StepOf(cl) = Send(Header("section", 0))
      BY <1>2, <1>3, <1>8, <2>4, Steps
    <3>2. on = 3
      BY <1>3, <2>4
    <3>3. StepOf(next) = Wait
      BY <1>2, <1>3, <1>8, <2>3, <3>2, Steps
    <3>4. StageOf(cl) = "type" /\ StageOf(next) = "type"
      BY <1>2, <1>3, <1>8, <2>4, <3>2 DEF StageOf
    <3> QED
      BY <1>1, <1>3, <1>8, <2>3, <2>4, <3>1, <3>3, <3>4 DEF Sending
  <2>5. CASE at = 8
    <3>1. StepOf(cl) = Send(Header("section", 0))
      BY <1>2, <1>3, <1>8, <2>5, Steps
    <3>2. on = 9
      BY <1>3, <2>5
    <3>3. StepOf(next) = Wait
      BY <1>2, <1>3, <1>8, <2>3, <3>2, Steps
    <3>4. StageOf(cl) = "type" /\ StageOf(next) = "type"
      BY <1>2, <1>3, <1>8, <2>5, <3>2 DEF StageOf
    <3> QED
      BY <1>1, <1>3, <1>8, <2>3, <2>5, <3>1, <3>3, <3>4 DEF Sending
  <2>6. CASE at = 4
    <3>1. StepOf(cl) = Send(Header("memcpy", c.size))
      BY <1>2, <1>3, <1>8, <2>6, Steps
    <3>2. on = 5
      BY <1>3, <2>6
    <3>3. StepOf(next) = Wait
      BY <1>2, <1>3, <1>8, <2>3, <3>2, Steps
    <3>4. StageOf(cl) = "type" /\ StageOf(next) = "data"
      BY <1>2, <1>3, <1>8, <2>6, <3>2 DEF StageOf
    <3> QED
      BY <1>1, <1>3, <1>8, <2>3, <2>6, <3>1, <3>3, <3>4 DEF Sending
  <2>7. CASE at = 10
    <3>1. StepOf(cl) = Send(Header("execute", 0))
      BY <1>2, <1>3, <1>8, <2>7, Steps
    <3>2. on = 11
      BY <1>3, <2>7
    <3>3. StepOf(next) = <<"none">>
      BY <1>2, <1>3, <1>8, <2>3, <3>2, Steps
    <3>4. StageOf(cl) = "type" /\ StageOf(next) = "type"
      BY <1>2, <1>3, <1>8, <2>7, <3>2 DEF StageOf
    <3> QED
      BY <1>1, <1>3, <1>8, <2>3, <2>7, <3>1, <3>3, <3>4 DEF Sending
  <2> QED
    BY <2>2, <2>4, <2>5, <2>6, <2>7
<1> QED
  BY <1>4, <1>5, <1>6, <1>7, <1>8, CommandFields

LEMMA HeaderSent ==
  ASSUME NEW strict \in BOOLEAN, NEW known, NEW q, q.open, q.at = "type",
         NEW packet \in known, packet \in HasArguments, NEW n \in Nat
  PROVE  Run(strict, known, q, Header(packet, n)) =
             [at |-> Settled(After(packet, Paths(packet)), n), open |-> ~strict,
              packet |-> packet, paths |-> Paths(packet), size |-> n, left |-> n,
              room |-> q.room, sources |-> q.sources]
<1> DEFINE r == PacketStarts(strict, q, packet)
           d == <<"type", packet>>
           e == <<"args", n>>
<1>1. Run(strict, known, q, <<d, e>>) =
          OneMore(strict, known, OneMore(strict, known, q, d), e)
  <2> DEFINE S == {d, e}
  <2>1. d \in S /\ e \in S
    OBVIOUS
  <2> HIDE DEF S, d, e
  <2> QED
    BY <2>1, RunTwo
<1>2. OneMore(strict, known, q, d) = r
  BY DEF OneMore
<1>3. /\ r.open /\ r.at = "args" /\ r.packet = packet /\ r.paths = Paths(packet)
      /\ r.room = q.room /\ r.sources = q.sources
  BY DEF PacketStarts
<1> HIDE DEF r
<1>4. OneMore(strict, known, r, e) = ArgumentsEnd(strict, r, n)
  BY <1>3 DEF OneMore
<1>5. Header(packet, n) = <<d, e>>
  BY DEF Header
<1> HIDE DEF d, e
<1> QED
  BY <1>1, <1>2, <1>3, <1>4, <1>5 DEF ArgumentsEnd

LEMMA TypeSent ==
  ASSUME NEW strict \in BOOLEAN, NEW known, NEW q, q.open, q.at = "type",
         NEW packet \in known, packet \notin HasArguments
  PROVE  Run(strict, known, q, Packet(packet)) =
             [at |-> Settled(After(packet, Paths(packet)), q.left), open |-> ~strict,
              packet |-> packet, paths |-> Paths(packet), size |-> q.size, left |-> q.left,
              room |-> q.room, sources |-> q.sources]
<1> DEFINE d == <<"type", packet>>
<1>1. Run(strict, known, q, <<d>>) = OneMore(strict, known, q, d)
  BY RunOne
<1>2. OneMore(strict, known, q, d) = PacketStarts(strict, q, packet)
  BY DEF OneMore
<1> QED
  BY <1>1, <1>2 DEF Packet, PacketStarts

LEMMA PathSent ==
  ASSUME NEW strict \in BOOLEAN, NEW known, NEW q, q.open, q.at = "path"
  PROVE  Run(strict, known, q, Path) =
             [at |-> Settled(After(q.packet, q.paths - 1), q.left), open |-> ~strict,
              packet |-> q.packet, paths |-> q.paths - 1, size |-> q.size, left |-> q.left,
              room |-> q.room, sources |-> q.sources]
<1> DEFINE d == <<"char", 0>>
           e == <<"nul", 0>>
<1>1. Run(strict, known, q, <<d, e>>) =
          OneMore(strict, known, OneMore(strict, known, q, d), e)
  <2> DEFINE S == {d, e}
  <2>1. d \in S /\ e \in S
    OBVIOUS
  <2> HIDE DEF S, d, e
  <2> QED
    BY <2>1, RunTwo
<1>2. OneMore(strict, known, q, d) = q
  BY DEF OneMore
<1>3. OneMore(strict, known, q, e) = PathEnds(strict, q)
  BY DEF OneMore
<1>4. Path = <<d, e>>
  BY DEF Path
<1> HIDE DEF d, e
<1> QED
  BY <1>1, <1>2, <1>3, <1>4 DEF PathEnds

LEMMA TokensTyped ==
  ASSUME NEW c \in Commands, NEW at, NEW tokens, NEW reads, Sending(c, at, tokens, reads)
  PROVE  tokens \in Seq(Tokens)
<1>1. c.size \in Nat /\ 0 \in Nat
  BY CommandFields
<1>2. {"create", "rename", "delete", "section", "memcpy", "execute"} \subseteq Packets
  BY DEF Packets, Known
<1>3. ASSUME NEW packet \in Packets, NEW n \in Nat
      PROVE  Header(packet, n) \in Seq(Tokens)
  <2>1. <<"type", packet>> \in Tokens /\ <<"args", n>> \in Tokens
    BY DEF Tokens
  <2> QED
    BY <2>1 DEF Header
<1>4. ASSUME NEW packet \in Packets
      PROVE  Packet(packet) \in Seq(Tokens)
  <2>1. <<"type", packet>> \in Tokens
    BY DEF Tokens
  <2> QED
    BY <2>1 DEF Packet
<1>5. Path \in Seq(Tokens)
  <2>1. <<"char", 0>> \in Tokens /\ <<"nul", 0>> \in Tokens
    BY DEF Tokens
  <2> QED
    BY <2>1 DEF Path
<1> QED
  BY <1>1, <1>2, <1>3, <1>4, <1>5 DEF Sending

\* What the device makes of a path that it waits for.
LEMMA AfterPath ==
  ASSUME NEW n \in Int
  PROVE  /\ Settled(After("create", 0), n) = IF n > 0 THEN "data" ELSE "type"
         /\ Settled(After("rename", 1), n) = "path"
         /\ Settled(After("rename", 0), n) = "type"
         /\ Settled(After("delete", 0), n) = "type"
         /\ Paths("create") = 1 /\ Settled(After("create", 1), n) = "path"
         /\ Paths("rename") = 2 /\ Settled(After("rename", 2), n) = "path"
         /\ Paths("delete") = 1 /\ Settled(After("delete", 1), n) = "path"
         /\ Paths("section") = 0 /\ Settled(After("section", 0), n) = "type"
         /\ Paths("execute") = 0 /\ Settled(After("execute", 0), n) = "type"
         /\ Paths("memcpy") = 0 /\ Settled(After("memcpy", 0), n) = "data"
<1>1. /\ After("create", 0) = "open" /\ After("rename", 0) = "operate"
      /\ After("delete", 0) = "operate" /\ After("section", 0) = "operate"
      /\ After("execute", 0) = "operate" /\ After("memcpy", 0) = "askData"
  BY DEF After
<1>2. \A packet : /\ After(packet, 1) = "askPath" /\ After(packet, 2) = "askPath"
  BY DEF After
<1>3. /\ Paths("create") = 1 /\ Paths("rename") = 2 /\ Paths("delete") = 1
      /\ Paths("section") = 0 /\ Paths("execute") = 0 /\ Paths("memcpy") = 0
  BY DEF Paths, HasArguments
<1> QED
  BY <1>1, <1>2, <1>3 DEF Settled

LEMMA SentOn ==
  ASSUME NEW cl \in Clients, NEW app, Sound(cl, app), cl.command # Idle,
         StepOf(cl)[1] = "send", NEW next, next = [cl EXCEPT !.at = @ + 1]
  PROVE  /\ next \in Clients /\ Sound(next, app) /\ StepOf(cl)[2] \in Seq(Tokens)
         /\ \A strict \in BOOLEAN : \A q \in Phases : Follows(strict, q, cl) =>
               Follows(strict, Run(strict, Known(app), q, StepOf(cl)[2]), next)
<1> DEFINE c == cl.command
           at == cl.at
           tokens == StepOf(cl)[2]
           reads == <<StageOf(cl), StageOf(next)>>
<1>1. /\ c \in Commands /\ c.app = app /\ c.avail <= c.size
      /\ at \in 1 .. Len(Script(c)) + 1 /\ at \in Nat \ {0}
      /\ cl.sent \in Nat /\ cl.sent <= c.size /\ c.size \in Nat /\ cl.due \in BOOLEAN
      /\ Len(Script(c)) \in Nat
  <2>1. Len(Script(c)) \in Nat
    BY ClientFields, CommandFields, Scripts
  <2> QED
    BY <2>1, ClientFields, CommandFields DEF Clients
<1>2. c # Idle /\ cl.command = c /\ cl.at = at
  OBVIOUS
<1>3. /\ at <= 5 => cl.sent = 0
      /\ ~cl.due
  BY DEF Sound
<1>4. /\ next.command = c /\ next.at = at + 1 /\ next.sent = cl.sent /\ ~next.due
      /\ next \in Clients
  BY <1>1, <1>3 DEF Clients
<1>5. /\ at <= Len(Script(c)) /\ StepOf(next) \in {Wait, <<"none">>}
      /\ Sending(c, at, tokens, reads)
  BY <1>1, <1>4, SendAt
<1>6. /\ StepOf(next)[1] # "data" /\ StepOf(next)[1] # "send" /\ ~Sends(next)
  BY <1>5 DEF Wait, Sends
<1> HIDE DEF c, at, tokens, reads
<1>7. Sound(next, app)
  <2>1. next.at \in 1 .. Len(Script(c)) + 1 /\ (next.at <= 5 => next.sent = 0)
    BY <1>1, <1>3, <1>4, <1>5
  <2> QED
    BY <1>1, <1>3, <1>4, <1>6, <2>1 DEF Sound
<1>8. tokens \in Seq(Tokens)
  BY <1>1, <1>5, TokensTyped
<1>9. ASSUME NEW strict \in BOOLEAN, NEW q \in Phases, Follows(strict, q, cl)
      PROVE  Follows(strict, Run(strict, Known(app), q, tokens), next)
  <2> DEFINE known == Known(app)
             r == Run(strict, known, q, tokens)
  <2>1. /\ q.open /\ q.at = StageOf(cl) /\ q.left \in Int /\ q.paths \in Int /\ q.room \in Int
        /\ q.at # "data" => q.room = Chunk /\ q.sources = Sizes
        /\ q.at = "path" => PathFollows(q, cl)
    BY <1>9 DEF Follows, Sends, Phases
  <2>2. /\ app = "uartupld" => {"create", "rename", "delete"} \subseteq known
        /\ app = "uartrun" => {"section", "execute", "memcpy"} \subseteq known
    BY DEF Known
  <2>3. c.avail \in Nat /\ c.size \in Nat
    BY <1>1, CommandFields
  <2>4. /\ "create" \in HasArguments /\ "section" \in HasArguments
        /\ "execute" \in HasArguments /\ "memcpy" \in HasArguments
        /\ "rename" \notin HasArguments /\ "delete" \notin HasArguments
    BY DEF HasArguments
  <2> HIDE DEF known
  <2>5. SUFFICES ASSUME NEW p, p = r
                 PROVE  /\ p.at = StageOf(next)
                        /\ ~strict => p.open
                        /\ p.at # "data" => p.room = Chunk /\ p.sources = Sizes
                        /\ p.at = "path" => PathFollows(p, next)
                        /\ p.at = "data" => DataFollow(p, next)
    BY <1>6 DEF Follows, known
  <2>6. reads = <<StageOf(cl), StageOf(next)>>
    BY DEF reads
  <2>7. CASE c.name = "file_upload" /\ at = 2 /\ tokens = Header("create", c.size)
             /\ reads = <<"type", "path">>
    <3>1. q.at = "type" /\ StageOf(next) = "path" /\ "create" \in known
      BY <1>1, <2>1, <2>2, <2>6, <2>7, CommandFields
    <3>2. p = [at |-> Settled(After("create", Paths("create")), c.size), open |-> ~strict,
               packet |-> "create", paths |-> Paths("create"), size |-> c.size,
               left |-> c.size, room |-> q.room, sources |-> q.sources]
      BY <2>1, <2>3, <2>4, <2>5, <2>7, <3>1, HeaderSent
    <3>3. /\ p.at = "path" /\ p.packet = "create" /\ p.paths = 1 /\ p.size = c.size
          /\ p.left = c.size /\ p.open = ~strict /\ p.room = Chunk /\ p.sources = Sizes
      BY <2>1, <2>3, <3>1, <3>2, AfterPath
    <3>4. PathFollows(p, next)
      BY <1>4, <2>7, <3>3 DEF PathFollows
    <3> QED
      BY <3>1, <3>3, <3>4
  <2>8. CASE c.name = "file_upload" /\ at = 4 /\ tokens = Path
             /\ reads = <<"path", IF c.size > 0 THEN "data" ELSE "type">>
    <3>1. q.at = "path" /\ StageOf(next) = IF c.size > 0 THEN "data" ELSE "type"
      BY <2>1, <2>6, <2>8
    <3>2. q.packet = "create" /\ q.paths = 1 /\ q.size = c.size /\ q.left = c.size
      BY <1>2, <2>1, <2>8, <3>1 DEF PathFollows
    <3>3. p = [at |-> Settled(After("create", 1 - 1), c.size), open |-> ~strict,
               packet |-> "create", paths |-> 1 - 1, size |-> c.size, left |-> c.size,
               room |-> q.room, sources |-> q.sources]
      BY <2>1, <2>5, <2>8, <3>1, <3>2, PathSent
    <3>4. /\ p.at = (IF c.size > 0 THEN "data" ELSE "type") /\ p.packet = "create"
          /\ p.size = c.size /\ p.left = c.size /\ p.open = ~strict
          /\ p.room = Chunk /\ p.sources = Sizes
      <4>1. 1 - 1 = 0
        OBVIOUS
      <4> QED
        BY <2>1, <2>3, <3>1, <3>3, <4>1, AfterPath
    <3>5. p.at = "data" => DataFollow(p, next)
      <4>1. next.sent = 0 /\ c.size - 0 = c.size
        BY <1>3, <1>4, <2>3, <2>8
      <4>2. Chunk - (0 % Chunk) = Chunk
        BY LinkAssumption DEF LinkAssumption
      <4>3. c.avail \in Sizes
        BY <1>1, <2>8, CommandFields
      <4>4. c.size > 0 <=> p.at = "data"
        BY <3>4
      <4> QED
        BY <1>4, <2>8, <3>4, <4>1, <4>2, <4>3, <4>4 DEF DataFollow
    <3>6. p.at # "path"
      BY <3>4
    <3> QED
      BY <3>1, <3>4, <3>5, <3>6
  <2>9. CASE c.name = "file_move" /\ at = 1 /\ tokens = Packet("rename")
             /\ reads = <<"type", "path">>
    <3>1. q.at = "type" /\ StageOf(next) = "path" /\ "rename" \in known
      BY <1>1, <2>1, <2>2, <2>6, <2>9, CommandFields
    <3>2. p = [at |-> Settled(After("rename", Paths("rename")), q.left), open |-> ~strict,
               packet |-> "rename", paths |-> Paths("rename"), size |-> q.size,
               left |-> q.left, room |-> q.room, sources |-> q.sources]
      BY <2>1, <2>4, <2>5, <2>9, <3>1, TypeSent
    <3>3. /\ p.at = "path" /\ p.packet = "rename" /\ p.paths = 2
          /\ p.open = ~strict /\ p.room = Chunk /\ p.sources = Sizes
      BY <2>1, <3>1, <3>2, AfterPath
    <3>4. PathFollows(p, next)
      BY <1>4, <2>9, <3>3 DEF PathFollows
    <3> QED
      BY <3>1, <3>3, <3>4
  <2>10. CASE c.name = "file_move" /\ at = 3 /\ tokens = Path /\ reads = <<"path", "path">>
    <3>1. q.at = "path" /\ StageOf(next) = "path"
      BY <2>1, <2>6, <2>10
    <3>2. q.packet = "rename" /\ q.paths = 2
      BY <1>2, <2>1, <2>10, <3>1 DEF PathFollows
    <3>3. p = [at |-> Settled(After("rename", 2 - 1), q.left), open |-> ~strict,
               packet |-> "rename", paths |-> 2 - 1, size |-> q.size, left |-> q.left,
               room |-> q.room, sources |-> q.sources]
      BY <2>1, <2>5, <2>10, <3>1, <3>2, PathSent
    <3>4. /\ p.at = "path" /\ p.packet = "rename" /\ p.paths = 1
          /\ p.open = ~strict /\ p.room = Chunk /\ p.sources = Sizes
      <4>1. 2 - 1 = 1
        OBVIOUS
      <4> QED
        BY <2>1, <3>1, <3>3, <4>1, AfterPath
    <3>5. PathFollows(p, next)
      BY <1>4, <2>10, <3>4 DEF PathFollows
    <3> QED
      BY <3>1, <3>4, <3>5
  <2>11. CASE c.name = "file_move" /\ at = 5 /\ tokens = Path /\ reads = <<"path", "type">>
    <3>1. q.at = "path" /\ StageOf(next) = "type"
      BY <2>1, <2>6, <2>11
    <3>2. q.packet = "rename" /\ q.paths = 1
      BY <1>2, <2>1, <2>11, <3>1 DEF PathFollows
    <3>3. p = [at |-> Settled(After("rename", 1 - 1), q.left), open |-> ~strict,
               packet |-> "rename", paths |-> 1 - 1, size |-> q.size, left |-> q.left,
               room |-> q.room, sources |-> q.sources]
      BY <2>1, <2>5, <2>11, <3>1, <3>2, PathSent
    <3>4. p.at = "type" /\ p.open = ~strict /\ p.room = Chunk /\ p.sources = Sizes
      <4>1. 1 - 1 = 0
        OBVIOUS
      <4> QED
        BY <2>1, <3>1, <3>3, <4>1, AfterPath
    <3> QED
      BY <3>1, <3>4
  <2>12. CASE c.name = "singal_path_packet" /\ at = 1 /\ tokens = Packet("delete")
              /\ reads = <<"type", "path">>
    <3>1. q.at = "type" /\ StageOf(next) = "path" /\ "delete" \in known
      BY <1>1, <2>1, <2>2, <2>6, <2>12, CommandFields
    <3>2. p = [at |-> Settled(After("delete", Paths("delete")), q.left), open |-> ~strict,
               packet |-> "delete", paths |-> Paths("delete"), size |-> q.size,
               left |-> q.left, room |-> q.room, sources |-> q.sources]
      BY <2>1, <2>4, <2>5, <2>12, <3>1, TypeSent
    <3>3. /\ p.at = "path" /\ p.packet = "delete" /\ p.paths = 1
          /\ p.open = ~strict /\ p.room = Chunk /\ p.sources = Sizes
      BY <2>1, <3>1, <3>2, AfterPath
    <3>4. PathFollows(p, next)
      BY <1>4, <2>12, <3>3 DEF PathFollows
    <3> QED
      BY <3>1, <3>3, <3>4
  <2>13. CASE c.name = "singal_path_packet" /\ at = 3 /\ tokens = Path
              /\ reads = <<"path", "type">>
    <3>1. q.at = "path" /\ StageOf(next) = "type"
      BY <2>1, <2>6, <2>13
    <3>2. q.packet = "delete" /\ q.paths = 1
      BY <1>2, <2>1, <2>13, <3>1 DEF PathFollows
    <3>3. p = [at |-> Settled(After("delete", 1 - 1), q.left), open |-> ~strict,
               packet |-> "delete", paths |-> 1 - 1, size |-> q.size, left |-> q.left,
               room |-> q.room, sources |-> q.sources]
      BY <2>1, <2>5, <2>13, <3>1, <3>2, PathSent
    <3>4. p.at = "type" /\ p.open = ~strict /\ p.room = Chunk /\ p.sources = Sizes
      <4>1. 1 - 1 = 0
        OBVIOUS
      <4> QED
        BY <2>1, <3>1, <3>3, <4>1, AfterPath
    <3> QED
      BY <3>1, <3>4
  <2>14. ASSUME NEW packet \in {"section", "execute"}, tokens = Header(packet, 0),
                c.name \in {"run_user_app", "run_with_memset"}, reads = <<"type", "type">>
         PROVE  /\ p.at = StageOf(next) /\ p.at = "type" /\ (~strict => p.open)
                /\ p.room = Chunk /\ p.sources = Sizes
    <3>1. q.at = "type" /\ StageOf(next) = "type" /\ packet \in known /\ packet \in HasArguments
      BY <1>1, <2>1, <2>2, <2>4, <2>6, <2>14, CommandFields
    <3>2. p = [at |-> Settled(After(packet, Paths(packet)), 0), open |-> ~strict,
               packet |-> packet, paths |-> Paths(packet), size |-> 0,
               left |-> 0, room |-> q.room, sources |-> q.sources]
      BY <2>1, <2>5, <2>14, <3>1, HeaderSent
    <3>3. Settled(After(packet, Paths(packet)), 0) = "type"
      BY <2>14, AfterPath
    <3> QED
      BY <2>1, <3>1, <3>2, <3>3
  <2>15. CASE c.name = "run_user_app" /\ at = 4 /\ tokens = Header("memcpy", c.size)
              /\ reads = <<"type", "data">>
    <3>1. q.at = "type" /\ StageOf(next) = "data" /\ "memcpy" \in known
      BY <1>1, <2>1, <2>2, <2>6, <2>15, CommandFields
    <3>2. p = [at |-> Settled(After("memcpy", Paths("memcpy")), c.size), open |-> ~strict,
               packet |-> "memcpy", paths |-> Paths("memcpy"), size |-> c.size,
               left |-> c.size, room |-> q.room, sources |-> q.sources]
      BY <2>1, <2>3, <2>4, <2>5, <2>15, <3>1, HeaderSent
    <3>3. /\ p.at = "data" /\ p.packet = "memcpy" /\ p.size = c.size
          /\ p.left = c.size /\ p.open = ~strict /\ p.sources = Sizes
      BY <2>1, <2>3, <3>1, <3>2, AfterPath
    <3>4. DataFollow(p, next)
      <4>1. next.sent = 0 /\ c.size - 0 = c.size
        BY <1>3, <1>4, <2>3, <2>15
      <4>2. c.avail \in Sizes /\ c.size > 0
        BY <1>1, <2>15, CommandFields
      <4> QED
        BY <1>4, <2>15, <3>3, <4>1, <4>2 DEF DataFollow
    <3> QED
      BY <3>1, <3>3, <3>4
  <2> QED
    BY <1>5, <2>7, <2>8, <2>9, <2>10, <2>11, <2>12, <2>13, <2>14, <2>15 DEF Sending
<1> QED
  BY <1>4, <1>7, <1>8, <1>9 DEF tokens

\* The client sends.
LEMMA SpokenStep ==
  ASSUME LinkInvariant, UNCHANGED <<dev, card, ready, offset, rx, down, faults>>,
         NEW tokens \in Seq(Tokens), up' = up \o tokens,
         early' \in BOOLEAN, early => early',
         client' \in Clients, Sound(client', dev.app),
         Strict' /\ Follows(TRUE, Reached(TRUE), client) =>
             Follows(TRUE, Run(TRUE, Known(dev.app), Reached(TRUE), tokens), client'),
         Loose' /\ Follows(FALSE, Reached(FALSE), client) =>
             Follows(FALSE, Run(FALSE, Known(dev.app), Reached(FALSE), tokens), client')
  PROVE  LinkInvariant'
<1>1. LinkTypes /\ ClientSound /\ DeviceSound
  BY DEF LinkInvariant
<1>2. LinkTypes' /\ ClientSound'
  <2>1. up' \in Seq(Tokens)
    BY <1>1, ConcatProperties DEF LinkTypes
  <2> QED
    BY <1>1, <2>1 DEF LinkTypes, ClientSound
<1>3. DeviceSound' /\ (CardSound => CardSound')
  BY <1>1 DEF DeviceSound, CardSound, ChunkSound, InPlace, FileIsSource,
         Sources, Held
<1>4. Heard' = Heard /\ Pending' = Pending
  BY HearingOn
<1>5. WordsRight => WordsRight'
  BY <1>4 DEF WordsRight, Reading
<1>6. ASSUME NEW strict \in BOOLEAN
      PROVE  Reached(strict)' = Run(strict, Known(dev.app), Reached(strict), tokens)
  <2>1. Phase(strict)' = Phase(strict)
    BY <1>4 DEF Phase, Reading, Sources, Held
  <2>2. dev'.app = dev.app /\ rx' = rx
    OBVIOUS
  <2> QED
    BY <1>1, <2>1, <2>2, TokensSent
<1>7. ASSUME Strict'
      PROVE  WordsRight' /\ InStep(TRUE)'
  <2>1. Strict
    BY <1>7 DEF Strict
  <2>2. WordsRight /\ InStep(TRUE)
    BY <2>1 DEF LinkInvariant
  <2>3. Reached(TRUE)' = Run(TRUE, Known(dev.app), Reached(TRUE), tokens)
    BY <1>6
  <2>4. Follows(TRUE, Reached(TRUE)', client')
    BY <1>7, <2>2, <2>3 DEF InStep
  <2> QED
    BY <1>5, <2>2, <2>4 DEF InStep
<1>8. ASSUME Loose'
      PROVE  InStep(FALSE)' /\ CardSound'
  <2>1. Loose
    BY <1>8 DEF Loose
  <2>2. CardSound /\ InStep(FALSE)
    BY <2>1 DEF LinkInvariant
  <2>3. Reached(FALSE)' = Run(FALSE, Known(dev.app), Reached(FALSE), tokens)
    BY <1>6
  <2>4. Follows(FALSE, Reached(FALSE)', client')
    BY <1>8, <2>2, <2>3 DEF InStep
  <2> QED
    BY <1>3, <2>2, <2>4 DEF InStep
<1> QED
  BY <1>2, <1>3, <1>7, <1>8 DEF LinkInvariant

LEMMA SendMessageOn ==
  ASSUME LinkInvariant, SendMessage
  PROVE  LinkInvariant'
<1>1. LinkTypes /\ ClientSound
  BY DEF LinkInvariant
<1> DEFINE tokens == StepOf(client)[2]
<1>2. /\ StepOf(client)[1] = "send" /\ up' = up \o tokens
      /\ client' = [client EXCEPT !.at = @ + 1]
      /\ UNCHANGED <<dev, card, ready, offset, rx, down, early, faults>>
  BY StepIs DEF SendMessage
<1>3. client \in Clients /\ Sound(client, dev.app) /\ client.command # Idle
  <2>1. StepOf(client)[1] # "none"
    BY <1>2
  <2> QED
    BY <1>1, <2>1 DEF LinkTypes, ClientSound, StepOf
<1>4. /\ client' \in Clients /\ Sound(client', dev.app) /\ tokens \in Seq(Tokens)
      /\ \A strict \in BOOLEAN : \A q \in Phases : Follows(strict, q, client) =>
            Follows(strict, Run(strict, Known(dev.app), q, tokens), client')
  BY <1>2, <1>3, SentOn
<1>5. early' \in BOOLEAN /\ (early => early')
  BY <1>1, <1>2 DEF LinkTypes
<1>6. Reached(TRUE) \in Phases /\ Reached(FALSE) \in Phases
  BY <1>1, ReachedTyped
<1> HIDE DEF tokens
<1>7. /\ Follows(TRUE, Reached(TRUE), client) =>
            Follows(TRUE, Run(TRUE, Known(dev.app), Reached(TRUE), tokens), client')
      /\ Follows(FALSE, Reached(FALSE), client) =>
            Follows(FALSE, Run(FALSE, Known(dev.app), Reached(FALSE), tokens), client')
  BY <1>4, <1>6
<1> QED
  BY <1>2, <1>4, <1>5, <1>7, SpokenStep

-----------------------------------------------------------------------------
(* The client sends data.                                                   *)

LEMMA LeastOfThree ==
  ASSUME NEW a \in Int, NEW b \in Int, NEW c \in Int
  PROVE  Min({a, b, c}) \in {a, b, c} /\ \A n \in {a, b, c} : Min({a, b, c}) <= n
<1>1. \E x \in {a, b, c} : \A y \in {a, b, c} : x <= y
  <2>1. CASE a <= b /\ a <= c
    BY <2>1
  <2>2. CASE b <= a /\ b <= c
    BY <2>2
  <2>3. CASE c <= a /\ c <= b
    BY <2>3
  <2> QED
    BY <2>1, <2>2, <2>3
<1> QED
  BY <1>1 DEF Min

\* Where the device is when it has read j units more of a file.
UnitsOn(strict, q, s, avail, j, p) ==
    /\ p \in Phases /\ p.packet = q.packet /\ p.size = q.size /\ p.left = q.left - j
    /\ p.open \/ (strict /\ (j = q.left \/ (q.packet = "create" /\ j > 0 /\ (s + j) % Chunk = 0)))
    /\ j < q.left => /\ p.at = "data" /\ avail \in p.sources
                     /\ p.packet = "create" => p.room = Chunk - ((s + j) % Chunk)
    /\ j = q.left => p.at = "type" /\ p.room = Chunk /\ p.sources = Sizes

LEMMA UnitSent ==
  ASSUME NEW strict \in BOOLEAN, NEW known \in SUBSET Packets, NEW q \in Phases,
         q.packet \in {"create", "memcpy"}, NEW s \in Nat, NEW avail \in Nat,
         q.left = q.size - s, NEW j \in Nat, j < q.left,
         NEW p, UnitsOn(strict, q, s, avail, j, p), p.open
  PROVE  UnitsOn(strict, q, s, avail, j + 1,
                 OneMore(strict, known, p, <<"data", UnitOf(avail, s + (j + 1))>>))
<1> DEFINE unit == UnitOf(avail, s + (j + 1))
           r == OneMore(strict, known, p, <<"data", unit>>)
           m == (s + j) % Chunk
<1>1. /\ p \in Phases /\ p.packet = q.packet /\ p.size = q.size /\ p.left = q.left - j
      /\ p.at = "data" /\ avail \in p.sources
      /\ p.packet = "create" => p.room = Chunk - m
  BY DEF UnitsOn
<1>2. /\ q.left \in Int /\ q.size \in Int /\ p.left \in Int /\ p.room \in Int
      /\ Chunk \in Nat \ {0}
  BY <1>1, LinkAssumption DEF Phases, LinkAssumption
<1>3. unit \in Nat /\ <<"data", unit>> \in Tokens
  <2>1. unit \in Nat
    BY DEF UnitOf
  <2> QED
    BY <2>1 DEF Tokens
<1>4. r \in Phases
  BY <1>1, <1>3, OneMoreTyped
<1>5. r = UnitRead(strict, p, unit)
  BY <1>1 DEF OneMore
<1>6. m \in 0 .. Chunk - 1
      /\ (s + (j + 1)) % Chunk = IF m + 1 = Chunk THEN 0 ELSE m + 1
  <2> DEFINE t == s + j
  <2>1. t \in Nat /\ s + (j + 1) = t + 1 /\ m = t % Chunk
    OBVIOUS
  <2> HIDE DEF t, m
  <2>2. t % Chunk \in 0 .. Chunk - 1
    BY <1>2, <2>1, ModOf
  <2>3. (t + 1) % Chunk = IF (t % Chunk) + 1 = Chunk THEN 0 ELSE (t % Chunk) + 1
    BY <1>2, <2>1, ModNext
  <2> QED
    BY <2>1, <2>2, <2>3
<1>7. avail \in Explaining(strict, p, unit)
  <2>1. p.size - p.left + 1 = s + (j + 1)
    BY <1>1, <1>2
  <2> QED
    BY <1>1, <2>1 DEF Explaining
<1> DEFINE e == (s + (j + 1)) % Chunk
<1>11. (s + (j + 1)) % Chunk = e
  OBVIOUS
<1> HIDE DEF unit, r, m, e
<1>8. /\ r.packet = q.packet /\ r.size = q.size /\ r.left = q.left - (j + 1)
      /\ r.at = (IF p.left > 1 THEN "data" ELSE "type")
      /\ r.open = (~ChunkEnds(p) \/ ~strict)
      /\ r.room = (IF ChunkEnds(p) THEN Chunk ELSE p.room - 1)
      /\ p.left > 1 => avail \in r.sources
      /\ ~(p.left > 1) => r.sources = Sizes
  <2>1. Explaining(strict, p, unit) # {}
    BY <1>7
  <2>2. p.left - 1 = q.left - (j + 1)
    BY <1>1, <1>2
  <2> QED
    BY <1>1, <1>5, <1>7, <2>1, <2>2 DEF UnitRead
<1>9. /\ p.left > 1 <=> j + 1 < q.left
      /\ p.left <= 1 <=> j + 1 = q.left
  BY <1>1, <1>2
<1>10. ChunkEnds(p) <=> j + 1 = q.left \/ (q.packet = "create" /\ e = 0)
  <2>1. CASE q.packet = "create"
    <3>1. p.room = Chunk - m
      BY <1>1, <2>1
    <3>2. p.room <= 1 <=> e = 0
      BY <1>2, <1>6, <1>11, <3>1
    <3> QED
      BY <1>1, <1>9, <2>1, <3>2 DEF ChunkEnds
  <2>2. CASE q.packet = "memcpy"
    BY <1>1, <1>9, <2>2 DEF ChunkEnds
  <2> QED
    BY <2>1, <2>2
<1>12. r.open \/ (strict /\ (j + 1 = q.left \/ (q.packet = "create" /\ j + 1 > 0 /\ e = 0)))
  <2>1. j + 1 > 0
    OBVIOUS
  <2>2. ~r.open => ChunkEnds(p) /\ strict
    BY <1>8
  <2> QED
    BY <1>10, <2>1, <2>2
<1>13. ASSUME j + 1 < q.left
       PROVE  /\ r.at = "data" /\ avail \in r.sources
              /\ r.packet = "create" => r.room = Chunk - e
  <2>1. r.at = "data" /\ avail \in r.sources
    BY <1>8, <1>9, <1>13
  <2>2. ASSUME r.packet = "create"
        PROVE  r.room = Chunk - e
    <3>1. q.packet = "create" /\ p.room = Chunk - m
      BY <1>1, <1>8, <2>2
    <3>2. j + 1 # q.left
      BY <1>2, <1>13
    <3>3. CASE e = 0
      BY <1>2, <1>8, <1>10, <3>1, <3>3
    <3>4. CASE e # 0
      <4>1. e = m + 1 /\ ~ChunkEnds(p)
        BY <1>6, <1>10, <1>11, <3>2, <3>4
      <4> QED
        BY <1>2, <1>6, <1>8, <3>1, <4>1
    <3> QED
      BY <3>3, <3>4
  <2> QED
    BY <2>1, <2>2
<1>14. ASSUME j + 1 = q.left
       PROVE  r.at = "type" /\ r.room = Chunk /\ r.sources = Sizes
  <2>1. ~(p.left > 1) /\ ChunkEnds(p)
    BY <1>1, <1>2, <1>9, <1>10, <1>14
  <2> QED
    BY <1>8, <2>1
<1>15. UnitsOn(strict, q, s, avail, j + 1, r)
  BY <1>4, <1>8, <1>11, <1>12, <1>13, <1>14 DEF UnitsOn
<1> QED
  BY <1>15 DEF r, unit

LEMMA UnitsSent ==
  ASSUME NEW strict \in BOOLEAN, NEW known \in SUBSET Packets, NEW q \in Phases,
         q.packet \in {"create", "memcpy"}, NEW s \in Nat, NEW avail \in Nat,
         q.left = q.size - s, NEW kept \in Nat, kept <= q.left,
         strict /\ q.packet = "create" => (s % Chunk) + kept <= Chunk,
         q.at = "data", q.open, avail \in q.sources,
         q.packet = "create" => q.room = Chunk - (s % Chunk), q.left > 0,
         NEW tokens, tokens = [i \in 1 .. kept |-> <<"data", UnitOf(avail, s + i)>>]
  PROVE  UnitsOn(strict, q, s, avail, kept, Run(strict, known, q, tokens))
<1>1. Len(tokens) \in Nat /\ Len(tokens) = kept
      /\ \A i \in 1 .. kept : tokens[i] = <<"data", UnitOf(avail, s + i)>>
  <2>1. Len(tokens) = kept
    OBVIOUS
  <2> QED
    BY <2>1
<1>2. PICK f : Runs(f, strict, known, q, tokens) /\ Run(strict, known, q, tokens) = f[Len(tokens)]
  <2>1. Len(tokens) \in Nat
    BY <1>1
  <2> QED
    BY <2>1, RunExists
<1>3. \A n \in 0 .. kept : f[n] = IF n = 0 THEN q ELSE OneMore(strict, known, f[n - 1], tokens[n])
  BY <1>1, <1>2 DEF Runs
<1>4. Chunk \in Nat \ {0} /\ q.left \in Int
  BY LinkAssumption DEF LinkAssumption, Phases
<1> DEFINE G == {j \in Nat : j <= kept => UnitsOn(strict, q, s, avail, j, f[j])}
<1>5. 0 \in G
  <2>1. f[0] = q
    <3>1. 0 \in 0 .. kept
      OBVIOUS
    <3> QED
      BY <1>3, <3>1
  <2>2. q.left - 0 = q.left /\ s + 0 = s
    BY <1>4
  <2>3. UnitsOn(strict, q, s, avail, 0, q)
    <3>1. ~(0 = q.left) /\ 0 < q.left
      BY <1>4
    <3> QED
      BY <2>2, <3>1 DEF UnitsOn
  <2> QED
    BY <2>1, <2>3
<1>6. ASSUME NEW j \in G
      PROVE  j + 1 \in G
  <2>1. j \in Nat /\ j + 1 \in Nat /\ (j + 1) - 1 = j /\ j + 1 # 0
    OBVIOUS
  <2>2. SUFFICES ASSUME j + 1 <= kept
                 PROVE  UnitsOn(strict, q, s, avail, j + 1, f[j + 1])
    BY <2>1
  <2>3. UnitsOn(strict, q, s, avail, j, f[j]) /\ j < q.left /\ j < kept
    BY <1>4, <2>1, <2>2
  <2>4. f[j + 1] = OneMore(strict, known, f[j], <<"data", UnitOf(avail, s + (j + 1))>>)
    <3>1. j + 1 \in 0 .. kept /\ j + 1 \in 1 .. kept
      BY <2>1, <2>2
    <3> QED
      BY <1>1, <1>3, <2>1, <3>1
  <2>5. f[j].open
    <3>1. SUFFICES ASSUME strict, q.packet = "create", j > 0, (s + j) % Chunk = 0
                   PROVE  FALSE
      BY <1>4, <2>1, <2>3 DEF UnitsOn
    <3>2. s % Chunk \in 0 .. Chunk - 1
      BY <1>4, ModOf
    <3>3. (s % Chunk) + j < Chunk
      BY <1>4, <2>1, <2>3, <3>1, <3>2
    <3>4. (s + j) % Chunk = (s % Chunk) + j
      BY <1>4, <2>1, <3>3, ModWithin
    <3> QED
      BY <2>1, <3>1, <3>2, <3>4
  <2>6. UnitsOn(strict, q, s, avail, j + 1,
                OneMore(strict, known, f[j], <<"data", UnitOf(avail, s + (j + 1))>>))
    BY <2>1, <2>3, <2>5, UnitSent
  <2> QED
    BY <2>4, <2>6
<1>7. G = Nat
  <2> HIDE DEF G
  <2>1. G \in SUBSET Nat
    BY DEF G
  <2> QED
    BY <1>5, <1>6, <2>1, Induction
<1> QED
  BY <1>1, <1>2, <1>7

\* How much goes into one turn.
LEMMA TurnIs ==
  ASSUME NEW s \in Nat, NEW chunk \in Nat, NEW n \in Nat \ {0},
         NEW crosses \in BOOLEAN, crosses <=> chunk # 0 /\ (s % chunk) + n >= chunk,
         NEW kept, kept = IF crosses THEN n - (((s % chunk) + n) % chunk) ELSE n
  PROVE  /\ kept \in 1 .. n
         /\ crosses => chunk # 0 /\ (s + kept) % chunk = 0
         /\ ~crosses /\ chunk # 0 => (s % chunk) + kept < chunk /\ (s + kept) % chunk # 0
<1>1. CASE crosses
  <2>1. chunk \in Nat \ {0} /\ (s % chunk) + n >= chunk /\ n \in Nat
    BY <1>1
  <2>2. kept = n - (((s % chunk) + n) % chunk)
    BY <1>1
  <2>3. kept \in 1 .. n /\ (s + kept) % chunk = 0
    BY <2>1, <2>2, CutEnds
  <2> QED
    BY <1>1, <2>1, <2>3
<1>2. CASE ~crosses
  <2>1. kept = n
    BY <1>2
  <2>2. ASSUME chunk # 0
        PROVE  (s % chunk) + kept < chunk /\ (s + kept) % chunk # 0
    <3>1. s % chunk \in 0 .. chunk - 1
      BY <2>2, ModOf
    <3>2. (s % chunk) + n < chunk
      BY <1>2, <2>2, <3>1
    <3>3. (s + n) % chunk = (s % chunk) + n
      BY <2>2, <3>2, ModWithin
    <3> QED
      BY <2>1, <3>1, <3>2, <3>3
  <2> QED
    BY <1>2, <2>1, <2>2
<1> QED
  BY <1>1, <1>2

\* A turn of upload_file takes device and client on by as many units.
TurnOf(c, cl, n, chunk, kept, next, tokens) ==
    /\ n \in Nat \ {0} /\ n <= c.size - cl.sent
    /\ chunk = StepOf(cl)[2]
    /\ LET crosses == chunk # 0 /\ (cl.sent % chunk) + n >= chunk
       IN  /\ kept = IF crosses THEN n - (((cl.sent % chunk) + n) % chunk) ELSE n
           /\ next = [cl EXCEPT !.sent = @ + kept, !.due = crosses /\ kept < c.size - cl.sent,
                                !.at = IF kept = c.size - cl.sent THEN @ + 1 ELSE @]
    /\ tokens = [i \in 1 .. kept |-> <<"data", UnitOf(c.avail, cl.sent + i)>>]

LEMMA TurnOn ==
  ASSUME NEW c \in Commands, NEW app, NEW cl \in Clients, Sound(cl, app), cl.command = c,
         StepOf(cl)[1] = "data", ~cl.due, NEW n, NEW chunk, NEW kept,
         NEW next, NEW tokens, TurnOf(c, cl, n, chunk, kept, next, tokens)
  PROVE  /\ kept \in 1 .. n /\ chunk \in Nat
         /\ next \in Clients /\ Sound(next, app) /\ tokens \in Seq(Tokens)
         /\ \A strict \in BOOLEAN : \A q \in Phases :
               Follows(strict, q, cl)
               /\ (strict => chunk = 0 \/ (cl.sent % chunk) + kept <= chunk)
               => Follows(strict, Run(strict, Known(app), q, tokens), next)
<1> DEFINE s == cl.sent
           left == c.size - s
           crosses == chunk # 0 /\ (s % chunk) + n >= chunk
<1>1. /\ c # Idle /\ c.app = app /\ c.avail <= c.size /\ c.size \in Nat /\ c.avail \in Nat
      /\ cl.at \in 1 .. Len(Script(c)) + 1 /\ s \in Nat /\ s <= c.size /\ left \in Nat
  BY ClientFields, CommandFields
<1>6. cl.command = c /\ cl.sent = s /\ left = c.size - s
  OBVIOUS
<1> HIDE DEF s, left
<1>14. /\ n \in Nat \ {0} /\ n <= left /\ chunk = StepOf(cl)[2]
       /\ crosses \in BOOLEAN /\ (crosses <=> chunk # 0 /\ (s % chunk) + n >= chunk)
       /\ kept = IF crosses THEN n - (((s % chunk) + n) % chunk) ELSE n
       /\ next = [cl EXCEPT !.sent = @ + kept, !.due = crosses /\ kept < left,
                            !.at = IF kept = left THEN @ + 1 ELSE @]
       /\ tokens = [i \in 1 .. kept |-> <<"data", UnitOf(c.avail, s + i)>>]
  BY <1>6 DEF TurnOf
<1> HIDE DEF crosses
<1>2. /\ cl.at = 6 /\ StageOf(cl) = "data" /\ 6 <= Len(Script(c)) /\ Len(Script(c)) \in Nat
      /\ \/ c.name = "file_upload" /\ chunk = Chunk
         \/ c.name = "run_user_app" /\ chunk = 0
  <2>1. Len(Script(c)) \in Nat
    BY CommandFields, Scripts
  <2> QED
    BY <1>1, <1>14, <2>1, DataAt
<1>3. chunk \in Nat /\ Chunk \in Nat \ {0}
  BY <1>2, LinkAssumption DEF LinkAssumption
<1>4. /\ kept \in 1 .. n
      /\ crosses => chunk # 0 /\ (s + kept) % chunk = 0
      /\ ~crosses /\ chunk # 0 => (s % chunk) + kept < chunk /\ (s + kept) % chunk # 0
  BY <1>1, <1>3, <1>14, TurnIs
<1>5. /\ next.command = c /\ next.sent = s + kept /\ next.sent \in Nat
      /\ next.due = (crosses /\ kept < left)
      /\ next.at = (IF kept = left THEN 7 ELSE 6)
      /\ next \in Clients
  <2>1. s + kept \in Nat /\ 6 + 1 = 7
    BY <1>1, <1>4, <1>14
  <2> DEFINE owed == crosses /\ kept < left
             on == IF kept = left THEN cl.at + 1 ELSE cl.at
  <2>2. owed \in BOOLEAN /\ on = (IF kept = left THEN 7 ELSE 6) /\ on \in Nat \ {0}
    BY <1>2, <2>1
  <2>3. next = [cl EXCEPT !.sent = @ + kept, !.due = owed, !.at = on]
    BY <1>14
  <2> HIDE DEF owed, on
  <2>4. /\ next.command = cl.command /\ next.sent = cl.sent + kept /\ next.due = owed
        /\ next.at = on
        /\ next = [command |-> cl.command, at |-> on, sent |-> cl.sent + kept, due |-> owed]
    BY <2>3 DEF Clients
  <2>5. cl.command \in Commands \cup {Idle}
    BY <1>6
  <2>6. next \in Clients
    BY <1>6, <2>1, <2>2, <2>4, <2>5 DEF Clients
  <2> QED
    BY <1>6, <2>1, <2>2, <2>4, <2>6 DEF owed
<1>7. kept <= left /\ kept \in Nat /\ kept > 0
  BY <1>1, <1>4, <1>6, <1>14
<1>8. ASSUME kept < left
      PROVE  StepOf(next) = StepOf(cl) /\ StageOf(next) = "data" /\ next.sent < c.size
  <2>1. next.at = cl.at /\ s + kept < c.size
    BY <1>1, <1>2, <1>5, <1>6, <1>7, <1>8
  <2> QED
    BY <1>2, <1>5, <1>6, <2>1 DEF StepOf, StageOf
<1>9. ASSUME ~(kept < left)
      PROVE  /\ kept = left /\ StepOf(next) \in {Wait, <<"none">>} /\ StageOf(next) = "type"
             /\ next.sent = c.size /\ ~next.due
  <2>1. kept = left /\ next.at = 7 /\ ~next.due /\ next.sent = c.size
    <3>1. kept = left
      BY <1>1, <1>7, <1>9
    <3>2. s + kept = c.size
      BY <1>1, <1>6, <3>1
    <3> QED
      BY <1>5, <1>9, <3>1, <3>2
  <2>2. StepOf(next) \in {Wait, <<"none">>} /\ 7 \in 1 .. Len(Script(c)) + 1
    <3>1. 7 \in 1 .. Len(Script(c)) + 1
      BY <1>2
    <3> QED
      BY <1>2, <1>5, <2>1, <3>1, Steps
  <2>3. StageOf(next) = "type"
    BY <1>2, <1>5, <2>1 DEF StageOf
  <2> QED
    BY <2>1, <2>2, <2>3
<1>10. Sound(next, app)
  <2>1. /\ next.at \in 1 .. Len(Script(c)) + 1 /\ ~(next.at <= 5) /\ next.sent <= c.size
    BY <1>1, <1>2, <1>5, <1>6, <1>7
  <2>2. CASE kept < left
    <3>1. StepOf(next)[1] = "data" /\ StepOf(next)[2] = chunk
      BY <1>8, <1>14, <2>2
    <3>2. next.due => chunk # 0 /\ next.sent % chunk = 0
      BY <1>4, <1>5
    <3> QED
      BY <1>1, <1>5, <1>8, <2>1, <2>2, <3>1, <3>2 DEF Sound
  <2>3. CASE ~(kept < left)
    <3>1. StepOf(next)[1] # "data"
      BY <1>9, <2>3 DEF Wait
    <3> QED
      BY <1>1, <1>5, <1>9, <2>1, <2>3, <3>1 DEF Sound
  <2> QED
    BY <2>2, <2>3
<1>11. tokens \in Seq(Tokens)
  <2>1. \A i \in 1 .. kept : <<"data", UnitOf(c.avail, s + i)>> \in Tokens
    BY <1>1 DEF Tokens, UnitOf
  <2>2. tokens \in Seq(Tokens)
    <3>1. tokens = [i \in 1 .. kept |-> <<"data", UnitOf(c.avail, s + i)>>]
      BY <1>14
    <3> QED
      BY <1>7, <2>1, <3>1
  <2> QED
    BY <2>2
<1>12. ASSUME NEW strict \in BOOLEAN, NEW q \in Phases, Follows(strict, q, cl),
              strict => chunk = 0 \/ (s % chunk) + kept <= chunk
       PROVE  Follows(strict, Run(strict, Known(app), q, tokens), next)
  <2> DEFINE p == Run(strict, Known(app), q, tokens)
             known == Known(app)
  <2>1. q.open /\ q.at = "data" /\ DataFollow(q, cl)
    BY <1>2, <1>12 DEF Follows, Sends
  <2>2. /\ q.packet = (IF c.name = "file_upload" THEN "create" ELSE "memcpy")
        /\ q.size = c.size /\ q.left = left /\ q.left > 0
        /\ q.packet = "create" => q.room = Chunk - (s % Chunk)
        /\ c.avail \in q.sources
    BY <1>6, <2>1 DEF DataFollow
  <2>3. (q.packet = "create" <=> c.name = "file_upload") /\ q.packet \in {"create", "memcpy"}
        /\ (q.packet = "create" => chunk = Chunk) /\ (q.packet = "memcpy" => chunk = 0)
    BY <1>2, <2>2
  <2>4. strict /\ q.packet = "create" => (s % Chunk) + kept <= Chunk
    BY <1>3, <1>12, <2>3
  <2>5. known \in SUBSET Packets
    BY KnownPackets
  <2> HIDE DEF p, known
  <2>6. UnitsOn(strict, q, s, c.avail, kept, p)
    <3>1. q.left = q.size - s /\ kept <= q.left
      BY <1>6, <1>7, <2>2
    <3>2. tokens = [i \in 1 .. kept |-> <<"data", UnitOf(c.avail, s + i)>>]
      BY <1>14
    <3>3. UnitsOn(strict, q, s, c.avail, kept, Run(strict, known, q, tokens))
      BY <1>1, <1>7, <2>1, <2>2, <2>3, <2>4, <2>5, <3>1, <3>2, UnitsSent
    <3> QED
      BY <3>3 DEF p, known
  <2>7. CASE kept < left
    <3>1. /\ p.at = "data" /\ c.avail \in p.sources /\ p.packet = q.packet /\ p.size = c.size
          /\ p.left = left - kept /\ p.left > 0
          /\ p.packet = "create" => p.room = Chunk - ((s + kept) % Chunk)
      BY <1>1, <1>7, <2>2, <2>6, <2>7 DEF UnitsOn
    <3>2. p.left = c.size - next.sent
      BY <1>1, <1>5, <1>6, <1>7, <3>1
    <3>3. DataFollow(p, next)
      BY <1>5, <2>2, <3>1, <3>2 DEF DataFollow
    <3>4. ~next.due \/ ~strict => p.open
      <4>1. SUFFICES ASSUME ~p.open
                     PROVE  next.due /\ strict
        OBVIOUS
      <4>2. strict /\ q.packet = "create" /\ (s + kept) % Chunk = 0
        BY <2>2, <2>6, <2>7, <4>1, <1>1, <1>7 DEF UnitsOn
      <4>3. crosses
        BY <1>3, <1>4, <2>3, <4>2
      <4> QED
        BY <1>5, <2>7, <4>2, <4>3
    <3>5. p.at = StageOf(next) /\ StepOf(next)[1] = "data"
      BY <1>8, <2>7, <3>1
    <3> QED
      BY <3>1, <3>3, <3>4, <3>5 DEF Follows, Sends, p
  <2>8. CASE ~(kept < left)
    <3>1. kept = q.left /\ kept = left
      BY <1>9, <2>2, <2>8
    <3>2. /\ p.at = "type" /\ p.room = Chunk /\ p.sources = Sizes
          /\ ~strict => p.open
      BY <2>6, <3>1 DEF UnitsOn
    <3>3. ~Sends(next) /\ StageOf(next) = "type"
      BY <1>9, <2>8 DEF Sends, Wait
    <3> QED
      BY <3>2, <3>3 DEF Follows, p
  <2> QED
    BY <2>7, <2>8
<1> QED
  BY <1>3, <1>4, <1>5, <1>6, <1>10, <1>11, <1>12

LEMMA UploadFileOn ==
  ASSUME LinkInvariant, UploadFile
  PROVE  LinkInvariant'
<1> DEFINE c == client.command
           s == client.sent
           chunk == StepOf(client)[2]
           left == c.size - s
           n == IF s < c.avail THEN Min({left, ReadMax, c.avail - s}) ELSE left
           crosses == Crosses(n, chunk)
           kept == Cut(n, chunk)
           tokens == [i \in 1 .. kept |-> <<"data", UnitOf(c.avail, s + i)>>]
<1>1. LinkTypes /\ ClientSound
  BY DEF LinkInvariant
<1>2. /\ StepOf(client)[1] = "data" /\ ~client.due
      /\ up' = up \o [i \in 1 .. kept |-> <<"data", IF s < c.avail THEN s + i ELSE 0>>]
      /\ client' = [client EXCEPT !.sent = @ + kept,
                                  !.due = crosses /\ kept < left,
                                  !.at = IF kept = left THEN @ + 1 ELSE @]
      /\ early' = (early \/ (chunk # 0 /\ (s % chunk) + kept > chunk))
      /\ UNCHANGED <<dev, card, ready, offset, rx, down, faults>>
  BY StepIs DEF UploadFile
<1>3. client \in Clients /\ Sound(client, dev.app) /\ client.command # Idle
  <2>1. StepOf(client)[1] # "none"
    BY <1>2
  <2> QED
    BY <1>1, <2>1 DEF LinkTypes, ClientSound, StepOf
<1>4. /\ c \in Commands /\ c.size \in Nat /\ c.avail \in Nat /\ s \in Nat /\ s < c.size
  BY <1>2, <1>3, ClientFields, CommandFields DEF Sound
<1>5. n \in Nat \ {0} /\ n <= left /\ (s < c.avail => s + n <= c.avail)
  <2>1. left \in Nat \ {0}
    BY <1>4
  <2>2. ASSUME s < c.avail
        PROVE  n \in Nat \ {0} /\ n <= left /\ s + n <= c.avail
    <3> DEFINE most == c.avail - s
    <3>1. ReadMax \in Nat \ {0} /\ most \in Nat \ {0}
      BY <1>4, <2>2, LinkAssumption DEF LinkAssumption
    <3>2. n = Min({left, ReadMax, most})
      BY <2>2
    <3> HIDE DEF n, left, most
    <3>6. left \in Int /\ ReadMax \in Int /\ most \in Int
      BY <2>1, <3>1
    <3>3. n \in {left, ReadMax, most} /\ n <= left /\ n <= most
      BY <3>2, <3>6, LeastOfThree
    <3>4. n \in Nat \ {0}
      BY <2>1, <3>1, <3>3
    <3>5. s + n <= c.avail
      <4>1. most = c.avail - s
        BY DEF most
      <4> QED
        BY <1>4, <3>1, <3>3, <3>4, <4>1
    <3> QED
      BY <3>3, <3>4, <3>5
  <2>3. ~(s < c.avail) => n = left
    OBVIOUS
  <2> HIDE DEF n, left
  <2> QED
    BY <2>1, <2>2, <2>3
<1>6. /\ crosses <=> chunk # 0 /\ (s % chunk) + n >= chunk
      /\ kept = IF crosses THEN n - (((s % chunk) + n) % chunk) ELSE n
      /\ crosses \in BOOLEAN
  BY DEF Crosses, Cut
<1>7. left = c.size - s /\ s = client.sent /\ c = client.command
      /\ tokens = [i \in 1 .. kept |-> <<"data", UnitOf(c.avail, client.sent + i)>>]
      /\ chunk = StepOf(client)[2]
  OBVIOUS
<1> HIDE DEF n, crosses, kept, chunk, c, left, tokens
<1>8. /\ kept \in 1 .. n /\ chunk \in Nat
      /\ client' \in Clients /\ Sound(client', dev.app) /\ tokens \in Seq(Tokens)
      /\ \A strict \in BOOLEAN : \A q \in Phases :
            Follows(strict, q, client) /\ (strict => chunk = 0 \/ (s % chunk) + kept <= chunk)
            => Follows(strict, Run(strict, Known(dev.app), q, tokens), client')
  <2>1. TurnOf(c, client, n, chunk, kept, client', tokens)
    BY <1>2, <1>5, <1>6, <1>7 DEF TurnOf
  <2> DEFINE app == dev.app
             cl == client
             next == client'
  <2>2. /\ c \in Commands /\ cl \in Clients /\ Sound(cl, app) /\ cl.command = c
        /\ StepOf(cl)[1] = "data" /\ ~cl.due
        /\ TurnOf(c, cl, n, chunk, kept, next, tokens)
    BY <1>2, <1>3, <1>4, <1>6, <1>7, <2>1
  <2> HIDE DEF app, cl, next
  <2>3. /\ kept \in 1 .. n /\ chunk \in Nat
        /\ next \in Clients /\ Sound(next, app) /\ tokens \in Seq(Tokens)
        /\ \A strict \in BOOLEAN : \A q \in Phases :
              Follows(strict, q, cl)
              /\ (strict => chunk = 0 \/ (cl.sent % chunk) + kept <= chunk)
              => Follows(strict, Run(strict, Known(app), q, tokens), next)
    BY <2>2, TurnOn
  <2> QED
    BY <2>3 DEF app, cl, next
<1>9. up' = up \o tokens
  <2>1. ASSUME NEW i \in 1 .. kept
        PROVE  (IF s < c.avail THEN s + i ELSE 0) = UnitOf(c.avail, s + i)
    <3>1. i <= n /\ i \in Nat \ {0}
      BY <1>5, <1>8
    <3>2. s < c.avail => s + i <= c.avail
      BY <1>4, <1>5, <3>1
    <3>3. ~(s < c.avail) => ~(s + i <= c.avail)
      BY <1>4, <3>1
    <3> QED
      BY <3>2, <3>3 DEF UnitOf
  <2>2. [i \in 1 .. kept |-> <<"data", IF s < c.avail THEN s + i ELSE 0>>] =
            [i \in 1 .. kept |-> <<"data", UnitOf(c.avail, s + i)>>]
    BY <2>1
  <2> QED
    BY <1>2, <2>2 DEF tokens
<1>10. early' \in BOOLEAN /\ (early => early')
  BY <1>1, <1>2 DEF LinkTypes
<1>11. Strict' => chunk = 0 \/ (s % chunk) + kept <= chunk
  <2>1. SUFFICES ASSUME Strict', chunk # 0
                 PROVE  (s % chunk) + kept <= chunk
    OBVIOUS
  <2>2. ~((s % chunk) + kept > chunk)
    BY <1>2, <2>1 DEF Strict
  <2>3. s % chunk \in 0 .. chunk - 1
    BY <1>4, <1>8, <2>1, ModOf
  <2>4. kept \in Nat /\ chunk \in Nat
    BY <1>5, <1>8
  <2> DEFINE m == s % chunk
  <2>5. m \in Nat /\ ~(m + kept > chunk)
    BY <2>2, <2>3, <2>4
  <2> HIDE DEF m
  <2>6. m + kept <= chunk
    BY <2>4, <2>5
  <2> QED
    BY <2>6 DEF m
<1>12. Reached(TRUE) \in Phases /\ Reached(FALSE) \in Phases
  BY <1>1, ReachedTyped
<1>13. /\ Strict' /\ Follows(TRUE, Reached(TRUE), client) =>
             Follows(TRUE, Run(TRUE, Known(dev.app), Reached(TRUE), tokens), client')
       /\ Loose' /\ Follows(FALSE, Reached(FALSE), client) =>
             Follows(FALSE, Run(FALSE, Known(dev.app), Reached(FALSE), tokens), client')
  BY <1>8, <1>11, <1>12
<1> QED
  BY <1>2, <1>8, <1>9, <1>10, <1>13, SpokenStep

-----------------------------------------------------------------------------
(* The theorems about the link.                                             *)

LEMMA LinkStarts == LinkInit => LinkInvariant
<1> SUFFICES ASSUME LinkInit
             PROVE  LinkInvariant
  OBVIOUS
<1>1. PICK app \in Apps :
          dev = [app |-> app, at |-> "ready", packet |-> "none", size |-> 0,
                 paths |-> 0, left |-> 0, buffer |-> <<>>, written |-> 0,
                 cluster |-> 0, old |-> 0]
  BY DEF LinkInit
<1>2. /\ card = [i \in 1 .. OldSize |-> -1] /\ OldSize \in Nat
      /\ client = [command |-> Idle, at |-> 1, sent |-> 0, due |-> FALSE]
      /\ ready = FALSE /\ offset = 0 /\ up = <<>> /\ rx = <<>> /\ down = Greeting
      /\ early = FALSE /\ faults = {}
  BY LinkAssumption DEF LinkInit, LinkAssumption
<1>3. /\ dev.at = "ready" /\ dev.packet = "none" /\ dev.written = 0
      /\ client.command = Idle
  BY <1>1, <1>2
<1>4. Harmless(Greeting)
  BY HarmlessTexts
<1>5. LinkTypes
  <2>1. dev \in Devices
    <3>1. "ready" \in Locations /\ <<>> \in Seq(Nat)
      BY DEF Locations
    <3> QED
      BY <1>1, <3>1 DEF Devices
  <2>2. client \in Clients
    BY <1>2 DEF Clients
  <2>3. card \in Seq(Int) /\ up \in Seq(Tokens) /\ rx \in Seq(Tokens) /\ down \in Seq(Letters)
    BY <1>2, <1>4 DEF Harmless
  <2>4. offset \in 0 .. 2
    BY <1>2
  <2>5. ready \in BOOLEAN /\ early \in BOOLEAN
    BY <1>2
  <2> QED
    BY <2>1, <2>2, <2>3, <2>4, <2>5 DEF LinkTypes
<1>6. ClientSound
  BY <1>3 DEF ClientSound, Sound
<1>7. DeviceSound /\ CardSound
  BY <1>3 DEF DeviceSound, CardSound, ChunkSound
<1>8. WordsRight
  <2>1. Heard = Hearing(Fresh, Greeting) /\ Len(down) \in Nat
    BY <1>2, <1>4, LenProperties DEF Heard, Fresh, Harmless
  <2>2. Heard[Len(down)].offset = 0 /\ \A n \in 0 .. Len(down) : ~Heard[n].ready
    BY <1>2, <1>4, <2>1 DEF Harmless
  <2>3. Len(down) \in 0 .. Len(down) /\ \A n \in 0 .. Len(down) - 1 : n \in 0 .. Len(down)
    BY <2>1
  <2>4. ~Pending
    BY <2>2, <2>3 DEF Pending
  <2> QED
    BY <2>2, <2>3, <2>4 DEF WordsRight
<1>9. ASSUME NEW strict \in BOOLEAN
      PROVE  InStep(strict)
  <2>1. rx \o up = <<>>
    BY <1>2
  <2>2. Reached(strict) = Phase(strict)
    BY <2>1, RunNone DEF Reached
  <2>3. /\ Phase(strict).at = "type" /\ (~strict => Phase(strict).open)
        /\ Phase(strict).room = Chunk /\ Phase(strict).sources = Sizes
    BY <1>3 DEF Phase, Settled
  <2>4. StageOf(client) = "type" /\ ~Sends(client)
    BY <1>3 DEF StageOf, Sends, StepOf, Idle
  <2>5. Follows(strict, Phase(strict), client)
    BY <2>3, <2>4 DEF Follows
  <2> QED
    BY <1>3, <2>2, <2>5 DEF InStep
<1> QED
  BY <1>5, <1>6, <1>7, <1>8, <1>9 DEF LinkInvariant

\* Every reachable state satisfies the link's invariant.
THEOREM LinkCorrect == LinkSpec => []LinkInvariant
<1>1. ASSUME LinkInvariant, [LinkNext]_linkVars
      PROVE  LinkInvariant'
  <2>1. CASE LinkNext
    <3>1. dev.at # "misled"
      BY <2>1 DEF LinkNext
    <3>2. CASE Client
      BY <1>1, <3>2, WaitForMagicWordOn, SendMessageOn, UploadFileOn, EndCommandOn,
         CommandRaisesOn DEF Client
    <3>3. CASE Device \/ HandleUartInput \/ Arrive \/ AbortCommand
      BY <1>1, <3>1, <3>3, DeviceOn, HandleUartInputOn, ArriveOn, AbortCommandOn
    <3>4. CASE \E c \in Commands : StartCommand(c)
      BY <1>1, <3>4, StartCommandOn
    <3> QED
      BY <2>1, <3>2, <3>3, <3>4 DEF LinkNext
  <2>2. CASE UNCHANGED linkVars
    <3>1. UNCHANGED <<dev, card, client, ready, offset, up, rx, down, early, faults>>
      BY <2>2 DEF linkVars
    <3>2. client \in Clients /\ early \in BOOLEAN /\ Sound(client, dev.app)
      BY <1>1 DEF LinkInvariant, LinkTypes, ClientSound
    <3>3. (Strict' => Strict) /\ (Loose' => Loose)
      BY <3>1 DEF Strict, Loose
    <3>4. /\ client' \in Clients /\ early' \in BOOLEAN /\ Sound(client', dev.app)
          /\ Strict' /\ Follows(TRUE, Reached(TRUE), client) =>
                Follows(TRUE, Reached(TRUE), client')
          /\ Loose' /\ Follows(FALSE, Reached(FALSE), client) =>
                Follows(FALSE, Reached(FALSE), client')
      BY <3>1, <3>2
    <3> QED
      BY <1>1, <3>1, <3>3, <3>4, SilentStep
  <2> QED
    BY <1>1, <2>1, <2>2
<1> QED
  BY <1>1, LinkStarts, PTL DEF LinkSpec

\* The device takes no byte for something else than it was sent as, unless more
\* was sent than it had asked for, a file failed or a command was abandoned.
THEOREM FramesStayAgreed == LinkSpec => []FramesAgree
<1>1. LinkInvariant => FramesAgree
  BY DEF LinkInvariant, Strict, InStep, FramesAgree
<1> QED
  BY <1>1, LinkCorrect, PTL

\* After an upload without fault the file on the card is the one that was sent.
THEOREM UploadedIsSource == LinkSpec => []UploadIsSource
<1>1. ASSUME LinkInvariant
      PROVE  UploadIsSource
  <2>1. SUFFICES ASSUME faults = {}, dev.at = "type", dev.packet = "create", dev.written > 0
                 PROVE  /\ Len(card) = dev.size
                        /\ \E avail \in Sizes :
                              card = [i \in 1 .. dev.size |-> IF i <= avail THEN i ELSE 0]
    BY DEF UploadIsSource
  <2>2. dev.app = "uartupld"
    <3>1. dev.app \in {"uartupld", "uartrun"}
      BY <1>1, LinkAssumption DEF LinkInvariant, LinkTypes, Devices, LinkAssumption
    <3>2. "create" \in Known(dev.app) \/ "create" = "none"
      BY <1>1, <2>1 DEF LinkInvariant, DeviceSound
    <3> QED
      BY <3>1, <3>2 DEF Known
  <2>3. CardSound
    BY <1>1, <2>1, <2>2 DEF LinkInvariant, Loose
  <2>4. FileIsSource
    BY <2>1, <2>3 DEF CardSound
  <2> QED
    BY <2>4 DEF FileIsSource, UnitOf
<1> QED
  BY <1>1, LinkCorrect, PTL
=============================================================================
