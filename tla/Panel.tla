------------------------------- MODULE Panel -------------------------------
(***************************************************************************)
(* The instrument's front panel: the scanned keypad and its emulation over *)
(* the UART (kernal/src/io/keypad.c), the shift register that both selects *)
(* keypad rows and sets the output relays (hardware_controll_register.c),  *)
(* and the configuration of the outputs (data_output.c).                   *)
(*                                                                         *)
(* System calls run with interrupts masked.  The interrupt handlers of the *)
(* keypad therefore interleave with a program in user mode, with a running *)
(* output, and with the wait for a key after a program fault, which reads  *)
(* the keypad itself with interrupts enabled.  Handlers do not nest.       *)
(*                                                                         *)
(* A handler of the program's own (PRG_EXIT or a peripheral's interrupt)   *)
(* runs at the end of an interrupt, with interrupts masked.  Inside an     *)
(* output it makes system calls while the output waits for its return, and *)
(* may start an output of its own.  Outside of one it is no more than a    *)
(* part of the program that no interrupt breaks into.                      *)
(***************************************************************************)
EXTENDS Integers, FiniteSets, Sequences

CONSTANTS Keys,           \* the buttons of the matrix, <<row, column>> each
          Emulated,       \* those the host sends
          Channels,
          SupportsBuffered, SupportsBypass,   \* channels, from channelN.cfg
          Supports,       \* the resolutions of each channel, from channelN.cfg
          Rates,          \* the sample rate of each resolution, from outputs.cfg
          PollingDefault, EmulationDefault,   \* from system.cfg, TRUE for on
          MaxEntries,     \* bound: entries in one message of the host
          MaxOutputs      \* bound: outputs inside each other

Resolutions == {2, 8, 16}
Rows == 0 .. 3

ASSUME PanelAssumption ==
    /\ Keys \subseteq Rows \X Nat
    /\ Emulated \subseteq Keys
    /\ SupportsBuffered \subseteq Channels /\ SupportsBypass \subseteq Channels
    /\ Supports \in [Channels -> SUBSET Resolutions]
    /\ Rates \in [Resolutions -> Nat]
    /\ PollingDefault \in BOOLEAN /\ EmulationDefault \in BOOLEAN
    /\ MaxEntries \in Nat \ {0} /\ MaxOutputs \in Nat

VARIABLES held,         \* the buttons held down
          register,     \* hardware_controll_register in memory
          wired,        \* what the shift register drives: the last one written
          polling,      \* s_physical_keypad_delay > 0, its timer set
          scan, rows,   \* keypad_poll: the next row, and row_data so far
          physical,     \* s_physical_keypad_state
          latched,      \* history: the buttons each row showed when last latched
          emulating,    \* s_uart_emmulation_enabled
          standed, forcedOff, forcedOn,       \* s_uart_emmulation_...
          entries,      \* the entries a message still announces
          asked,        \* history: the state the host last gave each key
          resolution, buffered,               \* s_current_resolution, s_dacs
          outputs,      \* the outputs begun and not left, each inside the handler that
                        \* broke into the one before: the channels it drives in the
                        \* configuration it was started with, none once that changed
          pc,           \* what runs below the interrupts
          irq,          \* the interrupt being handled
          first, state  \* halt_and_wait's first_state, get_keypad_state's state

keypadVars == <<polling, scan, rows, physical, latched>>
hostVars   == <<emulating, standed, forcedOff, forcedOn, entries, asked>>
dacVars    == <<resolution, buffered, outputs>>
waitVars   == <<first, state>>
vars == <<held, register, wired, keypadVars, hostVars, dacVars, pc, irq, waitVars>>

NoOutput == <<>>
-----------------------------------------------------------------------------
(* dac_resolution as initialize_dacs calls it: 8, then 16, then 2 bits.    *)
FirstResolution ==
    IF Rates[8] > 0 THEN 8 ELSE IF Rates[16] > 0 THEN 16 ELSE IF Rates[2] > 0 THEN 2 ELSE 0

(* The relay bits of a resolution: 0x30, 0x00 and 0x20 drive two relays.   *)
ResolutionBits(r) == CASE r = 2 -> 3 [] r = 16 -> 2 [] OTHER -> 0

(* s_set_defult_buffering_states: buffered where that is supported.        *)
FirstBuffering == [c \in Channels |-> c \in SupportsBuffered]

(* initialize_dacs on a cleared register.                                  *)
FirstRegister ==
    [row |-> 0, resolution |-> ResolutionBits(FirstResolution),
     bypass |-> SupportsBypass \ SupportsBuffered]

(* kernel_main: the register, the outputs, then the keypad.                *)
Init ==
    /\ held = {}
    /\ register = FirstRegister
    /\ wired = register
    /\ polling = PollingDefault /\ emulating = EmulationDefault
    /\ scan = 0 /\ rows = {} /\ physical = {} /\ latched = {}
    /\ standed = {} /\ forcedOff = {} /\ forcedOn = {} /\ entries = 0
    /\ asked = [k \in Emulated |-> "off"]
    /\ resolution = FirstResolution
    /\ buffered = FirstBuffering
    /\ outputs = NoOutput
    /\ pc = "program" /\ irq = "none"
    /\ first = {} /\ state = {}

Press(k) ==
    /\ held' = IF k \in held THEN held \ {k} ELSE held \cup {k}
    /\ UNCHANGED <<register, wired, keypadVars, hostVars, dacVars, pc, irq, waitVars>>

Interruptible(source) ==
    /\ irq = "none" /\ pc # "handler"
    /\ irq' = source
    /\ pc' = IF pc = "wfi" THEN "read" ELSE pc
-----------------------------------------------------------------------------
(* keypad_poll_from_timer: the poll timer fires, and is set again after it. *)
TimerFires ==
    /\ polling
    /\ Interruptible("poll")
    /\ scan' = 0 /\ rows' = {}
    /\ UNCHANGED <<held, register, wired, polling, physical, latched, hostVars, dacVars, waitVars>>

OfRow(r, keys) == {k \in keys : k[1] = r}

(* Mutant: the row to read now is selected instead of the next one. *)
MutTarget(row) == row

Target(row) == IF row < 3 THEN row + 1 ELSE 0

(* One turn of keypad_poll: the input latch takes the row that is driven,  *)
(* and reading it out writes the register, which selects the next row.     *)
(* What was read goes to the turn's row of row_data.                       *)
PollRow ==
    /\ irq = "poll" /\ scan \in Rows
    /\ register' = [register EXCEPT !.row = Target(scan)]
    /\ wired' = register'
    /\ rows' = rows \cup {<<scan, k[2]>> : k \in OfRow(wired.row, held)}
    /\ latched' = (latched \ OfRow(wired.row, Keys)) \cup OfRow(wired.row, held)
    /\ scan' = scan + 1
    /\ UNCHANGED <<held, polling, physical, hostVars, dacVars, pc, irq, waitVars>>

PollEnds ==
    /\ irq = "poll" /\ scan \notin Rows
    /\ physical' = rows
    /\ scan' = 0 /\ rows' = {}
    /\ irq' = "none"
    /\ UNCHANGED <<held, register, wired, polling, latched, hostVars, dacVars, pc, waitVars>>
-----------------------------------------------------------------------------
(* keypad_uart_interupt_handler: a message announces its entries, and the  *)
(* handler waits for every one of them.                                    *)
MessageArrives(n) ==
    /\ emulating
    /\ Interruptible("uart")
    /\ entries' = n
    /\ UNCHANGED <<held, register, wired, keypadVars, emulating, standed, forcedOff,
                   forcedOn, asked, dacVars, waitVars>>

(* Mutant: "on" leaves a forced state in place. *)
MutEntry(k, new) ==
    /\ standed'   = IF new = "on" THEN standed \cup {k} ELSE standed \ {k}
    /\ forcedOff' = IF new = "forcedOff" THEN forcedOff \cup {k}
                    ELSE IF new = "on" THEN forcedOff ELSE forcedOff \ {k}
    /\ forcedOn'  = IF new = "forcedOn" THEN forcedOn \cup {k} ELSE forcedOn \ {k}

Entry(k, new) ==
    /\ standed'   = IF new = "on" THEN standed \cup {k} ELSE standed \ {k}
    /\ forcedOff' = IF new = "forcedOff" THEN forcedOff \cup {k} ELSE forcedOff \ {k}
    /\ forcedOn'  = IF new = "forcedOn" THEN forcedOn \cup {k} ELSE forcedOn \ {k}

NextEntry ==
    /\ irq = "uart" /\ entries > 0
    /\ entries' = entries - 1
    /\ UNCHANGED <<held, register, wired, keypadVars, emulating, dacVars, pc, irq, waitVars>>

KeyEntry(k, new) ==
    /\ NextEntry
    /\ Entry(k, new)
    /\ asked' = [asked EXCEPT ![k] = new]

(* A button or a state the handler does not know, and PRG_EXIT, which      *)
(* triggers its handler (ProgramControl) when the message is done.         *)
OtherEntry == NextEntry /\ UNCHANGED <<standed, forcedOff, forcedOn, asked>>

MessageEnds ==
    /\ irq = "uart" /\ entries = 0
    /\ irq' = "none"
    /\ UNCHANGED <<held, register, wired, keypadVars, hostVars, dacVars, pc, waitVars>>
-----------------------------------------------------------------------------
(* System calls, with interrupts masked: by the program, or by a handler   *)
(* inside an output.                                                       *)
Calls == pc \in {"program", "handler"} /\ irq = "none"

(* keypad_polling and uart_keypad_emmulation with 0, a value or -2.        *)
KeypadPolling(on) ==
    /\ Calls
    /\ polling' = on
    /\ UNCHANGED <<held, register, wired, scan, rows, physical, latched, hostVars, dacVars,
                   pc, irq, waitVars>>

UartEmulation(on) ==
    /\ Calls
    /\ emulating' = on
    /\ UNCHANGED <<held, register, wired, keypadVars, standed, forcedOff, forcedOn, entries,
                   asked, dacVars, pc, irq, waitVars>>

Seen == IF polling THEN physical ELSE {}
Merged(keys) == (keys \ forcedOff) \cup forcedOn

(* What the clearing of the "on" keys does to what the host asked for.     *)
Cleared ==
    /\ standed' = {}
    /\ asked' = [k \in Emulated |-> IF asked[k] = "on" /\ k \in state' THEN "off" ELSE asked[k]]

(* get_keypad_state as a system call; state shows what it returns.         *)
GetKeypadState ==
    /\ Calls
    /\ IF emulating THEN /\ state' = Merged(Seen \cup standed)
                         /\ Cleared
                    ELSE /\ state' = Seen
                         /\ UNCHANGED <<standed, asked>>
    /\ UNCHANGED <<held, register, wired, keypadVars, emulating, forcedOff, forcedOn, entries,
                   dacVars, pc, irq, first>>

WriteRegister(reg) == register' = reg /\ wired' = reg

(* What the kernel does not look for: the outputs that are still running.  *)
Reconfigured == outputs' = [i \in DOMAIN outputs |-> {}]

(* Mutant: the relay bits of the last resolution are not removed. *)
MutDacResolution(r) ==
    /\ Calls
    /\ IF Rates[r] > 0
       THEN /\ resolution' = r
            /\ WriteRegister([register EXCEPT !.resolution =
                                IF @ > ResolutionBits(r) THEN @ ELSE ResolutionBits(r)])
            /\ Reconfigured
       ELSE UNCHANGED <<register, wired, resolution, outputs>>
    /\ UNCHANGED <<held, keypadVars, hostVars, buffered, pc, irq, waitVars>>

(* dac_resolution: a resolution without a sample rate is refused.          *)
DacResolution(r) ==
    /\ Calls
    /\ IF Rates[r] > 0
       THEN /\ resolution' = r
            /\ WriteRegister([register EXCEPT !.resolution = ResolutionBits(r)])
            /\ Reconfigured
       ELSE UNCHANGED <<register, wired, resolution, outputs>>
    /\ UNCHANGED <<held, keypadVars, hostVars, buffered, pc, irq, waitVars>>

(* dac_channel_buffering: a state the channel does not support is refused. *)
DacChannelBuffering(c, on) ==
    /\ Calls
    /\ IF c \in (IF on THEN SupportsBuffered ELSE SupportsBypass)
       THEN /\ buffered' = [buffered EXCEPT ![c] = on]
            /\ WriteRegister([register EXCEPT !.bypass = IF on THEN @ \ {c} ELSE @ \cup {c}])
            /\ Reconfigured
       ELSE UNCHANGED <<register, wired, buffered, outputs>>
    /\ UNCHANGED <<held, keypadVars, hostVars, resolution, pc, irq, waitVars>>

(* dac_channel_supports_config(c, -1, -1) = 0                              *)
SupportsConfig(c) ==
    /\ c \in (IF buffered[c] THEN SupportsBuffered ELSE SupportsBypass)
    /\ resolution \in Supports[c]

(* dac_output_start: the channels are checked, then the output runs with   *)
(* interrupts enabled until its buffer or dac_output_end ends it.          *)
DacOutputStart(channels) ==
    /\ Calls
    /\ Len(outputs) < MaxOutputs
    /\ \A c \in channels : SupportsConfig(c)
    /\ outputs' = Append(outputs, channels) /\ pc' = "output"
    /\ UNCHANGED <<held, register, wired, keypadVars, hostVars, resolution, buffered, irq, waitVars>>

(* The first n outputs are left running: the next one's caller goes on.    *)
LeaveOutputs(n) ==
    /\ irq = "none"
    /\ outputs' = SubSeq(outputs, 1, n)
    /\ pc' = IF n = 0 THEN "program" ELSE "handler"
    /\ UNCHANGED <<held, register, wired, keypadVars, hostVars, resolution, buffered, irq, waitVars>>

DacOutputEnds == pc = "output" /\ LeaveOutputs(Len(outputs) - 1)

(* dac_output_end, called by a handler.  Which output it leaves is the     *)
(* subject of ProgramControl: here it is any of them.                      *)
DacOutputEnd == pc = "handler" /\ \E n \in 0 .. Len(outputs) - 1 : LeaveOutputs(n)

(* event_handler_on_interupt_end, trigger_user_interupt_handler.           *)
HandlerBegins ==
    /\ pc = "output" /\ irq = "none"
    /\ pc' = "handler"
    /\ UNCHANGED <<held, register, wired, keypadVars, hostVars, dacVars, irq, waitVars>>

(* The handler returns, and the output it broke into goes on as it was set *)
(* up.  Returns through a dead frame (ProgramControl) are not followed.    *)
HandlerReturn ==
    /\ pc = "handler" /\ irq = "none"
    /\ pc' = "output"
    /\ UNCHANGED <<held, register, wired, keypadVars, hostVars, dacVars, irq, waitVars>>
-----------------------------------------------------------------------------
(* Mutant: what the program turned off stays off. *)
MutExiting ==
    /\ irq = "none"
    /\ emulating' = EmulationDefault
    /\ outputs' = NoOutput
    /\ state' = {} /\ first' = {}
    /\ UNCHANGED <<held, register, wired, polling, scan, rows, physical, latched, standed,
                   forcedOff, forcedOn, entries, asked, resolution, buffered, irq>>

(* on_user_program_exiting: keypad_polling(-2), uart_keypad_emmulation(-2). *)
Exiting ==
    /\ irq = "none"
    /\ polling' = PollingDefault /\ emulating' = EmulationDefault
    /\ outputs' = NoOutput
    /\ state' = {} /\ first' = {}
    /\ UNCHANGED <<held, register, wired, scan, rows, physical, latched, standed, forcedOff,
                   forcedOn, entries, asked, resolution, buffered, irq>>

(* A program ends, by itself or by PRG_EXIT, and the next one starts.      *)
ProgramExits == Exiting /\ pc' = "program"

(* generic_user_exception, user_arm_exception_handler: they wait for a key. *)
ProgramFaults == pc \in {"program", "handler"} /\ Exiting /\ pc' = "first"

InHalt == pc \in {"first", "firstClear", "read", "clear", "compare", "wfi"}

(* halt_and_wait_from_user_input calls get_keypad_state with interrupts    *)
(* enabled: it takes the "on" keys in one step and clears them in another. *)
HaltReads ==
    /\ pc \in {"first", "read"} /\ irq = "none"
    /\ state' = Seen \cup (IF emulating THEN standed ELSE {})
    /\ pc' = IF pc = "first" THEN "firstClear" ELSE "clear"
    /\ UNCHANGED <<held, register, wired, keypadVars, hostVars, dacVars, irq, first>>

HaltClears ==
    /\ pc \in {"firstClear", "clear"} /\ irq = "none"
    /\ IF emulating THEN /\ state' = Merged(state)
                         /\ Cleared
                    ELSE UNCHANGED <<state, standed, asked>>
    /\ IF pc = "firstClear" THEN first' = state' /\ pc' = "read"
                            ELSE first' = first /\ pc' = "compare"
    /\ UNCHANGED <<held, register, wired, keypadVars, emulating, forcedOff, forcedOn, entries,
                   dacVars, irq>>

HaltWaits ==
    /\ pc = "compare" /\ irq = "none" /\ state = first
    /\ pc' = "wfi"
    /\ UNCHANGED <<held, register, wired, keypadVars, hostVars, dacVars, irq, waitVars>>

HaltEnds ==
    /\ pc = "compare" /\ irq = "none" /\ state # first
    /\ pc' = "program"
    /\ first' = {} /\ state' = {}
    /\ UNCHANGED <<held, register, wired, keypadVars, hostVars, dacVars, irq>>
-----------------------------------------------------------------------------
Entries ==
    \/ \E k \in Emulated, new \in {"off", "on", "forcedOff", "forcedOn"} : KeyEntry(k, new)
    \/ OtherEntry

Handlers == PollRow \/ PollEnds \/ Entries \/ MessageEnds

Halts == HaltReads \/ HaltClears \/ HaltWaits \/ HaltEnds

Next ==
    \/ \E k \in Keys : Press(k)
    \/ TimerFires \/ \E n \in 1 .. MaxEntries : MessageArrives(n)
    \/ Handlers
    \/ \E on \in BOOLEAN : KeypadPolling(on) \/ UartEmulation(on)
    \/ GetKeypadState
    \/ \E r \in Resolutions : DacResolution(r)
    \/ \E c \in Channels, on \in BOOLEAN : DacChannelBuffering(c, on)
    \/ \E channels \in SUBSET Channels \ {{}} : DacOutputStart(channels)
    \/ DacOutputEnds \/ DacOutputEnd \/ HandlerBegins \/ HandlerReturn
    \/ ProgramExits \/ ProgramFaults
    \/ Halts

(* A pending timer is served before other interrupts, and the handlers are *)
(* shorter than the time between interrupts: neither the timer nor the     *)
(* wait is put off for ever.  The host completes the messages it begins.   *)
Spec == Init /\ [][Next]_vars /\ SF_vars(TimerFires) /\ WF_vars(Handlers) /\ SF_vars(Halts)
-----------------------------------------------------------------------------
(* keypad_poll pipelines the rows: each is selected while the one before   *)
(* it is read out, across output calls that rewrite the same register.     *)
(* Between polls, the buttons reported are those their own rows showed.    *)
RowsReadInPlace == irq # "poll" => physical = latched /\ wired.row = 0

(* Three masks hold one state for each key: they say what the host last    *)
(* asked for, in every order of entries, frames and programs, and no "on"  *)
(* outlives the "off" that cancels it or the frame that reports it.        *)
KeysAsAsked ==
    /\ \A k \in standed : asked[k] = "on"
    /\ forcedOff = {k \in Emulated : asked[k] = "forcedOff"}
    /\ forcedOn = {k \in Emulated : asked[k] = "forcedOn"}

(* The relays follow what dac_resolution and dac_channel_buffering report, *)
(* whatever polls, outputs and handlers write the register in between.  An *)
(* output runs on channels that support the wired configuration, unless a  *)
(* handler inside it changed that: the calls do not look for outputs.      *)
OutputsWired ==
    /\ wired = register
    /\ wired.resolution = ResolutionBits(resolution)
    /\ \A c \in SupportsBuffered \cup SupportsBypass : buffered[c] <=> c \notin wired.bypass
    /\ \A i \in DOMAIN outputs : \A c \in outputs[i] :
          /\ c \in (IF c \in wired.bypass THEN SupportsBypass ELSE SupportsBuffered)
          /\ resolution \in Supports[c]

(* After a fault, the wait for a key ends when the buttons held down stay  *)
(* different from what it first saw, whatever the program had turned off.  *)
KeyEndsHalt ==
    \A keys \in SUBSET Keys :
        ~<>[](/\ pc \in {"read", "clear", "compare", "wfi"}
              /\ held = keys /\ standed = {}
              /\ first # IF emulating THEN Merged(keys) ELSE keys)
=============================================================================
