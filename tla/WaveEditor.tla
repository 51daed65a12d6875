----------------------------- MODULE WaveEditor -----------------------------
(***************************************************************************)
(* sch1wave, the program that plays a wave on channel 1                    *)
(* (user/sch1wave/src/main.c), with its numeric input (numeric_input.c).   *)
(* PRG_EXIT interrupts it between any two steps: the handler it captured   *)
(* stops the writing of the buffer or the output, none captured ends it.   *)
(* Of the five parameters the frequency is kept: the others only change    *)
(* the levels of the samples, as the wave type does.                       *)
(* Numbers are in thousandths, what is below is cut off.                   *)
(***************************************************************************)
EXTENDS SampleBuffer

CONSTANTS Waves,              \* wave_functions
          Level(_, _, _),     \* the level of wave w, n samples long, at sample i
          Presses,            \* bound: the sets of buttons pressed together
          Rate,               \* dac_get_sample_rate
          MinValue, MaxValue, \* the frequency's min and max
          MinString,          \* min_string
          FirstValue, FirstString,
          Kilo,               \* the factor of one base step
          StringSize,         \* bound: characters of value_string (31)
          ValueBound,         \* bound: what the value may grow to
          MostBytes           \* what vmemmap can give

ASSUME WaveAssumption ==
    /\ Len(Waves) \in 1 .. 9 /\ DOMAIN Waves = 1 .. Len(Waves)
    /\ Rate \in Nat /\ MinValue \in Nat \ {0} /\ MaxValue \in Nat
    /\ FirstValue \in Nat /\ FirstValue >= MinValue
    /\ Kilo \in Nat \ {0} /\ StringSize \in Nat /\ ValueBound \in Nat /\ MostBytes \in Nat
    /\ \A k \in DOMAIN Waves, n \in 0 .. (Rate * 1000) \div MinValue :
          \A j \in 0 .. n : Level(Waves[k], n, j) \in Int

VARIABLES choice,          \* selection_choice
          wave, selection, \* selected_wave, selections[0]
          editing,         \* s_target_location is set
          work,            \* s_working_data and the statics beside it
          pc, i,           \* where the program is, the loop's i
          size, buffer,    \* output_buffer_size, output_buffer
          capture,         \* the handler given to capture_prg_exit
          polling          \* the keypad is polled

menuVars   == <<choice, wave, selection>>
inputVars  == <<editing, work>>
outputVars == <<i, size, buffer>>
vars == <<menuVars, inputVars, pc, outputVars, capture, polling>>

DigitButtons == <<"0", "1", "2", "3", "4", "5", "6", "7", "8", "9">>
Point  == -1      \* the character '.' of a string, the digits being 0 .. 9
Unit   == 1000
Words  == 0 .. MostBytes \div 8 - 1
NoWork == [value |-> 0, string |-> <<>>, base |-> 0, multiplier |-> Unit, lastBase |-> FALSE]

(* main: a program begins with its statics and without a buffer.           *)
Fresh == [value |-> FirstValue, string |-> FirstString, base |-> 0]
Unmapped == [k \in Words |-> {}]
Init ==
    /\ choice = 0 /\ wave = Waves[1] /\ selection = Fresh
    /\ editing = FALSE /\ work = NoWork
    /\ pc = "idle" /\ i = 0
    /\ size = 0 /\ buffer = Unmapped
    /\ capture = "none" /\ polling = TRUE
-----------------------------------------------------------------------------
(* numeric_input.c.  A working value v has the true value v * 1000^base.   *)
InRange(v, base) ==
    IF base >= 0 THEN v * Kilo ^ base \in MinValue .. MaxValue
    ELSE v \in MinValue * Kilo ^ (-base) .. MaxValue * Kilo ^ (-base)

Scaled(v, base) == IF base >= 0 THEN v * Kilo ^ base ELSE v \div Kilo ^ (-base)

(* get_digiet_from_keypad_state: the highest digit pressed, or -1.         *)
Digit(keys) ==
    LET pressed == {d \in 0 .. 9 : DigitButtons[d + 1] \in keys} IN
    IF pressed = {} THEN -1 ELSE CHOOSE d \in pressed : \A e \in pressed : e <= d

(* s_handle_base_selection.                                                *)
BaseSelected(keys, w) ==
    LET chosen == IF "A" \in keys THEN 2 ELSE IF "B" \in keys THEN 1 ELSE 0
        base   == IF w.base < 0 THEN -chosen ELSE chosen
    IN  IF keys \cap {"A", "B", "C"} = {} THEN w
        ELSE [w EXCEPT !.lastBase = TRUE,
                       !.base = IF InRange(w.value, base) THEN base ELSE @]

(* s_handle_digits: a leading zero alone is replaced; a full string or a   *)
(* value out of range takes no digit.                                      *)
DigitTyped(keys, w) ==
    LET d    == Digit(keys)
        old  == IF w.multiplier = Unit THEN 10 * w.value ELSE w.value
        new  == IF old >= 0 THEN old + d * w.multiplier ELSE old - d * w.multiplier
        text == IF w.value = 0 /\ w.string = <<0>> THEN <<>> ELSE w.string
    IN  IF d = -1 THEN w
        ELSE IF ~InRange(new, w.base) THEN [w EXCEPT !.lastBase = FALSE]
        ELSE IF Len(text) >= StringSize THEN [w EXCEPT !.lastBase = FALSE, !.string = text]
        ELSE [w EXCEPT !.lastBase = FALSE, !.value = new, !.string = Append(text, d),
                       !.multiplier = IF @ = Unit THEN Unit ELSE @ \div 10]

(* s_handle_decimal_point.                                                 *)
PointTyped(keys, w) ==
    IF "DOT" \notin keys THEN w
    ELSE IF w.multiplier # Unit \/ Len(w.string) >= StringSize THEN [w EXCEPT !.lastBase = FALSE]
    ELSE [w EXCEPT !.lastBase = FALSE, !.multiplier = Unit \div 10, !.string = Append(@, Point)]

(* s_handle_plusminus: the sign of the base straight after a base key, of  *)
(* the value otherwise.                                                    *)
SignChanged(keys, w) ==
    IF "PLUSMINUS" \notin keys THEN w
    ELSE IF w.lastBase
      THEN [w EXCEPT !.lastBase = FALSE,
                     !.base = IF InRange(w.value, -w.base) THEN -@ ELSE @]
      ELSE [w EXCEPT !.value = IF InRange(-w.value, w.base) THEN -@ ELSE @]

(* s_handle_clear: the multiplier stays.                                   *)
AllCleared(keys, w) ==
    IF "CLR" \notin keys THEN w
    ELSE [w EXCEPT !.lastBase = FALSE, !.string = <<>>, !.value = 0, !.base = 0]

(* s_handle_delete: the last character, and what it added to the value.    *)
Tenth(v) == IF v >= 0 THEN v \div 10 ELSE -((-v) \div 10)
LastDeleted(keys, w) ==
    LET last == w.string[Len(w.string)]
        text == SubSeq(w.string, 1, Len(w.string) - 1)
        less == w.value - last * w.multiplier
    IN  IF "DEL" \notin keys THEN w
        ELSE IF w.string = <<>> THEN [w EXCEPT !.lastBase = FALSE]
        ELSE IF last = Point THEN [w EXCEPT !.lastBase = FALSE, !.string = text, !.multiplier = Unit]
        ELSE IF w.multiplier = Unit
          THEN [w EXCEPT !.lastBase = FALSE, !.string = text, !.value = Tenth(less)]
          ELSE [w EXCEPT !.lastBase = FALSE, !.string = text, !.value = less,
                         !.multiplier = 10 * @]

(* numeric_input_handle_input up to ENT.                                   *)
Edited(keys, w) ==
    LastDeleted(keys, AllCleared(keys, SignChanged(keys, PointTyped(keys,
        DigitTyped(keys, BaseSelected(keys, w))))))

(* s_get_values_ready_for_return: an empty string changes nothing.         *)
Returned(w) ==
    LET v == Scaled(w.value, w.base) IN
    IF w.string = <<>> THEN selection
    ELSE IF v < MinValue THEN [value |-> MinValue, string |-> MinString, base |-> 0]
    ELSE [value |-> v, string |-> w.string, base |-> w.base]
-----------------------------------------------------------------------------
(* The main loop hands on_key_down the buttons newly pressed.              *)
Pressed(keys) == pc = "idle" /\ (polling \/ keys = {})

(* prepare_numeric_input_for_double.                                       *)
Prepared == [NoWork EXCEPT !.value = selection.value, !.string = selection.string,
                           !.base = selection.base]

(* Mutant: the size is not rounded up to whole words.                      *)
MutBytes == (Rate * Unit) \div selection.value

(* required_samples and required_buffer_size, one byte for a sample.       *)
Samples == (Rate * Unit) \div selection.value
Bytes   == Samples + (IF Samples % 8 = 0 THEN 0 ELSE 8 - (Samples % 8))
(* start_output up to the loop: a buffer too small is mapped larger.  When *)
(* that fails the menu does not come back: the choice stays -1.            *)
Start(mapped) ==
    /\ choice' = -1
    /\ IF mapped \/ Bytes <= size
         THEN /\ size' = IF size < Bytes THEN Bytes ELSE size
              /\ capture' = "abort" /\ pc' = "writing" /\ i' = 0
         ELSE UNCHANGED <<size, capture, pc, i>>
    /\ UNCHANGED <<buffer, polling>>

(* set_selection_choice: 1 is the wave type, 2 to 6 are parameters, of     *)
(* which 2, the frequency, is kept; CH1 starts the output.                 *)
Menu(keys) ==
    /\ Pressed(keys) /\ choice = 0
    /\ LET d      == Digit(keys)
           chosen == IF d \in 1 .. 2 THEN d ELSE 0
       IN  /\ editing' = (editing \/ chosen = 2)
           /\ work' = IF chosen = 2 THEN Prepared ELSE work
           /\ IF "CH1" \in keys
                THEN \E mapped \in {b \in BOOLEAN : b => Bytes <= MostBytes} :
                        Start(mapped)
                ELSE choice' = chosen /\ UNCHANGED <<pc, outputVars, capture, polling>>
    /\ UNCHANGED <<wave, selection>>

(* handle_wave_type_selection.                                             *)
SelectWave(keys) ==
    /\ Pressed(keys) /\ choice = 1
    /\ IF keys \cap {"DEL", "CLR", "ENT"} # {}
         THEN choice' = 0 /\ UNCHANGED wave
         ELSE /\ Digit(keys) \in DOMAIN Waves
              /\ wave' = Waves[Digit(keys)]
              /\ choice' = 0
    /\ UNCHANGED <<selection, inputVars, pc, outputVars, capture, polling>>

(* numeric_input_handle_input with on_key_down's answer to its result; not *)
(* active it takes no button.  The working data are read no more after ENT. *)
Input(keys) ==
    /\ Pressed(keys) /\ choice \notin {0, 1} /\ editing
    /\ LET w == Edited(keys, work) IN
       /\ Scaled(w.value, w.base) \in -ValueBound .. ValueBound
       /\ IF "ENT" \in keys
            THEN /\ selection' = Returned(w)
                 /\ work' = NoWork /\ editing' = FALSE /\ choice' = 0
            ELSE work' = w /\ UNCHANGED <<selection, editing, choice>>
    /\ UNCHANGED <<wave, pc, outputVars, capture, polling>>

(* One turn of the loop: a sample, or the end of it.                       *)
Target(n) == n \div ValuesPerWord(8, 2)
WriteSample ==
    /\ pc = "writing"
    /\ IF i < Samples /\ choice # 0
         THEN /\ buffer' = [buffer EXCEPT ![Target(i)] =
                              Written(@, Code(Level(wave, Samples, i), 8), i, 0, 8, 2, 18)]
              /\ i' = i + 1
              /\ UNCHANGED pc
         ELSE pc' = "written" /\ UNCHANGED <<buffer, i>>
    /\ UNCHANGED <<menuVars, inputVars, size, capture, polling>>

(* Mutant: the abort handler stays captured when the writing was aborted.  *)
MutReleaseAbort ==
    /\ pc = "written"
    /\ capture' = IF choice = 0 THEN capture ELSE "none"
    /\ pc' = "checking" /\ i' = 0
    /\ UNCHANGED <<menuVars, inputVars, size, buffer, polling>>

(* capture_prg_exit(NULL) after the loop; then the abort is looked for.    *)
ReleaseAbort ==
    /\ pc = "written"
    /\ capture' = "none"
    /\ pc' = "checking" /\ i' = 0
    /\ UNCHANGED <<menuVars, inputVars, size, buffer, polling>>

CheckAbort ==
    /\ pc = "checking"
    /\ choice' = 0
    /\ pc' = IF choice = 0 THEN "idle" ELSE "complete"
    /\ UNCHANGED <<wave, selection, inputVars, outputVars, capture, polling>>

(* capture_prg_exit(dac_output_end), keypad_polling(0), dac_output_start,  *)
(* which returns at once if the channel does not support the configuration.*)
CaptureEnd ==
    /\ pc = "complete"
    /\ capture' = "end" /\ pc' = "captured"
    /\ UNCHANGED <<menuVars, inputVars, outputVars, polling>>

StopPolling ==
    /\ pc = "captured"
    /\ polling' = FALSE /\ pc' = "unpolled"
    /\ UNCHANGED <<menuVars, inputVars, outputVars, capture>>

OutputStarts ==
    /\ pc = "unpolled"
    /\ pc' \in {"live", "stopped"}
    /\ UNCHANGED <<menuVars, inputVars, outputVars, capture, polling>>

(* capture_prg_exit(NULL) and keypad_polling(-2) after the output.         *)
ReleaseEnd ==
    /\ pc = "stopped"
    /\ capture' = "none" /\ pc' = "released"
    /\ UNCHANGED <<menuVars, inputVars, outputVars, polling>>

PollAgain ==
    /\ pc = "released"
    /\ polling' = TRUE /\ pc' = "idle"
    /\ UNCHANGED <<menuVars, inputVars, outputVars, capture>>

(* PRG_EXIT: abort_buffer_write; dac_output_end, which returns from the    *)
(* output there is; or, nothing captured, the end of the program, after    *)
(* which the kernel polls again and the program may be started anew.       *)
PrgExitAborts ==
    /\ capture = "abort"
    /\ choice' = 0
    /\ UNCHANGED <<wave, selection, inputVars, pc, outputVars, capture, polling>>

PrgExitStops ==
    /\ capture = "end" /\ pc = "live"
    /\ pc' = "stopped"
    /\ UNCHANGED <<menuVars, inputVars, outputVars, capture, polling>>

PrgExitEnds ==
    /\ capture = "none"
    /\ choice' = 0 /\ wave' = Waves[1] /\ selection' = Fresh
    /\ editing' = FALSE /\ work' = NoWork
    /\ pc' = "idle" /\ i' = 0
    /\ size' = 0 /\ buffer' = Unmapped
    /\ capture' = "none" /\ polling' = TRUE

Next ==
    \/ \E keys \in Presses : Menu(keys) \/ SelectWave(keys) \/ Input(keys)
    \/ WriteSample \/ ReleaseAbort \/ CheckAbort
    \/ CaptureEnd \/ StopPolling \/ OutputStarts \/ ReleaseEnd \/ PollAgain
    \/ PrgExitAborts \/ PrgExitStops \/ PrgExitEnds

Spec == Init /\ [][Next]_vars
-----------------------------------------------------------------------------
(* While the output runs, channel 1 shows the selected wave at the         *)
(* selected frequency, sample for sample and none of an earlier or aborted *)
(* buffer: through the packing, the loop's rotations and the wiring.       *)
OutputIsSelected ==
    pc = "live" =>
        \A n \in 0 .. Samples - 1 :
            Latched(buffer[Target(n)], 0, n % ValuesPerWord(8, 2), 8, 2)
                = Code(Level(wave, Samples, n), 8)

(* Every word written, and every word the output loop reads, is in memory  *)
(* the program has been given.                                             *)
OutputInBuffer ==
    /\ pc = "writing" /\ i < Samples => 8 * (Target(i) + 1) <= size
    /\ pc = "live" /\ Samples > 0 => 8 * (Target(Samples - 1) + 1) <= size

(* Whatever was aborted, refused or stopped: back in the main loop, the    *)
(* keypad is polled and PRG_EXIT ends the program.                         *)
MainLoopAttended == pc = "idle" => polling /\ capture = "none"
=============================================================================
