----------------------------- MODULE GuiFields -----------------------------
(***************************************************************************)
(* The two input fields of the GUI library (user/libarys/gui/src/elements/ *)
(* complex.c): what the keys captured by an integer or a float field do to *)
(* its value, and what the end of the capture makes of it.  The screen has *)
(* one field, of either kind.                                              *)
(*                                                                         *)
(* Numbers.  The integer field's int64_t is a two's complement number of   *)
(* Width bits.  A float is exact to MaxPlace decimals and held in units of *)
(* the last one, quotients are truncated to it; so is decimal_multiplyer,  *)
(* the weight of the next digit.  Neighbouring magnitudes are a factor     *)
(* Kilo apart (10^3 in the code).                                          *)
(*                                                                         *)
(* Text.  current_str is the whole buffer: a copy or a deletion ends the   *)
(* text with a Nul and leaves the characters behind it, and typing writes  *)
(* no Nul, so what is shown may go on behind the field's length.           *)
(***************************************************************************)
EXTENDS Integers, Sequences

CONSTANTS Digits,          \* the digit keys
          Dot,             \* the decimal point, as a key and in a text
          Nul,             \* the character that ends a text
          TextSize,        \* the size of current_str
          Width,           \* bits of the integer field
          IntMin, IntMax, IntDefault,
          MaxPlace,        \* bound: decimals a float is exact to
          Kilo,
          MaxInputLen,     \* max_input_len of the float field
          AllowMagnitude,  \* allow_magnitude_change
          Ranges,          \* the <<minimum, maximum>> limits that may be set; a limit
                           \* is a coefficient, magnitude, text and weight, and one
                           \* call gives both limits the same weight
          Defaults,        \* the defaults that may be set
          MaxCoefficient   \* bound: the size of what is typed

Unit == 10 ^ MaxPlace

\* s_magnitudes, in units of its first entry.
Magnitudes == <<1, Kilo, Kilo * Kilo, Kilo * Kilo * Kilo, Kilo * Kilo * Kilo * Kilo>>

Value(c, magnitude) == c * Magnitudes[magnitude + 3]
True(limit) == Value(limit.coefficient, limit.magnitude)

Limit == [coefficient : Int, magnitude : -2 .. 2, weight : Nat, text : Seq(0 .. 9 \cup {Dot})]

Half == 2 ^ (Width - 1)

ASSUME FieldAssumption ==
    /\ Digits \subseteq 0 .. 9 /\ Dot \notin 0 .. 9 /\ Nul \notin 0 .. 9 \cup {Dot}
    /\ Width \in Nat \ {0} /\ Kilo \in Nat \ {0}
    /\ {IntMin, IntMax, IntDefault} \subseteq -Half .. Half - 1
    /\ IntMin <= IntMax
    /\ {TextSize, MaxInputLen, MaxCoefficient, MaxPlace} \subseteq Nat
    /\ MaxInputLen < TextSize
    /\ Ranges \subseteq Limit \X Limit /\ Defaults \subseteq Limit
    /\ \A r \in Ranges : /\ True(r[1]) <= True(r[2])
                         /\ Len(r[1].text) < TextSize /\ Len(r[2].text) < TextSize
    /\ \A d \in Defaults : Len(d.text) < TextSize

VARIABLES kind,        \* "int" or "float"
          captured,    \* TRUE while the field is current_input_capture
          int,         \* the integer field: value and recently_cleared
          float,       \* the float field: see FloatInit
          limits,      \* its minimum, maximum and default
          restored     \* TRUE when the last capture put the default back

fieldVars == <<kind, captured, int, float, limits, restored>>

Wrap(v) == ((v + Half) % (2 * Half)) - Half

\* C's division, towards zero.
Quotient(v, d) == IF v >= 0 THEN v \div d ELSE -((-v) \div d)
-----------------------------------------------------------------------------
(* strcpy_s: the text and a Nul, over what the buffer holds.               *)
Strcpy(text, from) ==
    [i \in 1 .. TextSize |-> IF i <= Len(from) THEN from[i]
                             ELSE IF i = Len(from) + 1 THEN Nul ELSE text[i]]

Blank == [i \in 1 .. TextSize |-> Nul]

Put(f, limit) ==
    [f EXCEPT !.coefficient = limit.coefficient, !.magnitude = limit.magnitude,
              !.weight = limit.weight, !.text = Strcpy(@, limit.text), !.len = Len(limit.text)]

(* create_integer_input_element.                                           *)
IntCreated == [value |-> IntDefault, cleared |-> FALSE]

(* create_float_input_element and its _simple form, which sets the limits  *)
(* with the functions below and so leaves the minimum's weight at 0.       *)
FloatCreated(r, d) ==
    /\ \E weight \in {0, r[1].weight} :
          limits = [minimum |-> [r[1] EXCEPT !.weight = weight], maximum |-> r[2], default |-> d]
    /\ float = [coefficient |-> d.coefficient, magnitude |-> d.magnitude,
                weight |-> d.weight, text |-> Strcpy(Blank, d.text), len |-> Len(d.text),
                changed |-> FALSE, output |-> True(d)]

FieldInit ==
    /\ kind \in {"int", "float"}
    /\ captured = FALSE
    /\ int = IntCreated
    /\ \E r \in Ranges, d \in Defaults : FloatCreated(r, d)
    /\ restored = FALSE

BeginCapture ==
    /\ ~captured /\ captured' = TRUE
    /\ UNCHANGED <<kind, int, float, limits, restored>>
-----------------------------------------------------------------------------
(* gui_complex_element_integer_input_on_captured_key_down *)
IntKey(value, cleared) ==
    /\ kind = "int" /\ captured
    /\ int' = [value |-> value, cleared |-> cleared]
    /\ UNCHANGED <<kind, captured, float, limits, restored>>

IntPlusMinus == IntKey(Wrap(-int.value), FALSE)
IntDel       == IntKey(Quotient(int.value, 10), Quotient(int.value, 10) = 0)
IntClr       == IntKey(0, TRUE)

\* A key without a meaning for the field only marks it as not cleared.
IntIgnored   == IntKey(int.value, FALSE)

IntDigit(d) ==
    LET tens == Wrap(int.value * 10)
    IN  IntKey(Wrap(IF tens >= 0 THEN tens + d ELSE tens - d), FALSE)

(* gui_complex_element_integer_input_on_capture_end.  ENT is IntIgnored and *)
(* then this; an application that moves the capture itself comes here with *)
(* the mark as it is.                                                      *)
IntCaptureEnd ==
    /\ kind = "int" /\ captured
    /\ int' = [value |-> IF int.value < IntMin THEN IntMin
                         ELSE IF int.value > IntMax THEN IntMax
                         ELSE IF int.cleared THEN IntDefault ELSE int.value,
               cleared |-> FALSE]
    /\ captured' = FALSE
    /\ UNCHANGED <<kind, float, limits, restored>>
-----------------------------------------------------------------------------
(* gui_complex_element_float_input_on_captured_key_down: f is the field a  *)
(* key leaves; every key but A, B and C clears recently_changed_magnitude. *)
FloatKey(f) ==
    /\ kind = "float" /\ captured
    /\ f.coefficient \in -MaxCoefficient .. MaxCoefficient
    /\ float' = f
    /\ UNCHANGED <<kind, captured, int, limits, restored>>

Typed(f) == [f EXCEPT !.changed = FALSE]

Cleared(f) ==
    [f EXCEPT !.magnitude = IF AllowMagnitude THEN 0 ELSE limits.default.magnitude,
              !.len = 0]

FloatPlusMinus ==
    FloatKey(Typed(IF float.changed THEN [float EXCEPT !.magnitude = -@]
                                    ELSE [float EXCEPT !.coefficient = -@]))

FloatClr ==
    FloatKey(Typed([Cleared(float) EXCEPT !.weight = Unit, !.coefficient = 0, !.text = Blank]))

FloatDelPoint ==
    /\ float.len > 0 /\ float.text[float.len] = Dot
    /\ FloatKey(Typed([float EXCEPT !.len = @ - 1, !.weight = Unit, !.text[float.len] = Nul]))

\* A field that becomes zero keeps the text in front of what was deleted.
FloatDelDigit ==
    /\ float.len > 0 /\ float.text[float.len] # Dot
    /\ LET weight == IF float.weight < Unit THEN float.weight * 10 ELSE float.weight
           last   == float.text[float.len] * (IF float.weight < Unit THEN weight ELSE Unit)
           rest   == IF float.coefficient < 0 THEN float.coefficient + last
                                              ELSE float.coefficient - last
           left   == IF weight = Unit THEN Quotient(rest, 10) ELSE rest
           f      == [float EXCEPT !.len = @ - 1, !.weight = weight, !.coefficient = left,
                                   !.text[float.len] = Nul]
       IN  FloatKey(Typed(IF left = 0 THEN Cleared(f) ELSE f))

\* current_str[n - 1].  In front of the buffer lies the pointer unit, whose top
\* byte is 0 whatever address of a program it holds.
CharBefore(text, n) == IF n = 0 THEN Nul ELSE text[n]

(* Mutant: a text that fills the buffer takes one more digit. *)
MutFloatDigit(d) ==
    /\ float.len <= MaxInputLen
    /\ FloatKey(Typed([float EXCEPT !.coefficient = @ * 10 + d * Unit,
                                    !.text[float.len + 1] = d, !.len = @ + 1]))

(* The weight 1 is the last a float is exact to: a bound.                  *)
FloatDigit(d) ==
    /\ float.len < MaxInputLen /\ float.weight # 1
    /\ LET leading == float.coefficient = 0 /\ CharBefore(float.text, float.len) = 0
           at      == IF leading THEN float.len ELSE float.len + 1
           digit   == IF float.coefficient >= 0 THEN d ELSE -d
       IN  FloatKey(Typed([float EXCEPT
               !.coefficient = IF float.weight = Unit THEN @ * 10 + digit * Unit
                                                      ELSE @ + digit * float.weight,
               !.weight = IF @ = Unit THEN @ ELSE @ \div 10,
               !.text[at] = d,
               !.len = at]))

FloatDot ==
    /\ float.len < MaxInputLen /\ float.weight = Unit
    /\ FloatKey(Typed([float EXCEPT !.text[float.len + 1] = Dot,
                                    !.len = @ + 1, !.weight = Unit \div 10]))

FloatMagnitude(m) ==
    /\ AllowMagnitude
    /\ FloatKey([float EXCEPT !.magnitude = m, !.changed = TRUE])

(* Mutant: the minimum is compared with the coefficient as it is shown. *)
MutFloatCaptureEnd ==
    LET output == Value(float.coefficient, float.magnitude)
    IN  /\ kind = "float" /\ captured
        /\ float' = IF float.coefficient < limits.minimum.coefficient
                    THEN [Put(float, limits.minimum) EXCEPT !.output = True(limits.minimum)]
                    ELSE IF output > True(limits.maximum)
                    THEN [Put(float, limits.maximum) EXCEPT !.output = True(limits.maximum)]
                    ELSE [float EXCEPT !.output = output]
        /\ restored' = FALSE
        /\ captured' = FALSE
        /\ UNCHANGED <<kind, int, limits>>

(* ENT ends the capture: gui_complex_element_float_input_on_capture_end.   *)
FloatCaptureEnd ==
    LET output == Value(float.coefficient, float.magnitude)
        low    == output < True(limits.minimum)
        high   == output > True(limits.maximum)
        empty  == ~low /\ ~high /\ float.len = 0
    IN  /\ kind = "float" /\ captured
        /\ float' = IF low
                    THEN [Put(float, limits.minimum) EXCEPT !.output = True(limits.minimum)]
                    ELSE IF high
                    THEN [Put(float, limits.maximum) EXCEPT !.output = True(limits.maximum)]
                    ELSE IF empty
                    THEN [Put(float, limits.default) EXCEPT !.output = True(limits.minimum)]
                    ELSE [float EXCEPT !.output = output]
        /\ restored' = empty
        /\ captured' = FALSE
        /\ UNCHANGED <<kind, int, limits>>
-----------------------------------------------------------------------------
(* Mutant: the output is cut to a new range, the input is not. *)
MutSetMinMax(r) ==
    LET raised == IF float.output < True(r[1])
                  THEN [float EXCEPT !.output = True(r[1])]
                  ELSE IF float.output > True(r[2])
                  THEN [float EXCEPT !.output = True(r[2])] ELSE float
    IN  /\ kind = "float"
        /\ limits' = [limits EXCEPT !.minimum = [r[1] EXCEPT !.weight = limits.minimum.weight],
                                    !.maximum = r[2]]
        /\ float' = raised
        /\ restored' = (restored /\ float' = float)
        /\ UNCHANGED <<kind, captured, int>>

(* gui_complex_element_float_input_set_min_max: the field takes the new    *)
(* weight, the maximum too, but the minimum keeps the one it had.          *)
SetMinMax(r) ==
    LET lowered == IF float.output > True(r[2])
                   THEN [Put(float, r[2]) EXCEPT !.output = True(r[2])] ELSE float
        raised  == IF lowered.output < True(r[1])
                   THEN [Put(lowered, r[1]) EXCEPT !.output = True(r[1])] ELSE lowered
    IN  /\ kind = "float"
        /\ limits' = [limits EXCEPT !.minimum = [r[1] EXCEPT !.weight = limits.minimum.weight],
                                    !.maximum = r[2]]
        /\ float' = raised
        /\ restored' = (restored /\ float' = float)
        /\ UNCHANGED <<kind, captured, int>>

(* gui_complex_element_float_input_set_default: a field that still has the *)
(* old default takes the new one, which no limit is compared with.         *)
SetDefault(d) ==
    /\ kind = "float"
    /\ limits' = [limits EXCEPT !.default = d]
    /\ float' = IF float.output = True(limits.default)
                THEN [Put(float, d) EXCEPT !.output = True(d)] ELSE float
    /\ restored' = (restored /\ float' = float)
    /\ UNCHANGED <<kind, captured, int>>

FloatNext ==
    \/ FloatPlusMinus \/ FloatClr \/ FloatDelPoint \/ FloatDelDigit \/ FloatDot
    \/ \E d \in Digits : FloatDigit(d)
    \/ \E m \in 0 .. 2 : FloatMagnitude(m)
    \/ FloatCaptureEnd
    \/ \E r \in Ranges : SetMinMax(r)
    \/ \E d \in Defaults : SetDefault(d)

IntNext ==
    \/ IntPlusMinus \/ IntDel \/ IntClr \/ IntIgnored
    \/ \E d \in Digits : IntDigit(d)
    \/ IntCaptureEnd

FieldNext == BeginCapture \/ IntNext \/ FloatNext

FieldSpec == FieldInit /\ [][FieldNext]_fieldVars
-----------------------------------------------------------------------------
(* Whatever was typed, and however often the limits were changed, what the *)
(* application reads is inside them whenever the field does not capture:   *)
(* the integer field wraps and the float field's text and coefficient may  *)
(* part, but nothing leaves the range.  Only a default is never compared   *)
(* with the limits: what is read may be a default outside of them.         *)
ReadInRange ==
    /\ kind = "int" /\ ~captured => int.value \in IntMin .. IntMax \cup {IntDefault}
    /\ kind = "float" => \/ float.output \in True(limits.minimum) .. True(limits.maximum)
                         \/ float.output = True(limits.default)

(* The last character of the buffer is a Nul in every sequence of keys,    *)
(* copies and deletions, though typing ends no text: drawing and measuring *)
(* the text stops inside the buffer, keys write inside it, and a magnitude *)
(* is one of the table.  (Reading does not stay inside: CharBefore.)       *)
TextInBuffer ==
    /\ float.len < TextSize /\ float.text[TextSize] = Nul
    /\ DOMAIN float.text = 1 .. TextSize
    /\ float.magnitude \in -2 .. 2

(* Between captures, the coefficient and magnitude from which the next key *)
(* goes on, and the sign and suffix are drawn, are those of the value the  *)
(* application reads, except where an empty input has put the default      *)
(* back.  Nothing of the kind holds of the digits drawn.                   *)
ValueIsRead ==
    kind = "float" /\ ~captured /\ ~restored =>
        float.output = Value(float.coefficient, float.magnitude)
=============================================================================
