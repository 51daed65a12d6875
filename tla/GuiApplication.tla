-------------------------- MODULE GuiApplication --------------------------
(***************************************************************************)
(* The GUI library's event loop (user/libarys/gui/src/application.c): the  *)
(* keypad is sampled, its changes and an expired timer become events, and  *)
(* the default handler turns events into navigation and input capture.     *)
(* The event queue is taken as the FIFO that GuiQueues shows it to be for  *)
(* up to MaxQueue waiting events.                                          *)
(*                                                                         *)
(* Elements are identities.  A Field is a complex element that can capture *)
(* input (elements/complex.c), what it does with the keys it captures is   *)
(* in GuiFields; here it ends its own capture on Enter.  A timer is a      *)
(* cursor timer, all of them have the same delay.                          *)
(***************************************************************************)
EXTENDS Integers, Sequences, SequencesExt, FiniteSets

CONSTANTS Elements, Fields, Disabled, NoElement,
          First,        \* the element the application selects before its loop
          Enter,        \* KEYPAD_STATE_BUTTON_ENT
          Arrows,       \* the keys that navigate: 8, 2, 4 and 6
          OtherKeys,
          Nav,          \* gui_navigation: where each arrow leads from an element
          KeyOrder,     \* the keys in the order of their bits
          MaxQueue,     \* bound: the events that wait
          MaxTimers     \* bound: the cursor timers that are set

KeypadKeys == {Enter} \cup Arrows \cup OtherKeys

ASSUME ApplicationAssumption ==
    /\ Fields \subseteq Elements /\ Disabled \subseteq Elements
    /\ First \in Elements /\ NoElement \notin Elements
    /\ Nav \in [Elements -> [Arrows -> Elements \cup {NoElement}]]
    /\ KeyOrder \in Seq(KeypadKeys)
    /\ \A k \in KeypadKeys : \E i \in DOMAIN KeyOrder : KeyOrder[i] = k
    /\ \A i, j \in DOMAIN KeyOrder : KeyOrder[i] = KeyOrder[j] => i = j
    /\ MaxQueue \in Nat /\ MaxTimers \in Nat

VARIABLES keypad,       \* application->keypad: the keys seen pressed last
          pending,      \* the events that wait
          handling,     \* the event handed to the application, or Nothing
          selection,    \* current_navigation_selection
          capture,      \* current_input_capture, NoElement for NULL
          focused,      \* the elements whose FOCUSED flag is set
          cursor,       \* cursor_visible of each field
          cursorTimers, \* the number of cursor timers set
          exhausted,    \* TRUE once malloc fails: no event or timer is made
          told          \* what the events handed out so far have told

applicationVars == <<keypad, pending, handling, selection, capture, focused, cursor,
                     cursorTimers, exhausted, told>>

Key(type, k) == [type |-> type, key |-> k]
Begin(e)     == [type |-> "INPUT_CAPTURE_BEGIN", element |-> e]
End(e)       == [type |-> "INPUT_CAPTURE_END", element |-> e]
Changed(e)   == [type |-> "INPUT_FIELD_CHANGED", element |-> e]
Select(e)    == [type |-> "NAV_SELECT", element |-> e]
Focus(e, f)  == [type |-> "NAV_FOCUS_CHANGED", from |-> e, element |-> f]
Timer        == [type |-> "TIMER_TRIGGERED"]
Redraw       == [type |-> "REDRAW"]
Nothing      == [type |-> "NONE"]

Push(events) == IF exhausted THEN pending ELSE pending \o events

InBounds == Len(pending') <= MaxQueue /\ cursorTimers' <= MaxTimers
-----------------------------------------------------------------------------
(* What an application that only reads events believes: the keys that are  *)
(* down, the element that captures, the element in focus; wrong is set     *)
(* when an event contradicts what the earlier ones told.                   *)
Tell(t, event) ==
    CASE event.type = "KEY_DOWN" ->
            [t EXCEPT !.keys = @ \cup {event.key}, !.wrong = @ \/ event.key \in t.keys]
      [] event.type = "KEY_UP" ->
            [t EXCEPT !.keys = @ \ {event.key}, !.wrong = @ \/ event.key \notin t.keys]
      [] event.type = "INPUT_CAPTURE_BEGIN" ->
            [t EXCEPT !.capture = event.element, !.wrong = @ \/ t.capture # NoElement]
      [] event.type = "INPUT_CAPTURE_END" ->
            [t EXCEPT !.capture = NoElement, !.wrong = @ \/ t.capture # event.element]
      [] event.type = "NAV_FOCUS_CHANGED" ->
            [t EXCEPT !.focus = event.element, !.wrong = @ \/ t.focus # event.from]
      [] OTHER -> t

TellAll(t, events) ==
    LET after[n \in 0 .. Len(events)] ==
            IF n = 0 THEN t ELSE Tell(after[n - 1], events[n])
    IN  after[Len(events)]
-----------------------------------------------------------------------------
(* The applications in src/user select an element before their loop.       *)
ApplicationInit ==
    /\ keypad = {}
    /\ pending = <<Redraw, Focus(NoElement, First)>>
    /\ handling = Nothing
    /\ selection = First
    /\ capture = NoElement
    /\ focused = {First}
    /\ cursor = [f \in Fields |-> FALSE]
    /\ cursorTimers = 0
    /\ exhausted = FALSE
    /\ told = [keys |-> {}, capture |-> NoElement, focus |-> NoElement, wrong |-> FALSE]

(* s_add_keypad_events_from_state: an event for each of the keys, by bit.  *)
KeyEvents(keys, type) ==
    LET upto[n \in 0 .. Len(KeyOrder)] ==
            IF n = 0 THEN <<>>
            ELSE IF KeyOrder[n] \in keys THEN Append(upto[n - 1], Key(type, KeyOrder[n]))
            ELSE upto[n - 1]
    IN  upto[Len(KeyOrder)]

(* Mutant: a key that stays pressed is reported again. *)
MutKeypadEvents(pressed) ==
    KeyEvents(pressed, "KEY_DOWN") \o KeyEvents(keypad \ pressed, "KEY_UP")

(* s_add_keypad_events: one event for each key that changed, those pressed *)
(* before those released.                                                  *)
KeypadEvents(pressed) ==
    KeyEvents(pressed \ keypad, "KEY_DOWN") \o KeyEvents(keypad \ pressed, "KEY_UP")

(* s_add_timer_events: an expired timer leaves its queue only when its     *)
(* event could be made.                                                    *)
TimerEvents(expired) == IF expired /\ ~exhausted THEN <<Timer>> ELSE <<>>

(* gui_application_get_next_event, called when the last event is done.     *)
GetNextEvent(pressed, expired) ==
    LET events == Push(KeypadEvents(pressed) \o TimerEvents(expired))
    IN  /\ handling = Nothing
        /\ expired => cursorTimers > 0
        /\ events # <<>>
        /\ keypad' = pressed
        /\ cursorTimers' = cursorTimers - Len(TimerEvents(expired))
        /\ pending' = Tail(events)
        /\ handling' = Head(events)
        /\ told' = Tell(told, Head(events))
        /\ InBounds
        /\ UNCHANGED <<selection, capture, focused, cursor, exhausted>>

(* The loop of gui_application_get_next_event goes round: only keys that   *)
(* changed while malloc fails leave a trace.                               *)
NoEventYet(pressed) ==
    /\ handling = Nothing /\ pending = <<>>
    /\ pressed = keypad \/ exhausted
    /\ keypad' = pressed
    /\ UNCHANGED <<pending, handling, selection, capture, focused, cursor,
                   cursorTimers, exhausted, told>>
-----------------------------------------------------------------------------
(* Mutant: the element that loses the focus keeps its flag. *)
MutSetSelection(e) ==
    /\ pending' = Push(<<Focus(selection, e)>>)
    /\ focused' = focused \cup ({e} \ {NoElement})
    /\ selection' = e

(* gui_application_set_navigation_selection *)
SetSelection(e) ==
    /\ pending' = Push(<<Focus(selection, e)>>)
    /\ focused' = (focused \ {selection}) \cup ({e} \ {NoElement})
    /\ selection' = e

(* Mutant: the end of a capture leaves the cursor as it was. *)
MutSetCapture(e) ==
    LET ending    == IF capture = NoElement THEN <<>> ELSE <<End(capture), Changed(capture)>>
        beginning == IF e = NoElement THEN <<>> ELSE <<Begin(e)>>
    IN  /\ pending' = Push(ending \o beginning)
        /\ UNCHANGED cursor
        /\ cursorTimers' = IF e = NoElement \/ exhausted THEN cursorTimers ELSE cursorTimers + 1
        /\ capture' = e

(* gui_application_set_input_capture: the old capture's element ends its   *)
(* input (on_capture_end) and says it changed, the new one has its cursor  *)
(* timer set.                                                              *)
SetCapture(e) ==
    LET ending    == IF capture = NoElement THEN <<>> ELSE <<End(capture), Changed(capture)>>
        beginning == IF e = NoElement THEN <<>> ELSE <<Begin(e)>>
    IN  /\ pending' = Push(ending \o beginning)
        /\ cursor' = [f \in Fields |-> cursor[f] /\ f # capture]
        /\ cursorTimers' = IF e = NoElement \/ exhausted THEN cursorTimers ELSE cursorTimers + 1
        /\ capture' = e

Done == handling' = Nothing /\ InBounds /\ UNCHANGED <<keypad, exhausted, told>>

Handling(type) == handling.type = type

(* s_handle_navigation_inputs, for Enter and for an arrow. *)
HandleEnter ==
    /\ Handling("KEY_DOWN") /\ handling.key = Enter
    /\ capture = NoElement
    /\ pending' = Push(<<Select(selection)>>)
    /\ UNCHANGED <<selection, capture, focused, cursor, cursorTimers>>
    /\ Done

Leads(e, f) == f # NoElement /\ (f \in Disabled => e \in Disabled)

HandleArrow ==
    /\ Handling("KEY_DOWN") /\ handling.key \in Arrows
    /\ capture = NoElement
    /\ Leads(selection, Nav[selection][handling.key])
    /\ SetSelection(Nav[selection][handling.key])
    /\ UNCHANGED <<capture, cursor, cursorTimers>>
    /\ Done

(* on_captured_key_down: Enter ends the field's capture. *)
HandleCapturedEnter ==
    /\ Handling("KEY_DOWN") /\ handling.key = Enter
    /\ capture # NoElement
    /\ SetCapture(NoElement)
    /\ UNCHANGED <<selection, focused>>
    /\ Done

HandleSelect ==
    /\ Handling("NAV_SELECT") /\ handling.element \in Fields
    /\ SetCapture(handling.element)
    /\ UNCHANGED <<selection, focused>>
    /\ Done

(* Mutant: the cursor timer is not set again. *)
MutHandleTimer ==
    /\ Handling("TIMER_TRIGGERED") /\ capture # NoElement
    /\ cursor' = [cursor EXCEPT ![capture] = ~@]
    /\ UNCHANGED <<pending, selection, capture, focused, cursorTimers>>
    /\ Done

(* s_handle_internal_gui_timers: the cursor of the element that captures   *)
(* now is toggled, and the timer is set again.                             *)
HandleTimer ==
    /\ Handling("TIMER_TRIGGERED") /\ capture # NoElement
    /\ cursor' = [cursor EXCEPT ![capture] = ~@]
    /\ cursorTimers' = IF exhausted THEN cursorTimers ELSE cursorTimers + 1
    /\ UNCHANGED <<pending, selection, capture, focused>>
    /\ Done

(* What the default handler leaves alone. *)
HandleOther ==
    /\ \/ handling.type \in {"KEY_UP", "REDRAW", "NAV_FOCUS_CHANGED", "INPUT_CAPTURE_BEGIN",
                             "INPUT_CAPTURE_END", "INPUT_FIELD_CHANGED"}
       \/ /\ Handling("KEY_DOWN") /\ handling.key # Enter
          /\ \/ capture # NoElement
             \/ handling.key \notin Arrows
             \/ /\ handling.key \in Arrows
                /\ ~Leads(selection, Nav[selection][handling.key])
       \/ Handling("NAV_SELECT") /\ handling.element \notin Fields
       \/ Handling("TIMER_TRIGGERED") /\ capture = NoElement
    /\ UNCHANGED <<pending, selection, capture, focused, cursor, cursorTimers>>
    /\ Done

Handle ==
    \/ HandleEnter
    \/ HandleArrow
    \/ HandleCapturedEnter
    \/ HandleSelect
    \/ HandleTimer
    \/ HandleOther

HeapExhausted ==
    /\ ~exhausted /\ exhausted' = TRUE
    /\ UNCHANGED <<keypad, pending, handling, selection, capture, focused, cursor,
                   cursorTimers, told>>

ApplicationNext ==
    \/ \E pressed \in SUBSET KeypadKeys, expired \in BOOLEAN : GetNextEvent(pressed, expired)
    \/ \E pressed \in SUBSET KeypadKeys : NoEventYet(pressed)
    \/ Handle
    \/ HeapExhausted

ApplicationSpec == ApplicationInit /\ [][ApplicationNext]_applicationVars
-----------------------------------------------------------------------------
(* An application that keeps its own picture of the keys, the capture and  *)
(* the focus from its events is never contradicted by one (a key goes down *)
(* only when it was up, a capture begins only when none is on), and once   *)
(* it has handled every event that waits its picture is the library's.     *)
EventsTellAll ==
    ~exhausted => TellAll(told, pending) =
        [keys |-> keypad, capture |-> capture, focus |-> selection, wrong |-> FALSE]

(* A field that captures input has a cursor timer set, queued or in hand:  *)
(* its cursor does not stop blinking (each capture sets one of its own, so *)
(* there can be more).                                                     *)
CursorTicks ==
    capture # NoElement /\ ~exhausted =>
        \/ cursorTimers > 0
        \/ Handling("TIMER_TRIGGERED")
        \/ \E i \in DOMAIN pending : pending[i] = Timer

(* The screen agrees with the library whatever was lost: exactly the       *)
(* selected element is drawn as focused, and only the field that captures  *)
(* input shows a cursor, none left by a capture that ended between ticks.  *)
ScreenAgrees ==
    /\ focused = {selection} \ {NoElement}
    /\ \A f \in Fields : cursor[f] => capture = f
=============================================================================
