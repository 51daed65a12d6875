------------------------- MODULE MCGuiApplication -------------------------
(* A screen of two fields and a disabled label below them, and the two     *)
(* keys that do something on it.                                           *)
EXTENDS GuiApplication

CONSTANTS amount, offset, label, ent, down

MCElements  == {amount, offset, label}
MCFields    == {amount, offset}
MCDisabled  == {label}
MCArrows    == {down}
MCOtherKeys == {}
MCKeyOrder  == <<down, ent>>
MCNav == [e \in MCElements |-> [k \in MCArrows |->
             IF e = amount THEN offset ELSE IF e = offset THEN label ELSE NoElement]]
=============================================================================
