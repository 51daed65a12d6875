---------------------------- MODULE MCGuiFields ----------------------------
(* An eight-bit integer field whose default is outside its limits, and a   *)
(* float field of four characters with three decimals: a range of decimals *)
(* and a tighter one of whole numbers, a default inside both and one that  *)
(* is outside the tighter.                                                 *)
EXTENDS GuiFields

MCIntMin == -50

MCDigits == {0, 5}

At(c, m, t, w) == [coefficient |-> c, magnitude |-> m, text |-> t, weight |-> w]

MCRanges == {<<At(100, -1, <<0, Dot, 1>>, 100), At(5000, 1, <<5, Dot, 0>>, 100)>>,
             <<At(1000, 0, <<1>>, 1000), At(2000, 0, <<2>>, 1000)>>}

MCDefaults == {At(1500, 0, <<1, Dot, 5>>, 1000), At(3000, 0, <<3>>, 1000)}
=============================================================================
