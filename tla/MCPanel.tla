------------------------------ MODULE MCPanel ------------------------------
(* Two buttons of one column in different rows, one of them also sent by   *)
(* the host; a channel with both paths and one with the bypass only; no    *)
(* sample rate for 2 bits.  An output inside a handler inside an output.   *)
EXTENDS Panel

CONSTANTS ch1, ch2

MCKeys     == {<<0, 1>>, <<2, 1>>}
MCEmulated == {<<2, 1>>}
MCChannels == {ch1, ch2}
MCBuffered == {ch1}
MCBypass   == {ch1, ch2}
MCSupports == [c \in MCChannels |-> IF c = ch1 THEN {8, 16} ELSE {8}]
MCRates    == [r \in Resolutions |-> IF r = 2 THEN 0 ELSE 1000]
=============================================================================
