---------------------------- MODULE MCWaveEditor ----------------------------
(* Two waves whose levels differ in every sample, some beyond the range of *)
(* the converter; nine samples per second, so that 1 Hz takes two words    *)
(* and 2 Hz one; a base step of ten; buttons alone and two pairs.          *)
EXTENDS WaveEditor

CONSTANTS sine, saw

MCWaves == <<sine, saw>>
MCLevel(w, n, k) == IF w = sine THEN ((k * 97) % 600) - 20 ELSE 500 - k * 50
MCPresses == {{"0"}, {"1"}, {"2"}, {"A"}, {"B"}, {"C"}, {"DOT"}, {"PLUSMINUS"}, {"CLR"},
              {"DEL"}, {"ENT"}, {"CH1"}, {"2", "CH1"}, {"1", "ENT"}}
MCFirstString == <<2>>
MCMinString == <<1>>
=============================================================================
