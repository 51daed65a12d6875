---------------------------- MODULE SampleBuffer ----------------------------
(***************************************************************************)
(* Samples in memory: how a program packs DAC codes into 64-bit words      *)
(* (abstracted_outputs/src/raw.c), and how the output loop plays the words *)
(* on the GPIO pins (kernal/src/io/data_output.c).  A code and a word are  *)
(* the sets of the numbers of their bits that are one.                     *)
(***************************************************************************)
EXTENDS Integers, Sequences

WordBits == 64
Bits(n)  == {b \in 0 .. 15 : (n \div 2 ^ b) % 2 = 1}

Frames(resolution)           == resolution \div 2
ValuesPerWord(resolution, s) == (WordBits \div s) \div Frames(resolution)

(* s_remix_value_to_frame_bits: the bits of the code sent in each frame,   *)
(* the one for the channel's LSB register first, the frames in the order   *)
(* they are sent.                                                          *)
Remixed(resolution) ==
    LET two     == << <<0, 1>> >>
        eight   == << <<4, 7>>, <<3, 6>>, <<2, 5>> >> \o two
        sixteen == << <<11, 15>>, <<10, 14>>, <<9, 13>>, <<8, 12>> >> \o eight
    IN  CASE resolution = 2 -> two [] resolution = 8 -> eight [] OTHER -> sixteen

(* Where write_dac_buffer_entry puts bit b of frame j of a sample.         *)
Place(j, b, index, channel, resolution, frameSize, offset) ==
    LET entry == index % ValuesPerWord(resolution, frameSize) IN
    (b + j * frameSize + offset + 2 * channel
       + entry * Frames(resolution) * frameSize) % WordBits

(* Mutant: the bits of the sample that was there are not masked out.       *)
MutWritten(word, code, index, channel, resolution, frameSize, offset) ==
    LET slots == (0 .. Frames(resolution) - 1) \X {0, 1}
        place(s) == Place(s[1], s[2], index, channel, resolution, frameSize, offset)
    IN  word \cup
        {place(s) : s \in {t \in slots : Remixed(resolution)[t[1] + 1][t[2] + 1] \in code}}

(* write_dac_buffer_entry: the word after the sample's bits are replaced.  *)
Written(word, code, index, channel, resolution, frameSize, offset) ==
    LET slots == (0 .. Frames(resolution) - 1) \X {0, 1}
        place(s) == Place(s[1], s[2], index, channel, resolution, frameSize, offset)
    IN  (word \ {place(s) : s \in slots}) \cup
        {place(s) : s \in {t \in slots : Remixed(resolution)[t[1] + 1][t[2] + 1] \in code}}

(* voltage_to_dac_value, in hundredths of a volt: clamped to 0 .. 5 V.     *)
DacMax == 500
Code(level, resolution) ==
    LET clamped == IF level > DacMax THEN DacMax ELSE IF level < 0 THEN 0 ELSE level
    IN  Bits((clamped * (2 ^ resolution - 1)) \div DacMax)
-----------------------------------------------------------------------------
(* _dac_output_start_internal: the bit a pin shows in frame j of sample v  *)
(* of a word that is rotated right by the shift amount after every frame.  *)
OnPin(word, pin, v, j, resolution, shift) ==
    (pin + shift * (v * Frames(resolution) + j)) % WordBits \in word

(* The converters: two shift registers each, whose output n is the bit     *)
(* sent n frames before the last; this is where the outputs are wired to.  *)
LsbWiring == <<0, 2, 3, 4, 8, 9, 10, 11>>
MsbWiring == <<1, 5, 6, 7, 12, 13, 14, 15>>

(* The code a channel's converter latches for sample v of a word.          *)
Latched(word, channel, v, resolution, shift) ==
    LET lsb == 18 + 2 * channel
        sent(pin, n) == OnPin(word, pin, v, Frames(resolution) - n, resolution, shift)
    IN  {LsbWiring[n] : n \in {k \in 1 .. Frames(resolution) : sent(lsb, k)}} \cup
        {MsbWiring[n] : n \in {k \in 1 .. Frames(resolution) : sent(lsb + 1, k)}}
=============================================================================
