-------------------------- MODULE WaveEditorProofs --------------------------
(***************************************************************************)
(* Proofs about WaveEditor, for any waves, sample rate and memory: what    *)
(* the packing of a sample into a word leaves to be played, and that the   *)
(* output is the selected wave, inside the buffer, whenever PRG_EXIT       *)
(* comes.                                                                  *)
(***************************************************************************)
EXTENDS WaveEditor, TLAPS

-----------------------------------------------------------------------------
(* Samples in words: 8 bits a sample, sent in 4 frames of 2 bits, 8 samples *)
(* in a word.                                                               *)

LEMMA EightPerWord ==
  /\ Frames(8) = 4 /\ ValuesPerWord(8, 2) = 8
  /\ \A n \in Nat : Target(n) = n \div 8
BY DEF Frames, ValuesPerWord, WordBits, Target

\* The bit of the word that is register b's in frame j of sample v.
Spot(v, j, b) == (18 + b + 2 * j + 8 * v) % 64

LEMMA SpotsApart ==
  ASSUME NEW v \in 0 .. 7, NEW j \in 0 .. 3, NEW b \in {0, 1},
         NEW w \in 0 .. 7, NEW k \in 0 .. 3, NEW c \in {0, 1},
         Spot(v, j, b) = Spot(w, k, c)
  PROVE  v = w /\ j = k /\ b = c
<1> DEFINE m == b + 2 * j + 8 * v
           n == c + 2 * k + 8 * w
<1>1. m \in 0 .. 63 /\ n \in 0 .. 63
  OBVIOUS
<1>2. (18 + m) % 64 = (18 + n) % 64
  BY DEF Spot
<1>3. m = n
  <2> HIDE DEF m, n
  <2> QED
    BY <1>1, <1>2
<1> QED
  BY <1>3

LEMMA Placed ==
  ASSUME NEW n \in Nat, NEW j \in 0 .. 3, NEW b \in {0, 1}
  PROVE  Place(j, b, n, 0, 8, 2, 18) = Spot(n % 8, j, b) /\ n % 8 \in 0 .. 7
<1>1. n % 8 \in 0 .. 7
  OBVIOUS
<1>2. Place(j, b, n, 0, 8, 2, 18) = (b + j * 2 + 18 + 2 * 0 + (n % 8) * 4 * 2) % 64
  BY EightPerWord DEF Place, WordBits
<1>3. b + j * 2 + 18 + 2 * 0 + (n % 8) * 4 * 2 = 18 + b + 2 * j + 8 * (n % 8)
  BY <1>1
<1> QED
  BY <1>1, <1>2, <1>3 DEF Spot

\* The bit of the code that register b is sent in frame j.
Sent == << <<4, 7>>, <<3, 6>>, <<2, 5>>, <<0, 1>> >>

LEMMA RemixedEight ==
  ASSUME NEW j \in 0 .. 3, NEW b \in {0, 1}
  PROVE  Remixed(8)[j + 1][b + 1] = Sent[j + 1][b + 1]
<1> DEFINE first == << <<4, 7>>, <<3, 6>>, <<2, 5>> >>
           two == << <<0, 1>> >>
<1>1. Remixed(8) = first \o two
  BY DEF Remixed
<1>2. first \in Seq(Int \X Int) /\ two \in Seq(Int \X Int) /\ Len(first) = 3 /\ Len(two) = 1
  OBVIOUS
<1>3. /\ (first \o two)[1] = <<4, 7>> /\ (first \o two)[2] = <<3, 6>>
      /\ (first \o two)[3] = <<2, 5>> /\ (first \o two)[4] = <<0, 1>>
  OBVIOUS
<1>4. j = 0 \/ j = 1 \/ j = 2 \/ j = 3
  OBVIOUS
<1> HIDE DEF first, two
<1>5. Remixed(8)[j + 1] = Sent[j + 1]
  <2>1. /\ Sent[1] = <<4, 7>> /\ Sent[2] = <<3, 6>>
        /\ Sent[3] = <<2, 5>> /\ Sent[4] = <<0, 1>>
    BY DEF Sent
  <2>2. j + 1 = 1 \/ j + 1 = 2 \/ j + 1 = 3 \/ j + 1 = 4
    BY <1>4
  <2> QED
    BY <1>1, <1>3, <2>1, <2>2
<1> QED
  BY <1>5

\* The word after a sample is written: its bits are the code's, the others stay.
LEMMA WrittenBits ==
  ASSUME NEW word, NEW code, NEW n \in Nat,
         NEW v \in 0 .. 7, NEW j \in 0 .. 3, NEW b \in {0, 1}
  PROVE  Spot(v, j, b) \in Written(word, code, n, 0, 8, 2, 18) <=>
            IF v = n % 8 THEN Sent[j + 1][b + 1] \in code ELSE Spot(v, j, b) \in word
<1> DEFINE slots == (0 .. 3) \X {0, 1}
           place(s) == Place(s[1], s[2], n, 0, 8, 2, 18)
           ones == {t \in slots : Remixed(8)[t[1] + 1][t[2] + 1] \in code}
<1>1. Written(word, code, n, 0, 8, 2, 18) =
        (word \ {place(s) : s \in slots}) \cup {place(s) : s \in ones}
  <2>1. slots = (0 .. Frames(8) - 1) \X {0, 1}
    BY EightPerWord
  <2> HIDE DEF slots
  <2> QED
    BY <2>1 DEF Written
<1>2. \A s \in slots : place(s) = Spot(n % 8, s[1], s[2])
  BY Placed
<1>3. \A s \in slots : s \in ones <=> Sent[s[1] + 1][s[2] + 1] \in code
  BY RemixedEight
<1>4. n % 8 \in 0 .. 7 /\ <<j, b>> \in slots /\ ones \subseteq slots
  OBVIOUS
<1> HIDE DEF place, ones
<1>5. \A s \in slots : Spot(v, j, b) = place(s) <=> v = n % 8 /\ s = <<j, b>>
  <2>1. ASSUME NEW s \in slots, Spot(v, j, b) = place(s)
        PROVE  v = n % 8 /\ s = <<j, b>>
    <3>1. v = n % 8 /\ j = s[1] /\ b = s[2]
      <4>1. s[1] \in 0 .. 3 /\ s[2] \in {0, 1} /\ Spot(v, j, b) = Spot(n % 8, s[1], s[2])
        BY <1>2, <2>1
      <4> QED
        BY <1>4, <4>1, SpotsApart
    <3> QED
      BY <3>1
  <2>2. v = n % 8 => Spot(v, j, b) = place(<<j, b>>)
    BY <1>2, <1>4
  <2> QED
    BY <2>1, <2>2
<1>6. CASE v = n % 8
  <2>1. Spot(v, j, b) = place(<<j, b>>)
    BY <1>4, <1>5, <1>6
  <2>2. Spot(v, j, b) \in {place(s) : s \in slots}
    BY <1>4, <2>1
  <2>3. Spot(v, j, b) \in {place(s) : s \in ones} <=> <<j, b>> \in ones
    BY <1>4, <1>5, <2>1
  <2>4. <<j, b>> \in ones <=> Sent[j + 1][b + 1] \in code
    BY <1>3, <1>4
  <2> QED
    BY <1>1, <1>6, <2>2, <2>3, <2>4
<1>7. CASE v # n % 8
  <2>1. Spot(v, j, b) \notin {place(s) : s \in slots}
    BY <1>5, <1>7
  <2>2. Spot(v, j, b) \notin {place(s) : s \in ones}
    BY <1>4, <2>1
  <2> QED
    BY <1>1, <1>7, <2>1, <2>2
<1> QED
  BY <1>6, <1>7

\* The converter latches what the frames of the sample send.
LEMMA LatchedBits ==
  ASSUME NEW word, NEW v \in 0 .. 7
  PROVE  Latched(word, 0, v, 8, 2) =
           {LsbWiring[k] : k \in {n \in 1 .. 4 : Spot(v, 4 - n, 0) \in word}} \cup
           {MsbWiring[k] : k \in {n \in 1 .. 4 : Spot(v, 4 - n, 1) \in word}}
<1>1. ASSUME NEW n \in 1 .. 4, NEW b \in {0, 1}
      PROVE  OnPin(word, 18 + b, v, 4 - n, 8, 2) <=> Spot(v, 4 - n, b) \in word
  <2>1. (18 + b) + 2 * (v * 4 + (4 - n)) = 18 + b + 2 * (4 - n) + 8 * v
    OBVIOUS
  <2> QED
    BY <2>1, EightPerWord DEF OnPin, WordBits, Spot
<1>2. ASSUME NEW n \in 1 .. 4
      PROVE  /\ OnPin(word, 18, v, 4 - n, 8, 2) <=> Spot(v, 4 - n, 0) \in word
             /\ OnPin(word, 19, v, 4 - n, 8, 2) <=> Spot(v, 4 - n, 1) \in word
  <2>1. 18 + 0 = 18 /\ 18 + 1 = 19
    OBVIOUS
  <2> QED
    BY <1>1, <2>1
<1>3. 18 + 2 * 0 = 18 /\ 18 + 1 = 19
  OBVIOUS
<1>4. Latched(word, 0, v, 8, 2) =
        {LsbWiring[k] : k \in {n \in 1 .. 4 : OnPin(word, 18, v, 4 - n, 8, 2)}} \cup
        {MsbWiring[k] : k \in {n \in 1 .. 4 : OnPin(word, 19, v, 4 - n, 8, 2)}}
  BY <1>3, EightPerWord DEF Latched
<1>5. /\ {n \in 1 .. 4 : OnPin(word, 18, v, 4 - n, 8, 2)} = {n \in 1 .. 4 : Spot(v, 4 - n, 0) \in word}
      /\ {n \in 1 .. 4 : OnPin(word, 19, v, 4 - n, 8, 2)} = {n \in 1 .. 4 : Spot(v, 4 - n, 1) \in word}
  BY <1>2
<1> QED
  BY <1>4, <1>5

LEMMA WiredAsSent ==
  ASSUME NEW k \in 1 .. 4
  PROVE  Sent[(4 - k) + 1][1] = LsbWiring[k] /\ Sent[(4 - k) + 1][2] = MsbWiring[k]
<1>1. k = 1 \/ k = 2 \/ k = 3 \/ k = 4
  OBVIOUS
<1> QED
  BY <1>1 DEF Sent, LsbWiring, MsbWiring

LEMMA WiringComplete ==
  ASSUME NEW e \in 0 .. 7
  PROVE  (\E k \in 1 .. 4 : LsbWiring[k] = e) \/ (\E k \in 1 .. 4 : MsbWiring[k] = e)
<1>1. /\ LsbWiring[1] = 0 /\ LsbWiring[2] = 2 /\ LsbWiring[3] = 3 /\ LsbWiring[4] = 4
      /\ MsbWiring[1] = 1 /\ MsbWiring[2] = 5 /\ MsbWiring[3] = 6 /\ MsbWiring[4] = 7
  BY DEF LsbWiring, MsbWiring
<1>2. 1 \in 1 .. 4 /\ 2 \in 1 .. 4 /\ 3 \in 1 .. 4 /\ 4 \in 1 .. 4
  OBVIOUS
<1>3. e = 0 \/ e = 1 \/ e = 2 \/ e = 3 \/ e = 4 \/ e = 5 \/ e = 6 \/ e = 7
  OBVIOUS
<1> QED
  BY <1>1, <1>2, <1>3

\* A sample written is latched as it was, through packing, rotation and wiring.
LEMMA LatchesWritten ==
  ASSUME NEW word, NEW code \in SUBSET (0 .. 7), NEW n \in Nat
  PROVE  Latched(Written(word, code, n, 0, 8, 2, 18), 0, n % 8, 8, 2) = code
<1> DEFINE w == Written(word, code, n, 0, 8, 2, 18)
           v == n % 8
<1>1. v \in 0 .. 7
  OBVIOUS
<1>2. ASSUME NEW k \in 1 .. 4
      PROVE  /\ Spot(v, 4 - k, 0) \in w <=> LsbWiring[k] \in code
             /\ Spot(v, 4 - k, 1) \in w <=> MsbWiring[k] \in code
  <2>1. 4 - k \in 0 .. 3 /\ 0 + 1 = 1 /\ 1 + 1 = 2
    OBVIOUS
  <2>2. Spot(v, 4 - k, 0) \in w <=> Sent[(4 - k) + 1][0 + 1] \in code
    BY <1>1, <2>1, WrittenBits
  <2>3. Spot(v, 4 - k, 1) \in w <=> Sent[(4 - k) + 1][1 + 1] \in code
    BY <1>1, <2>1, WrittenBits
  <2> HIDE DEF w, v
  <2> QED
    BY <2>1, <2>2, <2>3, WiredAsSent
<1> HIDE DEF w, v
<1>3. Latched(w, 0, v, 8, 2) =
        {LsbWiring[k] : k \in {i0 \in 1 .. 4 : LsbWiring[i0] \in code}} \cup
        {MsbWiring[k] : k \in {i0 \in 1 .. 4 : MsbWiring[i0] \in code}}
  <2>1. /\ {i0 \in 1 .. 4 : Spot(v, 4 - i0, 0) \in w} = {i0 \in 1 .. 4 : LsbWiring[i0] \in code}
        /\ {i0 \in 1 .. 4 : Spot(v, 4 - i0, 1) \in w} = {i0 \in 1 .. 4 : MsbWiring[i0] \in code}
    BY <1>2
  <2>2. Latched(w, 0, v, 8, 2) =
           {LsbWiring[k] : k \in {i0 \in 1 .. 4 : Spot(v, 4 - i0, 0) \in w}} \cup
           {MsbWiring[k] : k \in {i0 \in 1 .. 4 : Spot(v, 4 - i0, 1) \in w}}
    BY <1>1, LatchedBits
  <2> QED
    BY <2>1, <2>2
<1>4. \A e \in code : e \in Latched(w, 0, v, 8, 2)
  BY <1>3, WiringComplete
<1>5. \A e \in Latched(w, 0, v, 8, 2) : e \in code
  BY <1>3
<1> QED
  BY <1>4, <1>5 DEF w, v

\* The word's other samples are latched as before.
LEMMA LatchesOthers ==
  ASSUME NEW word, NEW code, NEW n \in Nat, NEW v \in 0 .. 7, v # n % 8
  PROVE  Latched(Written(word, code, n, 0, 8, 2, 18), 0, v, 8, 2) = Latched(word, 0, v, 8, 2)
<1> DEFINE w == Written(word, code, n, 0, 8, 2, 18)
<1>1. ASSUME NEW k \in 1 .. 4, NEW b \in {0, 1}
      PROVE  Spot(v, 4 - k, b) \in w <=> Spot(v, 4 - k, b) \in word
  <2>1. 4 - k \in 0 .. 3
    OBVIOUS
  <2> QED
    BY <2>1, WrittenBits
<1> HIDE DEF w
<1>2. /\ {k \in 1 .. 4 : Spot(v, 4 - k, 0) \in w} = {k \in 1 .. 4 : Spot(v, 4 - k, 0) \in word}
      /\ {k \in 1 .. 4 : Spot(v, 4 - k, 1) \in w} = {k \in 1 .. 4 : Spot(v, 4 - k, 1) \in word}
  BY <1>1
<1> QED
  BY <1>2, LatchedBits DEF w

LEMMA PowerAbove ==
  ASSUME NEW b \in 8 .. 15
  PROVE  2 ^ b \in Nat /\ 2 ^ b > 255
<1>1. CASE b = 8
  <2>1. 2 ^ 8 = 256 /\ 2 ^ b = 2 ^ 8
    BY <1>1
  <2>2. 2 ^ b = 256
    BY <2>1
  <2> QED
    BY <2>2
<1>2. CASE b = 9
  <2>1. 2 ^ 9 = 512 /\ 2 ^ b = 2 ^ 9
    BY <1>2
  <2>2. 2 ^ b = 512
    BY <2>1
  <2> QED
    BY <2>2
<1>3. CASE b = 10
  <2>1. 2 ^ 10 = 1024 /\ 2 ^ b = 2 ^ 10
    BY <1>3
  <2>2. 2 ^ b = 1024
    BY <2>1
  <2> QED
    BY <2>2
<1>4. CASE b = 11
  <2>1. 2 ^ 11 = 2048 /\ 2 ^ b = 2 ^ 11
    BY <1>4
  <2>2. 2 ^ b = 2048
    BY <2>1
  <2> QED
    BY <2>2
<1>5. CASE b = 12
  <2>1. 2 ^ 12 = 4096 /\ 2 ^ b = 2 ^ 12
    BY <1>5
  <2>2. 2 ^ b = 4096
    BY <2>1
  <2> QED
    BY <2>2
<1>6. CASE b = 13
  <2>1. 2 ^ 13 = 8192 /\ 2 ^ b = 2 ^ 13
    BY <1>6
  <2>2. 2 ^ b = 8192
    BY <2>1
  <2> QED
    BY <2>2
<1>7. CASE b = 14
  <2>1. 2 ^ 14 = 16384 /\ 2 ^ b = 2 ^ 14
    BY <1>7
  <2>2. 2 ^ b = 16384
    BY <2>1
  <2> QED
    BY <2>2
<1>8. CASE b = 15
  <2>1. 2 ^ 15 = 32768 /\ 2 ^ b = 2 ^ 15
    BY <1>8
  <2>2. 2 ^ b = 32768
    BY <2>1
  <2> QED
    BY <2>2
<1> QED
  BY <1>1, <1>2, <1>3, <1>4, <1>5, <1>6, <1>7, <1>8

\* The codes of a converter of 8 bits have no other bits.
LEMMA CodeOfEight ==
  ASSUME NEW level \in Int
  PROVE  Code(level, 8) \in SUBSET (0 .. 7)
<1> DEFINE clamped == IF level > 500 THEN 500 ELSE IF level < 0 THEN 0 ELSE level
           n == (clamped * 255) \div 500
<1>1. 2 ^ 8 - 1 = 255
  OBVIOUS
<1>2. Code(level, 8) = Bits(n)
  BY <1>1 DEF Code, DacMax
<1>3. n \in 0 .. 255
  <2>1. clamped \in 0 .. 500
    OBVIOUS
  <2> HIDE DEF clamped
  <2> QED
    BY <2>1
<1> HIDE DEF n
<1>4. ASSUME NEW b \in 8 .. 15
      PROVE  (n \div 2 ^ b) % 2 # 1
  <2>1. 2 ^ b \in Nat /\ 2 ^ b > 255
    BY PowerAbove
  <2> DEFINE d == 2 ^ b
  <2> HIDE DEF d
  <2>2. d \in Nat /\ d > 255
    BY <2>1 DEF d
  <2>3. n \div d = 0
    BY <1>3, <2>2
  <2> QED
    BY <2>3 DEF d
<1>5. \A b \in 0 .. 15 : b \in 0 .. 7 \/ b \in 8 .. 15
  OBVIOUS
<1> QED
  BY <1>2, <1>4, <1>5 DEF Bits

-----------------------------------------------------------------------------
(* The program.                                                             *)

\* The samples below n are in the buffer, to be latched as the selected wave's.
Filled(n) ==
    \A k \in 0 .. n - 1 :
        Latched(buffer[k \div 8], 0, k % 8, 8, 2) = Code(Level(wave, Samples, k), 8)

Aborts == {"writing", "written"}
Ends   == {"captured", "unpolled", "live", "stopped"}
Frees  == {"idle", "checking", "complete", "released"}

EditorTypes ==
    /\ wave \in {Waves[k] : k \in DOMAIN Waves}
    /\ selection.value \in Nat /\ selection.value >= MinValue
    /\ pc \in Aborts \cup Ends \cup Frees
    /\ i \in Nat /\ size \in Nat /\ size % 8 = 0 /\ size <= MostBytes
    /\ buffer = [k \in Words |-> buffer[k]]

\* Who is captured, and whether the keypad is polled, follows the program.
Attended ==
    /\ pc \in Aborts => capture = "abort"
    /\ pc \in Ends => capture = "end"
    /\ pc \in Frees => capture = "none"
    /\ pc \notin {"unpolled", "live", "stopped", "released"} => polling

\* Once it is writing the buffer is large enough, and nothing aborted plays.
Writes ==
    /\ pc # "idle" => Bytes <= size
    /\ pc = "writing" => Filled(i)
    /\ pc \in {"written", "checking"} /\ choice # 0 => Filled(Samples)
    /\ pc \in {"complete", "captured", "unpolled", "live"} => Filled(Samples)

EditorInvariant == EditorTypes /\ Attended /\ Writes

LEMMA EditorConstants ==
  /\ DOMAIN Waves = 1 .. Len(Waves) /\ Len(Waves) \in 1 .. 9
  /\ Rate \in Nat /\ MinValue \in Nat \ {0} /\ MostBytes \in Nat
  /\ FirstValue \in Nat /\ FirstValue >= MinValue
BY WaveAssumption

\* The samples of a period, and the bytes they take, for any frequency in range.
LEMMA Sized ==
  ASSUME selection.value \in Nat, selection.value >= MinValue
  PROVE  /\ Samples \in 0 .. (Rate * 1000) \div MinValue
         /\ Bytes \in Nat /\ Bytes % 8 = 0 /\ Samples <= Bytes
<1> DEFINE f == selection.value
           all == Rate * 1000
           most == all \div MinValue
<1>1. f \in Nat /\ f > 0 /\ f >= MinValue /\ all \in Nat /\ MinValue \in Nat /\ MinValue > 0
  BY EditorConstants
<1>2. Samples = all \div f
  BY DEF Samples, Unit
<1> HIDE DEF f, all
<1>3. /\ Samples \in Int /\ f * Samples <= all /\ all < f * (Samples + 1)
      /\ most \in Int /\ MinValue * most <= all /\ all < MinValue * (most + 1)
  BY <1>1, <1>2
<1> HIDE DEF most
<1>4. Samples \in Nat
  <2>1. f * (Samples + 1) > 0
    BY <1>1, <1>3
  <2>2. Samples + 1 > 0
    BY <1>1, <1>3, <2>1
  <2> QED
    BY <1>3, <2>2
<1>5. Samples <= most
  <2>1. MinValue * Samples <= f * Samples
    BY <1>1, <1>4
  <2>2. MinValue * Samples < MinValue * (most + 1)
    BY <1>1, <1>3, <1>4, <2>1
  <2>3. Samples < most + 1
    BY <1>1, <1>3, <2>2
  <2> QED
    BY <1>3, <2>3
<1>6. Bytes \in Nat /\ Bytes % 8 = 0 /\ Samples <= Bytes
  BY <1>4 DEF Bytes
<1> QED
  BY <1>3, <1>4, <1>5, <1>6 DEF most, all

LEMMA EditorInitially == Init => EditorInvariant
<1> SUFFICES ASSUME Init
             PROVE  EditorInvariant
  OBVIOUS
<1>1. EditorTypes
  BY EditorConstants DEF Init, EditorTypes, Fresh, Unmapped, Frees
<1>2. Attended /\ Writes
  BY DEF Init, Attended, Writes, Aborts, Ends, Frees
<1> QED
  BY <1>1, <1>2 DEF EditorInvariant

\* A sample is written within the buffer, without touching those before it.
LEMMA SampleStep ==
  ASSUME EditorInvariant, WriteSample, pc = "writing", i < Samples, choice # 0
  PROVE  EditorInvariant' /\ 8 * (Target(i) + 1) <= size
<1> DEFINE level == Level(wave, Samples, i)
           word == Written(buffer[i \div 8], Code(level, 8), i, 0, 8, 2, 18)
<1>1. /\ i \in Nat /\ size \in Nat /\ size % 8 = 0 /\ size <= MostBytes /\ Bytes <= size
      /\ buffer = [k \in Words |-> buffer[k]] /\ Filled(i)
      /\ selection.value \in Nat /\ selection.value >= MinValue
      /\ wave \in {Waves[k] : k \in DOMAIN Waves}
  BY DEF EditorInvariant, EditorTypes, Writes
<1>2. /\ Samples \in 0 .. (Rate * 1000) \div MinValue
      /\ Bytes \in Nat /\ Bytes % 8 = 0 /\ Samples <= Bytes
  BY <1>1, Sized
<1>3. Target(i) = i \div 8 /\ 8 * ((i \div 8) + 1) <= size
  BY <1>1, <1>2, EightPerWord
<1>4. i \div 8 \in Words
  <2>1. MostBytes \in Nat
    BY EditorConstants
  <2> QED
    BY <1>1, <1>3, <2>1 DEF Words
<1>5. /\ buffer' = [buffer EXCEPT ![i \div 8] = word]
      /\ i' = i + 1 /\ pc' = pc
      /\ UNCHANGED <<choice, wave, selection, size, capture, polling>>
  BY <1>3 DEF WriteSample, menuVars
<1>6. level \in Int
  <2>1. PICK k \in DOMAIN Waves : wave = Waves[k]
    BY <1>1
  <2>2. i \in 0 .. Samples
    BY <1>1, <1>2
  <2> QED
    BY <1>2, <2>1, <2>2, WaveAssumption
<1> HIDE DEF level
<1>7. Samples' = Samples /\ Bytes' = Bytes
  BY <1>5 DEF Samples, Bytes
<1>8. Filled(i)'
  <2>1. SUFFICES ASSUME NEW k \in 0 .. i'  - 1
                 PROVE  Latched(buffer'[k \div 8], 0, k % 8, 8, 2) =
                          Code(Level(wave, Samples, k), 8)
    BY <1>5, <1>7 DEF Filled
  <2>2. k \in Nat /\ k % 8 \in 0 .. 7 /\ (k = i \/ k \in 0 .. i - 1)
    BY <1>1, <1>5
  <2>3. CASE k = i
    <3>1. buffer'[k \div 8] = word
      BY <1>1, <1>4, <1>5, <2>3
    <3>2. Latched(word, 0, i % 8, 8, 2) = Code(level, 8)
      BY <1>1, <1>6, CodeOfEight, LatchesWritten
    <3> QED
      BY <2>3, <3>1, <3>2 DEF level
  <2>4. CASE k \in 0 .. i - 1 /\ k \div 8 = i \div 8
    <3>1. buffer'[k \div 8] = word /\ buffer[k \div 8] = buffer[i \div 8]
      BY <1>1, <1>4, <1>5, <2>4
    <3>2. k % 8 # i % 8
      BY <1>1, <2>2, <2>4
    <3>3. Latched(word, 0, k % 8, 8, 2) = Latched(buffer[i \div 8], 0, k % 8, 8, 2)
      BY <1>1, <2>2, <3>2, LatchesOthers
    <3>4. Latched(buffer[k \div 8], 0, k % 8, 8, 2) = Code(Level(wave, Samples, k), 8)
      BY <1>1, <2>4 DEF Filled
    <3> QED
      BY <3>1, <3>3, <3>4
  <2>5. CASE k \in 0 .. i - 1 /\ k \div 8 # i \div 8
    <3>1. buffer'[k \div 8] = buffer[k \div 8]
      <4>1. k \div 8 \in Words
        <5>1. k \div 8 \in Nat /\ k \div 8 <= i \div 8 /\ i \div 8 \in Nat
          BY <1>1, <2>2, <2>5
        <5>2. MostBytes \div 8 \in Int
          BY EditorConstants
        <5> QED
          BY <1>4, <5>1, <5>2 DEF Words
      <4> HIDE DEF word
      <4> QED
        BY <1>1, <1>5, <2>5, <4>1
    <3> QED
      BY <1>1, <2>5, <3>1 DEF Filled
  <2> QED
    BY <2>2, <2>3, <2>4, <2>5
<1>9. EditorTypes'
  <2>1. buffer' = [k \in Words |-> buffer'[k]]
    <3> HIDE DEF word
    <3> QED
      BY <1>1, <1>5
  <2>2. i' \in Nat
    BY <1>1, <1>5
  <2> QED
    BY <1>5, <2>1, <2>2 DEF EditorInvariant, EditorTypes
<1>10. Attended'
  BY <1>5 DEF EditorInvariant, Attended
<1>11. Writes'
  BY <1>1, <1>5, <1>7, <1>8 DEF Writes
<1> QED
  BY <1>3, <1>9, <1>10, <1>11 DEF EditorInvariant

LEMMA WriteStep ==
  ASSUME EditorInvariant, WriteSample
  PROVE  EditorInvariant'
<1>1. pc = "writing" /\ i \in Nat /\ Samples \in Nat
  BY Sized DEF WriteSample, EditorInvariant, EditorTypes
<1>2. CASE i < Samples /\ choice # 0
  BY <1>1, <1>2, SampleStep
<1>3. CASE ~(i < Samples /\ choice # 0)
  <2>1. pc' = "written" /\ UNCHANGED <<choice, wave, selection, i, size, buffer, capture, polling>>
    BY <1>3 DEF WriteSample, menuVars
  <2>2. Samples' = Samples /\ Bytes' = Bytes
    BY <2>1 DEF Samples, Bytes
  <2>3. choice # 0 => Filled(Samples)'
    <3>1. choice # 0 => \A k \in 0 .. Samples - 1 : k \in 0 .. i - 1
      BY <1>1, <1>3
    <3>2. Filled(i)
      BY <1>1 DEF EditorInvariant, Writes
    <3> QED
      BY <2>1, <2>2, <3>1, <3>2 DEF Filled
  <2>4. EditorTypes' /\ Attended'
    BY <1>1, <2>1 DEF EditorInvariant, EditorTypes, Attended, Aborts, Ends, Frees
  <2>5. Writes'
    BY <1>1, <2>1, <2>2, <2>3 DEF EditorInvariant, Writes
  <2> QED
    BY <2>4, <2>5 DEF EditorInvariant
<1> QED
  BY <1>2, <1>3

\* CH1 in the menu: the samples are written from the first, or nothing changed.
LEMMA MenuStep ==
  ASSUME EditorInvariant, NEW keys, Menu(keys)
  PROVE  EditorInvariant'
<1>1. pc = "idle" /\ UNCHANGED <<wave, selection>>
  BY DEF Menu, Pressed
<1>2. Samples' = Samples /\ Bytes' = Bytes
  BY <1>1 DEF Samples, Bytes
<1>3. Samples \in Nat /\ Bytes \in Nat /\ Bytes % 8 = 0 /\ size \in Nat /\ size <= MostBytes
  BY Sized DEF EditorInvariant, EditorTypes
<1>4. CASE UNCHANGED <<pc, outputVars, capture, polling>>
  <2>1. UNCHANGED <<pc, i, size, buffer, capture, polling>>
    BY <1>4 DEF outputVars
  <2> QED
    BY <1>1, <2>1 DEF EditorInvariant, EditorTypes, Attended, Writes
<1>5. ASSUME NEW mapped \in {b \in BOOLEAN : b => Bytes <= MostBytes}, Start(mapped)
      PROVE  EditorInvariant'
  <2>1. UNCHANGED <<buffer, polling>>
    BY <1>5 DEF Start
  <2>2. CASE mapped \/ Bytes <= size
    <3>1. /\ size' = (IF size < Bytes THEN Bytes ELSE size)
          /\ capture' = "abort" /\ pc' = "writing" /\ i' = 0
      BY <1>5, <2>2 DEF Start
    <3>2. Bytes <= MostBytes
      BY <1>3, <2>2, EditorConstants
    <3>3. size' \in Nat /\ size' % 8 = 0 /\ size' <= MostBytes /\ Bytes <= size'
      BY <1>3, <3>1, <3>2 DEF EditorInvariant, EditorTypes
    <3>4. Filled(i)'
      <4>1. 0 .. i' - 1 = {}
        BY <3>1
      <4> QED
        BY <4>1 DEF Filled
    <3>5. EditorTypes' /\ Attended'
      BY <1>1, <2>1, <3>1, <3>3 DEF EditorInvariant, EditorTypes, Attended, Aborts, Ends, Frees
    <3>6. Writes'
      BY <1>2, <3>1, <3>3, <3>4 DEF Writes
    <3> QED
      BY <3>5, <3>6 DEF EditorInvariant
  <2>3. CASE ~(mapped \/ Bytes <= size)
    <3>1. UNCHANGED <<size, capture, pc, i>>
      BY <1>5, <2>3 DEF Start
    <3> QED
      BY <1>1, <2>1, <3>1 DEF EditorInvariant, EditorTypes, Attended, Writes
  <2> QED
    BY <2>2, <2>3
<1> QED
  BY <1>4, <1>5 DEF Menu

\* Steps that leave what is written and who plays it.
LEMMA InputStep ==
  ASSUME EditorInvariant, NEW keys, Input(keys)
  PROVE  EditorInvariant'
<1> DEFINE w == Edited(keys, work)
           v == Scaled(w.value, w.base)
<1>1. pc = "idle" /\ UNCHANGED <<wave, pc, i, size, buffer, capture, polling>>
  BY DEF Input, Pressed, outputVars
<1>2. v \in Int
  <2>1. v \in -ValueBound .. ValueBound
    BY DEF Input
  <2> HIDE DEF v
  <2> QED
    BY <2>1, WaveAssumption
<1>3. selection' = selection \/ selection' = Returned(w)
  BY DEF Input
<1> HIDE DEF w
<1>4. selection'.value \in Nat /\ selection'.value >= MinValue
  <2>1. CASE selection' = selection
    BY <2>1 DEF EditorInvariant, EditorTypes
  <2>2. CASE selection' = Returned(w)
    <3>1. Returned(w) = IF w.string = <<>> THEN selection
                        ELSE IF v < MinValue THEN [value |-> MinValue, string |-> MinString, base |-> 0]
                        ELSE [value |-> v, string |-> w.string, base |-> w.base]
      BY DEF Returned
    <3> HIDE DEF v
    <3> QED
      BY <1>2, <2>2, <3>1, EditorConstants DEF EditorInvariant, EditorTypes
  <2> QED
    BY <1>3, <2>1, <2>2
<1> QED
  BY <1>1, <1>4 DEF EditorInvariant, EditorTypes, Attended, Writes

LEMMA SelectStep ==
  ASSUME EditorInvariant, NEW keys, SelectWave(keys)
  PROVE  EditorInvariant'
<1>1. pc = "idle" /\ UNCHANGED <<selection, pc, i, size, buffer, capture, polling>>
  BY DEF SelectWave, Pressed, outputVars
<1>2. wave' \in {Waves[k] : k \in DOMAIN Waves}
  BY DEF SelectWave, EditorInvariant, EditorTypes
<1> QED
  BY <1>1, <1>2 DEF EditorInvariant, EditorTypes, Attended, Writes

\* A step along the output: nothing is written, and nothing selected.
LEMMA Along ==
  ASSUME EditorInvariant, UNCHANGED <<wave, selection, size, buffer>>, i' \in Nat,
         pc' \in Aborts \cup Ends \cup Frees, pc' # "writing", Attended',
         pc' # "idle" => pc # "idle",
         pc' \in {"written", "checking"} /\ choice' # 0 => Filled(Samples),
         pc' \in {"complete", "captured", "unpolled", "live"} => Filled(Samples)
  PROVE  EditorInvariant'
<1>1. Samples' = Samples /\ Bytes' = Bytes
  BY DEF Samples, Bytes
<1>2. Filled(Samples) => Filled(Samples)'
  BY <1>1 DEF Filled
<1>3. EditorTypes'
  BY DEF EditorInvariant, EditorTypes
<1>4. Writes'
  BY <1>1, <1>2 DEF EditorInvariant, Writes
<1> QED
  BY <1>3, <1>4 DEF EditorInvariant

LEMMA EditorStep ==
  ASSUME EditorInvariant, [Next]_vars
  PROVE  EditorInvariant'
<1> USE DEF Aborts, Ends, Frees
<1>1. EditorTypes /\ Attended /\ Writes /\ i \in Nat
  BY DEF EditorInvariant, EditorTypes
<1>2. CASE \E keys \in Presses : Menu(keys) \/ SelectWave(keys) \/ Input(keys)
  BY <1>2, MenuStep, SelectStep, InputStep
<1>3. CASE ReleaseAbort
  <2>1. Attended'
    BY <1>1, <1>3 DEF Attended, ReleaseAbort
  <2> QED
    BY <1>1, <1>3, <2>1, Along DEF ReleaseAbort, Writes, menuVars
<1>4. CASE CheckAbort
  <2>1. Attended'
    BY <1>1, <1>4 DEF Attended, CheckAbort
  <2> QED
    BY <1>1, <1>4, <2>1, Along DEF CheckAbort, Writes, outputVars
<1>5. CASE CaptureEnd
  <2>1. Attended'
    BY <1>1, <1>5 DEF Attended, CaptureEnd
  <2> QED
    BY <1>1, <1>5, <2>1, Along DEF CaptureEnd, Writes, menuVars, outputVars
<1>6. CASE StopPolling
  <2>1. Attended'
    BY <1>1, <1>6 DEF Attended, StopPolling
  <2> QED
    BY <1>1, <1>6, <2>1, Along DEF StopPolling, Writes, menuVars, outputVars
<1>7. CASE OutputStarts
  <2>1. Attended'
    BY <1>1, <1>7 DEF Attended, OutputStarts
  <2> QED
    BY <1>1, <1>7, <2>1, Along DEF OutputStarts, Writes, menuVars, outputVars
<1>8. CASE ReleaseEnd
  <2>1. Attended'
    BY <1>1, <1>8 DEF Attended, ReleaseEnd
  <2> QED
    BY <1>1, <1>8, <2>1, Along DEF ReleaseEnd, menuVars, outputVars
<1>9. CASE PollAgain
  <2>1. Attended'
    BY <1>1, <1>9 DEF Attended, PollAgain
  <2> QED
    BY <1>1, <1>9, <2>1, Along DEF PollAgain, menuVars, outputVars
<1>10. CASE PrgExitStops
  <2>1. Attended'
    BY <1>1, <1>10 DEF Attended, PrgExitStops
  <2> QED
    BY <1>1, <1>10, <2>1, Along DEF PrgExitStops, menuVars, outputVars
<1>11. CASE PrgExitAborts
  <2>1. /\ UNCHANGED <<wave, selection, pc, i, size, buffer, capture, polling>>
        /\ choice' = 0 /\ pc \in Aborts
    BY <1>1, <1>11 DEF PrgExitAborts, outputVars, Attended, EditorTypes
  <2>2. Samples' = Samples /\ Bytes' = Bytes
    BY <2>1 DEF Samples, Bytes
  <2>3. Filled(i) => Filled(i)'
    BY <2>1, <2>2 DEF Filled
  <2>4. EditorTypes' /\ Attended'
    BY <1>1, <2>1 DEF EditorTypes, Attended
  <2>5. Writes'
    BY <1>1, <2>1, <2>2, <2>3 DEF Writes
  <2> QED
    BY <2>4, <2>5 DEF EditorInvariant
<1>12. CASE PrgExitEnds
  <2>1. EditorTypes'
    BY <1>12, EditorConstants DEF PrgExitEnds, EditorTypes, Fresh, Unmapped
  <2>2. Attended' /\ Writes'
    BY <1>12 DEF PrgExitEnds, Attended, Writes
  <2> QED
    BY <2>1, <2>2 DEF EditorInvariant
<1>13. CASE UNCHANGED vars
  <2>1. UNCHANGED <<choice, wave, selection, pc, i, size, buffer, capture, polling>>
    BY <1>13 DEF vars, menuVars, outputVars
  <2>2. Samples' = Samples /\ Bytes' = Bytes
    BY <2>1 DEF Samples, Bytes
  <2>3. /\ Filled(i) => Filled(i)'
        /\ Filled(Samples) => Filled(Samples)'
    BY <2>1, <2>2 DEF Filled
  <2>4. EditorTypes' /\ Attended'
    BY <1>1, <2>1 DEF EditorTypes, Attended
  <2>5. Writes'
    BY <1>1, <2>1, <2>2, <2>3 DEF Writes
  <2> QED
    BY <2>4, <2>5 DEF EditorInvariant
<1> QED
  BY <1>2, <1>3, <1>4, <1>5, <1>6, <1>7, <1>8, <1>9, <1>10, <1>11, <1>12, <1>13, WriteStep
     DEF Next

THEOREM EditorCorrect == Spec => []EditorInvariant
BY EditorInitially, EditorStep, PTL DEF Spec

\* Whenever PRG_EXIT comes, a running output plays the selected wave sample for
\* sample, for any wave, frequency and sample rate: nothing of what was in the
\* buffer before is left between the samples, and no aborted buffer is played.
THEOREM SelectedIsPlayed == Spec => []OutputIsSelected
<1>1. EditorInvariant => OutputIsSelected
  <2> SUFFICES ASSUME EditorInvariant, pc = "live"
               PROVE  OutputIsSelected
    BY DEF OutputIsSelected
  <2>1. Filled(Samples) /\ Samples \in Nat
    BY Sized DEF EditorInvariant, EditorTypes, Writes
  <2>2. \A n \in 0 .. Samples - 1 : Target(n) = n \div 8 /\ ValuesPerWord(8, 2) = 8
    BY <2>1, EightPerWord
  <2> QED
    BY <2>1, <2>2 DEF OutputIsSelected, Filled
<1> QED
  BY <1>1, EditorCorrect, PTL

\* Every word written or played is in memory the program was given, also after
\* the frequency, and with it the size of the buffer, was changed.
THEOREM WritesInBuffer == Spec => []OutputInBuffer
<1>1. EditorInvariant => OutputInBuffer
  <2> SUFFICES ASSUME EditorInvariant
               PROVE  OutputInBuffer
    OBVIOUS
  <2>1. /\ Samples \in Nat /\ Bytes \in Nat /\ Bytes % 8 = 0 /\ Samples <= Bytes
        /\ i \in Nat /\ size \in Nat
        /\ pc # "idle" => Bytes <= size
    BY Sized DEF EditorInvariant, EditorTypes, Writes
  <2>2. pc = "writing" /\ i < Samples => 8 * (Target(i) + 1) <= size
    <3>1. Target(i) = i \div 8
      BY <2>1, EightPerWord
    <3> QED
      BY <2>1, <3>1
  <2>3. pc = "live" /\ Samples > 0 => 8 * (Target(Samples - 1) + 1) <= size
    <3>1. Samples > 0 => Target(Samples - 1) = (Samples - 1) \div 8
      BY <2>1, EightPerWord
    <3> QED
      BY <2>1, <3>1
  <2> QED
    BY <2>2, <2>3 DEF OutputInBuffer
<1> QED
  BY <1>1, EditorCorrect, PTL

\* Whatever was aborted, refused or stopped, the main loop is left neither deaf
\* to the keypad nor with a handler that keeps PRG_EXIT from ending the program.
THEOREM MainLoopListens == Spec => []MainLoopAttended
<1>1. EditorInvariant => MainLoopAttended
  BY DEF EditorInvariant, Attended, MainLoopAttended, Frees
<1> QED
  BY <1>1, EditorCorrect, PTL
=============================================================================
