---------------------------- MODULE ScreenProofs ----------------------------
(***************************************************************************)
(* Proofs about Screen, for any number of buffers, any display and console *)
(* height and any font: the firmware shows the active buffer, programs     *)
(* leave nothing behind, and the console is in order.                      *)
(***************************************************************************)
EXTENDS Screen, TLAPS

-----------------------------------------------------------------------------
(* Division and remainder.                                                  *)

LEMMA DivMod ==
  ASSUME NEW d \in Nat \ {0}, NEW n \in Int
  PROVE  n = d * (n \div d) + (n % d) /\ n % d \in 0 .. d - 1 /\ n \div d \in Int
OBVIOUS

LEMMA DivUnique ==
  ASSUME NEW d \in Nat \ {0}, NEW q \in Int, NEW r \in 0 .. d - 1
  PROVE  (d * q + r) \div d = q /\ (d * q + r) % d = r
<1> DEFINE n == d * q + r
           p == n \div d
           m == n % d
<1>1. n = d * p + m /\ m \in 0 .. d - 1 /\ p \in Int /\ n \in Int
  OBVIOUS
<1>2. d * (p - q) = r - m
  BY <1>1
<1>3. p - q \in Int /\ r - m \in Int /\ r - m < d /\ r - m > -d
  BY <1>1
<1> HIDE DEF p, m
<1>4. p - q < 1
  BY <1>2, <1>3
<1>5. p - q > -1
  BY <1>2, <1>3
<1>6. p = q
  BY <1>1, <1>3, <1>4, <1>5
<1>7. m = r
  BY <1>1, <1>6
<1> QED
  BY <1>6, <1>7 DEF p, m

LEMMA DivShift ==
  ASSUME NEW d \in Nat \ {0}, NEW n \in Int
  PROVE  (n + d) \div d = (n \div d) + 1 /\ (n + d) % d = n % d
<1> DEFINE q == n \div d
           r == n % d
<1>1. n = d * q + r /\ r \in 0 .. d - 1 /\ q \in Int
  BY DivMod
<1> HIDE DEF q, r
<1>2. n + d = d * (q + 1) + r
  BY <1>1
<1>3. (d * (q + 1) + r) \div d = q + 1 /\ (d * (q + 1) + r) % d = r
  <2>1. q + 1 \in Int
    BY <1>1
  <2> QED
    BY <1>1, <2>1, DivUnique
<1> QED
  BY <1>2, <1>3 DEF q, r

LEMMA ModSmall ==
  ASSUME NEW d \in Nat \ {0}, NEW n \in 0 .. d - 1
  PROVE  n % d = n /\ (n + d) % d = n
<1>1. n = d * 0 + n /\ n + d = d * 1 + n
  OBVIOUS
<1>2. (d * 0 + n) % d = n /\ (d * 1 + n) % d = n
  BY DivUnique
<1> QED
  BY <1>1, <1>2

\* A number is a multiple of d when its remainder is 0: such numbers are d apart.
LEMMA Multiples ==
  ASSUME NEW d \in Nat \ {0}, NEW n \in Int, NEW m \in Int, n % d = 0, m % d = 0
  PROVE  (n - m) % d = 0 /\ (n > m => n >= m + d)
<1> DEFINE p == n \div d
           q == m \div d
<1>1. n = d * p /\ m = d * q /\ p \in Int /\ q \in Int
  BY DivMod
<1> HIDE DEF p, q
<1>2. n - m = d * (p - q) + 0 /\ p - q \in Int
  BY <1>1
<1>3. (n - m) % d = 0
  <2>1. 0 \in 0 .. d - 1
    OBVIOUS
  <2>2. (d * (p - q) + 0) % d = 0
    BY <1>2, <2>1, DivUnique
  <2> QED
    BY <1>2, <2>2
<1>4. n > m => p - q >= 1
  BY <1>1
<1>5. n > m => d * (p - q) >= d
  BY <1>2, <1>4
<1>6. n \in Int /\ m \in Int /\ d \in Int
  OBVIOUS
<1> QED
  BY <1>2, <1>3, <1>5, <1>6

-----------------------------------------------------------------------------
(* The calls of framebuffer.c, on any record of its statics.                *)

Statics == [initialized : BOOLEAN, count : Nat, active : Nat, frames : Nat, shown : Nat,
            margin : {0} \cup Margins, moved : BOOLEAN, owned : BOOLEAN, ink : SUBSET Nat,
            console : [Display -> 0 .. Lines], x : Nat, y : Nat]

Typed(f) ==
    /\ f \in Statics
    /\ f.y <= ConsoleMax /\ f.y % FontHeight = 0

\* What a program draws is below the console and within the hardware buffer.
Inside(f) == \A b \in f.ink : b # 0 /\ b < f.frames

Agrees(f) ==
    f.initialized =>
        /\ f.shown = f.active
        /\ f.active < f.frames /\ f.count <= f.frames
        /\ f.margin = overscan

\* The line that stands in row r of a console whose next line l begins at row y.
Line(r, y, l) == (l + Lines - (y - r + FontHeight - 1) \div FontHeight) % Lines

InOrder(f, l) ==
    f.moved => \A r \in Display :
        f.console[r] \in {Blank} \cup
            (IF r < f.y THEN {Line(r, f.y, l)} ELSE IF r < f.y + FontHeight THEN {l} ELSE {})

Sound(f) ==
    /\ Typed(f) /\ Inside(f) /\ Agrees(f) /\ InOrder(f, line)

\* What the calls of a program leave as it is or blank.
Leaves(f, g) == g.moved => g.ink = {} \/ (f.moved /\ g.ink = f.ink)

Initial == MinFrames \in Nat \ {0} /\ line \in 0 .. Lines - 1 /\ overscan \in {0} \cup Margins

LEMMA Constants ==
  /\ MinFrames \in Nat \ {0} /\ MaxFrames \in Nat /\ MinFrames <= MaxFrames
  /\ FontHeight \in Nat \ {0} /\ ConsoleMax \in Nat /\ Height \in Nat /\ ConsoleMax > 2
  /\ ConsoleMax + 2 * FontHeight < Height
  /\ Lines \in Nat \ {0} /\ Lines * FontHeight > Height
BY ScreenAssumption

LEMMA BlankedInOrder ==
  Blanked \in [Display -> 0 .. Lines] /\ \A r \in Display : Blanked[r] = Blank
BY Constants DEF Blanked, Blank

LEMMA Clamped ==
  ASSUME NEW n \in Int
  PROVE  Clamp(n) \in Nat \ {0}
BY Constants DEF Clamp

LEMMA SwitchSound ==
  ASSUME NEW f, Sound(f), NEW b, NEW g \in Switched(f, b)
  PROVE  Sound(g) /\ Leaves(f, g) /\ g.ink = f.ink /\ g.moved = f.moved
<1>1. CASE g = f
  BY <1>1 DEF Leaves
<1>2. CASE b \in 0 .. f.count - 1 /\ g = [f EXCEPT !.active = b, !.shown = b]
  <2>1. /\ f.count \in Nat /\ f.frames \in Nat /\ Typed(f)
        /\ f.initialized => f.count <= f.frames /\ f.margin = overscan
    BY DEF Sound, Typed, Statics, Agrees
  <2>2. /\ g.active = b /\ g.shown = b /\ b \in Nat
        /\ g.initialized = f.initialized /\ g.count = f.count /\ g.frames = f.frames
        /\ g.margin = f.margin /\ g.moved = f.moved /\ g.ink = f.ink
        /\ g.console = f.console /\ g.y = f.y
    BY <1>2, <2>1 DEF Typed, Statics
  <2>3. Typed(g)
    BY <1>2, <2>1, <2>2 DEF Typed, Statics
  <2>4. Agrees(g)
    BY <1>2, <2>1, <2>2 DEF Agrees
  <2>5. Inside(g) /\ InOrder(g, line)
    BY <2>2 DEF Sound, Inside, InOrder
  <2> QED
    BY <2>2, <2>3, <2>4, <2>5 DEF Sound, Leaves
<1> QED
  BY <1>1, <1>2 DEF Switched

LEMMA RecreateSound ==
  ASSUME NEW f, Sound(f), Initial, NEW n \in Nat, NEW shows \in Nat, shows < n,
         NEW g \in Recreated(f, n, shows)
  PROVE  Sound(g) /\ Leaves(f, g)
<1> USE BlankedInOrder
<1>1. Typed(f)
  BY DEF Sound
<1>2. CASE g = [f EXCEPT !.initialized = FALSE]
  <2>1. /\ ~g.initialized /\ g.frames = f.frames /\ g.moved = f.moved /\ g.ink = f.ink
        /\ g.console = f.console /\ g.y = f.y
    BY <1>1, <1>2 DEF Typed, Statics
  <2>2. Typed(g)
    BY <1>1, <1>2, <2>1 DEF Typed, Statics
  <2> QED
    BY <2>1, <2>2 DEF Sound, Inside, Agrees, InOrder, Leaves
<1>3. ASSUME NEW reused \in BOOLEAN, NEW filled \in BOOLEAN
      PROVE  LET h == Mapped(Created(f, n, shows), reused, filled)
             IN  /\ Typed(h) /\ ~h.initialized /\ h.frames = n /\ h.shown = shows
                 /\ h.margin = overscan /\ h.ink = {} /\ h.console = Blanked
  <2> DEFINE c == Created(f, n, shows)
  <2>1. /\ Typed(c) /\ ~c.initialized /\ c.frames = n /\ c.shown = shows
        /\ c.margin = overscan
    BY <1>1 DEF Created, Typed, Statics, Initial
  <2> DEFINE maps == reused /\ filled
  <2>2. maps \in BOOLEAN
    OBVIOUS
  <2>3. Mapped(c, reused, filled) =
          [c EXCEPT !.moved = maps, !.owned = reused, !.ink = {}, !.console = Blanked]
    BY DEF Mapped
  <2> HIDE DEF c, maps
  <2> QED
    BY <2>1, <2>2, <2>3 DEF Typed, Statics, c
<1>4. ASSUME NEW reused \in BOOLEAN, g = Mapped(Created(f, n, shows), reused, FALSE)
      PROVE  Sound(g) /\ Leaves(f, g)
  <2>1. Typed(g) /\ ~g.initialized /\ g.ink = {} /\ g.console = Blanked
    BY <1>3, <1>4
  <2> QED
    BY <2>1 DEF Sound, Inside, Agrees, InOrder, Leaves
<1>5. ASSUME NEW reused \in BOOLEAN,
             g = Recorded(Mapped(Created(f, n, shows), reused, TRUE), n, shows)
      PROVE  Sound(g) /\ Leaves(f, g)
  <2> DEFINE h == Mapped(Created(f, n, shows), reused, TRUE)
  <2>1. /\ Typed(h) /\ ~h.initialized /\ h.frames = n /\ h.shown = shows
        /\ h.margin = overscan /\ h.ink = {} /\ h.console = Blanked
    BY <1>3
  <2>4. g = Recorded(h, n, shows)
    BY <1>5
  <2> HIDE DEF h
  <2>2. 0 % FontHeight = 0
    BY Constants, ModSmall
  <2>3. /\ g.frames = n /\ g.shown = shows /\ g.active = shows /\ g.count = n
        /\ g.margin = overscan /\ g.ink = {} /\ g.console = Blanked
    BY <2>1, <2>4 DEF Recorded, Typed, Statics
  <2>5. Typed(g)
    <3>1. g = [h EXCEPT !.initialized = TRUE, !.count = n, !.active = shows, !.x = 0, !.y = 0]
      BY <2>4 DEF Recorded
    <3>2. g.y = 0 /\ 0 <= ConsoleMax
      BY <2>1, <3>1, Constants DEF Typed, Statics
    <3>3. g \in Statics
      BY <2>1, <3>1 DEF Typed, Statics
    <3> QED
      BY <2>2, <3>2, <3>3 DEF Typed, Statics
  <2> QED
    BY <2>3, <2>5 DEF Sound, Inside, Agrees, InOrder, Leaves
<1>6. \/ g = [f EXCEPT !.initialized = FALSE]
      \/ \E reused \in BOOLEAN :
            \/ g = Mapped(Created(f, n, shows), reused, FALSE)
            \/ g = Recorded(Mapped(Created(f, n, shows), reused, TRUE), n, shows)
  BY DEF Recreated
<1> QED
  BY <1>2, <1>4, <1>5, <1>6

LEMMA RequestSound ==
  ASSUME NEW f, Sound(f), Initial, NEW n \in Int, NEW g \in Requested(f, n)
  PROVE  Sound(g) /\ Leaves(f, g)
<1> DEFINE m == Clamp(n)
<1>1. m \in Nat \ {0}
  BY Clamped
<1>2. Typed(f) /\ f.active \in Nat /\ f.count \in Nat /\ f.frames \in Nat
  BY DEF Sound, Typed, Statics
<1>3. CASE g = f
  BY <1>3 DEF Leaves
<1>4. CASE m < f.count /\ g = [f EXCEPT !.count = m]
  <2>1. /\ g.count = m /\ g.initialized = f.initialized /\ g.frames = f.frames
        /\ g.shown = f.shown /\ g.active = f.active /\ g.margin = f.margin
        /\ g.moved = f.moved /\ g.ink = f.ink /\ g.console = f.console /\ g.y = f.y
    BY <1>2, <1>4 DEF Typed, Statics
  <2>2. Typed(g)
    <3> HIDE DEF m
    <3> QED
      BY <1>1, <1>2, <1>4, <2>1 DEF Typed, Statics
  <2>3. Agrees(g)
    <3> HIDE DEF m
    <3> QED
      BY <1>1, <1>2, <1>4, <2>1 DEF Sound, Agrees
  <2> QED
    BY <2>1, <2>2, <2>3 DEF Sound, Inside, InOrder, Leaves
<1>5. CASE g \in Recreated(f, m, IF f.active >= m THEN 0 ELSE f.active)
  <2> DEFINE shows == IF f.active >= m THEN 0 ELSE f.active
  <2>1. shows \in Nat /\ shows < m
    <3> HIDE DEF m
    <3> QED
      BY <1>1, <1>2
  <2> HIDE DEF m, shows
  <2> QED
    BY <1>1, <1>5, <2>1, RecreateSound DEF shows
<1> QED
  BY <1>3, <1>4, <1>5 DEF Requested

-----------------------------------------------------------------------------
(* The console.                                                             *)

\* A scroll moves by whole lines, by one at least and by no more than there are.
LEMMA ScrollsLines ==
  ASSUME NEW y \in 0 .. ConsoleMax, y % FontHeight = 0
  PROVE  LET bottom == y + FontHeight
         IN  /\ ScrollBy(bottom) \in 0 .. bottom
             /\ bottom - ScrollBy(bottom) \in 0 .. ConsoleMax
             /\ (bottom - ScrollBy(bottom)) % FontHeight = 0
<1> DEFINE bottom == y + FontHeight
           third == ConsoleMax \div 3
           up == IF third % FontHeight = 0 THEN 0 ELSE FontHeight - (third % FontHeight)
<1>1. /\ FontHeight \in Nat \ {0} /\ ConsoleMax \in Nat
      /\ third \in Nat /\ 1 <= third /\ third <= ConsoleMax
  BY Constants
<1>2. bottom % FontHeight = 0 /\ bottom \in Nat
  <2>1. (y + FontHeight) % FontHeight = y % FontHeight
    <3>1. y \in Int /\ FontHeight \in Nat \ {0}
      BY <1>1
    <3> QED
      BY <3>1, DivShift
  <2> QED
    BY <1>1, <2>1
<1>3. CASE bottom <= ConsoleMax
  <2>1. ScrollBy(bottom) = 0
    BY <1>1, <1>2, <1>3 DEF ScrollBy
  <2> QED
    BY <1>1, <1>2, <1>3, <2>1
<1>4. CASE bottom > ConsoleMax
  <2> HIDE DEF third, bottom
  <2>1. ScrollBy(bottom) = ScrollStart
    BY <1>4 DEF ScrollBy
  <2>2. third = FontHeight * (third \div FontHeight) + (third % FontHeight)
        /\ third % FontHeight \in 0 .. FontHeight - 1
    BY <1>1, DivMod
  <2>3. /\ ScrollStart \in Nat /\ third <= ScrollStart /\ ScrollStart < third + FontHeight
    BY <1>1, <2>2 DEF ScrollStart, third
  <2>4. ScrollStart % FontHeight = 0
    <3>1. CASE third % FontHeight = 0
      BY <3>1 DEF ScrollStart, third
    <3>2. CASE third % FontHeight # 0
      <4> DEFINE q == third \div FontHeight
      <4>1. ScrollStart = third + (FontHeight - (third % FontHeight))
        BY <3>2 DEF ScrollStart, third
      <4>2. q \in Int
        BY <1>1
      <4>3. ScrollStart = FontHeight * (q + 1) + 0
        <5> DEFINE rest == third % FontHeight
        <5>1. third = FontHeight * q + rest /\ rest \in Int
          BY <1>1, <2>2
        <5> HIDE DEF q, rest
        <5>2. FontHeight * (q + 1) = FontHeight * q + FontHeight
          BY <1>1, <4>2
        <5> QED
          BY <1>1, <4>1, <4>2, <5>1, <5>2 DEF rest
      <4> HIDE DEF q
      <4> QED
        BY <1>1, <4>2, <4>3, DivUnique
    <3> QED
      BY <3>1, <3>2
  <2>5. 0 % FontHeight = 0
    BY <1>1, ModSmall
  <2>6. ScrollStart >= FontHeight
    <3>1. ScrollStart > 0 => ScrollStart >= 0 + FontHeight
      BY <1>1, <2>3, <2>4, <2>5, Multiples
    <3> QED
      BY <1>1, <2>3, <3>1
  <2>7. ScrollStart <= bottom
    <3>1. ScrollStart > bottom => ScrollStart >= bottom + FontHeight
      <4>1. ScrollStart \in Int /\ bottom \in Int
        BY <1>2, <2>3
      <4> QED
        BY <1>1, <1>2, <2>4, <4>1, Multiples
    <3> QED
      BY <1>1, <1>2, <1>4, <2>3, <3>1
  <2>8. (bottom - ScrollStart) % FontHeight = 0
    <3>1. ScrollStart \in Int /\ bottom \in Int
      BY <1>2, <2>3
    <3> QED
      BY <1>1, <1>2, <2>4, <3>1, Multiples
  <2>9. bottom - ScrollStart <= ConsoleMax
    BY <1>1, <2>3, <2>6 DEF bottom
  <2> QED
    BY <1>1, <1>2, <2>1, <2>3, <2>7, <2>8, <2>9 DEF bottom
<1> QED
  BY <1>1, <1>2, <1>3, <1>4

\* What stands in a row is the same line, counted from the next one.
LEMMA NextLine ==
  ASSUME NEW l \in 0 .. Lines - 1, NEW y \in 0 .. ConsoleMax, NEW r \in Nat, r < y + FontHeight
  PROVE  Line(r, y + FontHeight, (l + 1) % Lines) = IF r < y THEN Line(r, y, l) ELSE l
<1> DEFINE n == y - r + FontHeight - 1
           k == n \div FontHeight
           next == (l + 1) % Lines
<1>1. /\ FontHeight \in Nat \ {0} /\ Lines \in Nat \ {0} /\ Height \in Nat
      /\ ConsoleMax + 2 * FontHeight < Height /\ Lines * FontHeight > Height
      /\ ConsoleMax \in Nat
  BY Constants
<1>2. n \in Nat /\ n + FontHeight < Height
  BY <1>1
<1>3. (n + FontHeight) \div FontHeight = k + 1
  <2>1. n \in Int /\ FontHeight \in Nat \ {0}
    BY <1>1, <1>2
  <2> HIDE DEF n
  <2> QED
    BY <2>1, DivShift
<1>4. Line(r, y + FontHeight, next) = (next + Lines - (k + 1)) % Lines
  <2>1. (y + FontHeight) - r + FontHeight - 1 = n + FontHeight
    BY <1>1
  <2>2. Line(r, y + FontHeight, next) =
          (next + Lines - ((y + FontHeight) - r + FontHeight - 1) \div FontHeight) % Lines
    BY DEF Line
  <2> HIDE DEF n, k, next
  <2> QED
    BY <1>3, <2>1, <2>2
<1>5. k \in Nat /\ k + 1 <= Lines /\ FontHeight * k <= n /\ n < FontHeight * (k + 1)
  <2>1. k \in Int /\ n = FontHeight * k + (n % FontHeight) /\ n % FontHeight \in 0 .. FontHeight - 1
    BY <1>1, <1>2, DivMod
  <2> HIDE DEF k
  <2>2. FontHeight * (k + 1) = FontHeight * k + FontHeight
    BY <1>1, <2>1
  <2>3. FontHeight * k <= n /\ n < FontHeight * (k + 1)
    <3> DEFINE rest == n % FontHeight
               p == FontHeight * k
    <3>1. n = p + rest /\ rest \in 0 .. FontHeight - 1 /\ p \in Int
      BY <1>1, <2>1
    <3> HIDE DEF rest, p
    <3> QED
      BY <1>1, <1>2, <2>2, <3>1 DEF p
  <2>4. k >= 0
    <3>1. FontHeight * (k + 1) > 0
      BY <1>1, <1>2, <2>1, <2>3
    <3>2. k + 1 > 0
      BY <1>1, <2>1, <3>1
    <3> QED
      BY <2>1, <3>2
  <2>5. k < Lines
    <3>1. FontHeight * k < FontHeight * Lines
      BY <1>1, <1>2, <2>1, <2>3
    <3> HIDE DEF n
    <3> QED
      BY <1>1, <2>1, <3>1
  <2> QED
    BY <1>1, <2>1, <2>3, <2>4, <2>5
<1>6. r < y => Line(r, y, l) = (l + Lines - k) % Lines
  BY DEF Line
<1> HIDE DEF n, k
<1>7. r < y => k >= 1
  <2>1. r < y => n >= FontHeight
    BY <1>1 DEF n
  <2>2. r < y => FontHeight * (k + 1) > FontHeight
    BY <1>1, <1>2, <1>5, <2>1
  <2> QED
    BY <1>1, <1>5, <2>2
<1>8. r >= y => k = 0
  <2>1. r >= y => n < FontHeight
    BY <1>1 DEF n
  <2>2. r >= y => FontHeight * k < FontHeight
    BY <1>1, <1>2, <1>5, <2>1
  <2> QED
    BY <1>1, <1>5, <2>2
<1>9. (next + Lines - (k + 1)) % Lines = (l + Lines - k) % Lines
  <2>1. CASE l + 1 < Lines
    <3>1. next = l + 1
      BY <1>1, <2>1, ModSmall
    <3>2. next + Lines - (k + 1) = l + Lines - k
      BY <1>1, <1>5, <3>1
    <3> QED
      BY <3>2
  <2>2. CASE l + 1 = Lines
    <3>1. next = 0
      <4>1. 0 \in 0 .. Lines - 1 /\ l + 1 = 0 + Lines
        BY <1>1, <2>2
      <4>2. (0 + Lines) % Lines = 0
        BY <1>1, <4>1, ModSmall
      <4> QED
        BY <4>1, <4>2
    <3> DEFINE m == Lines - (k + 1)
    <3>2. m \in 0 .. Lines - 1
      BY <1>1, <1>5
    <3>3. next + Lines - (k + 1) = m /\ l + Lines - k = m + Lines
      BY <1>1, <1>5, <2>2, <3>1
    <3> HIDE DEF m
    <3>4. m % Lines = m /\ (m + Lines) % Lines = m
      BY <1>1, <3>2, ModSmall
    <3> QED
      BY <3>3, <3>4
  <2> QED
    BY <1>1, <2>1, <2>2
<1>10. r >= y => (l + Lines - k) % Lines = l
  <2>1. l + Lines - 0 = l + Lines
    BY <1>1
  <2>2. (l + Lines) % Lines = l
    BY <1>1, ModSmall
  <2> QED
    BY <1>8, <2>1, <2>2
<1>11. r \in Int /\ y \in Int
  OBVIOUS
<1> QED
  BY <1>4, <1>6, <1>9, <1>10, <1>11

\* The rows after a line's end: the console's rows move up, the rest is blank.
LEMMA ScrolledRows ==
  ASSUME NEW rows \in [Display -> 0 .. Lines], NEW y \in 0 .. ConsoleMax, y % FontHeight = 0
  PROVE  LET bottom == y + FontHeight
             up == ScrollBy(bottom)
             t == Scrolled(rows, bottom)
         IN  /\ t \in [Display -> 0 .. Lines]
             /\ \A r \in Display :
                   /\ r < bottom - up => r + up \in Display /\ t[r] = rows[r + up]
                   /\ r >= bottom - up => t[r] = Blank \/ (up = 0 /\ t[r] = rows[r])
<1> DEFINE bottom == y + FontHeight
           up == ScrollBy(bottom)
           t == Scrolled(rows, bottom)
<1>1. /\ FontHeight \in Nat \ {0} /\ Lines \in Nat \ {0} /\ Height \in Nat
      /\ ConsoleMax + 2 * FontHeight < Height /\ ConsoleMax \in Nat
  BY Constants
<1>2. up \in 0 .. bottom /\ bottom \in Nat /\ bottom < Height
  <2>1. up \in 0 .. bottom
    BY ScrollsLines
  <2> QED
    BY <1>1, <2>1
<1>3. CASE bottom > ConsoleMax
  <2>1. up = ScrollStart
    BY <1>3 DEF ScrollBy
  <2>2. t = FilledFrom(Copied(rows, up, bottom - up), bottom - up)
    BY <1>3, <2>1 DEF Scrolled
  <2> HIDE DEF bottom, up, t
  <2>3. ~((bottom - up) + up >= Height)
    BY <1>1, <1>2
  <2>4. Copied(rows, up, bottom - up) =
          [r \in Display |-> IF r < bottom - up THEN rows[r + up] ELSE rows[r]]
    BY <2>3 DEF Copied
  <2>5. t = [r \in Display |-> IF r >= bottom - up THEN Blank ELSE rows[r + up]]
    <3>1. \A r \in Display : ~(r >= bottom - up) => r < bottom - up
      BY <1>1, <1>2 DEF Display
    <3> QED
      BY <2>2, <2>4, <3>1 DEF FilledFrom
  <2>6. \A r \in Display : r < bottom - up => r + up \in Display
    BY <1>1, <1>2 DEF Display
  <2>7. Blank \in 0 .. Lines
    BY <1>1 DEF Blank
  <2>8. \A r \in Display : r < bottom - up \/ r >= bottom - up
    BY <1>2 DEF Display
  <2>9. \A r \in Display : r < bottom - up => ~(r >= bottom - up)
    BY <1>2 DEF Display
  <2>10. t \in [Display -> 0 .. Lines]
    BY <2>5, <2>6, <2>7, <2>8
  <2> QED
    BY <2>5, <2>6, <2>9, <2>10 DEF bottom, up, t
<1>4. CASE ~(bottom > ConsoleMax)
  <2>1. up = 0 /\ t = rows
    BY <1>4 DEF ScrollBy, Scrolled
  <2> HIDE DEF bottom, up, t
  <2>2. \A r \in Display : r + up = r
    BY <2>1 DEF Display
  <2> QED
    BY <2>1, <2>2 DEF bottom, up, t
<1> QED
  BY <1>3, <1>4

-----------------------------------------------------------------------------
(* The invariant: what the statics agree on, and that no drawing outlives   *)
(* its program, because all of it is in rows that its exit blanks.          *)

ScreenInvariant ==
    /\ Sound(fb) /\ Initial
    /\ ~running /\ fb.moved => fb.ink = {}

LEMMA ScreenInitially == Init => ScreenInvariant
<1> SUFFICES ASSUME Init
             PROVE  ScreenInvariant
  OBVIOUS
<1> USE DEF Init
<1>1. Initial
  BY Constants DEF Initial
<1>2. 0 % FontHeight = 0
  BY Constants, ModSmall
<1>3. Typed(fb)
  BY <1>2, Constants, BlankedInOrder DEF Typed, Statics
<1>4. Inside(fb) /\ Agrees(fb) /\ InOrder(fb, line)
  BY Constants, BlankedInOrder DEF Inside, Agrees, InOrder
<1> QED
  BY <1>1, <1>3, <1>4 DEF ScreenInvariant, Sound

\* A step that goes from fb to a sound record and leaves line and overscan.
LEMMA SoundStep ==
  ASSUME ScreenInvariant, NEW g, Sound(g), fb' = g, UNCHANGED <<line, overscan>>,
         ~running' /\ g.moved => g.ink = {}
  PROVE  ScreenInvariant'
BY DEF ScreenInvariant, Initial, Sound, Typed, Statics, Inside, Agrees, InOrder, Line

LEMMA GlyphStep ==
  ASSUME ScreenInvariant, PutGlyph
  PROVE  ScreenInvariant'
<1> DEFINE drawn == Drawn(fb.console, fb.y, line)
           rows == IF fb.moved THEN drawn ELSE fb.console
           g == [fb EXCEPT !.console = rows, !.x = fb.x + 1]
<1>1. /\ Typed(fb) /\ fb.y \in Nat /\ fb.x \in Nat /\ fb.console \in [Display -> 0 .. Lines]
      /\ line \in 0 .. Lines /\ FontHeight \in Nat \ {0}
      /\ Inside(fb) /\ Agrees(fb) /\ InOrder(fb, line)
  BY Constants DEF ScreenInvariant, Sound, Typed, Statics, Initial
<1>2. fb' = g /\ UNCHANGED <<line, overscan, running>>
  BY <1>1 DEF PutGlyph
<1>3. drawn \in [Display -> 0 .. Lines]
  BY <1>1 DEF Drawn
<1>4. rows \in [Display -> 0 .. Lines]
  BY <1>1, <1>3
<1> HIDE DEF rows
<1>5. /\ g.initialized = fb.initialized /\ g.count = fb.count /\ g.active = fb.active
      /\ g.frames = fb.frames /\ g.shown = fb.shown /\ g.margin = fb.margin
      /\ g.moved = fb.moved /\ g.ink = fb.ink /\ g.y = fb.y /\ g.console = rows
  BY <1>1 DEF Typed, Statics
<1>6. Typed(g)
  <2> DEFINE column == fb.x + 1
  <2>1. column \in Nat /\ g = [fb EXCEPT !.console = rows, !.x = column]
    BY <1>1
  <2> HIDE DEF g, column
  <2>2. g \in Statics
    BY <1>1, <1>4, <2>1 DEF Typed, Statics
  <2> QED
    BY <1>1, <1>5, <2>2 DEF Typed, Statics
<1>7. InOrder(g, line)
  <2>1. SUFFICES ASSUME fb.moved, NEW r \in Display
                 PROVE  g.console[r] \in {Blank} \cup
                           (IF r < g.y THEN {Line(r, g.y, line)}
                            ELSE IF r < g.y + FontHeight THEN {line} ELSE {})
    BY <1>5 DEF InOrder
  <2>2. g.console[r] = IF r \in fb.y .. fb.y + FontHeight - 1 THEN line ELSE fb.console[r]
    BY <1>5, <2>1 DEF rows, Drawn
  <2>3. fb.console[r] \in {Blank} \cup
            (IF r < fb.y THEN {Line(r, fb.y, line)} ELSE IF r < fb.y + FontHeight THEN {line} ELSE {})
    BY <1>1, <2>1 DEF InOrder
  <2>4. r \in fb.y .. fb.y + FontHeight - 1 <=> ~(r < fb.y) /\ r < fb.y + FontHeight
    BY <1>1 DEF Display
  <2> HIDE DEF g
  <2> QED
    BY <1>5, <2>2, <2>3, <2>4
<1> HIDE DEF g
<1>8. Sound(g)
  BY <1>1, <1>5, <1>6, <1>7 DEF Sound, Inside, Agrees
<1> QED
  BY <1>2, <1>5, <1>8, SoundStep DEF ScreenInvariant

LEMMA LineStep ==
  ASSUME ScreenInvariant, PutLine
  PROVE  ScreenInvariant'
<1> DEFINE y == fb.y
           bottom == y + FontHeight
           up == ScrollBy(bottom)
           scrolled == Scrolled(fb.console, bottom)
           rows == IF fb.moved THEN scrolled ELSE fb.console
           g == [fb EXCEPT !.console = rows, !.x = 0, !.y = bottom - up]
<1>1. /\ Typed(fb) /\ y \in 0 .. ConsoleMax /\ y % FontHeight = 0
      /\ fb.console \in [Display -> 0 .. Lines]
      /\ line \in 0 .. Lines - 1 /\ FontHeight \in Nat \ {0} /\ Lines \in Nat \ {0}
      /\ Inside(fb) /\ Agrees(fb) /\ InOrder(fb, line)
  BY Constants DEF ScreenInvariant, Sound, Typed, Statics, Initial
<1>2. fb' = g /\ line' = (line + 1) % Lines /\ UNCHANGED <<overscan, running>>
  BY DEF PutLine
<1>3. up \in 0 .. bottom /\ bottom - up \in 0 .. ConsoleMax /\ (bottom - up) % FontHeight = 0
  <2> HIDE DEF y
  <2> QED
    BY <1>1, ScrollsLines
<1>4. /\ scrolled \in [Display -> 0 .. Lines]
      /\ \A r \in Display :
            /\ r < bottom - up => r + up \in Display /\ scrolled[r] = fb.console[r + up]
            /\ r >= bottom - up => scrolled[r] = Blank \/ (up = 0 /\ scrolled[r] = fb.console[r])
  <2> HIDE DEF y
  <2> QED
    BY <1>1, ScrolledRows
<1>5. rows \in [Display -> 0 .. Lines]
  BY <1>1, <1>4
<1>6. line' \in 0 .. Lines - 1
  <2>1. line + 1 \in Int
    BY <1>1
  <2> QED
    BY <1>1, <1>2, <2>1, DivMod
<1>7. bottom \in Nat /\ y \in Nat /\ bottom = y + FontHeight /\ ConsoleMax \in Nat
  BY <1>1, Constants
<1> HIDE DEF y, bottom, up, scrolled
<1>8. /\ g.initialized = fb.initialized /\ g.count = fb.count /\ g.active = fb.active
      /\ g.frames = fb.frames /\ g.shown = fb.shown /\ g.margin = fb.margin
      /\ g.moved = fb.moved /\ g.ink = fb.ink /\ g.y = bottom - up /\ g.console = rows
  BY <1>1 DEF Typed, Statics
<1>9. Typed(g)
  <2> DEFINE top == bottom - up
  <2>1. top \in Nat /\ top <= ConsoleMax /\ top % FontHeight = 0
    BY <1>3, <1>7
  <2>2. g = [fb EXCEPT !.console = rows, !.x = 0, !.y = top] /\ g.y = top
    BY <1>8
  <2> HIDE DEF g, top
  <2>3. g \in Statics
    BY <1>1, <1>5, <2>1, <2>2 DEF Typed, Statics
  <2> QED
    BY <2>1, <2>2, <2>3 DEF Typed, Statics
<1>10. InOrder(g, line')
  <2>1. SUFFICES ASSUME fb.moved, NEW r \in Display
                 PROVE  g.console[r] \in {Blank} \cup
                           (IF r < g.y THEN {Line(r, g.y, line')}
                            ELSE IF r < g.y + FontHeight THEN {line'} ELSE {})
    BY <1>8 DEF InOrder
  <2>2. g.console[r] = scrolled[r]
    BY <1>8, <2>1
  <2>3. r \in Nat /\ up \in Nat
    BY <1>3 DEF Display
  <2> HIDE DEF g
  <2>4. CASE r < bottom - up
    <3>1. r + up \in Display /\ r + up < bottom /\ scrolled[r] = fb.console[r + up]
      BY <1>3, <1>4, <1>7, <2>3, <2>4
    <3>2. fb.console[r + up] \in {Blank} \cup
            (IF r + up < y THEN {Line(r + up, y, line)} ELSE IF r + up < bottom THEN {line} ELSE {})
      BY <1>1, <2>1, <3>1 DEF InOrder, y, bottom
    <3>3. Line(r + up, bottom, line') = IF r + up < y THEN Line(r + up, y, line) ELSE line
      <4>1. r + up \in Nat /\ r + up < y + FontHeight
        BY <1>7, <2>3, <3>1
      <4> QED
        BY <1>1, <1>2, <1>7, <4>1, NextLine
    <3>4. Line(r, bottom - up, line') = Line(r + up, bottom, line')
      <4>1. (bottom - up) - r + FontHeight - 1 = bottom - (r + up) + FontHeight - 1
        BY <1>1, <1>7, <2>3
      <4> QED
        BY <4>1 DEF Line
    <3>5. fb.console[r + up] \in {Blank, Line(r, bottom - up, line')}
      BY <3>1, <3>2, <3>3, <3>4
    <3> QED
      BY <1>8, <2>2, <2>4, <3>1, <3>5
  <2>5. CASE r >= bottom - up
    <3>1. scrolled[r] = Blank \/ (up = 0 /\ scrolled[r] = fb.console[r])
      BY <1>4, <2>5
    <3>2. up = 0 => fb.console[r] = Blank
      <4>1. up = 0 => ~(r < y) /\ ~(r < y + FontHeight)
        BY <1>1, <1>7, <2>3, <2>5
      <4> QED
        BY <1>1, <2>1, <4>1 DEF InOrder, y
    <3> QED
      BY <2>2, <3>1, <3>2
  <2> QED
    BY <1>3, <1>7, <2>3, <2>4, <2>5
<1> HIDE DEF g
<1>11. Initial'
  BY <1>2, <1>6 DEF ScreenInvariant, Initial
<1>12. Typed(fb') /\ Inside(fb') /\ InOrder(fb', line')
  BY <1>1, <1>2, <1>8, <1>9, <1>10 DEF Inside
<1>13. Agrees(fb)'
  BY <1>1, <1>2, <1>8 DEF Agrees
<1>14. Sound(fb)'
  BY <1>12, <1>13 DEF Sound, Typed, Statics, Inside, InOrder, Line
<1>15. (~running /\ fb.moved => fb.ink = {})'
  BY <1>2, <1>8 DEF ScreenInvariant
<1> QED
  BY <1>11, <1>14, <1>15 DEF ScreenInvariant

LEMMA DrawStep ==
  ASSUME ScreenInvariant, NEW b \in Int, b >= -2, Draw(b)
  PROVE  ScreenInvariant'
<1> DEFINE p == Prepared(b)
           ink == IF fb.moved /\ p < fb.frames THEN fb.ink \cup {p} ELSE fb.ink
           g == [fb EXCEPT !.ink = ink]
<1>1. /\ Typed(fb) /\ fb.active \in Nat /\ fb.frames \in Nat /\ fb.count \in Nat
      /\ fb.ink \in SUBSET Nat
      /\ Inside(fb) /\ Agrees(fb) /\ InOrder(fb, line)
  BY DEF ScreenInvariant, Sound, Typed, Statics
<1>2. p \in Nat /\ p # 0
  BY <1>1 DEF Draw
<1>3. fb' = g /\ UNCHANGED <<line, overscan, running>> /\ running
  BY DEF Draw
<1> HIDE DEF p
<1>4. ink \in SUBSET Nat /\ \A c \in ink : c # 0 /\ c < fb.frames
  BY <1>1, <1>2 DEF Inside
<1> HIDE DEF ink
<1>5. /\ g.initialized = fb.initialized /\ g.count = fb.count /\ g.active = fb.active
      /\ g.frames = fb.frames /\ g.shown = fb.shown /\ g.margin = fb.margin
      /\ g.moved = fb.moved /\ g.ink = ink /\ g.y = fb.y /\ g.console = fb.console
  BY <1>1 DEF Typed, Statics
<1>6. Typed(g)
  BY <1>1, <1>4, <1>5 DEF Typed, Statics
<1> HIDE DEF g
<1>7. Sound(g)
  BY <1>1, <1>4, <1>5, <1>6 DEF Sound, Inside, Agrees, InOrder
<1> QED
  BY <1>3, <1>7, SoundStep

LEMMA OverscanStep ==
  ASSUME ScreenInvariant, NEW m \in Margins, SetOverscan(m)
  PROVE  ScreenInvariant'
<1> DEFINE g == [fb EXCEPT !.margin = m]
<1>1. Typed(fb) /\ Inside(fb) /\ Agrees(fb) /\ InOrder(fb, line)
  BY DEF ScreenInvariant, Sound
<1>2. fb' = g /\ overscan' = m /\ UNCHANGED <<line, running>>
  BY DEF SetOverscan
<1>3. /\ g.initialized = fb.initialized /\ g.count = fb.count /\ g.active = fb.active
      /\ g.frames = fb.frames /\ g.shown = fb.shown /\ g.margin = m
      /\ g.moved = fb.moved /\ g.ink = fb.ink /\ g.y = fb.y /\ g.console = fb.console
  BY <1>1 DEF Typed, Statics
<1>4. Typed(g)
  BY <1>1, <1>3 DEF Typed, Statics
<1> HIDE DEF g
<1>5. Typed(fb)' /\ Inside(fb)' /\ InOrder(fb, line)'
  BY <1>1, <1>2, <1>3, <1>4 DEF Typed, Statics, Inside, InOrder, Line
<1>6. Agrees(fb)'
  BY <1>1, <1>2, <1>3 DEF Agrees
<1>7. Initial'
  BY <1>2 DEF ScreenInvariant, Initial
<1>8. (~running /\ fb.moved => fb.ink = {})'
  BY <1>2, <1>3 DEF ScreenInvariant
<1> QED
  BY <1>5, <1>6, <1>7, <1>8 DEF ScreenInvariant, Sound

\* The exit blanks every row that could have been drawn in.
LEMMA ExitStep ==
  ASSUME ScreenInvariant, ProgramExits
  PROVE  ScreenInvariant'
<1>1. PICK f \in Switched(fb, 0) :
        \E g \in IF shrink THEN Requested(f, MinFrames) ELSE {f} : fb' = ExitFilled(g)
  BY DEF ProgramExits
<1>2. Sound(f)
  BY <1>1, SwitchSound DEF ScreenInvariant
<1>3. PICK g : /\ g \in (IF shrink THEN Requested(f, MinFrames) ELSE {f})
               /\ fb' = ExitFilled(g)
  BY <1>1
<1>4. Sound(g)
  <2>1. CASE g = f
    BY <1>2, <2>1
  <2>2. CASE g \in Requested(f, MinFrames)
    <3>1. Initial /\ MinFrames \in Int
      BY Constants DEF ScreenInvariant
    <3> QED
      BY <1>2, <2>2, <3>1, RequestSound
  <2> QED
    BY <1>3, <2>1, <2>2
<1> DEFINE ink == IF g.moved THEN g.ink \ (1 .. g.frames - 1) ELSE g.ink
           h == ExitFilled(g)
<1>5. /\ Typed(g) /\ g.frames \in Nat /\ g.ink \in SUBSET Nat
      /\ Inside(g) /\ Agrees(g) /\ InOrder(g, line)
  BY <1>4 DEF Sound, Typed, Statics
<1>6. ink \in SUBSET Nat /\ ink \subseteq g.ink
  BY <1>5
<1>7. g.moved => ink = {}
  <2>1. \A b \in g.ink : b \in 1 .. g.frames - 1
    <3>1. \A b \in g.ink : b \in Nat /\ b # 0 /\ b < g.frames
      BY <1>5 DEF Inside
    <3> QED
      BY <1>5, <3>1
  <2> QED
    BY <2>1
<1>8. h = [g EXCEPT !.ink = ink]
  BY DEF ExitFilled
<1> HIDE DEF ink, h
<1>9. /\ h.initialized = g.initialized /\ h.count = g.count /\ h.active = g.active
      /\ h.frames = g.frames /\ h.shown = g.shown /\ h.margin = g.margin
      /\ h.moved = g.moved /\ h.ink = ink /\ h.y = g.y /\ h.console = g.console
  BY <1>5, <1>8 DEF Typed, Statics
<1>10. Typed(h)
  BY <1>5, <1>6, <1>8, <1>9 DEF Typed, Statics
<1>11. Sound(h)
  BY <1>5, <1>6, <1>9, <1>10 DEF Sound, Inside, Agrees, InOrder
<1>12. fb' = h /\ UNCHANGED <<line, overscan>>
  BY <1>3 DEF ProgramExits, h
<1> QED
  BY <1>7, <1>9, <1>11, <1>12, SoundStep

LEMMA ScreenStep ==
  ASSUME ScreenInvariant, [Next]_vars
  PROVE  ScreenInvariant'
<1>1. Sound(fb) /\ Initial /\ Typed(fb)
  BY DEF ScreenInvariant, Sound
<1>2. CASE PutReturn
  <2> DEFINE g == [fb EXCEPT !.x = 0]
  <2>1. fb' = g /\ UNCHANGED <<line, overscan, running>>
    BY <1>2 DEF PutReturn
  <2>2. /\ g.initialized = fb.initialized /\ g.count = fb.count /\ g.active = fb.active
        /\ g.frames = fb.frames /\ g.shown = fb.shown /\ g.margin = fb.margin
        /\ g.moved = fb.moved /\ g.ink = fb.ink /\ g.y = fb.y /\ g.console = fb.console
    BY <1>1 DEF Typed, Statics
  <2>3. Typed(g)
    BY <1>1, <2>2 DEF Typed, Statics
  <2> HIDE DEF g
  <2>4. Sound(g)
    BY <1>1, <2>2, <2>3 DEF Sound, Inside, Agrees, InOrder
  <2> QED
    BY <2>1, <2>2, <2>4, SoundStep DEF ScreenInvariant
<1>3. CASE ProgramStarts
  BY <1>1, <1>3, SoundStep DEF ProgramStarts
<1>4. ASSUME NEW b \in -2 .. MaxFrames, SwitchFrame(b)
      PROVE  ScreenInvariant'
  <2>1. PICK f \in Switched(fb, Prepared(b)) : fb' = f
    BY <1>4 DEF SwitchFrame
  <2>2. Sound(f)
    BY <1>1, <2>1, SwitchSound
  <2> QED
    BY <1>4, <2>1, <2>2, SoundStep DEF SwitchFrame
<1>5. ASSUME NEW n \in Requests, RequestFrames(n)
      PROVE  ScreenInvariant'
  <2> DEFINE asked == IF n = -1 THEN -1 ELSE n + 1
  <2>1. asked \in Int
    BY ScreenAssumption
  <2>2. PICK f \in Requested(fb, asked) : fb' = f
    BY <1>5 DEF RequestFrames
  <2>3. Sound(f)
    <3> HIDE DEF asked
    <3> QED
      BY <1>1, <2>1, <2>2, RequestSound
  <2> QED
    BY <1>5, <2>2, <2>3, SoundStep DEF RequestFrames
<1>6. ASSUME NEW b \in -2 .. MaxFrames, Draw(b)
      PROVE  ScreenInvariant'
  <2>1. b \in Int /\ b >= -2
    BY Constants
  <2> QED
    BY <1>6, <2>1, DrawStep
<1>7. CASE UNCHANGED vars
  BY <1>1, <1>7, SoundStep DEF vars, ScreenInvariant
<1> QED
  BY <1>2, <1>3, <1>4, <1>5, <1>6, <1>7, GlyphStep, LineStep, OverscanStep, ExitStep DEF Next

THEOREM ScreenCorrect == Spec => []ScreenInvariant
BY ScreenInitially, ScreenStep, PTL DEF Spec

\* Across refused, shrunk and remade buffers, the firmware shows the buffer the
\* kernel calls active, one that exists, with the recorded margins.
THEOREM ActiveIsShown == Spec => []ShowsActive
<1>1. ScreenInvariant => ShowsActive
  BY DEF ScreenInvariant, Sound, Agrees, ShowsActive
<1> QED
  BY <1>1, ScreenCorrect, PTL

\* A program's exit leaves nothing of its drawing in any buffer, also in those
\* it had given back, and no drawing ever reaches the console.
THEOREM ProgramsLeaveClean == Spec => []LeftClean
<1>1. ScreenInvariant => LeftClean
  BY DEF ScreenInvariant, Sound, Inside, LeftClean
<1> QED
  BY <1>1, ScreenCorrect, PTL

\* The console shows the last lines of the output in order and without a gap,
\* for any font and console height and through every scroll and remake.
THEOREM ConsoleIsWindow == Spec => []ConsoleInOrder
<1>1. ScreenInvariant => ConsoleInOrder
  BY DEF ScreenInvariant, Sound, InOrder, Line, ConsoleInOrder, Earlier
<1> QED
  BY <1>1, ScreenCorrect, PTL
=============================================================================
