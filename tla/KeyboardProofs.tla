----------------------------- MODULE KeyboardProofs -----------------------------
(***************************************************************************)
(* For every set of keys, every delay and rate and any number of keys down *)
(* at a time: the keyboard driver agrees with the keyboard whenever no     *)
(* byte is on its way, hears every press, and repeats what is held when it *)
(* should and nothing else.                                                *)
(***************************************************************************)
EXTENDS Keyboard, SequenceTheorems, TLAPS

-------------------------------------------------------------------------------
(***************************************************************************)
(* What a byte does to the driver's view of the keys                       *)
(***************************************************************************)

ShiftKeys == ShiftCodes \X {FALSE}

HeldAfter(held, ext, b) ==
    LET code == b.data % ReleaseMin
    IN  IF b.aux \/ b.data = ExtendedByte THEN held
        ELSE IF ext
        THEN IF code \notin DOMAIN Arrows THEN held
             ELSE IF b.data < PressMax THEN held \cup {Arrows[code]}
             ELSE held \ {Arrows[code]}
        ELSE IF b.data < PressMax
        THEN IF b.data \in ShiftCodes \cup {CapsCode} THEN held ELSE held \cup {b.data}
        ELSE IF b.data >= ReleaseMin
        THEN IF b.data - ReleaseMin \in ShiftCodes \cup {CapsCode} THEN held
             ELSE held \ {b.data - ReleaseMin}
        ELSE held

ExtAfter(ext, b) == IF b.aux THEN ext ELSE b.data = ExtendedByte

ShiftAfter(shift, ext, b) ==
    IF b.aux \/ b.data = ExtendedByte \/ ext THEN shift
    ELSE IF b.data < PressMax THEN shift \/ b.data \in ShiftCodes
    ELSE IF b.data >= ReleaseMin THEN shift /\ b.data - ReleaseMin \notin ShiftCodes
    ELSE shift

\* Reduction of a number less than one turn off.
LEMMA Modulo ==
    ASSUME NEW n \in Nat \ {0}, NEW a \in Nat, a < 2 * n
    PROVE  a % n = IF a < n THEN a ELSE a - n
<1> DEFINE q == a \div n
           r == a % n
<1>1. q \in Int /\ r \in 0 .. (n - 1) /\ a = q * n + r
  OBVIOUS
<1> HIDE DEF q, r
<1>2. q \in {0, 1}
  <2>1. CASE q >= 2
    <3>1. q * n >= 2 * n
      BY <2>1, <1>1
    <3> QED
      BY <3>1, <1>1
  <2>2. CASE q <= -1
    <3>1. q * n <= (-1) * n
      BY <2>2, <1>1
    <3> QED
      BY <3>1, <1>1
  <2> QED
    BY <2>1, <2>2, <1>1
<1>3. 0 * n = 0 /\ 1 * n = n
  OBVIOUS
<1>4. r = IF a < n THEN a ELSE a - n
  BY <1>1, <1>2, <1>3
<1> QED
  BY <1>4 DEF r

\* What a key of the keyboard is.
LEMMA CodeFacts ==
    ASSUME NEW k \in Keys
    PROVE  /\ k = << k[1], k[2] >> /\ k[2] \in BOOLEAN
           /\ k[1] \in 0 .. PressMax - 1 /\ k[1] + ReleaseMin # ExtendedByte
           /\ k[1] # ExtendedByte
           /\ k[1] % ReleaseMin = k[1] /\ (k[1] + ReleaseMin) % ReleaseMin = k[1]
           /\ k[2] => (k[1] \in DOMAIN Arrows \/ k[1] \in ForeignCodes)
           /\ ~k[2] => k[1] \in CharCodes \cup OtherCodes \cup ShiftCodes \cup {CapsCode}
<1>1. /\ k = << k[1], k[2] >> /\ k[2] \in BOOLEAN
      /\ k[2] => (k[1] \in DOMAIN Arrows \/ k[1] \in ForeignCodes)
      /\ ~k[2] => k[1] \in CharCodes \cup OtherCodes \cup ShiftCodes \cup {CapsCode}
  <2> DEFINE plain == CharCodes \cup OtherCodes \cup ShiftCodes \cup {CapsCode}
             prefixed == DOMAIN Arrows \cup ForeignCodes
             no == {FALSE}
             yes == {TRUE}
  <2>1. k \in (plain \X no) \/ k \in (prefixed \X yes)
    BY DEF Keys
  <2>2. no = {FALSE} /\ yes = {TRUE}
    OBVIOUS
  <2> HIDE DEF plain, prefixed, no, yes
  <2>3. k = << k[1], k[2] >>
    BY <2>1
  <2>4. CASE k \in plain \X no
    <3>1. k[1] \in plain /\ k[2] \in no
      BY <2>4
    <3>2. k[2] = FALSE
      BY <2>2, <3>1
    <3> QED
      BY <2>3, <3>1, <3>2 DEF plain
  <2>5. CASE k \in prefixed \X yes
    <3>1. k[1] \in prefixed /\ k[2] \in yes
      BY <2>5
    <3>2. k[2] = TRUE
      BY <2>2, <3>1
    <3> QED
      BY <2>3, <3>1, <3>2 DEF prefixed
  <2> QED
    BY <2>1, <2>4, <2>5
<1>2. k[1] \in 0 .. PressMax - 1 /\ k[1] # ExtendedByte - ReleaseMin
  BY <1>1, CodesAssumption
<1>3. k[1] \in Nat /\ k[1] < 127
  BY <1>2 DEF PressMax
<1>4. k[1] % 128 = k[1] /\ (k[1] + 128) % 128 = k[1] /\ k[1] + 128 # 224 /\ k[1] # 224
  <2>1. \A n \in Nat : n < 127 => n % 128 = n /\ (n + 128) % 128 = n
    <3> TAKE n \in Nat
    <3> HAVE n < 127
    <3>1. n % 128 = n
      BY Modulo, 128 \in Nat \ {0}, n < 2 * 128, n < 128
    <3> DEFINE m == n + 128
    <3>2. m \in Nat /\ m < 2 * 128 /\ ~(m < 128) /\ m - 128 = n
      OBVIOUS
    <3> HIDE DEF m
    <3>3. m % 128 = n
      BY <3>2, Modulo, 128 \in Nat \ {0}
    <3> QED
      BY <3>1, <3>3 DEF m
  <2>2. k[1] # 96
    BY <1>2 DEF ExtendedByte, ReleaseMin
  <2> QED
    BY <1>3, <2>1, <2>2
<1> QED
  BY <1>1, <1>2, <1>4 DEF ReleaseMin, ExtendedByte

\* A key that is not held and one that is have no entry of keys_held in common.
LEMMA HeldAsFacts ==
    ASSUME NEW j \in Keys, NEW k \in Keys
    PROVE  /\ HeldAs(k) \subseteq HeldCodes
           /\ j # k => HeldAs(j) \cap HeldAs(k) = {}
<1>1. HeldAs(k) \subseteq HeldCodes
  BY DEF HeldAs, HeldCodes, Range
<1>2. \A c \in DOMAIN Arrows : Arrows[c] \in ReleaseMin .. 255
  BY CodesAssumption DEF Range
<1>3. j[1] < ReleaseMin /\ k[1] < ReleaseMin /\ j[1] \in Int /\ k[1] \in Int
  BY CodeFacts DEF PressMax, ReleaseMin
<1>4. j # k => j[1] # k[1] \/ j[2] # k[2]
  BY CodeFacts
<1>5. ASSUME NEW x \in HeldAs(j), x \in HeldAs(k) PROVE j = k
  <2>1. j[2] \in BOOLEAN /\ k[2] \in BOOLEAN
    BY CodeFacts
  <2>2. CASE j[2] /\ k[2]
    <3>1. j[1] \in DOMAIN Arrows /\ k[1] \in DOMAIN Arrows /\ Arrows[j[1]] = Arrows[k[1]]
      BY <1>5, <2>2 DEF HeldAs
    <3>2. j[1] = k[1]
      BY <3>1, CodesAssumption
    <3> QED
      BY <1>4, <2>1, <2>2, <3>2
  <2>3. CASE ~j[2] /\ ~k[2]
    BY <1>4, <1>5, <2>1, <2>3 DEF HeldAs
  <2>4. CASE j[2] /\ ~k[2]
    BY <1>2, <1>3, <1>5, <2>4 DEF HeldAs, ReleaseMin
  <2>5. CASE ~j[2] /\ k[2]
    BY <1>2, <1>3, <1>5, <2>5 DEF HeldAs, ReleaseMin
  <2> QED
    BY <2>1, <2>2, <2>3, <2>4, <2>5
<1> QED
  BY <1>1, <1>5

\* A byte of the mouse and the prefix change nothing but `extended'.
LEMMA MouseEffect ==
    ASSUME NEW held, NEW ext, NEW shift, NEW m
    PROVE  /\ HeldAfter(held, ext, MouseByte(m)) = held
           /\ ExtAfter(ext, MouseByte(m)) = ext
           /\ ShiftAfter(shift, ext, MouseByte(m)) = shift
  BY DEF HeldAfter, ExtAfter, ShiftAfter, MouseByte

LEMMA PrefixEffect ==
    ASSUME NEW held, NEW ext, NEW shift
    PROVE  /\ HeldAfter(held, ext, KeyByte(ExtendedByte)) = held
           /\ ExtAfter(ext, KeyByte(ExtendedByte)) = TRUE
           /\ ShiftAfter(shift, ext, KeyByte(ExtendedByte)) = shift
  BY DEF HeldAfter, ExtAfter, ShiftAfter, KeyByte

\* The byte of a press adds the key's entry, that of a release takes it away.
LEMMA MakeEffect ==
    ASSUME NEW k \in Keys, NEW held, NEW ext \in BOOLEAN, ext <=> k[2], NEW shift \in BOOLEAN
    PROVE  /\ HeldAfter(held, ext, KeyByte(k[1])) = held \cup HeldAs(k)
           /\ ExtAfter(ext, KeyByte(k[1])) = FALSE
           /\ ShiftAfter(shift, ext, KeyByte(k[1])) <=> shift \/ k \in ShiftKeys
<1>1. /\ k = << k[1], k[2] >> /\ k[2] \in BOOLEAN /\ k[1] < PressMax /\ k[1] # ExtendedByte
      /\ k[1] % ReleaseMin = k[1]
      /\ ~k[2] => k[1] \in CharCodes \cup OtherCodes \cup ShiftCodes \cup {CapsCode}
  BY CodeFacts DEF PressMax
<1>2. ~KeyByte(k[1]).aux /\ KeyByte(k[1]).data = k[1]
  BY DEF KeyByte
<1>3. k \in ShiftKeys <=> ~k[2] /\ k[1] \in ShiftCodes
  BY <1>1 DEF ShiftKeys
<1>4. HeldAfter(held, ext, KeyByte(k[1])) = held \cup HeldAs(k)
  <2>1. CASE k[2]
    BY <1>1, <1>2, <2>1 DEF HeldAfter, HeldAs
  <2>2. CASE ~k[2]
    <3>1. k[1] \in HeldCodes <=> k[1] \notin ShiftCodes \cup {CapsCode}
      <4>1. k[1] \notin Range(Arrows)
        BY CodeFacts, CodesAssumption DEF PressMax, ReleaseMin
      <4> QED
        BY <1>1, <2>2, <4>1, CodesAssumption DEF HeldCodes
    <3> QED
      BY <1>1, <1>2, <2>2, <3>1 DEF HeldAfter, HeldAs
  <2> QED
    BY <1>1, <2>1, <2>2
<1> QED
  BY <1>1, <1>2, <1>3, <1>4 DEF ExtAfter, ShiftAfter

LEMMA BreakEffect ==
    ASSUME NEW k \in Keys, NEW held, NEW ext \in BOOLEAN, ext <=> k[2], NEW shift \in BOOLEAN
    PROVE  /\ HeldAfter(held, ext, KeyByte(k[1] + ReleaseMin)) = held \ HeldAs(k)
           /\ ExtAfter(ext, KeyByte(k[1] + ReleaseMin)) = FALSE
           /\ ShiftAfter(shift, ext, KeyByte(k[1] + ReleaseMin)) <=> shift /\ k \notin ShiftKeys
<1> DEFINE d == k[1] + ReleaseMin
<1>1. /\ k = << k[1], k[2] >> /\ k[2] \in BOOLEAN /\ d # ExtendedByte /\ d % ReleaseMin = k[1]
      /\ ~k[2] => k[1] \in CharCodes \cup OtherCodes \cup ShiftCodes \cup {CapsCode}
  BY CodeFacts
<1>2. ~(d < PressMax) /\ d >= ReleaseMin /\ d - ReleaseMin = k[1]
  BY CodeFacts DEF ReleaseMin, PressMax
<1>3. ~KeyByte(d).aux /\ KeyByte(d).data = d
  BY DEF KeyByte
<1>4. k \in ShiftKeys <=> ~k[2] /\ k[1] \in ShiftCodes
  BY <1>1 DEF ShiftKeys
<1> HIDE DEF d
<1>5. HeldAfter(held, ext, KeyByte(d)) = held \ HeldAs(k)
  <2>1. CASE k[2]
    BY <1>1, <1>2, <1>3, <2>1 DEF HeldAfter, HeldAs
  <2>2. CASE ~k[2]
    <3>1. k[1] \in HeldCodes <=> k[1] \notin ShiftCodes \cup {CapsCode}
      <4>1. k[1] \notin Range(Arrows)
        BY CodeFacts, CodesAssumption DEF PressMax, ReleaseMin
      <4> QED
        BY <1>1, <2>2, <4>1, CodesAssumption DEF HeldCodes
    <3> QED
      BY <1>1, <1>2, <1>3, <2>2, <3>1 DEF HeldAfter, HeldAs
  <2> QED
    BY <1>1, <2>1, <2>2
<1>6. ExtAfter(ext, KeyByte(d)) = FALSE /\ (ShiftAfter(shift, ext, KeyByte(d)) <=> shift /\ k \notin ShiftKeys)
  BY <1>1, <1>2, <1>3, <1>4 DEF ExtAfter, ShiftAfter
<1> QED
  BY <1>5, <1>6 DEF d

-------------------------------------------------------------------------------
(***************************************************************************)
(* What a step of the driver does to its state                             *)
(***************************************************************************)

\* HeldAfter and the others are what the handler does.
LEMMA ByteEffect ==
    ASSUME HandleKeyBoardIRQ, NEW b, b = port[1],
           extended \in BOOLEAN, shiftHeld \in BOOLEAN, b.aux \in BOOLEAN
    PROVE  /\ keysHeld' = HeldAfter(keysHeld, extended, b)
           /\ extended' = ExtAfter(extended, b)
           /\ shiftHeld' = ShiftAfter(shiftHeld, extended, b)
<1> DEFINE t == HandleByte(Driver, b)
<1>1. keysHeld' = t.held /\ extended' = t.ext /\ shiftHeld' = t.shift
  BY DEF HandleKeyBoardIRQ, Install
<1>2. CASE b.aux
  BY <1>1, <1>2 DEF HandleByte, HeldAfter, ExtAfter, ShiftAfter, Driver
<1>3. CASE ~b.aux /\ b.data = ExtendedByte
  BY <1>1, <1>3 DEF HandleByte, HeldAfter, ExtAfter, ShiftAfter, Driver
<1>4. CASE ~b.aux /\ b.data # ExtendedByte /\ extended
  BY <1>1, <1>4 DEF HandleByte, HandleExtended, HeldAfter, ExtAfter, ShiftAfter, Driver
<1>5. CASE ~b.aux /\ b.data # ExtendedByte /\ ~extended /\ b.data < PressMax
  BY <1>1, <1>5 DEF HandleByte, HandlePress, HeldAfter, ExtAfter, ShiftAfter, Driver
<1>6. CASE ~b.aux /\ b.data # ExtendedByte /\ ~extended /\ ~(b.data < PressMax)
  BY <1>1, <1>6 DEF HandleByte, HandleRelease, HeldAfter, ExtAfter, ShiftAfter, Driver
<1> QED
  BY <1>2, <1>3, <1>4, <1>5, <1>6

\* The keys that characters come from.
LEMMA CharKeys ==
    /\ KeysOf({}) = {}
    /\ \A a : KeysOf({} \cup ArrowSequence(a)) = {a}
    /\ \A s, c : KeysOf({} \cup ResolveChar(s, c)) = {c} \cap CharCodes
<1>1. KeysOf({}) = {}
  BY DEF KeysOf
<1>2. \A a : KeysOf({} \cup ArrowSequence(a)) = {a}
  BY DEF KeysOf, ArrowSequence
<1>3. \A s, c : KeysOf({} \cup ResolveChar(s, c)) = {c} \cap CharCodes
  <2> TAKE s, c
  <2>1. CASE c \in CharCodes
    <3>1. PICK t : ResolveChar(s, c) = {[key |-> c, table |-> t]}
      BY <2>1 DEF ResolveChar
    <3> QED
      BY <2>1, <3>1 DEF KeysOf
  <2>2. CASE c \notin CharCodes
    BY <2>2 DEF KeysOf, ResolveChar
  <2> QED
    BY <2>1, <2>2
<1> QED
  BY <1>1, <1>2, <1>3

\* An arrow has an entry of its own in keys_held.
LEMMA ArrowCodes ==
    ASSUME NEW c \in DOMAIN Arrows
    PROVE  Arrows[c] \in HeldCodes /\ Arrows[c] \notin CharCodes
<1>1. Arrows[c] \in Range(Arrows)
  BY DEF Range
<1>2. CharCodes \subseteq 0 .. PressMax - 1
  BY CodesAssumption
<1> QED
  BY <1>1, <1>2, CodesAssumption DEF HeldCodes, PressMax, ReleaseMin

\* The bytes that can be at the port while `extended' is ext.
PortByte(ext, b) ==
    \/ \E m \in MouseBytes : b = MouseByte(m)
    \/ b = KeyByte(ExtendedByte)
    \/ \E k \in Keys : (ext <=> k[2]) /\ b \in {KeyByte(k[1]), KeyByte(k[1] + ReleaseMin)}

Times == [HeldCodes -> 0 .. MaxTick]
NextTimes == [HeldCodes -> 0 .. (MaxTick + RepeatDelay + RepeatRate)]

DriverTypes ==
    /\ keysHeld \subseteq HeldCodes
    /\ lastPress \in Times /\ nextRepeat \in NextTimes
    /\ shiftHeld \in BOOLEAN /\ capsLock \in BOOLEAN /\ extended \in BOOLEAN
    /\ now \in 0 .. MaxTick

\* The repeat times after a byte: that of a key whose character was made now
\* is new, the others that are held are as they were.
Rescheduled(outKeys) ==
    /\ outKeys \cap CharCodes \subseteq keysHeld'
    /\ \A k \in keysHeld' \cap CharCodes :
          IF k \in outKeys THEN nextRepeat'[k] = now + RepeatDelay
          ELSE k \in keysHeld /\ nextRepeat'[k] = nextRepeat[k]

\* Nothing is made, and no key is held that was not.
LEMMA NothingMade ==
    ASSUME out' = {}, nextRepeat' = nextRepeat, keysHeld' \cap CharCodes \subseteq keysHeld
    PROVE  Rescheduled(KeysOf(out'))
  BY CharKeys DEF Rescheduled

\* A byte leaves every held key with a repeat time, a new one or the one it had.
LEMMA ByteRepeats ==
    ASSUME DriverTypes, HandleKeyBoardIRQ, PortByte(extended, port[1])
    PROVE  DriverTypes' /\ Rescheduled(KeysOf(out'))
<1> DEFINE b == port[1]
           t == HandleByte(Driver, b)
           code == b.data % ReleaseMin
<1>1. /\ keysHeld' = t.held /\ lastPress' = t.last /\ nextRepeat' = t.next
      /\ shiftHeld' = t.shift /\ capsLock' = t.caps /\ extended' = t.ext
      /\ out' = t.out /\ now' = now
  BY DEF HandleKeyBoardIRQ, Install
<1>2. /\ RepeatDelay \in Nat /\ RepeatRate \in Nat /\ MaxTick \in Nat
      /\ now + RepeatDelay \in 0 .. (MaxTick + RepeatDelay + RepeatRate)
      /\ 0 \in 0 .. MaxTick
  BY TimesAssumption DEF DriverTypes
<1>3. CASE \/ \E m \in MouseBytes : b = MouseByte(m)
           \/ b = KeyByte(ExtendedByte)
  <2>1. /\ keysHeld' = keysHeld /\ lastPress' = lastPress /\ nextRepeat' = nextRepeat
        /\ shiftHeld' = shiftHeld /\ capsLock' = capsLock /\ out' = {}
        /\ extended' = extended \/ extended' = TRUE
    <3>1. CASE \E m \in MouseBytes : b = MouseByte(m)
      BY <1>1, <3>1 DEF Driver, HandleByte, MouseByte
    <3>2. CASE b = KeyByte(ExtendedByte)
      BY <1>1, <3>2 DEF Driver, HandleByte, KeyByte
    <3> QED
      BY <1>3, <3>1, <3>2
  <2> QED
    BY <1>1, <2>1, NothingMade DEF DriverTypes
<1>4. ASSUME NEW k \in Keys, extended, k[2], b = KeyByte(k[1]) PROVE DriverTypes' /\ Rescheduled(KeysOf(out'))
  <2>1. /\ ~b.aux /\ b.data = k[1] /\ b.data # ExtendedByte /\ code = k[1] /\ k[1] < PressMax
        /\ k[1] \in DOMAIN Arrows \/ k[1] \notin DOMAIN Arrows
    BY <1>4, CodeFacts DEF KeyByte, PressMax
  <2>2. t = HandleExtended(Driver, k[1])
    BY <1>4, <2>1 DEF HandleByte, Driver
  <2>3. CASE k[1] \in DOMAIN Arrows
    <3>1. /\ t = [Driver EXCEPT !.ext = FALSE, !.held = @ \cup {Arrows[k[1]]},
                                !.out = @ \cup ArrowSequence(Arrows[k[1]])]
      BY <2>1, <2>2, <2>3 DEF HandleExtended
    <3>2. /\ keysHeld' = keysHeld \cup {Arrows[k[1]]} /\ lastPress' = lastPress
          /\ nextRepeat' = nextRepeat /\ shiftHeld' = shiftHeld /\ capsLock' = capsLock
          /\ extended' = FALSE /\ out' = {} \cup ArrowSequence(Arrows[k[1]])
      BY <1>1, <3>1 DEF Driver
    <3>3. KeysOf(out') = {Arrows[k[1]]}
      BY <3>2, CharKeys
    <3>4. Arrows[k[1]] \in HeldCodes /\ Arrows[k[1]] \notin CharCodes
      BY <2>3, ArrowCodes
    <3>5. Rescheduled(KeysOf(out'))
      BY <3>2, <3>3, <3>4 DEF Rescheduled
    <3> QED
      BY <1>1, <3>2, <3>4, <3>5 DEF DriverTypes
  <2>4. CASE k[1] \notin DOMAIN Arrows
    <3>1. t = [Driver EXCEPT !.ext = FALSE]
      BY <2>1, <2>2, <2>4 DEF HandleExtended
    <3>2. /\ keysHeld' = keysHeld /\ lastPress' = lastPress /\ nextRepeat' = nextRepeat
          /\ shiftHeld' = shiftHeld /\ capsLock' = capsLock /\ extended' = FALSE /\ out' = {}
      BY <1>1, <3>1 DEF Driver
    <3> QED
      BY <1>1, <3>2, NothingMade DEF DriverTypes
  <2> QED
    BY <2>3, <2>4
<1>5. ASSUME NEW k \in Keys, extended, k[2], b = KeyByte(k[1] + ReleaseMin) PROVE DriverTypes' /\ Rescheduled(KeysOf(out'))
  <2>1. /\ ~b.aux /\ b.data = k[1] + ReleaseMin /\ b.data # ExtendedByte /\ code = k[1]
        /\ ~(k[1] + ReleaseMin < PressMax)
    BY <1>5, CodeFacts DEF KeyByte, PressMax, ReleaseMin
  <2>2. t = HandleExtended(Driver, k[1] + ReleaseMin)
    BY <1>5, <2>1 DEF HandleByte, Driver
  <2>3. \/ t = [Driver EXCEPT !.ext = FALSE, !.held = @ \ {Arrows[k[1]]}]
        \/ t = [Driver EXCEPT !.ext = FALSE]
    BY <2>1, <2>2 DEF HandleExtended
  <2>4. /\ keysHeld' \subseteq keysHeld /\ lastPress' = lastPress /\ nextRepeat' = nextRepeat
        /\ shiftHeld' = shiftHeld /\ capsLock' = capsLock /\ extended' = FALSE /\ out' = {}
    BY <1>1, <2>3 DEF Driver
  <2> QED
    BY <1>1, <2>4, NothingMade DEF DriverTypes
<1>6. ASSUME NEW k \in Keys, ~extended, ~k[2], b = KeyByte(k[1]) PROVE DriverTypes' /\ Rescheduled(KeysOf(out'))
  <2>1. /\ ~b.aux /\ b.data = k[1] /\ b.data # ExtendedByte /\ k[1] < PressMax
        /\ k[1] \in CharCodes \cup OtherCodes \cup ShiftCodes \cup {CapsCode}
    BY <1>6, CodeFacts DEF KeyByte, PressMax
  <2>2. t = HandlePress(Driver, k[1])
    BY <1>6, <2>1 DEF HandleByte, Driver
  <2>3. CASE k[1] \in ShiftCodes \cup {CapsCode}
    <3>1. t = [Driver EXCEPT !.shift = TRUE] \/ t = [Driver EXCEPT !.caps = ~@]
      BY <2>2, <2>3 DEF HandlePress
    <3>2. /\ keysHeld' = keysHeld /\ lastPress' = lastPress /\ nextRepeat' = nextRepeat
          /\ extended' = extended /\ out' = {}
      BY <1>1, <3>1 DEF Driver
    <3>3. /\ shiftHeld' = shiftHeld \/ shiftHeld' = TRUE
          /\ capsLock' = capsLock \/ capsLock' = ~capsLock
      BY <1>1, <3>1 DEF Driver
    <3>4. shiftHeld' \in BOOLEAN /\ capsLock' \in BOOLEAN
      BY <3>3 DEF DriverTypes
    <3> QED
      BY <1>1, <3>2, <3>4, NothingMade DEF DriverTypes
  <2>4. CASE k[1] \notin ShiftCodes \cup {CapsCode}
    <3>1. k[1] \in HeldCodes
      BY <2>1, <2>4 DEF HeldCodes
    <3>2. CASE k[1] \notin keysHeld \/ now - lastPress[k[1]] > RepeatDelay
      <4>1. t = [Driver EXCEPT !.held = @ \cup {k[1]}, !.last[k[1]] = now,
                               !.next[k[1]] = now + RepeatDelay,
                               !.out = @ \cup ResolveChar(Driver, k[1])]
        BY <2>2, <2>4, <3>2 DEF HandlePress, Driver
      <4>2. /\ keysHeld' = keysHeld \cup {k[1]}
            /\ lastPress' = [lastPress EXCEPT ![k[1]] = now]
            /\ nextRepeat' = [nextRepeat EXCEPT ![k[1]] = now + RepeatDelay]
            /\ shiftHeld' = shiftHeld /\ capsLock' = capsLock
            /\ extended' = extended /\ out' = {} \cup ResolveChar(Driver, k[1])
        BY <1>1, <4>1 DEF Driver
      <4>3. KeysOf(out') = {k[1]} \cap CharCodes
        BY <4>2, CharKeys
      <4>4. Rescheduled(KeysOf(out'))
        BY <3>1, <4>2, <4>3 DEF Rescheduled, DriverTypes, NextTimes
      <4>5. lastPress' \in Times /\ nextRepeat' \in NextTimes
        BY <1>2, <4>2 DEF DriverTypes, Times, NextTimes
      <4> QED
        BY <1>1, <3>1, <4>2, <4>4, <4>5 DEF DriverTypes
    <3>3. CASE ~(k[1] \notin keysHeld \/ now - lastPress[k[1]] > RepeatDelay)
      <4>1. t = [Driver EXCEPT !.last[k[1]] = now]
        BY <2>2, <2>4, <3>3 DEF HandlePress, Driver
      <4>2. /\ keysHeld' = keysHeld /\ lastPress' = [lastPress EXCEPT ![k[1]] = now]
            /\ nextRepeat' = nextRepeat /\ shiftHeld' = shiftHeld /\ capsLock' = capsLock
            /\ extended' = extended /\ out' = {}
        BY <1>1, <4>1 DEF Driver
      <4>3. lastPress' \in Times
        BY <1>2, <4>2 DEF DriverTypes, Times
      <4> QED
        BY <1>1, <4>2, <4>3, NothingMade DEF DriverTypes
    <3> QED
      BY <3>2, <3>3
  <2> QED
    BY <2>3, <2>4
<1>7. ASSUME NEW k \in Keys, ~extended, ~k[2], b = KeyByte(k[1] + ReleaseMin) PROVE DriverTypes' /\ Rescheduled(KeysOf(out'))
  <2>1. /\ ~b.aux /\ b.data = k[1] + ReleaseMin /\ b.data # ExtendedByte
        /\ ~(b.data < PressMax) /\ b.data >= ReleaseMin /\ b.data - ReleaseMin = k[1]
    BY <1>7, CodeFacts DEF KeyByte, PressMax, ReleaseMin
  <2>2. t = HandleRelease(Driver, k[1])
    BY <1>7, <2>1 DEF HandleByte, Driver
  <2>3. \/ t = [Driver EXCEPT !.shift = FALSE]
        \/ t = Driver
        \/ t = [Driver EXCEPT !.held = @ \ {k[1]}, !.last[k[1]] = 0]
    BY <2>2 DEF HandleRelease
  <2>4. CASE t = [Driver EXCEPT !.shift = FALSE]
    <3>1. /\ keysHeld' = keysHeld /\ nextRepeat' = nextRepeat /\ capsLock' = capsLock
          /\ extended' = extended /\ out' = {} /\ shiftHeld' = FALSE /\ lastPress' = lastPress
      BY <1>1, <2>4 DEF Driver
    <3> QED
      BY <1>1, <3>1, NothingMade DEF DriverTypes
  <2>5. CASE t = Driver
    <3>1. /\ keysHeld' = keysHeld /\ nextRepeat' = nextRepeat /\ capsLock' = capsLock
          /\ extended' = extended /\ out' = {} /\ shiftHeld' = shiftHeld
          /\ lastPress' = lastPress
      BY <1>1, <2>5 DEF Driver
    <3> QED
      BY <1>1, <3>1, NothingMade DEF DriverTypes
  <2>6. CASE t = [Driver EXCEPT !.held = @ \ {k[1]}, !.last[k[1]] = 0]
    <3>1. /\ keysHeld' = keysHeld \ {k[1]} /\ nextRepeat' = nextRepeat /\ capsLock' = capsLock
          /\ extended' = extended /\ out' = {} /\ shiftHeld' = shiftHeld
          /\ lastPress' = [lastPress EXCEPT ![k[1]] = 0]
      BY <1>1, <2>6 DEF Driver
    <3>2. lastPress' \in Times
      BY <1>2, <3>1 DEF DriverTypes, Times
    <3> QED
      BY <1>1, <3>1, <3>2, NothingMade DEF DriverTypes
  <2> QED
    BY <2>3, <2>4, <2>5, <2>6
<1> QED
  BY <1>3, <1>4, <1>5, <1>6, <1>7 DEF PortByte, DriverTypes

\* A key that is not held makes its character when its press is handled.
LEMMA PressMakes ==
    ASSUME HandleKeyBoardIRQ, NEW c \in CharCodes, port[1] = KeyByte(c), c \notin keysHeld,
           ~extended
    PROVE  c \in KeysOf(out')
<1>1. out' = HandleByte(Driver, KeyByte(c)).out
  BY DEF HandleKeyBoardIRQ, Install
<1>2. c < PressMax /\ c # ExtendedByte
  BY CodesAssumption DEF PressMax, ExtendedByte
<1>3. HandleByte(Driver, KeyByte(c)) = HandlePress(Driver, c)
  BY <1>2 DEF HandleByte, KeyByte, Driver
<1>4. c \notin ShiftCodes /\ c # CapsCode
  BY CodesAssumption
<1>5. HandlePress(Driver, c)
        = [Driver EXCEPT !.held = @ \cup {c}, !.last[c] = now, !.next[c] = now + RepeatDelay,
                         !.out = @ \cup ResolveChar(Driver, c)]
  BY <1>4 DEF HandlePress, Driver
<1>6. out' = {} \cup ResolveChar(Driver, c)
  BY <1>1, <1>3, <1>5 DEF Driver
<1> QED
  BY <1>6, CharKeys

\* The timer repeats what is due and puts it off by REPEAT_RATE.
LEMMA TickEffect ==
    ASSUME Tick
    PROVE  /\ keysHeld' = keysHeld /\ lastPress' = lastPress /\ shiftHeld' = shiftHeld
           /\ capsLock' = capsLock /\ extended' = extended
           /\ nextRepeat' = [c \in HeldCodes |-> IF c \in Due(now + 1) THEN now + 1 + RepeatRate
                                                 ELSE nextRepeat[c]]
           /\ KeysOf(out') = Due(now + 1) \cap CharCodes
<1>1. now' = now + 1
  BY DEF Tick
<1>2. /\ keysHeld' = keysHeld /\ lastPress' = lastPress /\ shiftHeld' = shiftHeld
      /\ capsLock' = capsLock /\ extended' = extended
      /\ nextRepeat' = [c \in HeldCodes |-> IF c \in Due(now') THEN now' + RepeatRate
                                            ELSE nextRepeat[c]]
      /\ out' = UNION {ResolveChar(Driver, c) : c \in Due(now')}
  BY DEF Tick, Install, Driver
<1>3. KeysOf(out') = Due(now') \cap CharCodes
  <2>1. ASSUME NEW k \in KeysOf(out') PROVE k \in Due(now') \cap CharCodes
    <3>1. PICK r \in out' : r.key = k
      BY <2>1 DEF KeysOf
    <3>2. PICK c \in Due(now') : r \in ResolveChar(Driver, c)
      BY <1>2, <3>1
    <3>3. c \in CharCodes /\ r.key = c
      BY <3>2 DEF ResolveChar
    <3> QED
      BY <3>1, <3>2, <3>3
  <2>2. ASSUME NEW k \in Due(now') \cap CharCodes PROVE k \in KeysOf(out')
    <3>1. PICK t : ResolveChar(Driver, k) = {[key |-> k, table |-> t]}
      BY <2>2 DEF ResolveChar
    <3> DEFINE r == [key |-> k, table |-> t]
    <3>2. r \in ResolveChar(Driver, k) /\ r.key = k
      BY <3>1
    <3> HIDE DEF r
    <3>3. r \in out'
      BY <1>2, <2>2, <3>2
    <3> QED
      BY <3>2, <3>3 DEF KeysOf
  <2> QED
    BY <2>1, <2>2
<1> QED
  BY <1>1, <1>2, <1>3

-------------------------------------------------------------------------------
(***************************************************************************)
(* The inductive invariant                                                 *)
(***************************************************************************)

\* The driver's view of the keys once the byte at the port is handled.
Held1 == IF port = << >> THEN keysHeld ELSE HeldAfter(keysHeld, extended, port[1])
Ext1 == IF port = << >> THEN extended ELSE ExtAfter(extended, port[1])
Shift1 == IF port = << >> THEN shiftHeld ELSE ShiftAfter(shiftHeld, extended, port[1])

HeldOf(d) == UNION {HeldAs(k) : k \in d}
ShiftDown(d) == \E c \in ShiftCodes : << c, FALSE >> \in d

\* The bytes of key k that end in c, as far as they are still to come.
Coming(w, ext, k, c) ==
    \/ k[2] /\ ~ext /\ w = << KeyByte(ExtendedByte), KeyByte(c) >>
    \/ (ext <=> k[2]) /\ w = << KeyByte(c) >>

NoneComing(w, d, held, ext, shift) ==
    w = << >> /\ ~ext /\ held = HeldOf(d) /\ (shift => ShiftDown(d))

PressComing(w, d, held, ext, shift, k) ==
    /\ k \in d /\ Coming(w, ext, k, k[1])
    /\ held \cup HeldAs(k) = HeldOf(d) /\ (shift => ShiftDown(d))

ReleaseComing(w, d, held, ext, shift, k) ==
    /\ k \notin d /\ Coming(w, ext, k, k[1] + ReleaseMin)
    /\ held \ HeldAs(k) = HeldOf(d) /\ (shift => k \in ShiftKeys \/ ShiftDown(d))

\* What the bytes on the wire will still add or take away makes the driver's
\* view that of the keyboard.
Agrees(w, d, held, ext, shift) ==
    \/ NoneComing(w, d, held, ext, shift)
    \/ \E k \in Keys : PressComing(w, d, held, ext, shift, k)
    \/ \E k \in Keys : ReleaseComing(w, d, held, ext, shift, k)

\* A press that no character was made of is on the wire or at the port, and the
\* key is not held when it is handled.
Unheard ==
    \A k \in unheard :
        /\ k \in CharCodes
        /\ \/ wire = << KeyByte(k) >> /\ k \notin Held1 /\ ~Ext1
           \/ port = << KeyByte(k) >> /\ k \notin keysHeld /\ ~extended

Gap(by) == IF by = "press" THEN RepeatDelay ELSE RepeatRate

\* The next repetition of a held key is to come, within REPEAT_DELAY and no
\* sooner than its last character allows.
Scheduled ==
    \A k \in keysHeld \cap CharCodes :
        /\ now < nextRepeat[k] /\ nextRepeat[k] <= now + RepeatDelay
        /\ nextRepeat[k] >= made[k][1] + Gap(made[k][2])

AtPort == port = << >> \/ (port = << port[1] >> /\ PortByte(extended, port[1]))

Histories ==
    /\ made \in [CharCodes -> (0 .. MaxTick) \X {"press", "timer"}]
    /\ down \subseteq Keys

IInv ==
    /\ DriverTypes /\ Histories /\ AtPort
    /\ Agrees(wire, down, Held1, Ext1, Shift1)
    /\ Unheard /\ Scheduled

-------------------------------------------------------------------------------
(***************************************************************************)
(* The view of the keys and the bytes to come                              *)
(***************************************************************************)

\* The entries of keys_held for a set of keys, one key more or less.
LEMMA HeldOfFacts ==
    ASSUME NEW d \in SUBSET Keys, NEW k \in Keys
    PROVE  /\ HeldOf(d \cup {k}) = HeldOf(d) \cup HeldAs(k)
           /\ k \notin d => HeldOf(d) \cap HeldAs(k) = {}
           /\ HeldOf(d \ {k}) = HeldOf(d) \ HeldAs(k)
<1>1. HeldOf(d \cup {k}) = HeldOf(d) \cup HeldAs(k)
  BY DEF HeldOf
<1>2. \A j \in d : j # k => HeldAs(j) \cap HeldAs(k) = {}
  BY HeldAsFacts
<1>3. k \notin d => HeldOf(d) \cap HeldAs(k) = {}
  BY <1>2 DEF HeldOf
<1>4. HeldOf(d \ {k}) = HeldOf(d) \ HeldAs(k)
  BY <1>2 DEF HeldOf
<1> QED
  BY <1>1, <1>3, <1>4

\* What the keyboard sends is the bytes that are to come, prefix and all.
LEMMA SentIsComing ==
    ASSUME NEW k \in Keys, NEW ext, ~ext
    PROVE  /\ Coming(Make(k), ext, k, k[1])
           /\ Coming(Break(k), ext, k, k[1] + ReleaseMin)
<1>1. k[2] \in BOOLEAN
  BY CodeFacts
<1>2. CASE k[2]
  <2>1. /\ Make(k) = << KeyByte(ExtendedByte), KeyByte(k[1]) >>
        /\ Break(k) = << KeyByte(ExtendedByte), KeyByte(k[1] + ReleaseMin) >>
    <3>1. ASSUME NEW a, NEW b PROVE << a >> \o << b >> = << a, b >>
      <4> DEFINE S == {a, b}
                 u == << a >> \o << b >>
                 v == << a, b >>
      <4>1. u \in Seq(S) /\ Len(u) = 2 /\ u[1] = a /\ u[2] = b
        OBVIOUS
      <4>2. v \in Seq(S) /\ Len(v) = 2 /\ v[1] = a /\ v[2] = b
        OBVIOUS
      <4> HIDE DEF u, v
      <4>3. Len(u) = Len(v) /\ \A i \in 1 .. Len(u) : u[i] = v[i]
        BY <4>1, <4>2
      <4>4. u = v
        BY <4>1, <4>2, <4>3, SeqEqual
      <4> QED
        BY <4>4 DEF u, v
    <3> QED
      BY <1>2, <3>1 DEF Make, Break
  <2> QED
    BY <1>2, <2>1 DEF Coming
<1>3. CASE ~k[2]
  <2>1. Make(k) = << KeyByte(k[1]) >> /\ Break(k) = << KeyByte(k[1] + ReleaseMin) >>
    BY <1>3 DEF Make, Break
  <2> QED
    BY <1>3, <2>1 DEF Coming
<1> QED
  BY <1>1, <1>2, <1>3

\* While the wire is empty the view is that of the keyboard.
LEMMA WireEmpty ==
    ASSUME NEW d, NEW held, NEW ext, NEW shift, NEW w, Agrees(w, d, held, ext, shift), w = << >>
    PROVE  NoneComing(w, d, held, ext, shift)
<1>1. \A x : << x >> # << >> /\ \A y : << x, y >> # << >>
  OBVIOUS
<1>2. \A k, c : ~Coming(w, ext, k, c)
  BY <1>1 DEF Coming
<1> QED
  BY <1>2 DEF Agrees, PressComing, ReleaseComing

\* A key goes down, or sends its press again.
LEMMA DownAgrees ==
    ASSUME NEW d \in SUBSET Keys, NEW held, NEW ext, NEW shift,
           NoneComing(<< >>, d, held, ext, shift), NEW k \in Keys
    PROVE  Agrees(Make(k), d \cup {k}, held, ext, shift)
<1>1. ~ext /\ held = HeldOf(d) /\ (shift => ShiftDown(d))
  BY DEF NoneComing
<1>2. Coming(Make(k), ext, k, k[1])
  BY <1>1, SentIsComing
<1>3. held \cup HeldAs(k) = HeldOf(d \cup {k})
  BY <1>1, HeldOfFacts
<1>4. shift => ShiftDown(d \cup {k})
  BY <1>1 DEF ShiftDown
<1>5. k \in d \cup {k}
  OBVIOUS
<1>6. PressComing(Make(k), d \cup {k}, held, ext, shift, k)
  BY <1>2, <1>3, <1>4, <1>5 DEF PressComing
<1> QED
  BY <1>6 DEF Agrees

\* A key goes up.
LEMMA UpAgrees ==
    ASSUME NEW d \in SUBSET Keys, NEW held, NEW ext, NEW shift,
           NoneComing(<< >>, d, held, ext, shift), NEW k \in d
    PROVE  Agrees(Break(k), d \ {k}, held, ext, shift)
<1>1. ~ext /\ held = HeldOf(d) /\ (shift => ShiftDown(d)) /\ k \in Keys
  BY DEF NoneComing
<1>2. Coming(Break(k), ext, k, k[1] + ReleaseMin)
  BY <1>1, SentIsComing
<1>3. held \ HeldAs(k) = HeldOf(d \ {k})
  BY <1>1, HeldOfFacts
<1>4. shift => k \in ShiftKeys \/ ShiftDown(d \ {k})
  <2> SUFFICES ASSUME shift PROVE k \in ShiftKeys \/ ShiftDown(d \ {k})
    OBVIOUS
  <2>1. PICK c \in ShiftCodes : << c, FALSE >> \in d
    BY <1>1 DEF ShiftDown
  <2>2. CASE k = << c, FALSE >>
    BY <2>2 DEF ShiftKeys
  <2>3. CASE k # << c, FALSE >>
    BY <2>1, <2>3 DEF ShiftDown
  <2> QED
    BY <2>2, <2>3
<1>5. k \notin d \ {k}
  OBVIOUS
<1>6. ReleaseComing(Break(k), d \ {k}, held, ext, shift, k)
  BY <1>2, <1>3, <1>4, <1>5 DEF ReleaseComing
<1> QED
  BY <1>1, <1>6 DEF Agrees

\* A byte moves from the wire to the port, and what is to come shrinks by what
\* the byte does.
LEMMA ByteAgrees ==
    ASSUME NEW d \in SUBSET Keys, NEW held, NEW ext \in BOOLEAN, NEW shift \in BOOLEAN, NEW w,
           Agrees(w, d, held, ext, shift), w # << >>
    PROVE  /\ Agrees(Tail(w), d, HeldAfter(held, ext, Head(w)), ExtAfter(ext, Head(w)),
                     ShiftAfter(shift, ext, Head(w)))
           /\ PortByte(ext, Head(w))
<1> DEFINE h == HeldAfter(held, ext, Head(w))
           x == ExtAfter(ext, Head(w))
           s == ShiftAfter(shift, ext, Head(w))
<1>1. \A a, b : /\ Head(<< a >>) = a /\ Tail(<< a >>) = << >>
                /\ Head(<< a, b >>) = a /\ Tail(<< a, b >>) = << b >>
  OBVIOUS
<1>2. ASSUME NEW k \in Keys, PressComing(w, d, held, ext, shift, k)
      PROVE  Agrees(Tail(w), d, h, x, s) /\ PortByte(ext, Head(w))
  <2>1. /\ k \in d /\ Coming(w, ext, k, k[1])
        /\ held \cup HeldAs(k) = HeldOf(d) /\ (shift => ShiftDown(d))
    BY <1>2 DEF PressComing
  <2>2. CASE k[2] /\ ~ext /\ w = << KeyByte(ExtendedByte), KeyByte(k[1]) >>
    <3>1. Head(w) = KeyByte(ExtendedByte) /\ Tail(w) = << KeyByte(k[1]) >>
      BY <1>1, <2>2
    <3>2. h = held /\ x = TRUE /\ s = shift
      BY <3>1, PrefixEffect
    <3>3. Coming(Tail(w), x, k, k[1])
      BY <2>2, <3>1, <3>2 DEF Coming
    <3>4. PressComing(Tail(w), d, h, x, s, k)
      BY <2>1, <3>2, <3>3 DEF PressComing
    <3> QED
      BY <3>1, <3>4 DEF Agrees, PortByte
  <2>3. CASE (ext <=> k[2]) /\ w = << KeyByte(k[1]) >>
    <3>1. Head(w) = KeyByte(k[1]) /\ Tail(w) = << >>
      BY <1>1, <2>3
    <3>2. h = held \cup HeldAs(k) /\ x = FALSE /\ (s <=> shift \/ k \in ShiftKeys)
      BY <2>3, <3>1, MakeEffect
    <3>3. k \in ShiftKeys => ShiftDown(d)
      <4>1. k = << k[1], k[2] >> /\ k[2] \in BOOLEAN
        BY CodeFacts
      <4>2. k \in ShiftKeys <=> ~k[2] /\ k[1] \in ShiftCodes
        BY <4>1 DEF ShiftKeys
      <4>3. ~k[2] => k = << k[1], FALSE >>
        BY <4>1
      <4> QED
        BY <2>1, <4>2, <4>3 DEF ShiftDown
    <3>4. NoneComing(Tail(w), d, h, x, s)
      BY <2>1, <3>1, <3>2, <3>3 DEF NoneComing
    <3>5. PortByte(ext, Head(w))
      BY <2>3, <3>1 DEF PortByte
    <3> QED
      BY <3>4, <3>5 DEF Agrees
  <2> QED
    BY <2>1, <2>2, <2>3 DEF Coming
<1>3. ASSUME NEW k \in Keys, ReleaseComing(w, d, held, ext, shift, k)
      PROVE  Agrees(Tail(w), d, h, x, s) /\ PortByte(ext, Head(w))
  <2>1. /\ k \notin d /\ Coming(w, ext, k, k[1] + ReleaseMin)
        /\ held \ HeldAs(k) = HeldOf(d) /\ (shift => k \in ShiftKeys \/ ShiftDown(d))
    BY <1>3 DEF ReleaseComing
  <2>2. CASE k[2] /\ ~ext /\ w = << KeyByte(ExtendedByte), KeyByte(k[1] + ReleaseMin) >>
    <3>1. Head(w) = KeyByte(ExtendedByte) /\ Tail(w) = << KeyByte(k[1] + ReleaseMin) >>
      BY <1>1, <2>2
    <3>2. h = held /\ x = TRUE /\ s = shift
      BY <3>1, PrefixEffect
    <3>3. Coming(Tail(w), x, k, k[1] + ReleaseMin)
      BY <2>2, <3>1, <3>2 DEF Coming
    <3>4. ReleaseComing(Tail(w), d, h, x, s, k)
      BY <2>1, <3>2, <3>3 DEF ReleaseComing
    <3> QED
      BY <3>1, <3>4 DEF Agrees, PortByte
  <2>3. CASE (ext <=> k[2]) /\ w = << KeyByte(k[1] + ReleaseMin) >>
    <3>1. Head(w) = KeyByte(k[1] + ReleaseMin) /\ Tail(w) = << >>
      BY <1>1, <2>3
    <3>2. h = held \ HeldAs(k) /\ x = FALSE /\ (s <=> shift /\ k \notin ShiftKeys)
      BY <2>3, <3>1, BreakEffect
    <3>3. NoneComing(Tail(w), d, h, x, s)
      BY <2>1, <3>1, <3>2 DEF NoneComing
    <3>4. PortByte(ext, Head(w))
      BY <2>3, <3>1 DEF PortByte
    <3> QED
      BY <3>3, <3>4 DEF Agrees
  <2> QED
    BY <2>1, <2>2, <2>3 DEF Coming
<1> QED
  BY <1>2, <1>3 DEF Agrees, NoneComing

-------------------------------------------------------------------------------
(***************************************************************************)
(* Every step keeps the invariant                                          *)
(***************************************************************************)

\* The keyboard's own steps leave the driver and the port alone.
LEMMA KeyboardOnly ==
    ASSUME DriverTypes, AtPort, Scheduled, UNCHANGED <<port, driverVars, now, made>>
    PROVE  /\ DriverTypes' /\ AtPort' /\ Scheduled'
           /\ Held1' = Held1 /\ Ext1' = Ext1 /\ Shift1' = Shift1
           /\ extended' = extended /\ keysHeld' = keysHeld
<1>1. /\ port' = port /\ keysHeld' = keysHeld /\ lastPress' = lastPress
      /\ nextRepeat' = nextRepeat /\ shiftHeld' = shiftHeld /\ capsLock' = capsLock
      /\ extended' = extended /\ now' = now /\ made' = made
  BY DEF driverVars
<1>2. DriverTypes'
  BY <1>1 DEF DriverTypes
<1>3. AtPort'
  BY <1>1 DEF AtPort, PortByte
<1>4. Scheduled'
  BY <1>1 DEF Scheduled
<1>5. Held1' = Held1 /\ Ext1' = Ext1 /\ Shift1' = Shift1
  <2>1. CASE port = << >>
    BY <1>1, <2>1 DEF Held1, Ext1, Shift1
  <2>2. CASE port # << >>
    BY <1>1, <2>2 DEF Held1, Ext1, Shift1, HeldAfter, ExtAfter, ShiftAfter
  <2> QED
    BY <2>1, <2>2
<1> QED
  BY <1>1, <1>2, <1>3, <1>4, <1>5

\* With nothing on the wire, what is unheard is at the port.
LEMMA UnheardAtPort ==
    ASSUME Unheard, wire = << >>, NEW k \in unheard
    PROVE  k \in CharCodes /\ port = << KeyByte(k) >> /\ k \notin keysHeld /\ ~extended
<1>1. \A x : << x >> # << >>
  OBVIOUS
<1> QED
  BY <1>1 DEF Unheard

\* A key goes down.
LEMMA KeyDownKeeps ==
    ASSUME IInv, NEW k \in Keys, KeyDown(k)
    PROVE  IInv'
<1>1. /\ DriverTypes /\ Histories /\ AtPort /\ Unheard /\ Scheduled
      /\ Agrees(wire, down, Held1, Ext1, Shift1)
  BY DEF IInv
<1>2. /\ wire = << >> /\ k \notin down /\ down' = down \cup {k} /\ wire' = Make(k)
      /\ unheard' = unheard \cup (IF k[2] THEN {} ELSE {k[1]} \cap CharCodes)
      /\ UNCHANGED <<port, driverVars, now, made>>
  BY DEF KeyDown
<1>3. /\ DriverTypes' /\ AtPort' /\ Scheduled'
      /\ Held1' = Held1 /\ Ext1' = Ext1 /\ Shift1' = Shift1
      /\ extended' = extended /\ keysHeld' = keysHeld
  BY <1>1, <1>2, KeyboardOnly
<1>4. Histories'
  BY <1>1, <1>2 DEF Histories
<1>5. NoneComing(wire, down, Held1, Ext1, Shift1) /\ down \in SUBSET Keys
  BY <1>1, <1>2, WireEmpty DEF Histories
<1>6. Agrees(wire', down', Held1', Ext1', Shift1')
  BY <1>2, <1>3, <1>5, DownAgrees
<1>7. ASSUME NEW j \in unheard'
      PROVE  /\ j \in CharCodes
             /\ \/ wire' = << KeyByte(j) >> /\ j \notin Held1' /\ ~Ext1'
                \/ port' = << KeyByte(j) >> /\ j \notin keysHeld' /\ ~extended'
  <2>1. CASE j \in unheard
    <3>1. j \in CharCodes /\ port = << KeyByte(j) >> /\ j \notin keysHeld /\ ~extended
      BY <1>1, <1>2, <2>1, UnheardAtPort
    <3>2. port' = port
      BY <1>2
    <3> QED
      BY <1>3, <3>1, <3>2
  <2>2. CASE j \notin unheard
    <3>1. ~k[2] /\ j = k[1] /\ j \in CharCodes
      BY <1>2, <1>7, <2>2
    <3>2. wire' = << KeyByte(j) >>
      BY <1>2, <3>1 DEF Make
    <3>3. HeldAs(k) = {j}
      BY <3>1 DEF HeldAs, HeldCodes
    <3>4. HeldOf(down) \cap HeldAs(k) = {}
      BY <1>2, <1>5, HeldOfFacts
    <3>5. j \notin Held1 /\ ~Ext1
      BY <1>5, <3>3, <3>4 DEF NoneComing
    <3> QED
      BY <1>3, <3>1, <3>2, <3>5
  <2> QED
    BY <2>1, <2>2
<1>8. Unheard'
  BY <1>7 DEF Unheard
<1> QED
  BY <1>3, <1>4, <1>6, <1>8 DEF IInv

\* KeyRepeats sends the press of a key that is down, KeyUp its release.
LEMMA KeySendsKeeps ==
    ASSUME IInv, NEW k \in down, KeyRepeats(k) \/ KeyUp(k)
    PROVE  IInv'
<1>1. /\ DriverTypes /\ Histories /\ AtPort /\ Unheard /\ Scheduled
      /\ Agrees(wire, down, Held1, Ext1, Shift1)
  BY DEF IInv
<1>2. wire = << >> /\ unheard' = unheard /\ UNCHANGED <<port, driverVars, now, made>>
  BY DEF KeyRepeats, KeyUp
<1>3. /\ DriverTypes' /\ AtPort' /\ Scheduled'
      /\ Held1' = Held1 /\ Ext1' = Ext1 /\ Shift1' = Shift1
      /\ extended' = extended /\ keysHeld' = keysHeld
  BY <1>1, <1>2, KeyboardOnly
<1>4. Histories'
  BY <1>1, <1>2 DEF Histories, KeyRepeats, KeyUp
<1>5. NoneComing(wire, down, Held1, Ext1, Shift1) /\ down \in SUBSET Keys /\ k \in Keys
  BY <1>1, <1>2, WireEmpty DEF Histories
<1>6. Agrees(wire', down', Held1', Ext1', Shift1')
  <2>1. CASE KeyRepeats(k)
    <3>1. down' = down \cup {k} /\ wire' = Make(k)
      BY <2>1 DEF KeyRepeats
    <3> QED
      BY <1>2, <1>3, <1>5, <3>1, DownAgrees
  <2>2. CASE KeyUp(k)
    <3>1. down' = down \ {k} /\ wire' = Break(k)
      BY <2>2 DEF KeyUp
    <3> QED
      BY <1>2, <1>3, <1>5, <3>1, UpAgrees
  <2> QED
    BY <2>1, <2>2
<1>7. Unheard'
  <2>1. ASSUME NEW j \in unheard
        PROVE  j \in CharCodes /\ port' = << KeyByte(j) >> /\ j \notin keysHeld' /\ ~extended'
    <3>1. j \in CharCodes /\ port = << KeyByte(j) >> /\ j \notin keysHeld /\ ~extended
      BY <1>1, <1>2, UnheardAtPort
    <3>2. port' = port
      BY <1>2
    <3> QED
      BY <1>3, <3>1, <3>2
  <2> QED
    BY <1>2, <2>1 DEF Unheard
<1> QED
  BY <1>3, <1>4, <1>6, <1>7 DEF IInv

\* A byte moves to the port.
LEMMA ArriveKeeps ==
    ASSUME IInv, Arrive
    PROVE  IInv'
<1>1. /\ DriverTypes /\ Histories /\ AtPort /\ Unheard /\ Scheduled
      /\ Agrees(wire, down, Held1, Ext1, Shift1)
  BY DEF IInv
<1>2. /\ wire # << >> /\ port = << >> /\ port' = << Head(wire) >> /\ wire' = Tail(wire)
      /\ down' = down /\ now' = now /\ made' = made /\ unheard' = unheard
      /\ keysHeld' = keysHeld /\ lastPress' = lastPress /\ nextRepeat' = nextRepeat
      /\ shiftHeld' = shiftHeld /\ capsLock' = capsLock /\ extended' = extended
  BY DEF Arrive, driverVars
<1>3. /\ Held1 = keysHeld /\ Ext1 = extended /\ Shift1 = shiftHeld
  BY <1>2 DEF Held1, Ext1, Shift1
<1>4. port'[1] = Head(wire) /\ port' # << >>
  BY <1>2
<1>5. /\ Held1' = HeldAfter(keysHeld, extended, Head(wire))
      /\ Ext1' = ExtAfter(extended, Head(wire))
      /\ Shift1' = ShiftAfter(shiftHeld, extended, Head(wire))
  BY <1>2, <1>4 DEF Held1, Ext1, Shift1
<1>6. extended \in BOOLEAN /\ shiftHeld \in BOOLEAN /\ down \in SUBSET Keys
  BY <1>1 DEF DriverTypes, Histories
<1>7. Agrees(wire', down', Held1', Ext1', Shift1') /\ PortByte(extended, Head(wire))
  BY <1>1, <1>2, <1>3, <1>5, <1>6, ByteAgrees
<1>8. AtPort'
  <2>1. PortByte(extended', port'[1])
    BY <1>2, <1>4, <1>7
  <2>2. port' = << port'[1] >>
    BY <1>2, <1>4
  <2> QED
    BY <2>1, <2>2 DEF AtPort
<1>9. DriverTypes' /\ Histories' /\ Scheduled'
  BY <1>1, <1>2 DEF DriverTypes, Histories, Scheduled
<1>10. Unheard'
  <2>1. ASSUME NEW j \in unheard
        PROVE  j \in CharCodes /\ port' = << KeyByte(j) >> /\ j \notin keysHeld' /\ ~extended'
    <3>1. j \in CharCodes /\ wire = << KeyByte(j) >> /\ j \notin Held1 /\ ~Ext1
      BY <1>1, <1>2 DEF Unheard
    <3>2. Head(wire) = KeyByte(j)
      BY <3>1
    <3> QED
      BY <1>2, <1>3, <3>1, <3>2
  <2> QED
    BY <1>2, <2>1 DEF Unheard
<1> QED
  BY <1>7, <1>8, <1>9, <1>10 DEF IInv

\* The mouse sends a byte.
LEMMA MouseKeeps ==
    ASSUME IInv, NEW m \in MouseBytes, MouseMoves(m)
    PROVE  IInv'
<1>1. /\ DriverTypes /\ Histories /\ AtPort /\ Unheard /\ Scheduled
      /\ Agrees(wire, down, Held1, Ext1, Shift1)
  BY DEF IInv
<1>2. /\ port = << >> /\ port' = << MouseByte(m) >> /\ wire' = wire
      /\ down' = down /\ now' = now /\ made' = made /\ unheard' = unheard
      /\ keysHeld' = keysHeld /\ lastPress' = lastPress /\ nextRepeat' = nextRepeat
      /\ shiftHeld' = shiftHeld /\ capsLock' = capsLock /\ extended' = extended
  BY DEF MouseMoves, driverVars
<1>3. /\ Held1 = keysHeld /\ Ext1 = extended /\ Shift1 = shiftHeld
  BY <1>2 DEF Held1, Ext1, Shift1
<1>4. port'[1] = MouseByte(m) /\ port' # << >>
  BY <1>2
<1>5. Held1' = Held1 /\ Ext1' = Ext1 /\ Shift1' = Shift1
  <2>1. /\ Held1' = HeldAfter(keysHeld, extended, MouseByte(m))
        /\ Ext1' = ExtAfter(extended, MouseByte(m))
        /\ Shift1' = ShiftAfter(shiftHeld, extended, MouseByte(m))
    BY <1>2, <1>4 DEF Held1, Ext1, Shift1
  <2> QED
    BY <1>3, <2>1, MouseEffect
<1>6. AtPort'
  <2>1. PortByte(extended', port'[1])
    BY <1>4 DEF PortByte
  <2>2. port' = << port'[1] >>
    BY <1>2, <1>4
  <2> QED
    BY <2>1, <2>2 DEF AtPort
<1>7. DriverTypes' /\ Histories' /\ Scheduled'
  BY <1>1, <1>2 DEF DriverTypes, Histories, Scheduled
<1>8. Unheard'
  <2>1. ASSUME NEW j \in unheard
        PROVE  j \in CharCodes /\ wire' = << KeyByte(j) >> /\ j \notin Held1' /\ ~Ext1'
    BY <1>1, <1>2, <1>5 DEF Unheard
  <2> QED
    BY <1>2, <2>1 DEF Unheard
<1>9. Agrees(wire', down', Held1', Ext1', Shift1')
  BY <1>1, <1>2, <1>5
<1> QED
  BY <1>6, <1>7, <1>8, <1>9 DEF IInv

\* What the handler and the timer record.
LEMMA Recorded ==
    ASSUME NEW by \in {"press", "timer"}, Record(by), Histories, down' = down,
           now' \in 0 .. MaxTick
    PROVE  /\ Histories' /\ unheard' = unheard \ KeysOf(out')
           /\ \A k \in CharCodes : made'[k] = IF k \in KeysOf(out') THEN << now', by >> ELSE made[k]
  BY DEF Record, Histories

\* The handler takes a byte from the port.
LEMMA HandlerKeeps ==
    ASSUME IInv, HandleKeyBoardIRQ
    PROVE  IInv'
<1>1. /\ DriverTypes /\ Histories /\ AtPort /\ Unheard /\ Scheduled
      /\ Agrees(wire, down, Held1, Ext1, Shift1)
  BY DEF IInv
<1>2. /\ port # << >> /\ port' = << >> /\ down' = down /\ wire' = wire /\ now' = now
      /\ Record("press")
  BY DEF HandleKeyBoardIRQ
<1> DEFINE b == port[1]
<1>3. port = << b >> /\ PortByte(extended, b)
  BY <1>1, <1>2 DEF AtPort
<1>4. DriverTypes' /\ Rescheduled(KeysOf(out'))
  BY <1>1, <1>3, ByteRepeats
<1>5. b.aux \in BOOLEAN
  <2>1. (\A n : KeyByte(n).aux \in BOOLEAN) /\ (\A n : MouseByte(n).aux \in BOOLEAN)
    BY DEF KeyByte, MouseByte
  <2> HIDE DEF b
  <2> QED
    BY <1>3, <2>1, Zenon DEF PortByte
<1>6. extended \in BOOLEAN /\ shiftHeld \in BOOLEAN
  BY <1>1 DEF DriverTypes
<1>7. /\ keysHeld' = HeldAfter(keysHeld, extended, b)
      /\ extended' = ExtAfter(extended, b)
      /\ shiftHeld' = ShiftAfter(shiftHeld, extended, b)
  BY <1>5, <1>6, ByteEffect
<1>8. Held1' = Held1 /\ Ext1' = Ext1 /\ Shift1' = Shift1
  <2>1. Held1' = keysHeld' /\ Ext1' = extended' /\ Shift1' = shiftHeld'
    BY <1>2 DEF Held1, Ext1, Shift1
  <2>2. /\ Held1 = HeldAfter(keysHeld, extended, b) /\ Ext1 = ExtAfter(extended, b)
        /\ Shift1 = ShiftAfter(shiftHeld, extended, b)
    BY <1>2 DEF Held1, Ext1, Shift1
  <2> QED
    BY <1>7, <2>1, <2>2
<1>9. Agrees(wire', down', Held1', Ext1', Shift1')
  BY <1>1, <1>2, <1>8
<1>10. /\ Histories' /\ unheard' = unheard \ KeysOf(out')
       /\ \A k \in CharCodes : made'[k] = IF k \in KeysOf(out') THEN << now', "press" >>
                                          ELSE made[k]
  <2>1. now' \in 0 .. MaxTick
    BY <1>4 DEF DriverTypes
  <2> QED
    BY <1>1, <1>2, <2>1, Recorded
<1>11. AtPort'
  BY <1>2 DEF AtPort
<1>12. Unheard'
  <2>1. ASSUME NEW k \in unheard'
        PROVE  k \in CharCodes /\ wire' = << KeyByte(k) >> /\ k \notin Held1' /\ ~Ext1'
    <3>1. k \in unheard /\ k \notin KeysOf(out') /\ k \in CharCodes
      BY <1>1, <1>10, <2>1 DEF Unheard
    <3>2. ~(port = << KeyByte(k) >> /\ k \notin keysHeld /\ ~extended)
      <4> SUFFICES ASSUME port = << KeyByte(k) >>, k \notin keysHeld, ~extended PROVE FALSE
        OBVIOUS
      <4>1. port[1] = KeyByte(k)
        OBVIOUS
      <4> QED
        BY <3>1, <4>1, PressMakes
    <3>3. wire = << KeyByte(k) >> /\ k \notin Held1 /\ ~Ext1
      BY <1>1, <3>1, <3>2 DEF Unheard
    <3> QED
      BY <1>2, <1>8, <3>1, <3>3
  <2> QED
    BY <2>1 DEF Unheard
<1>13. ASSUME NEW k \in keysHeld' \cap CharCodes
       PROVE  /\ now' < nextRepeat'[k] /\ nextRepeat'[k] <= now' + RepeatDelay
              /\ nextRepeat'[k] >= made'[k][1] + Gap(made'[k][2])
  <2>1. now \in Nat /\ RepeatDelay \in Nat /\ RepeatDelay > 0
    BY <1>1, TimesAssumption DEF DriverTypes
  <2>2. CASE k \in KeysOf(out')
    <3>1. nextRepeat'[k] = now + RepeatDelay /\ made'[k] = << now, "press" >>
      BY <1>2, <1>4, <1>10, <2>2 DEF Rescheduled
    <3>2. made'[k][1] = now /\ Gap(made'[k][2]) = RepeatDelay
      BY <3>1 DEF Gap
    <3> QED
      BY <1>2, <2>1, <3>1, <3>2
  <2>3. CASE k \notin KeysOf(out')
    <3>1. nextRepeat'[k] = nextRepeat[k] /\ k \in keysHeld /\ made'[k] = made[k]
      BY <1>4, <1>10, <2>3 DEF Rescheduled
    <3> QED
      BY <1>1, <1>2, <3>1 DEF Scheduled
  <2> QED
    BY <2>2, <2>3
<1>14. Scheduled'
  BY <1>13 DEF Scheduled
<1> QED
  BY <1>4, <1>9, <1>10, <1>11, <1>12, <1>14 DEF IInv

\* The timer's step.
LEMMA TickKeeps ==
    ASSUME IInv, Tick
    PROVE  IInv'
<1>1. /\ DriverTypes /\ Histories /\ AtPort /\ Unheard /\ Scheduled
      /\ Agrees(wire, down, Held1, Ext1, Shift1)
  BY DEF IInv
<1>2. /\ now < MaxTick /\ now' = now + 1 /\ port' = port /\ down' = down /\ wire' = wire
      /\ Record("timer")
  BY DEF Tick
<1>3. /\ keysHeld' = keysHeld /\ lastPress' = lastPress /\ shiftHeld' = shiftHeld
      /\ capsLock' = capsLock /\ extended' = extended
      /\ nextRepeat' = [c \in HeldCodes |-> IF c \in Due(now + 1) THEN now + 1 + RepeatRate
                                            ELSE nextRepeat[c]]
      /\ KeysOf(out') = Due(now + 1) \cap CharCodes
  BY TickEffect
<1>4. /\ RepeatDelay \in Nat /\ RepeatRate \in Nat /\ RepeatRate > 0 /\ RepeatRate <= RepeatDelay
      /\ MaxTick \in Nat /\ now \in Nat
      /\ now + 1 \in 0 .. MaxTick
      /\ now + 1 + RepeatRate \in 0 .. (MaxTick + RepeatDelay + RepeatRate)
  BY <1>1, <1>2, TimesAssumption DEF DriverTypes
<1>5. DriverTypes'
  <2>1. nextRepeat' \in NextTimes
    BY <1>1, <1>3, <1>4 DEF DriverTypes, NextTimes
  <2> QED
    BY <1>1, <1>2, <1>3, <1>4, <2>1 DEF DriverTypes
<1>6. /\ Histories' /\ unheard' = unheard \ KeysOf(out')
      /\ \A k \in CharCodes : made'[k] = IF k \in KeysOf(out') THEN << now', "timer" >>
                                         ELSE made[k]
  <2>1. now' \in 0 .. MaxTick
    BY <1>2, <1>4
  <2> QED
    BY <1>1, <1>2, <2>1, Recorded
<1>7. AtPort'
  BY <1>1, <1>2, <1>3 DEF AtPort, PortByte
<1>8. Held1' = Held1 /\ Ext1' = Ext1 /\ Shift1' = Shift1
  <2>1. CASE port = << >>
    BY <1>2, <1>3, <2>1 DEF Held1, Ext1, Shift1
  <2>2. CASE port # << >>
    BY <1>2, <1>3, <2>2 DEF Held1, Ext1, Shift1, HeldAfter, ExtAfter, ShiftAfter
  <2> QED
    BY <2>1, <2>2
<1>9. Agrees(wire', down', Held1', Ext1', Shift1')
  BY <1>1, <1>2, <1>8
<1>10. Unheard'
  BY <1>1, <1>2, <1>3, <1>6, <1>8 DEF Unheard
<1>11. ASSUME NEW k \in keysHeld' \cap CharCodes
       PROVE  /\ now' < nextRepeat'[k] /\ nextRepeat'[k] <= now' + RepeatDelay
              /\ nextRepeat'[k] >= made'[k][1] + Gap(made'[k][2])
  <2>1. /\ now < nextRepeat[k] /\ nextRepeat[k] <= now + RepeatDelay
        /\ nextRepeat[k] >= made[k][1] + Gap(made[k][2])
        /\ k \in HeldCodes /\ nextRepeat[k] \in Nat /\ k \in keysHeld /\ k \in CharCodes
    BY <1>1, <1>3 DEF Scheduled, DriverTypes, NextTimes
  <2>2. CASE k \in Due(now + 1)
    <3>1. nextRepeat'[k] = now + 1 + RepeatRate /\ made'[k] = << now + 1, "timer" >>
      BY <1>2, <1>3, <1>6, <2>1, <2>2
    <3>2. made'[k][1] = now + 1 /\ Gap(made'[k][2]) = RepeatRate
      BY <3>1 DEF Gap
    <3> QED
      BY <1>2, <1>4, <3>1, <3>2
  <2>3. CASE k \notin Due(now + 1)
    <3>1. nextRepeat'[k] = nextRepeat[k] /\ made'[k] = made[k]
      BY <1>3, <1>6, <2>1, <2>3
    <3>2. now + 1 < nextRepeat[k]
      BY <1>4, <2>1, <2>3 DEF Due
    <3> QED
      BY <1>2, <1>4, <2>1, <3>1, <3>2
  <2> QED
    BY <2>2, <2>3
<1>12. Scheduled'
  BY <1>11 DEF Scheduled
<1> QED
  BY <1>5, <1>6, <1>7, <1>9, <1>10, <1>12 DEF IInv

LEMMA InitHolds == Init => IInv
<1> SUFFICES ASSUME Init PROVE IInv
  OBVIOUS
<1>1. DriverTypes
  <2>1. /\ 0 \in 0 .. MaxTick /\ 0 \in 0 .. (MaxTick + RepeatDelay + RepeatRate)
    BY TimesAssumption
  <2>2. lastPress \in Times /\ nextRepeat \in NextTimes
    BY <2>1 DEF Init, Times, NextTimes
  <2>3. /\ keysHeld \subseteq HeldCodes /\ now \in 0 .. MaxTick
        /\ shiftHeld \in BOOLEAN /\ capsLock \in BOOLEAN /\ extended \in BOOLEAN
    BY <2>1 DEF Init
  <2> QED
    BY <2>2, <2>3 DEF DriverTypes
<1>2. Histories
  BY TimesAssumption DEF Init, Histories
<1>3. NoneComing(wire, down, Held1, Ext1, Shift1)
  BY DEF Init, NoneComing, Held1, Ext1, Shift1, HeldOf
<1>4. AtPort /\ Unheard /\ Scheduled
  BY DEF Init, AtPort, Unheard, Scheduled
<1> QED
  BY <1>1, <1>2, <1>3, <1>4 DEF IInv, Agrees

LEMMA StepKeeps == IInv /\ [Next]_vars => IInv'
<1> SUFFICES ASSUME IInv, [Next]_vars PROVE IInv'
  OBVIOUS
<1>1. CASE \E k \in Keys : KeyDown(k)
  BY <1>1, KeyDownKeeps
<1>2. CASE \E k \in down : KeyRepeats(k) \/ KeyUp(k)
  BY <1>2, KeySendsKeeps
<1>3. CASE Arrive
  BY <1>3, ArriveKeeps
<1>4. CASE \E m \in MouseBytes : MouseMoves(m)
  BY <1>4, MouseKeeps
<1>5. CASE HandleKeyBoardIRQ
  BY <1>5, HandlerKeeps
<1>6. CASE Tick
  BY <1>6, TickKeeps
<1>7. CASE UNCHANGED vars
  <2>1. UNCHANGED <<port, driverVars, now, made>> /\ wire' = wire /\ down' = down /\ unheard' = unheard
    BY <1>7 DEF vars
  <2>2. DriverTypes /\ AtPort /\ Scheduled
    BY DEF IInv
  <2>3. /\ DriverTypes' /\ AtPort' /\ Scheduled'
        /\ Held1' = Held1 /\ Ext1' = Ext1 /\ Shift1' = Shift1
        /\ extended' = extended /\ keysHeld' = keysHeld
    BY <2>1, <2>2, KeyboardOnly
  <2>4. port' = port /\ made' = made
    BY <2>1
  <2> QED
    BY <2>1, <2>3, <2>4 DEF IInv, Histories, Unheard
<1> QED
  BY <1>1, <1>2, <1>3, <1>4, <1>5, <1>6, <1>7 DEF Next

\* The invariant holds throughout.
LEMMA Invariance == Spec => []IInv
<1>1. Init => IInv
  BY InitHolds
<1>2. IInv /\ [Next]_vars => IInv'
  BY StepKeeps
<1> QED
  BY <1>1, <1>2, PTL DEF Spec

-------------------------------------------------------------------------------
(***************************************************************************)
(* Theorems                                                                *)
(***************************************************************************)

\* The wire is a sequence of at most two bytes.
LEMMA WireIsShort ==
    ASSUME NEW w, NEW d, NEW held, NEW ext, NEW shift, Agrees(w, d, held, ext, shift)
    PROVE  w = << >> \/ (\E a : w = << a >>) \/ (\E a, b : w = << a, b >>)
  BY Zenon DEF Agrees, NoneComing, PressComing, ReleaseComing, Coming

LEMMA WireIsSequence ==
    ASSUME NEW w, NEW d, NEW held, NEW ext, NEW shift, Agrees(w, d, held, ext, shift)
    PROVE  \E S : w \in Seq(S)
<1>1. w = << >> \/ (\E a : w = << a >>) \/ (\E a, b : w = << a, b >>)
  BY WireIsShort
<1>2. << >> \in Seq({})
  OBVIOUS
<1>3. ASSUME NEW a, w = << a >> PROVE w \in Seq({a})
  BY <1>3
<1>4. ASSUME NEW a, NEW b, w = << a, b >> PROVE w \in Seq({a, b})
  BY <1>4
<1> QED
  BY <1>1, <1>2, <1>3, <1>4, Zenon

\* TypeOK of Keyboard: the decoder never indexes past its tables, whatever the
\* keys do: every code it marks as held is one that the tables have, and every
\* time it stores lies within REPEAT_DELAY and REPEAT_RATE of the clock's.
THEOREM TypeCorrect == Spec => []TypeOK
<1>1. ASSUME IInv PROVE TypeOK
  <2>0. \A a, b : Len(<< >>) = 0 /\ Len(<< a >>) = 1 /\ Len(<< a, b >>) = 2
    OBVIOUS
  <2>1. Len(wire) <= 2
    <3>1. wire = << >> \/ (\E a : wire = << a >>) \/ (\E a, b : wire = << a, b >>)
      BY <1>1, WireIsShort DEF IInv
    <3>2. Len(wire) = 0 \/ Len(wire) = 1 \/ Len(wire) = 2
      BY <2>0, <3>1, Zenon
    <3> DEFINE n == Len(wire)
    <3>3. n = 0 \/ n = 1 \/ n = 2
      BY <3>2
    <3> HIDE DEF n
    <3>4. n <= 2
      BY <3>3
    <3> QED
      BY <3>4 DEF n
  <2>2. Len(port) <= 1
    <3>1. port = << >> \/ \E b : port = << b >>
      BY <1>1 DEF IInv, AtPort
    <3>2. Len(port) = 0 \/ Len(port) = 1
      BY <2>0, <3>1, Zenon
    <3> DEFINE n == Len(port)
    <3>3. n = 0 \/ n = 1
      BY <3>2
    <3> HIDE DEF n
    <3>4. n <= 1
      BY <3>3
    <3> QED
      BY <3>4 DEF n
  <2>3. unheard \subseteq CharCodes
    BY <1>1 DEF IInv, Unheard
  <2> QED
    BY <1>1, <2>1, <2>2, <2>3 DEF IInv, DriverTypes, Histories, Times, NextTimes, TypeOK
<1> QED
  BY <1>1, Invariance, PTL

\* HeldMatchesKeys of Keyboard: whatever prefixes, mouse bytes, repetitions and
\* releases HandleKeyBoardIRQ has decoded, once nothing is on its way its
\* keys_held is what is down and `extended' waits for nothing.
THEOREM HeldAgrees == Spec => []HeldMatchesKeys
<1>1. ASSUME IInv PROVE HeldMatchesKeys
  <2> SUFFICES ASSUME Quiet
               PROVE  /\ keysHeld = UNION {HeldAs(k) : k \in down} /\ ~extended
                      /\ shiftHeld => \E c \in ShiftCodes : << c, FALSE >> \in down
    BY DEF HeldMatchesKeys
  <2>1. wire = << >> /\ port = << >>
    BY DEF Quiet
  <2>2. Held1 = keysHeld /\ Ext1 = extended /\ Shift1 = shiftHeld
    BY <2>1 DEF Held1, Ext1, Shift1
  <2>3. NoneComing(wire, down, Held1, Ext1, Shift1)
    BY <1>1, <2>1, WireEmpty DEF IInv
  <2> QED
    BY <2>2, <2>3 DEF NoneComing, HeldOf, ShiftDown
<1> QED
  BY <1>1, Invariance, PTL

\* PressesAreHeard of Keyboard: the test of keys_held and last_press_time that
\* swallows the keyboard's own repetitions never swallows a press.
THEOREM PressesHeard == Spec => []PressesAreHeard
<1>1. ASSUME IInv PROVE PressesAreHeard
  <2>1. \A x : << x >> # << >>
    OBVIOUS
  <2> QED
    BY <1>1, <2>1 DEF IInv, Unheard, PressesAreHeard, Quiet
<1> QED
  BY <1>1, Invariance, PTL

\* RepeatsAreScheduled of Keyboard: HandleKeyBoardIRQ and KeyBoardTick never
\* leave a held key with a repeat time that has passed, or one further off than
\* REPEAT_DELAY.
THEOREM RepeatsScheduled == Spec => []RepeatsAreScheduled
<1>1. IInv => RepeatsAreScheduled
  BY DEF IInv, Scheduled, RepeatsAreScheduled
<1> QED
  BY <1>1, Invariance, PTL

\* RepeatsArePaced of Keyboard: between the press and the first repetition
\* KeyBoardTick lets REPEAT_DELAY pass, between two repetitions REPEAT_RATE.
THEOREM RepeatsPaced == Spec => RepeatsArePaced
<1>1. ASSUME IInv, Tick, NEW k \in KeysOf(out')
      PROVE  now' - made[k][1] >= (IF made[k][2] = "press" THEN RepeatDelay ELSE RepeatRate)
  <2>1. now' = now + 1 /\ now \in Nat
    BY <1>1 DEF Tick, IInv, DriverTypes
  <2>2. k \in Due(now + 1) /\ k \in CharCodes
    BY <1>1, TickEffect
  <2>3. k \in keysHeld /\ now + 1 >= nextRepeat[k]
    BY <2>2 DEF Due
  <2>4. nextRepeat[k] >= made[k][1] + Gap(made[k][2])
    BY <1>1, <2>2, <2>3 DEF IInv, Scheduled
  <2>5. made[k][1] \in Nat
    BY <1>1, <2>2 DEF IInv, Histories
  <2>6. nextRepeat[k] \in Nat
    BY <1>1, <2>3, TimesAssumption DEF IInv, DriverTypes, NextTimes
  <2>7. Gap(made[k][2]) \in Nat
    BY TimesAssumption DEF Gap
  <2>8. now' - made[k][1] >= Gap(made[k][2])
    BY <2>1, <2>3, <2>4, <2>5, <2>6, <2>7
  <2> QED
    BY <2>8 DEF Gap
<1>2. IInv /\ [Next]_vars =>
        [Tick => \A k \in KeysOf(out') :
           now' - made[k][1] >= (IF made[k][2] = "press" THEN RepeatDelay ELSE RepeatRate)]_vars
  BY <1>1
<1> QED
  BY <1>2, Invariance, PTL DEF Spec, RepeatsArePaced

\* A byte at the port or on the wire is on its way.
LEMMA InShort ==
    \A x, y : x \in ToSet(<< x >>) /\ x \in ToSet(<< y, x >>)
<1> TAKE x, y
<1>1. 1 \in DOMAIN << x >> /\ << x >>[1] = x
  OBVIOUS
<1>2. 2 \in DOMAIN << y, x >> /\ << y, x >>[2] = x
  OBVIOUS
<1> QED
  BY <1>1, <1>2 DEF ToSet

LEMMA OnItsWay ==
    ASSUME NEW S, NEW T, NEW s \in Seq(S), NEW t \in Seq(T), NEW x
    PROVE  x \in ToSet(s) \/ x \in ToSet(t) => x \in ToSet(s \o t)
<1>0. s \in Seq(S \cup T) /\ t \in Seq(S \cup T)
  OBVIOUS
<1>1. s \o t \in Seq(S \cup T) /\ Len(s \o t) = Len(s) + Len(t)
  BY <1>0
<1>2. ASSUME NEW i \in DOMAIN s, x = s[i] PROVE x \in ToSet(s \o t)
  <2>1. i \in DOMAIN (s \o t) /\ (s \o t)[i] = x
    BY <1>0, <1>1, <1>2
  <2> QED
    BY <2>1 DEF ToSet
<1>3. ASSUME NEW i \in DOMAIN t, x = t[i] PROVE x \in ToSet(s \o t)
  <2>1. Len(s) + i \in DOMAIN (s \o t) /\ (s \o t)[Len(s) + i] = x
    BY <1>0, <1>1, <1>3
  <2> QED
    BY <2>1 DEF ToSet
<1> QED
  BY <1>2, <1>3 DEF ToSet

\* The key that a character's entry of keys_held stands for.
LEMMA TypedKey ==
    ASSUME NEW k \in CharCodes
    PROVE  /\ << k, FALSE >> \in Keys /\ HeldAs(<< k, FALSE >>) = {k}
           /\ \A j \in Keys : k \in HeldAs(j) => j = << k, FALSE >>
<1>1. << k, FALSE >> \in Keys
  BY DEF Keys
<1>2. HeldAs(<< k, FALSE >>) = {k}
  BY DEF HeldAs, HeldCodes
<1>3. ASSUME NEW j \in Keys, k \in HeldAs(j) PROVE j = << k, FALSE >>
  BY <1>1, <1>2, <1>3, HeldAsFacts
<1> QED
  BY <1>1, <1>2, <1>3

\* Only the byte of its release makes the driver let a key go.
LEMMA LetGo ==
    ASSUME NEW k \in CharCodes, NEW held, NEW ext \in BOOLEAN, NEW b, PortByte(ext, b),
           k \in held, k \notin HeldAfter(held, ext, b)
    PROVE  b = KeyByte(k + ReleaseMin)
<1>1. CASE \E m \in MouseBytes : b = MouseByte(m)
  BY <1>1, MouseEffect
<1>2. CASE b = KeyByte(ExtendedByte)
  BY <1>2, PrefixEffect
<1>3. ASSUME NEW j \in Keys, ext <=> j[2], b = KeyByte(j[1])
      PROVE  FALSE
  <2>1. HeldAfter(held, ext, b) = held \cup HeldAs(j)
    BY <1>3, MakeEffect
  <2> QED
    BY <2>1
<1>4. ASSUME NEW j \in Keys, ext <=> j[2], b = KeyByte(j[1] + ReleaseMin)
      PROVE  b = KeyByte(k + ReleaseMin)
  <2>1. HeldAfter(held, ext, b) = held \ HeldAs(j)
    BY <1>4, BreakEffect
  <2>2. k \in HeldAs(j)
    BY <2>1
  <2>3. j = << k, FALSE >>
    BY <2>2, TypedKey
  <2>4. j[1] = k
    BY <2>3
  <2> QED
    BY <1>4, <2>4
<1> QED
  BY <1>1, <1>2, <1>3, <1>4 DEF PortByte

\* A key in the view is down, or its release is on the wire.
LEMMA HeldFrom ==
    ASSUME NEW w, NEW d \in SUBSET Keys, NEW held, NEW ext, NEW shift,
           Agrees(w, d, held, ext, shift), NEW k \in CharCodes, k \in held
    PROVE  << k, FALSE >> \in d \/ w = << KeyByte(k + ReleaseMin) >>
           \/ w = << KeyByte(ExtendedByte), KeyByte(k + ReleaseMin) >>
<1>1. k \in HeldOf(d) => << k, FALSE >> \in d
  <2> SUFFICES ASSUME k \in HeldOf(d) PROVE << k, FALSE >> \in d
    OBVIOUS
  <2>1. PICK j \in d : k \in HeldAs(j)
    BY DEF HeldOf
  <2>2. j = << k, FALSE >>
    BY <2>1, TypedKey
  <2> QED
    BY <2>2
<1>2. CASE NoneComing(w, d, held, ext, shift)
  BY <1>1, <1>2 DEF NoneComing
<1>3. ASSUME NEW j \in Keys, PressComing(w, d, held, ext, shift, j) PROVE << k, FALSE >> \in d
  BY <1>1, <1>3 DEF PressComing
<1>4. ASSUME NEW j \in Keys, ReleaseComing(w, d, held, ext, shift, j), << k, FALSE >> \notin d
      PROVE  \/ w = << KeyByte(k + ReleaseMin) >>
             \/ w = << KeyByte(ExtendedByte), KeyByte(k + ReleaseMin) >>
  <2>1. k \in HeldAs(j) /\ Coming(w, ext, j, j[1] + ReleaseMin)
    BY <1>1, <1>4 DEF ReleaseComing
  <2>2. j = << k, FALSE >>
    BY <2>1, TypedKey
  <2>3. j[1] = k
    BY <2>2
  <2> QED
    BY <2>1, <2>3 DEF Coming
<1> QED
  BY <1>2, <1>3, <1>4, Zenon DEF Agrees

\* NoPhantomRepeats of Keyboard: what KeyBoardTick repeats is down, or its
\* release has not been handled: no release is lost on the driver.
THEOREM RepeatsAreReal == Spec => NoPhantomRepeats
<1>1. ASSUME IInv, Tick, NEW k \in KeysOf(out')
      PROVE  << k, FALSE >> \in down \/ KeyByte(k + ReleaseMin) \in ToSet(port \o wire)
  <2> DEFINE r == KeyByte(k + ReleaseMin)
  <2>1. /\ DriverTypes /\ AtPort /\ down \in SUBSET Keys
        /\ Agrees(wire, down, Held1, Ext1, Shift1)
    BY <1>1 DEF IInv, Histories
  <2>2. k \in Due(now + 1) /\ k \in CharCodes
    BY <1>1, TickEffect
  <2>3. k \in keysHeld
    BY <2>2 DEF Due
  <2> HIDE DEF r
  <2>4. r \in ToSet(port) \/ r \in ToSet(wire) => r \in ToSet(port \o wire)
    <3>1. PICK S : wire \in Seq(S)
      BY <2>1, WireIsSequence
    <3>2. PICK T : port \in Seq(T)
      <4>1. port = << >> \/ port = << port[1] >>
        BY <2>1 DEF AtPort
      <4>2. << >> \in Seq({}) /\ \A a : << a >> \in Seq({a})
        OBVIOUS
      <4> QED
        BY <4>1, <4>2, Zenon
    <3> QED
      BY <3>1, <3>2, OnItsWay
  <2>5. CASE k \in Held1
    <3>1. << k, FALSE >> \in down \/ wire = << r >> \/ wire = << KeyByte(ExtendedByte), r >>
      BY <2>1, <2>2, <2>5, HeldFrom DEF r
    <3>2. \A y : r \in ToSet(<< r >>) /\ r \in ToSet(<< y, r >>)
      BY InShort
    <3>3. << k, FALSE >> \in down \/ r \in ToSet(wire)
      BY <3>1, <3>2
    <3> QED
      BY <2>4, <3>3 DEF r
  <2>6. CASE k \notin Held1
    <3>1. /\ port # << >> /\ port = << port[1] >> /\ PortByte(extended, port[1])
          /\ k \notin HeldAfter(keysHeld, extended, port[1])
      BY <2>1, <2>3, <2>6 DEF Held1, AtPort
    <3>2. extended \in BOOLEAN
      BY <2>1 DEF DriverTypes
    <3>3. port[1] = r
      BY <2>2, <2>3, <3>1, <3>2, LetGo DEF r
    <3>4. port = << r >>
      BY <3>1, <3>3
    <3>5. r \in ToSet(port)
      BY <3>4, InShort
    <3> QED
      BY <2>4, <3>5 DEF r
  <2> QED
    BY <2>5, <2>6
<1>2. IInv /\ [Next]_vars =>
        [Tick => \A k \in KeysOf(out') :
           \/ << k, FALSE >> \in down
           \/ KeyByte(k + ReleaseMin) \in ToSet(port \o wire)]_vars
  BY <1>1
<1> QED
  BY <1>2, Invariance, PTL DEF Spec, NoPhantomRepeats

===============================================================================
