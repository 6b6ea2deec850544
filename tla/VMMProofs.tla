------------------------------- MODULE VMMProofs -------------------------------
(***************************************************************************)
(* For every memory map, layout and caller whose memory suffices for the   *)
(* bootloader and whose bootloader uses no huge page in two sizes: the     *)
(* types of VMM, that the page tables form a tree in frames of their own,  *)
(* that map and unmap change what they are asked to, that neither the      *)
(* processor nor a caller sees a page that is gone, and that the kernel    *)
(* moves from physical addresses to the high half.                         *)
(***************************************************************************)
EXTENDS VMM, FiniteSetTheorems, SequenceTheorems, WellFoundedInduction, TLAPS

-------------------------------------------------------------------------------
(***************************************************************************)
(* Naturals, sequences and divisions                                       *)
(***************************************************************************)

\* A non-empty set of naturals has a least element.
LEMMA LeastNatural ==
    ASSUME NEW S \in SUBSET Nat, S # {}
    PROVE  \E x \in S : \A y \in S : x <= y
<1> DEFINE R == {ss \in Nat \X Nat : ss[1] < ss[2]}
<1>1. IsWellFoundedOn(R, Nat)
  BY NatLessThanWellFounded DEF OpToRel
<1>2. PICK x \in S : \A y \in S : << y, x >> \notin R
  <2> HIDE DEF R
  <2> QED
    BY <1>1, WFMin
<1>3. ASSUME NEW y \in S, y < x PROVE FALSE
  <2>1. << y, x >> \in Nat \X Nat /\ << y, x >>[1] = y /\ << y, x >>[2] = x
    OBVIOUS
  <2>2. << y, x >> \in R
    BY <1>3, <2>1
  <2> HIDE DEF R
  <2> QED
    BY <1>2, <2>2
<1> QED
  BY <1>3

\* A set of naturals with 0 and the successor of each of its members is all of them.
LEMMA SetInduction ==
    ASSUME NEW S, 0 \in S, \A n \in Nat : n \in S => n + 1 \in S
    PROVE  Nat \subseteq S
<1> SUFFICES ASSUME Nat \ S # {} PROVE FALSE
  OBVIOUS
<1>1. PICK x \in Nat \ S : \A y \in Nat \ S : x <= y
  BY LeastNatural
<1>2. x # 0 /\ x - 1 \in Nat /\ x - 1 < x
  OBVIOUS
<1>3. x - 1 \in S
  BY <1>1, <1>2
<1>4. (x - 1) + 1 \in S
  BY <1>2, <1>3
<1> QED
  BY <1>1, <1>4

\* A concatenation holds what both parts hold.
LEMMA ConcatHolds ==
    ASSUME NEW T, NEW a \in Seq(T), NEW b \in Seq(T)
    PROVE  a \o b \in Seq(T) /\ Range(a \o b) = Range(a) \cup Range(b)
<1>1. /\ a \o b \in Seq(T) /\ DOMAIN (a \o b) = 1 .. Len(a) + Len(b)
      /\ DOMAIN a = 1 .. Len(a) /\ DOMAIN b = 1 .. Len(b) /\ Len(a) \in Nat /\ Len(b) \in Nat
      /\ \A i \in 1 .. Len(a) + Len(b) :
           (a \o b)[i] = IF i <= Len(a) THEN a[i] ELSE b[i - Len(a)]
  BY ConcatProperties
<1>2. ASSUME NEW y \in Range(a) PROVE y \in Range(a \o b)
  BY <1>1 DEF Range
<1>3. ASSUME NEW y \in Range(b) PROVE y \in Range(a \o b)
  <2>1. PICK i \in 1 .. Len(b) : b[i] = y
    BY <1>1 DEF Range
  <2>2. Len(a) + i \in 1 .. Len(a) + Len(b) /\ ~(Len(a) + i <= Len(a)) /\ (Len(a) + i) - Len(a) = i
    BY <1>1
  <2>3. (a \o b)[Len(a) + i] = y
    BY <1>1, <2>1, <2>2
  <2> QED
    BY <1>1, <2>2, <2>3 DEF Range
<1>4. ASSUME NEW y \in Range(a \o b) PROVE y \in Range(a) \cup Range(b)
  <2>1. PICK i \in 1 .. Len(a) + Len(b) : (a \o b)[i] = y
    BY <1>1 DEF Range
  <2>2. CASE i <= Len(a)
    BY <1>1, <2>1, <2>2 DEF Range
  <2>3. CASE ~(i <= Len(a))
    <3>1. i - Len(a) \in 1 .. Len(b)
      BY <1>1, <2>3
    <3> QED
      BY <1>1, <2>1, <2>3, <3>1 DEF Range
  <2> QED
    BY <2>2, <2>3
<1> QED
  BY <1>1, <1>2, <1>3, <1>4

LEMMA ConcatFour ==
    ASSUME NEW T, NEW a \in Seq(T), NEW b \in Seq(T), NEW c \in Seq(T), NEW d \in Seq(T)
    PROVE  /\ a \o b \o c \o d \in Seq(T)
           /\ Range(a \o b \o c \o d) = Range(a) \cup Range(b) \cup Range(c) \cup Range(d)
<1> DEFINE x == a \o b
           y == x \o c
           z == y \o d
<1>1. x \in Seq(T) /\ Range(x) = Range(a) \cup Range(b)
  BY ConcatHolds
<1> HIDE DEF x
<1>2. y \in Seq(T) /\ Range(y) = Range(x) \cup Range(c)
  BY <1>1, ConcatHolds
<1> HIDE DEF y
<1>3. z \in Seq(T) /\ Range(z) = Range(y) \cup Range(d)
  BY <1>2, ConcatHolds
<1> QED
  BY <1>1, <1>2, <1>3 DEF x, y

\* f lists, at each place of s, the concatenation of s as far as that.
Partials(f, s, n) ==
    \A i \in 1 .. n : f[i] = IF i = 1 THEN s[i] ELSE f[i - 1] \o s[i]

\* There are such concatenations, whatever s is.
LEMMA PartialsExist ==
    ASSUME NEW T, NEW s \in Seq(Seq(T))
    PROVE  \E f \in [1 .. Len(s) -> Seq(T)] : Partials(f, s, Len(s))
<1> DEFINE L == Len(s)
           S == {n \in Nat : n <= L => \E f \in [1 .. n -> Seq(T)] : Partials(f, s, n)}
<1>1. L \in Nat /\ \A i \in 1 .. L : s[i] \in Seq(T)
  OBVIOUS
<1>2. 0 \in S
  <2>1. [i \in 1 .. 0 |-> << >>] \in [1 .. 0 -> Seq(T)]
    OBVIOUS
  <2>2. Partials([i \in 1 .. 0 |-> << >>], s, 0)
    BY DEF Partials
  <2> QED
    BY <2>1, <2>2
<1>3. ASSUME NEW n \in Nat, n \in S PROVE n + 1 \in S
  <2> SUFFICES ASSUME n + 1 <= L PROVE \E f \in [1 .. n + 1 -> Seq(T)] : Partials(f, s, n + 1)
    OBVIOUS
  <2>1. PICK g \in [1 .. n -> Seq(T)] : Partials(g, s, n)
    BY <1>1, <1>3
  <2> DEFINE z == IF n = 0 THEN s[1] ELSE g[n] \o s[n + 1]
             f == [i \in 1 .. n + 1 |-> IF i = n + 1 THEN z ELSE g[i]]
  <2>2. z \in Seq(T)
    <3>1. s[n + 1] \in Seq(T)
      BY <1>1
    <3>2. n # 0 => g[n] \in Seq(T)
      BY <2>1
    <3> QED
      BY <3>1, <3>2, ConcatProperties
  <2>3. f \in [1 .. n + 1 -> Seq(T)]
    <3> HIDE DEF z
    <3>1. \A i \in 1 .. n + 1 : i # n + 1 => i \in 1 .. n
      OBVIOUS
    <3> QED
      BY <2>2, <3>1
  <2>4. \A i \in 1 .. n + 1 : f[i] = IF i = 1 THEN s[i] ELSE f[i - 1] \o s[i]
    <3> SUFFICES ASSUME NEW i \in 1 .. n + 1 PROVE f[i] = IF i = 1 THEN s[i] ELSE f[i - 1] \o s[i]
      OBVIOUS
    <3>1. CASE i = n + 1
      <4>1. f[i] = z
        BY <3>1
      <4>2. n # 0 => f[i - 1] = g[n] /\ i # 1
        BY <3>1
      <4>3. n = 0 => i = 1
        BY <3>1
      <4> QED
        BY <3>1, <4>1, <4>2, <4>3
    <3>2. CASE i # n + 1
      <4>1. i \in 1 .. n /\ f[i] = g[i] /\ (i # 1 => f[i - 1] = g[i - 1])
        BY <3>2
      <4> HIDE DEF f, z
      <4> QED
        BY <2>1, <4>1 DEF Partials
    <3> QED
      BY <3>1, <3>2
  <2> HIDE DEF f, z
  <2> QED
    BY <2>3, <2>4 DEF Partials
<1>4. L \in S
  <2> HIDE DEF S, L
  <2> QED
    BY <1>1, <1>2, <1>3, SetInduction
<1> QED
  BY <1>1, <1>4

\* The concatenation of a sequence of sequences holds what they hold.
LEMMA FlattenSeqHolds ==
    ASSUME NEW T, NEW s \in Seq(Seq(T))
    PROVE  /\ FlattenSeq(s) \in Seq(T)
           /\ Range(FlattenSeq(s)) = UNION {Range(s[i]) : i \in DOMAIN s}
<1> DEFINE L == Len(s)
<1>1. L \in Nat /\ DOMAIN s = 1 .. L /\ \A i \in 1 .. L : s[i] \in Seq(T)
  OBVIOUS
<1>2. CASE L = 0
  <2>1. FlattenSeq(s) = s /\ s = << >>
    BY <1>2 DEF FlattenSeq
  <2>2. Range(s) = {} /\ DOMAIN s = {}
    BY <1>1, <1>2, <2>1 DEF Range
  <2> QED
    BY <2>1, <2>2
<1>3. CASE L # 0
  <2> DEFINE Is(f) == f = [i \in 1 .. L |-> IF i = 1 THEN s[i] ELSE f[i - 1] \o s[i]]
             g == CHOOSE f : Is(f)
  <2>1. FlattenSeq(s) = g[L]
    BY <1>3 DEF FlattenSeq
  <2>2. \E f : Is(f)
    <3>1. PICK f \in [1 .. L -> Seq(T)] : Partials(f, s, L)
      BY PartialsExist
    <3>2. Is(f)
      BY <3>1 DEF Partials
    <3> QED
      BY <3>2
  <2>3. Is(g)
    BY <2>2
  <2> HIDE DEF g
  <2>4. \A i \in 1 .. L : g[i] = IF i = 1 THEN s[i] ELSE g[i - 1] \o s[i]
    BY <2>3
  <2> DEFINE Holds(n) == g[n] \in Seq(T) /\ Range(g[n]) = UNION {Range(s[i]) : i \in 1 .. n}
             S == {n \in Nat : n + 1 <= L => Holds(n + 1)}
  <2>5. 0 \in S
    <3>1. g[1] = s[1] /\ s[1] \in Seq(T)
      BY <1>1, <1>3, <2>4
    <3>2. 1 .. 1 = {1}
      OBVIOUS
    <3>3. Holds(1)
      BY <3>1, <3>2
    <3> QED
      BY <3>3
  <2>6. ASSUME NEW n \in Nat, n \in S PROVE n + 1 \in S
    <3> SUFFICES ASSUME (n + 1) + 1 <= L PROVE Holds((n + 1) + 1)
      OBVIOUS
    <3> DEFINE k == n + 1
    <3>1. k \in 1 .. L /\ k + 1 \in 1 .. L /\ k + 1 # 1 /\ (k + 1) - 1 = k
      BY <1>1
    <3>2. Holds(k)
      BY <1>1, <2>6, <3>1
    <3>3. g[k + 1] = g[k] \o s[k + 1] /\ s[k + 1] \in Seq(T)
      BY <1>1, <2>4, <3>1
    <3>4. 1 .. k + 1 = (1 .. k) \cup {k + 1}
      OBVIOUS
    <3> HIDE DEF k
    <3>5. g[k + 1] \in Seq(T) /\ Range(g[k + 1]) = Range(g[k]) \cup Range(s[k + 1])
      <4> DEFINE a == g[k]
                 b == s[k + 1]
      <4>1. a \in Seq(T) /\ b \in Seq(T) /\ g[k + 1] = a \o b
        BY <3>2, <3>3
      <4> HIDE DEF a, b
      <4>2. a \o b \in Seq(T) /\ Range(a \o b) = Range(a) \cup Range(b)
        BY <4>1, ConcatHolds
      <4> QED
        BY <4>1, <4>2 DEF a, b
    <3>6. UNION {Range(s[i]) : i \in 1 .. k + 1} = (UNION {Range(s[i]) : i \in 1 .. k}) \cup Range(s[k + 1])
      BY <3>4
    <3>7. Holds(k + 1)
      BY <3>2, <3>5, <3>6
    <3> QED
      BY <3>7 DEF k
  <2> HIDE DEF S
  <2>7. L - 1 \in S
    <3>1. L - 1 \in Nat
      BY <1>1, <1>3
    <3> QED
      BY <2>5, <2>6, <3>1, SetInduction
  <2>8. Holds(L)
    BY <1>1, <1>3, <2>7 DEF S
  <2> QED
    BY <1>1, <2>1, <2>8
<1> QED
  BY <1>2, <1>3

\* The quotient and the remainder of a division are the only ones.
LEMMA DivisionIs ==
    ASSUME NEW b \in Nat \ {0}, NEW a \in Nat
    PROVE  a \div b \in Nat /\ a % b \in Nat /\ a % b < b /\ a = b * (a \div b) + (a % b)
<1>1. a \div b \in Int /\ a % b \in 0 .. b - 1 /\ a = b * (a \div b) + (a % b)
  OBVIOUS
<1>2. a \div b \in Nat
  OBVIOUS
<1> QED
  BY <1>1, <1>2

LEMMA DivisionUnique ==
    ASSUME NEW b \in Nat \ {0}, NEW q \in Nat, NEW k \in Nat, k < b
    PROVE  (b * q + k) \div b = q /\ (b * q + k) % b = k
<1> DEFINE a == b * q + k
           x == a \div b
           y == a % b
<1>1. b * q \in Nat /\ a \in Nat
  OBVIOUS
<1>2. x \in Nat /\ y \in Nat /\ y < b /\ a = b * x + y
  BY <1>1, DivisionIs
<1> HIDE DEF x, y
<1>3. b * x + y = b * q + k
  BY <1>2
<1>4. ASSUME x < q PROVE FALSE
  <2>1. q - x - 1 \in Nat
    BY <1>2, <1>4
  <2>2. b * (q - x - 1) \in Nat
    BY <2>1
  <2>3. b * (q - x - 1) = b * q - b * x - b
    BY <1>2
  <2> QED
    BY <1>1, <1>2, <1>3, <2>2, <2>3
<1>5. ASSUME x > q PROVE FALSE
  <2>1. x - q - 1 \in Nat
    BY <1>2, <1>5
  <2>2. b * (x - q - 1) \in Nat
    BY <2>1
  <2>3. b * (x - q - 1) = b * x - b * q - b
    BY <1>2
  <2> QED
    BY <1>1, <1>2, <1>3, <2>2, <2>3
<1>6. x = q
  BY <1>2, <1>4, <1>5
<1>7. y = k
  BY <1>2, <1>3, <1>6
<1> QED
  BY <1>6, <1>7 DEF x, y

LEMMA DivisionMonotonic ==
    ASSUME NEW b \in Nat \ {0}, NEW x \in Nat, NEW y \in Nat, x <= y
    PROVE  x \div b <= y \div b
<1>1. /\ x \div b \in Nat /\ x % b \in Nat /\ x % b < b /\ x = b * (x \div b) + (x % b)
      /\ y \div b \in Nat /\ y % b \in Nat /\ y % b < b /\ y = b * (y \div b) + (y % b)
  BY DivisionIs
<1> DEFINE p == x \div b
           q == y \div b
<1> SUFFICES ASSUME p > q PROVE FALSE
  BY <1>1
<1>2. p - q - 1 \in Nat
  BY <1>1
<1>3. b * (p - q - 1) \in Nat
  BY <1>2
<1> HIDE DEF p, q
<1>4. p \in Nat /\ q \in Nat /\ x = b * p + (x % b) /\ y = b * q + (y % b) /\ x % b \in Nat /\ y % b < b /\ y % b \in Nat
  BY <1>1 DEF p, q
<1>5. b * (p - q - 1) = b * p - b * q - b
  BY <1>4
<1>6. b * p \in Nat /\ b * q \in Nat
  BY <1>4
<1>7. p > q
  BY DEF p, q
<1> DEFINE bp == b * p
           bq == b * q
           g == b * (p - q - 1)
<1>8. g \in Nat /\ bp \in Nat /\ bq \in Nat /\ x = bp + (x % b) /\ y = bq + (y % b) /\ g = bp - bq - b
  BY <1>3, <1>4, <1>5, <1>6
<1> HIDE DEF bp, bq, g
<1> QED
  BY <1>4, <1>8

\* One more divisor is one more in the quotient.
LEMMA DivisionNext ==
    ASSUME NEW b \in Nat \ {0}, NEW x \in Nat
    PROVE  (x + b) \div b = x \div b + 1
<1> DEFINE q == x \div b
           k == x % b
<1>1. q \in Nat /\ k \in Nat /\ k < b /\ x = b * q + k
  BY DivisionIs
<1> HIDE DEF q, k
<1>2. x + b = b * (q + 1) + k
  BY <1>1
<1>3. (b * (q + 1) + k) \div b = q + 1
  BY <1>1, DivisionUnique
<1> QED
  BY <1>1, <1>2, <1>3 DEF q

\* A number is known by its quotients and remainders with two divisors.
LEMMA DivisionTwice ==
    ASSUME NEW a \in Nat \ {0}, NEW b \in Nat \ {0}, NEW x \in Nat
    PROVE  x \div (a * b) = (x \div a) \div b
<1> DEFINE q == x \div a
           k == x % a
           s == q \div b
           t == q % b
<1>1. q \in Nat /\ k \in Nat /\ k < a /\ x = a * q + k
  BY DivisionIs
<1>2. s \in Nat /\ t \in Nat /\ t < b /\ q = b * s + t
  BY <1>1, DivisionIs
<1> HIDE DEF q, k, s, t
<1>3. a * b \in Nat \ {0} /\ b * s \in Nat /\ a * t \in Nat
  BY <1>1, <1>2
<1>4. x = (a * b) * s + (a * t + k)
  <2>1. a * (b * s + t) = (a * b) * s + a * t
    BY <1>2
  <2> QED
    BY <1>1, <1>2, <1>3, <2>1
<1>5. a * t + k \in Nat /\ a * t + k < a * b
  <2>1. b - t - 1 \in Nat
    BY <1>2
  <2>2. a * (b - t - 1) \in Nat
    BY <2>1
  <2>3. a * (b - t - 1) = a * b - a * t - a
    BY <1>2
  <2> QED
    BY <1>1, <1>3, <2>2, <2>3
<1>6. ((a * b) * s + (a * t + k)) \div (a * b) = s
  <2> DEFINE c == a * b
             d == a * t + k
  <2> HIDE DEF c, d
  <2> QED
    BY <1>2, <1>3, <1>5, DivisionUnique DEF c, d
<1> QED
  BY <1>4, <1>6 DEF q, s

-------------------------------------------------------------------------------
(***************************************************************************)
(* Trees of page tables                                                    *)
(***************************************************************************)

IsMemory(p) ==
    /\ DOMAIN p \subseteq Frames \X Nat
    /\ \A w \in DOMAIN p : p[w] \in Entries

\* d gives the tables below root r their level, 0 to 3, and every other frame 4;
\* tables sit in frames of U, and no two entries lead to the same one.
Tree(p, r, U, d) ==
    /\ d \in [Frames -> 0 .. 4]
    /\ r \in Frames
    /\ \A x \in Frames : d[x] = 0 <=> x = r
    /\ \A x \in Frames : d[x] < 4 => x \in U
    /\ \A w \in DOMAIN p : d[w[1]] < 2 => ~p[w].huge
    /\ \A w \in DOMAIN p : d[w[1]] < 3 /\ ~p[w].huge => d[p[w].phys] = d[w[1]] + 1
    /\ \A a, b \in DOMAIN p :
         d[a[1]] < 3 /\ d[b[1]] < 3 /\ ~p[a].huge /\ ~p[b].huge /\ p[a].phys = p[b].phys => a = b

\* The tables on the way to a page, and whether it is in a huge page.
First(p, r, v) == Down(p, r, v[1])
Third(p, r, v) == Down(p, Directory(p, r, v), v[3])
HugeAt(p, r, v) == IsHuge(p, Directory(p, r, v), v[3])

\* A word of a frame leads to a frame, and a missing one nowhere.
LEMMA DownFacts ==
    ASSUME NEW p, IsMemory(p), NEW x \in Frames \cup {None}, NEW j \in Nat
    PROVE  /\ Down(p, x, j) \in Frames \cup {None}
           /\ Present(p, x, j) <=> Down(p, x, j) # None
           /\ x = None => Down(p, x, j) = None
           /\ IsHuge(p, x, j) \in BOOLEAN
           /\ IsHuge(p, x, j) => Down(p, x, j) # None /\ HugeFits(Down(p, x, j))
<1> DEFINE w == << x, j >>
<1>1. None \notin Frames
  BY LayoutAssumption DEF None, Frames
<1>2. w \in DOMAIN p => x \in Frames /\ p[w] \in Entries
  BY DEF IsMemory
<1>3. w \in DOMAIN p => p[w].phys \in Frames /\ p[w].huge \in BOOLEAN /\ (p[w].huge => HugeFits(p[w].phys))
  BY <1>2 DEF Entries
<1> QED
  BY <1>1, <1>2, <1>3 DEF Down, Present, IsHuge

\* The words of a tree by level.
LEMMA TreeDown ==
    ASSUME NEW p, NEW r, NEW U, NEW d, IsMemory(p), Tree(p, r, U, d),
           NEW x \in Frames, NEW j \in Nat, Down(p, x, j) # None
    PROVE  /\ d[x] < 2 => ~IsHuge(p, x, j)
           /\ d[x] < 3 /\ ~IsHuge(p, x, j) => d[Down(p, x, j)] = d[x] + 1
<1> DEFINE w == << x, j >>
<1>1. w \in DOMAIN p /\ Down(p, x, j) = p[w].phys /\ (IsHuge(p, x, j) <=> p[w].huge)
  BY DEF Down, Present, IsHuge, None
<1>2. w[1] = x
  OBVIOUS
<1> QED
  BY <1>1, <1>2 DEF Tree

LEMMA TreeUnique ==
    ASSUME NEW p, NEW r, NEW U, NEW d, IsMemory(p), Tree(p, r, U, d),
           NEW x \in Frames, NEW j \in Nat, Down(p, x, j) # None, d[x] < 3, ~IsHuge(p, x, j),
           NEW y \in Frames, NEW k \in Nat, d[y] < 3, ~IsHuge(p, y, k),
           Down(p, x, j) = Down(p, y, k)
    PROVE  x = y /\ j = k
<1> DEFINE a == << x, j >>
           b == << y, k >>
<1>1. /\ a \in DOMAIN p /\ Down(p, x, j) = p[a].phys /\ ~p[a].huge
      /\ b \in DOMAIN p /\ Down(p, y, k) = p[b].phys /\ ~p[b].huge
  BY DEF Down, Present, IsHuge, None
<1>2. a[1] = x /\ b[1] = y
  OBVIOUS
<1>3. a = b
  BY <1>1, <1>2 DEF Tree
<1> QED
  BY <1>3

\* The indices of a page are numbers.
LEMMA VirtualFacts ==
    ASSUME NEW v \in Virtual
    PROVE  /\ v[1] \in Nat /\ v[2] \in Nat /\ v[3] \in Nat
           /\ v[4] \in Nat /\ v[4] \in 0 .. HugeFrames - 1
           /\ v = << v[1], v[2], v[3], v[4] >>
<1>1. HugeFrames \in Nat
  BY GeometryAssumption
<1> QED
  BY <1>1 DEF Virtual

\* The walk to a page goes down the levels.
LEMMA WalkFacts ==
    ASSUME NEW p, NEW r, NEW U, NEW d, IsMemory(p), Tree(p, r, U, d), NEW v \in Virtual
    PROVE  /\ First(p, r, v) \in Frames \cup {None}
           /\ First(p, r, v) # None => d[First(p, r, v)] = 1
           /\ Directory(p, r, v) \in Frames \cup {None}
           /\ Directory(p, r, v) # None => d[Directory(p, r, v)] = 2 /\ First(p, r, v) # None
           /\ Third(p, r, v) \in Frames \cup {None}
           /\ Third(p, r, v) # None => Directory(p, r, v) # None
           /\ Third(p, r, v) # None /\ ~HugeAt(p, r, v) => d[Third(p, r, v)] = 3
           /\ HugeAt(p, r, v) => Third(p, r, v) # None /\ HugeFits(Third(p, r, v))
<1>0. v[1] \in Nat /\ v[2] \in Nat /\ v[3] \in Nat
  BY VirtualFacts
<1>1. r \in Frames /\ d[r] = 0
  BY DEF Tree
<1> DEFINE x == First(p, r, v)
           y == Directory(p, r, v)
           z == Third(p, r, v)
<1>2. x \in Frames \cup {None} /\ (x # None => d[x] = 1)
  BY <1>0, <1>1, DownFacts, TreeDown DEF First
<1>3. y = Down(p, x, v[2])
  BY DEF Directory, First
<1>4. y \in Frames \cup {None} /\ (y # None => x # None /\ d[y] = 2)
  <2>1. y \in Frames \cup {None} /\ (y # None => x # None)
    BY <1>0, <1>2, <1>3, DownFacts
  <2>2. ASSUME y # None PROVE d[y] = 2
    <3>1. x \in Frames /\ d[x] = 1
      BY <1>2, <2>1, <2>2
    <3> QED
      BY <1>0, <1>3, <2>2, <3>1, TreeDown
  <2> QED
    BY <2>1, <2>2
<1>5. z = Down(p, y, v[3]) /\ (HugeAt(p, r, v) <=> IsHuge(p, y, v[3]))
  BY DEF Third, HugeAt
<1>6. /\ z \in Frames \cup {None}
      /\ z # None => y # None
      /\ HugeAt(p, r, v) => z # None /\ HugeFits(z)
  BY <1>0, <1>4, <1>5, DownFacts
<1>7. ASSUME z # None, ~HugeAt(p, r, v) PROVE d[z] = 3
  <2>1. y \in Frames /\ d[y] = 2
    BY <1>4, <1>6, <1>7
  <2> QED
    BY <1>0, <1>5, <1>7, <2>1, TreeDown
<1> QED
  BY <1>2, <1>4, <1>6, <1>7

\* Two pages share a table only where their indices agree that far.
LEMMA WalkUnique ==
    ASSUME NEW p, NEW r, NEW U, NEW d, IsMemory(p), Tree(p, r, U, d),
           NEW u \in Virtual, NEW v \in Virtual
    PROVE  /\ First(p, r, u) = First(p, r, v) /\ First(p, r, v) # None => u[1] = v[1]
           /\ Directory(p, r, u) = Directory(p, r, v) /\ Directory(p, r, v) # None =>
                u[1] = v[1] /\ u[2] = v[2]
           /\ Third(p, r, u) = Third(p, r, v) /\ Third(p, r, v) # None
                /\ ~HugeAt(p, r, u) /\ ~HugeAt(p, r, v) =>
                u[1] = v[1] /\ u[2] = v[2] /\ u[3] = v[3]
<1>0. /\ u[1] \in Nat /\ u[2] \in Nat /\ u[3] \in Nat
      /\ v[1] \in Nat /\ v[2] \in Nat /\ v[3] \in Nat
  BY VirtualFacts
<1>1. r \in Frames /\ d[r] = 0
  BY DEF Tree
<1>2. ASSUME First(p, r, u) = First(p, r, v), First(p, r, v) # None
      PROVE  u[1] = v[1]
  <2>1. ~IsHuge(p, r, u[1]) /\ ~IsHuge(p, r, v[1])
    BY <1>0, <1>1, <1>2, TreeDown DEF First
  <2> QED
    BY <1>0, <1>1, <1>2, <2>1, TreeUnique DEF First
<1>3. ASSUME Directory(p, r, u) = Directory(p, r, v), Directory(p, r, v) # None
      PROVE  u[1] = v[1] /\ u[2] = v[2]
  <2> DEFINE x == First(p, r, u)
             y == First(p, r, v)
  <2>1. x \in Frames /\ d[x] = 1 /\ y \in Frames /\ d[y] = 1
    BY <1>3, WalkFacts
  <2>2. Down(p, x, u[2]) = Down(p, y, v[2]) /\ Down(p, x, u[2]) # None /\ Down(p, y, v[2]) # None
    BY <1>3 DEF Directory, First
  <2>3. ~IsHuge(p, x, u[2]) /\ ~IsHuge(p, y, v[2])
    BY <1>0, <2>1, <2>2, TreeDown
  <2>4. x = y /\ u[2] = v[2]
    BY <1>0, <2>1, <2>2, <2>3, TreeUnique
  <2> QED
    BY <1>2, <2>1, <2>4 DEF None, Frames
<1>4. ASSUME Third(p, r, u) = Third(p, r, v), Third(p, r, v) # None,
             ~HugeAt(p, r, u), ~HugeAt(p, r, v)
      PROVE  u[1] = v[1] /\ u[2] = v[2] /\ u[3] = v[3]
  <2> DEFINE x == Directory(p, r, u)
             y == Directory(p, r, v)
  <2>1. x \in Frames /\ d[x] = 2 /\ y \in Frames /\ d[y] = 2
    BY <1>4, WalkFacts
  <2>2. Down(p, x, u[3]) = Down(p, y, v[3]) /\ Down(p, x, u[3]) # None
        /\ ~IsHuge(p, x, u[3]) /\ ~IsHuge(p, y, v[3])
    BY <1>4 DEF Third, HugeAt
  <2>3. x = y /\ u[3] = v[3]
    BY <1>0, <2>1, <2>2, TreeUnique
  <2>4. x # None
    BY <2>1, LayoutAssumption DEF None, Frames
  <2> QED
    BY <1>3, <2>3, <2>4
<1> QED
  BY <1>2, <1>3, <1>4

-------------------------------------------------------------------------------
(***************************************************************************)
(* Words set and cleared                                                   *)
(***************************************************************************)

\* From p to q entry i of table t has become k, huge or not, and no other.
Changed(p, q, t, i, k, huge) ==
    /\ \A x, j : Down(q, x, j) = IF x = t /\ j = i THEN k ELSE Down(p, x, j)
    /\ \A x, j : IsHuge(q, x, j) <=> IF x = t /\ j = i THEN huge ELSE IsHuge(p, x, j)

\* SetEntry changes one word.
LEMMA SetWord ==
    ASSUME NEW p, IsMemory(p), NEW t \in Frames, NEW i \in Nat, NEW e \in Entries,
           NEW q, q = SetEntry(p, t, i, e)
    PROVE  /\ IsMemory(q)
           /\ DOMAIN q = DOMAIN p \cup {<< t, i >>}
           /\ q[<< t, i >>] = e
           /\ \A w \in DOMAIN p : w # << t, i >> => q[w] = p[w]
           /\ Changed(p, q, t, i, e.phys, e.huge)
<1>1. DOMAIN q = DOMAIN p \cup {<< t, i >>}
  BY DEF SetEntry
<1>2. q[<< t, i >>] = e /\ \A w \in DOMAIN p : w # << t, i >> => q[w] = p[w]
  BY DEF SetEntry
<1>3. << t, i >> \in Frames \X Nat
  OBVIOUS
<1>4. IsMemory(q)
  BY <1>1, <1>2, <1>3 DEF IsMemory
<1>5. e.huge \in BOOLEAN
  BY DEF Entries
<1>6. \A x, j : << x, j >> = << t, i >> <=> x = t /\ j = i
  OBVIOUS
<1>7. ASSUME NEW x, NEW j
      PROVE  /\ Down(q, x, j) = IF x = t /\ j = i THEN e.phys ELSE Down(p, x, j)
             /\ IsHuge(q, x, j) <=> IF x = t /\ j = i THEN e.huge ELSE IsHuge(p, x, j)
  BY <1>1, <1>2, <1>5, <1>6 DEF Down, Present, IsHuge
<1> QED
  BY <1>1, <1>2, <1>4, <1>7 DEF Changed

\* Clearing a table leaves the words of the others.
LEMMA ClearWords ==
    ASSUME NEW p, IsMemory(p), NEW t, NEW q, q = ClearTable(p, t)
    PROVE  /\ IsMemory(q)
           /\ \A w : w \in DOMAIN q <=> w \in DOMAIN p /\ w[1] # t
           /\ \A w \in DOMAIN q : q[w] = p[w]
           /\ \A x, j : Down(q, x, j) = IF x = t THEN None ELSE Down(p, x, j)
           /\ \A x, j : IsHuge(q, x, j) <=> x # t /\ IsHuge(p, x, j)
<1>1. /\ \A w : w \in DOMAIN q <=> w \in DOMAIN p /\ w[1] # t
      /\ \A w \in DOMAIN q : q[w] = p[w]
  BY DEF ClearTable, Restrict
<1>2. IsMemory(q)
  BY <1>1 DEF IsMemory
<1>3. ASSUME NEW x, NEW j
      PROVE  /\ Down(q, x, j) = IF x = t THEN None ELSE Down(p, x, j)
             /\ IsHuge(q, x, j) <=> x # t /\ IsHuge(p, x, j)
  <2>1. << x, j >>[1] = x
    OBVIOUS
  <2>2. << x, j >> \in DOMAIN q <=> << x, j >> \in DOMAIN p /\ x # t
    BY <1>1, <2>1
  <2>3. IsHuge(q, x, j) \in BOOLEAN /\ IsHuge(p, x, j) \in BOOLEAN
    <3>1. \A w \in DOMAIN p : p[w].huge \in BOOLEAN
      BY DEF IsMemory, Entries
    <3>2. \A w \in DOMAIN q : q[w].huge \in BOOLEAN
      BY <1>1, <3>1
    <3> QED
      BY <3>1, <3>2 DEF IsHuge, Present
  <2> QED
    BY <1>1, <2>2, <2>3 DEF Down, Present, IsHuge
<1> QED
  BY <1>1, <1>2, <1>3

\* Removing a word changes no other.
LEMMA DropWord ==
    ASSUME NEW p, IsMemory(p), NEW t, NEW i, NEW q, q = Restrict(p, DOMAIN p \ {<< t, i >>})
    PROVE  /\ IsMemory(q)
           /\ DOMAIN q = DOMAIN p \ {<< t, i >>}
           /\ \A w \in DOMAIN q : q[w] = p[w]
           /\ Changed(p, q, t, i, None, FALSE)
<1>1. DOMAIN q = DOMAIN p \ {<< t, i >>} /\ \A w \in DOMAIN q : q[w] = p[w]
  BY DEF Restrict
<1>2. IsMemory(q)
  BY <1>1 DEF IsMemory
<1>3. ASSUME NEW x, NEW j
      PROVE  /\ Down(q, x, j) = IF x = t /\ j = i THEN None ELSE Down(p, x, j)
             /\ IsHuge(q, x, j) <=> ~(x = t /\ j = i) /\ IsHuge(p, x, j)
  <2>1. << x, j >> = << t, i >> <=> x = t /\ j = i
    OBVIOUS
  <2>2. << x, j >> \in DOMAIN q <=> << x, j >> \in DOMAIN p /\ ~(x = t /\ j = i)
    BY <1>1, <2>1
  <2>3. IsHuge(q, x, j) \in BOOLEAN /\ IsHuge(p, x, j) \in BOOLEAN
    <3>1. \A w \in DOMAIN p : p[w].huge \in BOOLEAN
      BY DEF IsMemory, Entries
    <3>2. \A w \in DOMAIN q : q[w].huge \in BOOLEAN
      BY <1>1, <3>1
    <3> QED
      BY <3>1, <3>2 DEF IsHuge, Present
  <2> QED
    BY <1>1, <2>2, <2>3 DEF Down, Present, IsHuge
<1> QED
  BY <1>1, <1>2, <1>3 DEF Changed

\* From p to q entry i of table t has come to lead to the cleared table n.
Linked(p, q, t, i, n) ==
    /\ \A x, j : Down(q, x, j) = IF x = t /\ j = i THEN n
                                 ELSE IF x = n THEN None ELSE Down(p, x, j)
    /\ \A x, j : IsHuge(q, x, j) <=> x # n /\ IsHuge(p, x, j)

\* A new table below a table of level 0, 1 or 2, in a frame that was none.
LEMMA LinkTree ==
    ASSUME NEW p, NEW r, NEW U, NEW d, IsMemory(p), Tree(p, r, U, d), NEW W, U \subseteq W,
           NEW t \in Frames, d[t] < 3, NEW i \in Nat, Down(p, t, i) = None,
           NEW n \in Frames, d[n] = 4, n \in W,
           NEW q, q = SetEntry(ClearTable(p, n), t, i, TableEntry(n))
    PROVE  /\ IsMemory(q)
           /\ Tree(q, r, W, [d EXCEPT ![n] = d[t] + 1])
           /\ Linked(p, q, t, i, n)
<1> DEFINE c == ClearTable(p, n)
           e == TableEntry(n)
           f == [d EXCEPT ![n] = d[t] + 1]
           w == << t, i >>
<1>0. n # t
  OBVIOUS
<1>1. e \in Entries /\ e.phys = n /\ e.huge = FALSE
  BY DEF TableEntry, Entries
<1>2. /\ IsMemory(c)
      /\ \A a : a \in DOMAIN c <=> a \in DOMAIN p /\ a[1] # n
      /\ \A a \in DOMAIN c : c[a] = p[a]
      /\ \A x, j : Down(c, x, j) = IF x = n THEN None ELSE Down(p, x, j)
      /\ \A x, j : IsHuge(c, x, j) <=> x # n /\ IsHuge(p, x, j)
  <2>1. c = ClearTable(p, n)
    OBVIOUS
  <2> HIDE DEF c
  <2> QED
    BY <2>1, ClearWords
<1>3. /\ IsMemory(q)
      /\ DOMAIN q = DOMAIN c \cup {w}
      /\ q[w] = e
      /\ \A a \in DOMAIN c : a # w => q[a] = c[a]
      /\ \A x, j : Down(q, x, j) = IF x = t /\ j = i THEN n ELSE Down(c, x, j)
      /\ \A x, j : IsHuge(q, x, j) <=> ~(x = t /\ j = i) /\ IsHuge(c, x, j)
  <2>1. q = SetEntry(c, t, i, e)
    OBVIOUS
  <2> HIDE DEF c, e
  <2>2. /\ IsMemory(q)
        /\ DOMAIN q = DOMAIN c \cup {<< t, i >>}
        /\ q[<< t, i >>] = e
        /\ \A a \in DOMAIN c : a # << t, i >> => q[a] = c[a]
        /\ Changed(c, q, t, i, e.phys, e.huge)
    BY <1>1, <1>2, <2>1, SetWord
  <2> QED
    BY <1>1, <2>2 DEF Changed
<1>4. w \notin DOMAIN p
  <2>1. ASSUME w \in DOMAIN p PROVE FALSE
    <3>1. Down(p, t, i) = p[w].phys /\ p[w].phys \in Frames
      BY <2>1 DEF Down, Present, IsMemory, Entries
    <3> QED
      BY <3>1, LayoutAssumption DEF None, Frames
  <2> QED
    BY <2>1
<1>5. ~IsHuge(p, t, i)
  BY <1>4 DEF IsHuge, Present
<1>6. \A a \in DOMAIN q : a = w \/ (a \in DOMAIN p /\ a[1] # n /\ q[a] = p[a])
  BY <1>2, <1>3
<1>7. d \in [Frames -> 0 .. 4] /\ f \in [Frames -> 0 .. 4] /\ f[n] = d[t] + 1
      /\ \A x \in Frames : x # n => f[x] = d[x]
  <2>1. d \in [Frames -> 0 .. 4] /\ d[t] + 1 \in 0 .. 4
    <3>1. d \in [Frames -> 0 .. 4]
      BY DEF Tree
    <3> QED
      BY <3>1
  <2> QED
    BY <2>1
<1>8. \A a \in DOMAIN q : a[1] \in Frames
  BY <1>3 DEF IsMemory
<1>9. w[1] = t
  OBVIOUS
<1>10. \A a \in DOMAIN q : a # w => /\ a \in DOMAIN p /\ q[a] = p[a] /\ f[a[1]] = d[a[1]]
                                   /\ q[a].phys \in Frames /\ q[a].huge \in BOOLEAN
  <2> HIDE DEF f, w
  <2> QED
    BY <1>3, <1>6, <1>7, <1>8 DEF IsMemory, Entries
<1>11. f[w[1]] = d[t]
  BY <1>0, <1>7, <1>9
<1> HIDE DEF f, c, e, w
<1>12. \A a \in DOMAIN q : a # w /\ d[a[1]] < 3 /\ ~q[a].huge => q[a].phys # n
  BY <1>7, <1>8, <1>10 DEF Tree
<1>13. Tree(q, r, W, f)
  <2>1. r \in Frames /\ (\A x \in Frames : f[x] = 0 <=> x = r)
        /\ (\A x \in Frames : f[x] < 4 => x \in W)
    BY <1>7 DEF Tree
  <2>2. \A a \in DOMAIN q : f[a[1]] < 2 => ~q[a].huge
    BY <1>1, <1>3, <1>10 DEF Tree
  <2>3. \A a \in DOMAIN q : f[a[1]] < 3 /\ ~q[a].huge => f[q[a].phys] = f[a[1]] + 1
    <3>1. f[w[1]] < 3 /\ ~q[w].huge => f[q[w].phys] = f[w[1]] + 1
      BY <1>1, <1>3, <1>7, <1>11
    <3>2. ASSUME NEW a \in DOMAIN q, a # w, f[a[1]] < 3, ~q[a].huge
          PROVE  f[q[a].phys] = f[a[1]] + 1
      <4>1. a \in DOMAIN p /\ q[a] = p[a] /\ f[a[1]] = d[a[1]] /\ q[a].phys \in Frames /\ q[a].phys # n
        BY <1>10, <1>12, <3>2
      <4>2. d[p[a].phys] = d[a[1]] + 1
        BY <3>2, <4>1 DEF Tree
      <4> QED
        BY <1>7, <4>1, <4>2
    <3> QED
      BY <3>1, <3>2
  <2>4. \A a, b \in DOMAIN q :
          f[a[1]] < 3 /\ f[b[1]] < 3 /\ ~q[a].huge /\ ~q[b].huge /\ q[a].phys = q[b].phys => a = b
    <3> TAKE a, b \in DOMAIN q
    <3> HAVE f[a[1]] < 3 /\ f[b[1]] < 3 /\ ~q[a].huge /\ ~q[b].huge /\ q[a].phys = q[b].phys
    <3>1. CASE a # w /\ b # w
      BY <1>10, <3>1 DEF Tree
    <3>2. CASE a = w /\ b # w
      BY <1>1, <1>3, <1>10, <1>12, <3>2
    <3>3. CASE a # w /\ b = w
      BY <1>1, <1>3, <1>10, <1>12, <3>3
    <3> QED
      BY <3>1, <3>2, <3>3
  <2> QED
    BY <1>7, <2>1, <2>2, <2>3, <2>4 DEF Tree
<1>14. \A x, j : Down(q, x, j) = IF x = t /\ j = i THEN n
                                 ELSE IF x = n THEN None ELSE Down(p, x, j)
  BY <1>2, <1>3
<1>15. \A x, j : IsHuge(q, x, j) <=> x # n /\ IsHuge(p, x, j)
  BY <1>2, <1>3, <1>0, <1>5
<1> QED
  BY <1>3, <1>13, <1>14, <1>15 DEF f, Linked

-------------------------------------------------------------------------------
(***************************************************************************)
(* Growing the tables for a page                                           *)
(***************************************************************************)

\* From p to q the tables for page v may have been added, and nothing else.
Grows(p, q, r, v) ==
    \A u \in Virtual :
        /\ First(p, r, u) # None => First(q, r, u) = First(p, r, u)
        /\ Directory(p, r, u) # None => Directory(q, r, u) = Directory(p, r, u)
        /\ Third(p, r, u) # None => Third(q, r, u) = Third(p, r, u)
        /\ First(q, r, u) # None => First(p, r, u) # None \/ u[1] = v[1]
        /\ Third(q, r, u) # None =>
             Third(p, r, u) # None \/ (u[1] = v[1] /\ u[2] = v[2] /\ u[3] = v[3])
        /\ HugeAt(q, r, u) <=> HugeAt(p, r, u)
        /\ Translate(q, r, u) = Translate(p, r, u)

LEMMA TranslateIs ==
    \A p, r, v : Translate(p, r, v) =
        IF HugeAt(p, r, v) THEN Third(p, r, v) + v[4] ELSE Down(p, Third(p, r, v), v[4])
  BY DEF Translate, HugeAt, Third

LEMMA GrowsNot ==
    ASSUME NEW p, NEW r, NEW v
    PROVE  Grows(p, p, r, v)
  BY DEF Grows

LEMMA GrowsOn ==
    ASSUME NEW p, NEW q, NEW s, NEW r, NEW v, Grows(p, q, r, v), Grows(q, s, r, v)
    PROVE  Grows(p, s, r, v)
<1> SUFFICES ASSUME NEW u \in Virtual
             PROVE  /\ First(p, r, u) # None => First(s, r, u) = First(p, r, u)
                    /\ Directory(p, r, u) # None => Directory(s, r, u) = Directory(p, r, u)
                    /\ Third(p, r, u) # None => Third(s, r, u) = Third(p, r, u)
                    /\ First(s, r, u) # None => First(p, r, u) # None \/ u[1] = v[1]
                    /\ Third(s, r, u) # None =>
                         Third(p, r, u) # None \/ (u[1] = v[1] /\ u[2] = v[2] /\ u[3] = v[3])
                    /\ HugeAt(s, r, u) <=> HugeAt(p, r, u)
                    /\ Translate(s, r, u) = Translate(p, r, u)
  BY DEF Grows
<1> QED
  BY DEF Grows

\* A table linked on the way to page v.
LEMMA LinkGrows ==
    ASSUME NEW p, NEW r, NEW U, NEW d, IsMemory(p), Tree(p, r, U, d), NEW v \in Virtual,
           NEW t \in Frames, NEW i \in Nat, Down(p, t, i) = None,
           \/ t = r /\ i = v[1]
           \/ t = First(p, r, v) /\ i = v[2]
           \/ t = Directory(p, r, v) /\ i = v[3],
           NEW n \in Frames, d[n] = 4,
           NEW q, Linked(p, q, t, i, n)
    PROVE  Grows(p, q, r, v)
<1> USE DEF Linked
<1>0. None \notin Frames
  BY LayoutAssumption DEF None, Frames
<1>1. d[r] = 0 /\ r \in Frames
  BY DEF Tree
<1>2. \A j \in Nat : Down(p, None, j) = None /\ ~IsHuge(p, None, j)
  BY DownFacts
<1>3. /\ First(p, r, v) # None => d[First(p, r, v)] = 1
      /\ Directory(p, r, v) # None => d[Directory(p, r, v)] = 2
  BY WalkFacts
<1>4. d[t] < 3 /\ t # n
  BY <1>0, <1>1, <1>3
<1> SUFFICES ASSUME NEW u \in Virtual
             PROVE  /\ First(p, r, u) # None => First(q, r, u) = First(p, r, u)
                    /\ Directory(p, r, u) # None => Directory(q, r, u) = Directory(p, r, u)
                    /\ Third(p, r, u) # None => Third(q, r, u) = Third(p, r, u)
                    /\ First(q, r, u) # None => First(p, r, u) # None \/ u[1] = v[1]
                    /\ Third(q, r, u) # None =>
                         Third(p, r, u) # None \/ (u[1] = v[1] /\ u[2] = v[2] /\ u[3] = v[3])
                    /\ HugeAt(q, r, u) <=> HugeAt(p, r, u)
                    /\ Translate(q, r, u) = Translate(p, r, u)
  BY DEF Grows
<1> DEFINE x == First(p, r, u)
           y == Directory(p, r, u)
           z == Third(p, r, u)
           xx == First(q, r, u)
           yy == Directory(q, r, u)
           zz == Third(q, r, u)
<1>5. u[1] \in Nat /\ u[2] \in Nat /\ u[3] \in Nat /\ u[4] \in Nat
  BY VirtualFacts
<1>6. /\ x \in Frames \cup {None} /\ (x # None => d[x] = 1)
      /\ y \in Frames \cup {None} /\ (y # None => d[y] = 2 /\ x # None)
      /\ z \in Frames \cup {None} /\ (z # None => y # None)
      /\ z # None /\ ~HugeAt(p, r, u) => d[z] = 3
      /\ HugeAt(p, r, u) => z # None
  BY WalkFacts
<1>7. /\ x = Down(p, r, u[1]) /\ y = Down(p, x, u[2]) /\ z = Down(p, y, u[3])
      /\ xx = Down(q, r, u[1]) /\ yy = Down(q, xx, u[2]) /\ zz = Down(q, yy, u[3])
      /\ HugeAt(p, r, u) <=> IsHuge(p, y, u[3])
      /\ HugeAt(q, r, u) <=> IsHuge(q, yy, u[3])
  BY DEF First, Directory, Third, HugeAt
<1> HIDE DEF x, y, z, xx, yy, zz
<1>8. x # n /\ y # n /\ None # n
  BY <1>0, <1>6
<1>9. xx = IF t = r /\ u[1] = i THEN n ELSE x
  BY <1>1, <1>7
<1>10. yy = IF t = r /\ u[1] = i THEN None ELSE IF t = x /\ u[2] = i THEN n ELSE y
  BY <1>0, <1>1, <1>4, <1>6, <1>7, <1>8, <1>9
<1>11. t = r /\ u[1] = i => x = None /\ y = None /\ z = None
  BY <1>6, <1>7
<1>12. t = x /\ u[2] = i => y = None /\ z = None
  BY <1>6, <1>7
<1>13. zz = IF t = y /\ u[3] = i THEN n ELSE z
  <2>1. CASE yy = y
    BY <1>7, <1>8, <2>1
  <2>2. CASE yy = None
    BY <1>0, <1>2, <1>5, <1>6, <1>7, <1>8, <1>10, <1>11, <1>12, <2>2
  <2>3. CASE yy = n /\ yy # y
    BY <1>0, <1>4, <1>6, <1>7, <1>10, <1>12, <2>3
  <2> QED
    BY <1>10, <2>1, <2>2, <2>3
<1>14. HugeAt(q, r, u) <=> HugeAt(p, r, u)
  BY <1>2, <1>5, <1>7, <1>8, <1>10, <1>11, <1>12
<1>15. t = y /\ u[3] = i => z = None
  BY <1>7
<1>16. Translate(q, r, u) = Translate(p, r, u)
  <2>1. Translate(p, r, u) = IF HugeAt(p, r, u) THEN z + u[4] ELSE Down(p, z, u[4])
    BY TranslateIs DEF z
  <2>2. Translate(q, r, u) = IF HugeAt(q, r, u) THEN zz + u[4] ELSE Down(q, zz, u[4])
    BY TranslateIs DEF zz
  <2>3. CASE t = y /\ u[3] = i
    <3>1. zz = n /\ z = None /\ ~HugeAt(p, r, u)
      BY <1>6, <1>13, <1>15, <2>3
    <3>2. Down(q, n, u[4]) = None /\ Down(p, None, u[4]) = None
      BY <1>2, <1>4, <1>5
    <3> QED
      BY <1>14, <2>1, <2>2, <3>1, <3>2
  <2>4. CASE ~(t = y /\ u[3] = i)
    <3>1. zz = z
      BY <1>13, <2>4
    <3>2. ASSUME ~HugeAt(p, r, u) PROVE Down(q, z, u[4]) = Down(p, z, u[4])
      BY <1>0, <1>4, <1>6, <1>8, <3>2
    <3> QED
      BY <1>14, <2>1, <2>2, <3>1, <3>2
  <2> QED
    BY <2>3, <2>4
<1>17. x # None => xx = x
  BY <1>9, <1>11
<1>18. y # None => yy = y
  BY <1>10, <1>11, <1>12
<1>19. z # None => zz = z
  BY <1>13, <1>15
<1>20. xx # None => x # None \/ u[1] = v[1]
  BY <1>0, <1>1, <1>3, <1>9
<1>21. zz # None => z # None \/ (u[1] = v[1] /\ u[2] = v[2] /\ u[3] = v[3])
  <2>1. CASE t = y /\ u[3] = i
    <3>1. d[t] = 2
      BY <1>0, <1>6, <2>1
    <3>2. t = Directory(p, r, v) /\ i = v[3]
      BY <1>0, <1>1, <1>3, <3>1
    <3>3. Directory(p, r, u) = Directory(p, r, v) /\ Directory(p, r, v) # None
      BY <1>0, <2>1, <3>2 DEF y
    <3>4. u[1] = v[1] /\ u[2] = v[2]
      BY <3>3, WalkUnique
    <3> QED
      BY <2>1, <3>2, <3>4
  <2> QED
    BY <1>13, <2>1
<1> QED
  BY <1>14, <1>16, <1>17, <1>18, <1>19, <1>20, <1>21 DEF x, y, z, xx, yy, zz

-------------------------------------------------------------------------------
(***************************************************************************)
(* getOrAlloc: the tables grow into frames of the PMM                      *)
(***************************************************************************)

\* Min returns the least element of a set of naturals.
LEMMA MinIsIn ==
    ASSUME NEW S \in SUBSET Nat, S # {}
    PROVE  Min(S) \in S
  BY LeastNatural DEF Min

IsState(s) == s = [pte |-> s.pte, free |-> s.free, stray |-> s.stray, oom |-> s.oom]

\* F holds the frames that are free or tables.
Sound(s, r, F) ==
    /\ IsState(s)
    /\ IsMemory(s.pte)
    /\ F \subseteq Frames
    /\ s.free \subseteq F
    /\ \E d : Tree(s.pte, r, F \ s.free, d)

\* Entry i of t is the first, second or third on the way to page v.
OnTheWay(p, r, v, t, i) ==
    \/ t = r /\ i = v[1]
    \/ t = First(p, r, v) /\ i = v[2]
    \/ t = Directory(p, r, v) /\ i = v[3]

\* s becomes t by adding tables for page v.
Step(s, t, r, v, F) ==
    /\ Sound(t, r, F)
    /\ Grows(s.pte, t.pte, r, v)
    /\ t.free \subseteq s.free
    /\ t.stray = s.stray

LEMMA StepOn ==
    ASSUME NEW s, NEW t, NEW o, NEW r, NEW v, NEW F, Step(s, t, r, v, F), Step(t, o, r, v, F)
    PROVE  Step(s, o, r, v, F)
  BY GrowsOn DEF Step

\* The entry is there, or there is a frame for a table.
LEMMA GetOrAllocLinks ==
    ASSUME NEW s, NEW r, NEW F, Sound(s, r, F), NEW v \in Virtual,
           NEW t \in Frames, NEW i \in Nat, NEW null,
           OnTheWay(s.pte, r, v, t, i),
           Down(s.pte, t, i) # None \/ s.free # {},
           NEW o, o = GetOrAlloc(s, t, i, null)
    PROVE  /\ Step(s, o, r, v, F)
           /\ Down(o.pte, t, i) # None
           /\ o.oom = s.oom
           /\ o = s \/ (s.free # {} /\ Down(s.pte, t, i) = None /\ o.free = s.free \ {Min(s.free)}
                          /\ Min(s.free) \in s.free)
<1>0. IsMemory(s.pte) /\ (Present(s.pte, t, i) <=> Down(s.pte, t, i) # None)
  BY DownFacts DEF Sound
<1>1. CASE Present(s.pte, t, i)
  <2>1. o = s
    BY <1>1 DEF GetOrAlloc
  <2> QED
    BY <1>0, <1>1, <2>1, GrowsNot DEF Step
<1>2. CASE ~Present(s.pte, t, i)
  <2> DEFINE n == Min(s.free)
             q == SetEntry(ClearTable(s.pte, n), t, i, TableEntry(n))
  <2>1. s.free # {} /\ s.free \subseteq Frames
    BY <1>0, <1>2 DEF Sound
  <2>2. n \in s.free /\ n \in Frames
    BY <2>1, MinIsIn DEF Frames
  <2>3. o = [pte |-> q, free |-> s.free \ {n}, stray |-> s.stray, oom |-> s.oom]
    <3>1. s = [pte |-> s.pte, free |-> s.free, stray |-> s.stray, oom |-> s.oom]
      BY DEF Sound, IsState
    <3>2. o = [Link(s, t, i, n) EXCEPT !.free = @ \ {n}]
      BY <1>2, <2>1 DEF GetOrAlloc
    <3>3. Link(s, t, i, n) = [pte |-> q, free |-> s.free, stray |-> s.stray, oom |-> s.oom]
      <4> HIDE DEF n
      <4> QED
        BY <3>1 DEF Link
    <3> HIDE DEF n, q
    <3> QED
      BY <3>2, <3>3
  <2> HIDE DEF n, q
  <2>4. o.pte = q /\ o.free = s.free \ {n} /\ o.stray = s.stray /\ o.oom = s.oom /\ IsState(o)
    BY <2>3 DEF IsState
  <2>5. PICK d : Tree(s.pte, r, F \ s.free, d)
    BY DEF Sound
  <2>6. d[n] = 4
    BY <2>2, <2>5 DEF Tree
  <2>7. None \notin Frames /\ d[r] = 0 /\ r \in Frames
    BY <2>5, LayoutAssumption DEF None, Frames, Tree
  <2>8. d[t] < 3
    <3>1. /\ First(s.pte, r, v) # None => d[First(s.pte, r, v)] = 1
          /\ Directory(s.pte, r, v) # None => d[Directory(s.pte, r, v)] = 2
      BY <1>0, <2>5, WalkFacts
    <3> QED
      BY <2>7, <3>1 DEF OnTheWay
  <2>9. Down(s.pte, t, i) = None
    BY <1>0, <1>2
  <2> DEFINE p == s.pte
             U == F \ s.free
             W == F \ (s.free \ {n})
             f == [d EXCEPT ![n] = d[t] + 1]
  <2>10. U \subseteq W /\ n \in W
    BY <2>2 DEF Sound
  <2>11. q = SetEntry(ClearTable(p, n), t, i, TableEntry(n))
    BY DEF q
  <2>12. IsMemory(p) /\ Tree(p, r, U, d) /\ Down(p, t, i) = None
    BY <1>0, <2>5, <2>9
  <2> HIDE DEF p, U, W
  <2>13. /\ IsMemory(q)
         /\ Tree(q, r, W, f)
         /\ Linked(p, q, t, i, n)
    BY <2>2, <2>6, <2>8, <2>10, <2>11, <2>12, LinkTree
  <2>14. \/ t = r /\ i = v[1]
         \/ t = First(p, r, v) /\ i = v[2]
         \/ t = Directory(p, r, v) /\ i = v[3]
    BY DEF p, OnTheWay
  <2>15. Grows(p, q, r, v)
    BY <2>2, <2>6, <2>12, <2>13, <2>14, LinkGrows
  <2>16. Down(q, t, i) # None
    BY <2>2, <2>7, <2>13 DEF Linked
  <2>17. Sound(o, r, F)
    <3>1. o.free \subseteq F /\ F \subseteq Frames
      BY <2>4 DEF Sound
    <3>2. Tree(o.pte, r, F \ o.free, f)
      BY <2>4, <2>13 DEF W
    <3> HIDE DEF f
    <3> QED
      BY <2>4, <2>13, <3>1, <3>2 DEF Sound
  <2> QED
    BY <2>1, <2>2, <2>4, <2>9, <2>15, <2>16, <2>17 DEF Step, p, n
<1> QED
  BY <1>1, <1>2

\* The entry leads to x, or memory was out.
Outcome(s, o, x) ==
    \/ x # None /\ o.oom = s.oom
    \/ o.oom = TRUE /\ o.free = {}

\* Without a frame the kernel's map goes no further.
LEMMA GetOrAllocFaults ==
    ASSUME NEW s, NEW r, NEW F, Sound(s, r, F), NEW v \in Virtual,
           NEW t, NEW i, ~Present(s.pte, t, i), s.free = {},
           NEW o, o = GetOrAlloc(s, t, i, None)
    PROVE  /\ Step(s, o, r, v, F)
           /\ o.pte = s.pte /\ o.free = {} /\ o.oom = TRUE
<1>1. o = [s EXCEPT !.oom = TRUE]
  BY DEF GetOrAlloc
<1>2. s = [pte |-> s.pte, free |-> s.free, stray |-> s.stray, oom |-> s.oom]
  BY DEF Sound, IsState
<1>3. o = [pte |-> s.pte, free |-> s.free, stray |-> s.stray, oom |-> TRUE]
  BY <1>1, <1>2
<1>4. o.pte = s.pte /\ o.free = s.free /\ o.stray = s.stray /\ o.oom = TRUE /\ IsState(o)
  BY <1>3 DEF IsState
<1>5. Sound(o, r, F)
  BY <1>4 DEF Sound
<1> QED
  BY <1>4, <1>5, GrowsNot DEF Step

\* getOrAlloc of the kernel on the way to a page: the entry is there, or memory
\* was out.
LEMMA GetOrAllocKernel ==
    ASSUME NEW s, NEW r, NEW F, Sound(s, r, F), NEW v \in Virtual,
           NEW t \in Frames \cup {None}, NEW i \in Nat, t = None => s.free = {},
           OnTheWay(s.pte, r, v, t, i),
           NEW o, o = GetOrAlloc(s, t, i, None)
    PROVE  /\ Step(s, o, r, v, F)
           /\ Outcome(s, o, Down(o.pte, t, i))
<1>0. /\ IsMemory(s.pte)
      /\ Present(s.pte, t, i) <=> Down(s.pte, t, i) # None
      /\ t = None => ~Present(s.pte, t, i)
  BY DownFacts DEF Sound
<1>1. CASE ~Present(s.pte, t, i) /\ s.free = {}
  BY <1>1, GetOrAllocFaults DEF Outcome
<1>2. CASE Present(s.pte, t, i) \/ s.free # {}
  <2>1. t \in Frames
    BY <1>0, <1>2
  <2> QED
    BY <1>0, <1>2, <2>1, GetOrAllocLinks DEF Outcome
<1> QED
  BY <1>1, <1>2

\* The upper levels of the kernel's map.
LEMMA DirectoryKernel ==
    ASSUME NEW s, NEW r \in Frames, NEW F, Sound(s, r, F), NEW v \in Virtual,
           NEW o, o = WithDirectory(s, r, v, None)
    PROVE  /\ Step(s, o, r, v, F)
           /\ Outcome(s, o, Directory(o.pte, r, v))
<1> DEFINE m == GetOrAlloc(s, r, v[1], None)
           t == Down(m.pte, r, v[1])
<1>0. v[1] \in Nat /\ v[2] \in Nat /\ r # None
  BY VirtualFacts, LayoutAssumption DEF None, Frames
<1>1. o = GetOrAlloc(m, t, v[2], None)
  BY DEF WithDirectory
<1>2. /\ Step(s, m, r, v, F)
      /\ Outcome(s, m, t)
  <2>1. OnTheWay(s.pte, r, v, r, v[1]) /\ r \in Frames \cup {None}
    BY DEF OnTheWay
  <2>2. m = GetOrAlloc(s, r, v[1], None)
    BY DEF m
  <2> HIDE DEF m
  <2> QED
    BY <1>0, <2>1, <2>2, GetOrAllocKernel
<1> HIDE DEF m
<1>3. Sound(m, r, F) /\ t = First(m.pte, r, v) /\ t \in Frames \cup {None}
  BY <1>0, <1>2, DownFacts DEF Step, Sound, First
<1> HIDE DEF t
<1>4. t = None => m.free = {}
  BY <1>2 DEF Outcome
<1>5. /\ Step(m, o, r, v, F)
      /\ Outcome(m, o, Down(o.pte, t, v[2]))
  <2>1. OnTheWay(m.pte, r, v, t, v[2])
    BY <1>3 DEF OnTheWay
  <2> QED
    BY <1>0, <1>1, <1>3, <1>4, <2>1, GetOrAllocKernel
<1>6. Step(s, o, r, v, F)
  BY <1>2, <1>5, StepOn
<1>7. CASE t # None /\ m.oom = s.oom
  <2>1. First(o.pte, r, v) = t
    BY <1>3, <1>5, <1>7 DEF Step, Grows
  <2>2. Directory(o.pte, r, v) = Down(o.pte, t, v[2])
    BY <2>1 DEF Directory, First
  <2> QED
    BY <1>5, <1>6, <1>7, <2>2 DEF Outcome
<1>8. CASE m.oom = TRUE /\ m.free = {}
  BY <1>5, <1>6, <1>8 DEF Step, Outcome
<1> QED
  BY <1>2, <1>7, <1>8 DEF Outcome

\* What the kernel's map builds.
LEMMA TablesKernel ==
    ASSUME NEW s, NEW r \in Frames, NEW F, Sound(s, r, F), s.oom = FALSE,
           NEW req, NEW v \in Virtual, v = req.virt,
           NEW o, o = KernelTables(s, r, req)
    PROVE  /\ Step(s, o, r, v, F)
           /\ \/ o.oom = TRUE
              \/ /\ Directory(o.pte, r, v) # None
                 /\ req.huge \/ SizesClash(o.pte, r, req) \/ Third(o.pte, r, v) # None
<1> DEFINE a == WithDirectory(s, r, v, None)
<1>1. /\ Step(s, a, r, v, F)
      /\ Outcome(s, a, Directory(a.pte, r, v))
  BY DirectoryKernel
<1>2. o = IF req.huge \/ a.oom \/ SizesClash(a.pte, r, req) THEN a ELSE WithTable(a, r, v, None)
  BY DEF KernelTables
<1> HIDE DEF a
<1>5. a.oom = TRUE \/ (a.oom = FALSE /\ Directory(a.pte, r, v) # None)
  BY <1>1 DEF Outcome
<1>3. CASE req.huge \/ a.oom \/ SizesClash(a.pte, r, req)
  BY <1>1, <1>2, <1>3, <1>5
<1>4. CASE ~(req.huge \/ a.oom \/ SizesClash(a.pte, r, req))
  <2> DEFINE b == WithDirectory(a, r, v, None)
             t == Directory(b.pte, r, v)
  <2>1. Sound(a, r, F) /\ Directory(a.pte, r, v) # None
    BY <1>1, <1>4, <1>5 DEF Step
  <2>2. Step(a, b, r, v, F)
    BY <2>1, DirectoryKernel
  <2>3. o = GetOrAlloc(b, t, v[3], None)
    BY <1>2, <1>4 DEF WithTable
  <2> HIDE DEF b
  <2>4. Sound(b, r, F) /\ t # None
    BY <2>1, <2>2 DEF Step, Grows
  <2>5. t \in Frames
    <3>1. PICK d : Tree(b.pte, r, F \ b.free, d)
      BY <2>4 DEF Sound
    <3>2. IsMemory(b.pte)
      BY <2>4 DEF Sound
    <3> QED
      BY <2>4, <3>1, <3>2, WalkFacts
  <2>6. v[3] \in Nat /\ t # None
    BY <2>4, VirtualFacts
  <2>7. t = Directory(b.pte, r, v)
    OBVIOUS
  <2> HIDE DEF t
  <2>8. /\ Step(b, o, r, v, F)
        /\ Outcome(b, o, Down(o.pte, t, v[3]))
    <3>1. OnTheWay(b.pte, r, v, t, v[3]) /\ t \in Frames \cup {None}
      BY <2>5, <2>7 DEF OnTheWay
    <3> QED
      BY <2>3, <2>4, <2>6, <3>1, GetOrAllocKernel
  <2>9. Directory(o.pte, r, v) = t
    BY <2>6, <2>7, <2>8 DEF Step, Grows
  <2>10. Third(o.pte, r, v) = Down(o.pte, t, v[3])
    BY <2>9 DEF Third
  <2>11. Step(s, o, r, v, F)
    BY <1>1, <2>2, <2>8, StepOn
  <2> QED
    BY <2>6, <2>8, <2>9, <2>10, <2>11 DEF Outcome
<1> QED
  BY <1>3, <1>4

-------------------------------------------------------------------------------
(***************************************************************************)
(* Pages set and removed                                                   *)
(***************************************************************************)

\* Page u is in the same entry of a directory as page v.
SamePlace(u, v) == u[1] = v[1] /\ u[2] = v[2] /\ u[3] = v[3]

LEMMA SamePlaceIs ==
    ASSUME NEW u \in Virtual, NEW v \in Virtual
    PROVE  /\ SubSeq(u, 1, 3) = SubSeq(v, 1, 3) <=> SamePlace(u, v)
           /\ SamePlace(u, v) /\ u[4] = v[4] => u = v
<1>1. ASSUME NEW w \in Virtual
      PROVE  /\ SubSeq(w, 1, 3) \in Seq(Nat) /\ Len(SubSeq(w, 1, 3)) = 3
             /\ \A k \in 1 .. 3 : SubSeq(w, 1, 3)[k] = w[k]
  <2>1. \A k \in 1 .. 3 : w[k] \in Nat
    <3>1. \A k \in 1 .. 3 : k = 1 \/ k = 2 \/ k = 3
      OBVIOUS
    <3> QED
      BY <3>1, VirtualFacts
  <2>2. /\ SubSeq(w, 1, 3) \in Seq(Nat) /\ Len(SubSeq(w, 1, 3)) = 3 - 1 + 1
        /\ \A k \in 1 .. 3 - 1 + 1 : SubSeq(w, 1, 3)[k] = w[1 + k - 1]
    BY <2>1, SubSeqProperties
  <2>3. \A k \in 1 .. 3 : 1 + k - 1 = k
    OBVIOUS
  <2> QED
    BY <2>2, <2>3
<1>2. /\ Len(SubSeq(u, 1, 3)) = 3 /\ \A k \in 1 .. 3 : SubSeq(u, 1, 3)[k] = u[k]
      /\ Len(SubSeq(v, 1, 3)) = 3 /\ \A k \in 1 .. 3 : SubSeq(v, 1, 3)[k] = v[k]
      /\ SubSeq(u, 1, 3) \in Seq(Nat) /\ SubSeq(v, 1, 3) \in Seq(Nat)
  BY <1>1
<1>3. ASSUME SamePlace(u, v) PROVE SubSeq(u, 1, 3) = SubSeq(v, 1, 3)
  <2>1. \A k \in 1 .. 3 : u[k] = v[k]
    BY <1>3 DEF SamePlace
  <2> QED
    BY <1>2, <2>1, SeqEqual
<1>4. ASSUME SubSeq(u, 1, 3) = SubSeq(v, 1, 3) PROVE SamePlace(u, v)
  <2>1. 1 \in 1 .. 3 /\ 2 \in 1 .. 3 /\ 3 \in 1 .. 3
    OBVIOUS
  <2> QED
    BY <1>2, <1>4, <2>1 DEF SamePlace
<1>5. SamePlace(u, v) /\ u[4] = v[4] => u = v
  BY VirtualFacts DEF SamePlace
<1> QED
  BY <1>3, <1>4, <1>5

\* An entry of a table of level 3, or a huge page in a directory, changes no level.
LEMMA SetTree ==
    ASSUME NEW p, NEW r, NEW U, NEW d, IsMemory(p), Tree(p, r, U, d),
           NEW t \in Frames, NEW i \in Nat, NEW e \in Entries,
           d[t] = 3 \/ (d[t] = 2 /\ e.huge),
           NEW q, q = SetEntry(p, t, i, e)
    PROVE  IsMemory(q) /\ Tree(q, r, U, d)
<1> DEFINE w == << t, i >>
<1>1. /\ IsMemory(q)
      /\ DOMAIN q = DOMAIN p \cup {w}
      /\ q[w] = e
      /\ \A a \in DOMAIN p : a # w => q[a] = p[a]
  BY SetWord
<1>2. w[1] = t
  OBVIOUS
<1> HIDE DEF w
<1>3. d[w[1]] = 3 \/ (d[w[1]] = 2 /\ q[w].huge)
  BY <1>1, <1>2
<1>4. \A a \in DOMAIN q : d[a[1]] < 2 => ~q[a].huge
  BY <1>1, <1>3 DEF Tree
<1>5. \A a \in DOMAIN q : d[a[1]] < 3 /\ ~q[a].huge => d[q[a].phys] = d[a[1]] + 1
  BY <1>1, <1>3 DEF Tree
<1>6. \A a, b \in DOMAIN q :
        d[a[1]] < 3 /\ d[b[1]] < 3 /\ ~q[a].huge /\ ~q[b].huge /\ q[a].phys = q[b].phys => a = b
  <2> TAKE a, b \in DOMAIN q
  <2> HAVE d[a[1]] < 3 /\ d[b[1]] < 3 /\ ~q[a].huge /\ ~q[b].huge /\ q[a].phys = q[b].phys
  <2>1. a # w /\ b # w
    BY <1>3
  <2>2. a \in DOMAIN p /\ b \in DOMAIN p /\ q[a] = p[a] /\ q[b] = p[b]
    BY <1>1, <2>1
  <2> QED
    BY <2>2 DEF Tree
<1> QED
  BY <1>1, <1>4, <1>5, <1>6 DEF Tree

LEMMA DropTree ==
    ASSUME NEW p, NEW r, NEW U, NEW d, IsMemory(p), Tree(p, r, U, d), NEW t, NEW i,
           NEW q, q = Restrict(p, DOMAIN p \ {<< t, i >>})
    PROVE  IsMemory(q) /\ Tree(q, r, U, d)
<1>1. /\ IsMemory(q)
      /\ DOMAIN q \subseteq DOMAIN p
      /\ \A a \in DOMAIN q : q[a] = p[a]
  BY DEF Restrict, IsMemory
<1>2. \A a \in DOMAIN q : d[a[1]] < 2 => ~q[a].huge
  BY <1>1 DEF Tree
<1>3. \A a \in DOMAIN q : d[a[1]] < 3 /\ ~q[a].huge => d[q[a].phys] = d[a[1]] + 1
  BY <1>1 DEF Tree
<1>4. \A a, b \in DOMAIN q :
        d[a[1]] < 3 /\ d[b[1]] < 3 /\ ~q[a].huge /\ ~q[b].huge /\ q[a].phys = q[b].phys => a = b
  <2> TAKE a, b \in DOMAIN q
  <2>1. a \in DOMAIN p /\ b \in DOMAIN p /\ q[a] = p[a] /\ q[b] = p[b]
    BY <1>1
  <2> QED
    BY <2>1 DEF Tree
<1> QED
  BY <1>1, <1>2, <1>3, <1>4 DEF Tree

\* From p to q the entry of a directory for page v has become k.
PlaceChanged(p, q, r, v, k, huge) ==
    \A u \in Virtual :
        /\ First(q, r, u) = First(p, r, u)
        /\ Directory(q, r, u) = Directory(p, r, u)
        /\ SamePlace(u, v) => Third(q, r, u) = k /\ (HugeAt(q, r, u) <=> huge)
        /\ ~SamePlace(u, v) => /\ Third(q, r, u) = Third(p, r, u)
                               /\ HugeAt(q, r, u) <=> HugeAt(p, r, u)
                               /\ Translate(q, r, u) = Translate(p, r, u)

\* From p to q the entry of a table of level 3 for page v has become k.
PageChanged(p, q, r, v, k) ==
    \A u \in Virtual :
        /\ First(q, r, u) = First(p, r, u)
        /\ Directory(q, r, u) = Directory(p, r, u)
        /\ Third(q, r, u) = Third(p, r, u)
        /\ HugeAt(q, r, u) <=> HugeAt(p, r, u)
        /\ Translate(q, r, u) = IF u = v THEN k ELSE Translate(p, r, u)

\* A change in a directory concerns the huge page of the entry.
LEMMA DirectoryChanged ==
    ASSUME NEW p, NEW r, NEW U, NEW d, IsMemory(p), Tree(p, r, U, d), NEW v \in Virtual,
           NEW t \in Frames, t = Directory(p, r, v), NEW k, NEW huge \in BOOLEAN,
           NEW q, Changed(p, q, t, v[3], k, huge)
    PROVE  PlaceChanged(p, q, r, v, k, huge)
<1> SUFFICES ASSUME NEW u \in Virtual
             PROVE  /\ First(q, r, u) = First(p, r, u)
                    /\ Directory(q, r, u) = Directory(p, r, u)
                    /\ SamePlace(u, v) => Third(q, r, u) = k /\ (HugeAt(q, r, u) <=> huge)
                    /\ ~SamePlace(u, v) => /\ Third(q, r, u) = Third(p, r, u)
                                           /\ HugeAt(q, r, u) <=> HugeAt(p, r, u)
                                           /\ Translate(q, r, u) = Translate(p, r, u)
  BY DEF PlaceChanged
<1>0. None \notin Frames /\ d[r] = 0 /\ r \in Frames
  BY LayoutAssumption DEF None, Frames, Tree
<1>1. /\ First(p, r, u) \in Frames \cup {None} /\ (First(p, r, u) # None => d[First(p, r, u)] = 1)
      /\ Third(p, r, u) \in Frames \cup {None}
      /\ Third(p, r, u) # None /\ ~HugeAt(p, r, u) => d[Third(p, r, u)] = 3
      /\ d[t] = 2
  BY <1>0, WalkFacts
<1>2. First(q, r, u) = First(p, r, u)
  BY <1>0, <1>1 DEF First, Changed
<1>3. Directory(q, r, u) = Directory(p, r, u)
  <2>1. First(p, r, u) # t
    BY <1>0, <1>1
  <2>2. /\ Directory(p, r, u) = Down(p, First(p, r, u), u[2])
        /\ Directory(q, r, u) = Down(q, First(q, r, u), u[2])
    BY DEF Directory, First
  <2> QED
    BY <1>2, <2>1, <2>2 DEF Changed
<1>4. SamePlace(u, v) <=> Directory(p, r, u) = t /\ u[3] = v[3]
  <2>1. SamePlace(u, v) => Directory(p, r, u) = t
    BY DEF SamePlace, Directory
  <2>2. Directory(p, r, u) = t => u[1] = v[1] /\ u[2] = v[2]
    BY <1>0, WalkUnique
  <2> QED
    BY <2>1, <2>2 DEF SamePlace
<1>5. SamePlace(u, v) => Third(q, r, u) = k /\ (HugeAt(q, r, u) <=> huge)
  BY <1>3, <1>4 DEF Third, HugeAt, Changed
<1>6. ASSUME ~SamePlace(u, v)
      PROVE  /\ Third(q, r, u) = Third(p, r, u)
             /\ HugeAt(q, r, u) <=> HugeAt(p, r, u)
  BY <1>3, <1>4, <1>6 DEF Third, HugeAt, Changed
<1>7. ASSUME ~SamePlace(u, v)
      PROVE  Translate(q, r, u) = Translate(p, r, u)
  <2>1. ~HugeAt(p, r, u) => Third(p, r, u) # t
    BY <1>0, <1>1
  <2>2. ~HugeAt(p, r, u) => Down(q, Third(p, r, u), u[4]) = Down(p, Third(p, r, u), u[4])
    BY <2>1 DEF Changed
  <2> QED
    BY <1>6, <1>7, <2>2, TranslateIs
<1> QED
  BY <1>2, <1>3, <1>5, <1>6, <1>7

\* A change in a table of level 3 concerns one page.
LEMMA TableChanged ==
    ASSUME NEW p, NEW r, NEW U, NEW d, IsMemory(p), Tree(p, r, U, d), NEW v \in Virtual,
           ~HugeAt(p, r, v), NEW t \in Frames, t = Third(p, r, v), NEW k, NEW huge \in BOOLEAN,
           NEW q, Changed(p, q, t, v[4], k, huge)
    PROVE  PageChanged(p, q, r, v, k)
<1> SUFFICES ASSUME NEW u \in Virtual
             PROVE  /\ First(q, r, u) = First(p, r, u)
                    /\ Directory(q, r, u) = Directory(p, r, u)
                    /\ Third(q, r, u) = Third(p, r, u)
                    /\ HugeAt(q, r, u) <=> HugeAt(p, r, u)
                    /\ Translate(q, r, u) = IF u = v THEN k ELSE Translate(p, r, u)
  BY DEF PageChanged
<1>0. None \notin Frames /\ d[r] = 0 /\ r \in Frames
  BY LayoutAssumption DEF None, Frames, Tree
<1>1. /\ First(p, r, u) \in Frames \cup {None} /\ (First(p, r, u) # None => d[First(p, r, u)] = 1)
      /\ Directory(p, r, u) \in Frames \cup {None}
      /\ Directory(p, r, u) # None => d[Directory(p, r, u)] = 2
  BY WalkFacts
<1>2. d[t] = 3
  BY <1>0, WalkFacts
<1>3. First(q, r, u) = First(p, r, u)
  BY <1>0, <1>1, <1>2 DEF First, Changed
<1>4. Directory(q, r, u) = Directory(p, r, u)
  <2>1. First(p, r, u) # t
    BY <1>0, <1>1, <1>2
  <2>2. /\ Directory(p, r, u) = Down(p, First(p, r, u), u[2])
        /\ Directory(q, r, u) = Down(q, First(q, r, u), u[2])
    BY DEF Directory, First
  <2> QED
    BY <1>3, <2>1, <2>2 DEF Changed
<1>5. Third(q, r, u) = Third(p, r, u) /\ (HugeAt(q, r, u) <=> HugeAt(p, r, u))
  <2>1. Directory(p, r, u) # t
    BY <1>0, <1>1, <1>2
  <2> QED
    BY <1>4, <2>1 DEF Third, HugeAt, Changed
<1>6. Translate(q, r, v) = k
  <2>1. Directory(q, r, v) = Directory(p, r, v) /\ Third(q, r, v) = t /\ ~HugeAt(q, r, v)
    <3>1. /\ First(p, r, v) \in Frames \cup {None} /\ (First(p, r, v) # None => d[First(p, r, v)] = 1)
          /\ Directory(p, r, v) \in Frames \cup {None}
          /\ Directory(p, r, v) # None => d[Directory(p, r, v)] = 2
      BY WalkFacts
    <3>2. First(q, r, v) = First(p, r, v)
      BY <1>0, <1>2, <3>1 DEF First, Changed
    <3>3. First(p, r, v) # t /\ Directory(p, r, v) # t
      BY <1>0, <1>2, <3>1
    <3>4. Directory(q, r, v) = Directory(p, r, v)
      <4>1. /\ Directory(p, r, v) = Down(p, First(p, r, v), v[2])
            /\ Directory(q, r, v) = Down(q, First(q, r, v), v[2])
        BY DEF Directory, First
      <4> QED
        BY <3>2, <3>3, <4>1 DEF Changed
    <3> QED
      BY <3>3, <3>4 DEF Third, HugeAt, Changed
  <2> QED
    BY <2>1, TranslateIs DEF Changed
<1>7. ASSUME u # v PROVE Translate(q, r, u) = Translate(p, r, u)
  <2>1. ASSUME ~HugeAt(p, r, u), Third(p, r, u) = t PROVE u[4] # v[4]
    <3>1. SamePlace(u, v)
      BY <1>0, <2>1, WalkUnique DEF SamePlace
    <3> QED
      BY <1>7, <3>1, SamePlaceIs
  <2>2. ~HugeAt(p, r, u) => Down(q, Third(p, r, u), u[4]) = Down(p, Third(p, r, u), u[4])
    BY <2>1 DEF Changed
  <2> QED
    BY <1>5, <2>2, TranslateIs
<1> QED
  BY <1>3, <1>4, <1>5, <1>6, <1>7

-------------------------------------------------------------------------------
(***************************************************************************)
(* The maps of the bootloader                                              *)
(***************************************************************************)

\* A slot that maps physical memory one to one does so at pages.
LEMMA VIsVirtual ==
    ASSUME NEW slot \in Nat, NEW f \in Nat
    PROVE  V(slot, f) \in Virtual /\ V(slot, f)[1] = slot
<1>1. HugeFrames \in Nat \ {0} /\ DirEntries \in Nat \ {0}
  BY GeometryAssumption
<1>2. HugeFrames * DirEntries \in Nat \ {0}
  BY <1>1
<1>3. \A a \in Nat, b \in Nat \ {0} : a \div b \in Nat /\ a % b \in 0 .. b - 1
  OBVIOUS
<1>4. f \div (HugeFrames * DirEntries) \in Nat /\ f \div HugeFrames \in Nat /\ f % HugeFrames \in 0 .. HugeFrames - 1
  BY <1>1, <1>2, <1>3
<1>5. (f \div HugeFrames) % DirEntries \in Nat
  <2>1. (f \div HugeFrames) % DirEntries \in 0 .. DirEntries - 1
    BY <1>1, <1>3, <1>4
  <2> QED
    BY <1>1, <2>1
<1> QED
  BY <1>4, <1>5 DEF V, Virtual

\* The pages of a slot by the divisions that make them.
LEMMA VIndices ==
    ASSUME NEW slot, NEW f \in Nat
    PROVE  /\ V(slot, f)[1] = slot
           /\ V(slot, f)[2] = (f \div HugeFrames) \div DirEntries
           /\ V(slot, f)[3] = (f \div HugeFrames) % DirEntries
           /\ V(slot, f)[4] = f % HugeFrames
<1>1. f \div (HugeFrames * DirEntries) = (f \div HugeFrames) \div DirEntries
  BY GeometryAssumption, DivisionTwice
<1> QED
  BY <1>1 DEF V

\* The frames of a huge page appear behind the same entry of a directory, and
\* those of two huge pages do not.
LEMMA VInHugePage ==
    ASSUME NEW slot, NEW f \in Nat
    PROVE  /\ HugeFrames * (f \div HugeFrames) \in Nat
           /\ f = HugeFrames * (f \div HugeFrames) + V(slot, f)[4]
           /\ SamePlace(V(slot, f), V(slot, HugeFrames * (f \div HugeFrames)))
<1> DEFINE c == HugeFrames * (f \div HugeFrames)
<1>1. /\ f \div HugeFrames \in Nat /\ f % HugeFrames \in Nat /\ c \in Nat
      /\ f = c + (f % HugeFrames)
  BY GeometryAssumption, DivisionIs
<1>2. c \div HugeFrames = f \div HugeFrames
  <2>1. (HugeFrames * (f \div HugeFrames) + 0) \div HugeFrames = f \div HugeFrames
    BY <1>1, GeometryAssumption, DivisionUnique
  <2> QED
    BY <1>1, <2>1
<1> HIDE DEF c
<1>3. SamePlace(V(slot, f), V(slot, c))
  BY <1>1, <1>2, VIndices DEF SamePlace
<1> QED
  BY <1>1, <1>3, VIndices DEF c

LEMMA VIsOne ==
    ASSUME NEW s, NEW t, NEW f \in Nat, NEW g \in Nat, SamePlace(V(s, f), V(t, g))
    PROVE  /\ f \div HugeFrames = g \div HugeFrames
           /\ V(s, f)[4] = V(t, g)[4] => f = g
<1> DEFINE x == f \div HugeFrames
           y == g \div HugeFrames
<1>1. x \in Nat /\ y \in Nat /\ HugeFrames \in Nat \ {0} /\ DirEntries \in Nat \ {0}
  BY GeometryAssumption, DivisionIs
<1>2. x \div DirEntries = y \div DirEntries /\ x % DirEntries = y % DirEntries
  BY VIndices DEF SamePlace
<1>3. f = HugeFrames * x + (f % HugeFrames) /\ g = HugeFrames * y + (g % HugeFrames)
  BY <1>1, DivisionIs
<1> HIDE DEF x, y
<1>4. x = DirEntries * (x \div DirEntries) + (x % DirEntries)
      /\ y = DirEntries * (y \div DirEntries) + (y % DirEntries)
  BY <1>1, DivisionIs
<1>5. x = y
  BY <1>2, <1>4
<1> QED
  BY <1>3, <1>5, VIndices DEF x, y

\* The chunks of an entry are huge pages, the ones that hold its frames among them.
LEMMA ChunksHold ==
    ASSUME NEW e \in MapEntries
    PROVE  /\ Chunks(e) \in Seq(Nat)
           /\ \A c \in Range(Chunks(e)) : c = HugeFrames * (c \div HugeFrames)
           /\ \A f \in e.base .. (e.base + e.length - 1) :
                HugeFrames * (f \div HugeFrames) \in Range(Chunks(e))
<1> DEFINE first == e.base \div HugeFrames
           end == (e.base + e.length + HugeFrames - 1) \div HugeFrames
           n == end - 1 - first + 1
<1>1. HugeFrames \in Nat \ {0} /\ e.base \in Nat /\ e.length \in Nat
  BY GeometryAssumption DEF MapEntries
<1>2. e.base + e.length + HugeFrames - 1 \in Nat
  BY <1>1
<1>3. first \in Nat /\ end \in Nat
  BY <1>1, <1>2, DivisionIs
<1>4. Chunks(e) = [k \in 1 .. n |-> (first + k - 1) * HugeFrames]
  BY DEF Chunks
<1>5. ASSUME NEW f \in e.base .. (e.base + e.length - 1)
      PROVE  f \in Nat /\ f \div HugeFrames \in Nat /\ first <= f \div HugeFrames /\ f \div HugeFrames + 1 <= end
  <2>1. f \in Nat /\ e.base <= f /\ f + HugeFrames <= e.base + e.length + HugeFrames - 1
    BY <1>1
  <2>2. (f + HugeFrames) \div HugeFrames = f \div HugeFrames + 1
    BY <1>1, <2>1, DivisionNext
  <2>3. first <= f \div HugeFrames
    BY <1>1, <2>1, DivisionMonotonic
  <2>4. f + HugeFrames \in Nat
    BY <1>1, <2>1
  <2>5. (f + HugeFrames) \div HugeFrames <= end
    BY <1>1, <1>2, <2>1, <2>4, DivisionMonotonic
  <2> QED
    BY <1>1, <2>1, <2>2, <2>3, <2>5, DivisionIs
<1> HIDE DEF first, end
<1>6. DOMAIN Chunks(e) = 1 .. n /\ n \in Int
  BY <1>3, <1>4
<1>7. \A k \in 1 .. n : Chunks(e)[k] = HugeFrames * (first + k - 1) /\ first + k - 1 \in Nat
  BY <1>1, <1>3, <1>4
<1>8. Chunks(e) \in Seq(Nat)
  <2>1. \A k \in 1 .. n : Chunks(e)[k] \in Nat
    BY <1>1, <1>7
  <2> HIDE DEF n
  <2>2. \A k \in 1 .. n : (first + k - 1) * HugeFrames \in Nat
    BY <1>4, <2>1
  <2> QED
    BY <1>4, <1>6, <2>2
<1>9. \A c \in Range(Chunks(e)) : c = HugeFrames * (c \div HugeFrames)
  <2> SUFFICES ASSUME NEW k \in 1 .. n
               PROVE  Chunks(e)[k] = HugeFrames * (Chunks(e)[k] \div HugeFrames)
    BY <1>6 DEF Range
  <2> DEFINE q == first + k - 1
  <2>1. q \in Nat /\ Chunks(e)[k] = HugeFrames * q
    BY <1>7
  <2> HIDE DEF q
  <2>2. (HugeFrames * q + 0) \div HugeFrames = q
    BY <1>1, <2>1, DivisionUnique
  <2>3. HugeFrames * q + 0 = HugeFrames * q
    BY <1>1, <2>1
  <2> QED
    BY <2>1, <2>2, <2>3
<1>10. \A f \in e.base .. (e.base + e.length - 1) : HugeFrames * (f \div HugeFrames) \in Range(Chunks(e))
  <2> SUFFICES ASSUME NEW f \in e.base .. (e.base + e.length - 1)
               PROVE  HugeFrames * (f \div HugeFrames) \in Range(Chunks(e))
    OBVIOUS
  <2> DEFINE q == f \div HugeFrames
             k == q - first + 1
  <2>1. q \in Nat /\ first <= q /\ q + 1 <= end
    BY <1>5
  <2> HIDE DEF q
  <2>2. k \in 1 .. n /\ first + k - 1 = q
    BY <1>3, <2>1
  <2>3. Chunks(e)[k] = HugeFrames * q
    BY <1>7, <2>2
  <2> QED
    BY <1>6, <2>2, <2>3 DEF Range, q
<1> QED
  BY <1>8, <1>9, <1>10

\* One small page for every frame.
LEMMA SmallPagesHold ==
    ASSUME NEW slot, NEW first \in Nat, NEW last \in Int
    PROVE  /\ SmallPages(slot, first, last) \in Seq({MapReq(slot, f, FALSE, TRUE) : f \in first .. last})
           /\ Range(SmallPages(slot, first, last)) = {MapReq(slot, f, FALSE, TRUE) : f \in first .. last}
<1> DEFINE n == last - first + 1
           R(f) == MapReq(slot, f, FALSE, TRUE)
<1>1. SmallPages(slot, first, last) = [k \in 1 .. n |-> R(first + k - 1)]
  BY DEF SmallPages
<1>2. n \in Int
  OBVIOUS
<1>3. \A k \in 1 .. n : first + k - 1 \in first .. last
  OBVIOUS
<1>4. \A f \in first .. last : f - first + 1 \in 1 .. n /\ first + (f - first + 1) - 1 = f
  OBVIOUS
<1> HIDE DEF n, R
<1>5. SmallPages(slot, first, last) \in Seq({R(f) : f \in first .. last})
  BY <1>1, <1>2, <1>3
<1>6. Range(SmallPages(slot, first, last)) = {R(f) : f \in first .. last}
  BY <1>1, <1>3, <1>4 DEF Range
<1> QED
  BY <1>5, <1>6 DEF R

\* A map of a frame that is there is one of the bootloader's.
LEMMA IsBootRequest ==
    ASSUME NEW slot \in {Identity, HHDM, Kern}, NEW f \in Frames, NEW huge \in BOOLEAN,
           NEW cached \in BOOLEAN, huge => HugeFits(f)
    PROVE  MapReq(slot, f, huge, cached) \in BootRequests
<1> DEFINE r == MapReq(slot, f, huge, cached)
<1>1. r.huge = huge /\ r.phys = f
  BY DEF MapReq
<1>2. r \in {MapReq(t, g, h, c) : t \in {Identity, HHDM, Kern}, g \in Frames, h \in BOOLEAN, c \in BOOLEAN}
  OBVIOUS
<1> HIDE DEF r
<1>3. r \in BootRequests
  BY <1>1, <1>2 DEF BootRequests
<1> QED
  BY <1>3 DEF r

\* The maps for a chunk.
LEMMA ChunkMapsHold ==
    ASSUME NEW e, NEW f \in Nat, HugeFits(f), NEW q
    PROVE  /\ ChunkMaps(e, f) \in Seq(BootRequests)
           /\ q \in Range(ChunkMaps(e, f)) <=>
                \/ q = MapReq(HHDM, f, TRUE, IsUsable(e))
                \/ q = MapReq(Identity, f, TRUE, TRUE) /\ f > LowFrames /\ IsUsable(e)
<1> DEFINE a == MapReq(HHDM, f, TRUE, IsUsable(e))
           b == MapReq(Identity, f, TRUE, TRUE)
           low == f <= LowFrames \/ ~IsUsable(e)
           h == << a >>
           t == IF low THEN << >> ELSE << b >>
<1>1. f \in Frames
  BY GeometryAssumption, LayoutAssumption DEF HugeFits, Frames
<1>2. a \in BootRequests /\ b \in BootRequests
  <2>1. IsUsable(e) \in BOOLEAN
    BY DEF IsUsable
  <2> QED
    BY <1>1, <2>1, IsBootRequest
<1>3. ChunkMaps(e, f) = h \o t
  BY DEF ChunkMaps
<1>4. low <=> ~(f > LowFrames /\ IsUsable(e))
  BY GeometryAssumption
<1> HIDE DEF a, b, low
<1>5. h \in Seq(BootRequests) /\ Range(h) = {a}
  BY <1>2 DEF Range
<1>6. t \in Seq(BootRequests) /\ Range(t) = IF low THEN {} ELSE {b}
  <2>1. << b >> \in Seq(BootRequests) /\ Range(<< b >>) = {b}
    BY <1>2 DEF Range
  <2>2. << >> \in Seq(BootRequests) /\ Range(<< >>) = {}
    BY DEF Range
  <2> QED
    BY <2>1, <2>2
<1> HIDE DEF h, t
<1>7. ChunkMaps(e, f) \in Seq(BootRequests) /\ Range(ChunkMaps(e, f)) = {a} \cup (IF low THEN {} ELSE {b})
  BY <1>3, <1>5, <1>6, ConcatHolds
<1>8. q \in Range(ChunkMaps(e, f)) <=> q = a \/ (q = b /\ ~low)
  BY <1>7
<1>9. q \in Range(ChunkMaps(e, f)) <=> q = a \/ (q = b /\ f > LowFrames /\ IsUsable(e))
  BY <1>4, <1>8
<1> QED
  BY <1>7, <1>9 DEF a, b

\* The maps for the chunks of an entry.
LEMMA EntryMapsHold ==
    ASSUME NEW e \in MapEntries, \A c \in Range(Chunks(e)) : HugeFits(c), NEW q
    PROVE  /\ EntryMaps(e) \in Seq(BootRequests)
           /\ q \in Range(EntryMaps(e)) <=> \E c \in Range(Chunks(e)) : q \in Range(ChunkMaps(e, c))
<1> DEFINE s == [k \in DOMAIN Chunks(e) |-> ChunkMaps(e, Chunks(e)[k])]
<1>1. Chunks(e) \in Seq(Nat)
  BY ChunksHold
<1>2. DOMAIN Chunks(e) = 1 .. Len(Chunks(e)) /\ Len(Chunks(e)) \in Nat
      /\ \A k \in DOMAIN Chunks(e) : Chunks(e)[k] \in Nat /\ Chunks(e)[k] \in Range(Chunks(e))
  BY <1>1 DEF Range
<1>3. \A k \in DOMAIN Chunks(e) : ChunkMaps(e, Chunks(e)[k]) \in Seq(BootRequests)
  BY <1>2, ChunkMapsHold
<1>4. s \in Seq(Seq(BootRequests))
  BY <1>2, <1>3
<1>5. EntryMaps(e) = FlattenSeq(s)
  BY DEF EntryMaps
<1>6. DOMAIN s = DOMAIN Chunks(e) /\ \A k \in DOMAIN Chunks(e) : s[k] = ChunkMaps(e, Chunks(e)[k])
  OBVIOUS
<1> HIDE DEF s
<1>7. EntryMaps(e) \in Seq(BootRequests)
      /\ Range(EntryMaps(e)) = UNION {Range(s[k]) : k \in DOMAIN s}
  BY <1>4, <1>5, FlattenSeqHolds
<1>8. q \in Range(EntryMaps(e)) <=> \E k \in DOMAIN Chunks(e) : q \in Range(ChunkMaps(e, Chunks(e)[k]))
  BY <1>6, <1>7
<1>9. \A c : c \in Range(Chunks(e)) <=> \E k \in DOMAIN Chunks(e) : c = Chunks(e)[k]
  BY DEF Range
<1> QED
  BY <1>7, <1>8, <1>9

\* c is a chunk of entry i of the memory map.
IsChunk(m, i, c) == i \in DOMAIN m.map /\ c \in Range(Chunks(m.map[i]))

LEMMA ChunkFacts ==
    ASSUME NEW m \in Machines
    PROVE  /\ DOMAIN m.map = 1 .. Len(m.map) /\ Len(m.map) \in Nat
           /\ \A i \in DOMAIN m.map :
                /\ m.map[i] \in MapEntries
                /\ \A c \in Range(Chunks(m.map[i])) :
                     c \in Frames /\ HugeFits(c) /\ c = HugeFrames * (c \div HugeFrames)
<1>1. m.map \in Seq(MapEntries) /\ \A i \in DOMAIN m.map : \A f \in Range(Chunks(m.map[i])) : HugeFits(f)
  BY MachinesAssumption
<1>2. DOMAIN m.map = 1 .. Len(m.map) /\ Len(m.map) \in Nat /\ \A i \in DOMAIN m.map : m.map[i] \in MapEntries
  BY <1>1
<1>3. ASSUME NEW i \in DOMAIN m.map, NEW c \in Range(Chunks(m.map[i]))
      PROVE  c \in Frames /\ HugeFits(c) /\ c = HugeFrames * (c \div HugeFrames)
  <2>1. Chunks(m.map[i]) \in Seq(Nat) /\ c = HugeFrames * (c \div HugeFrames)
    BY <1>2, ChunksHold
  <2>2. c \in Nat
    BY <2>1 DEF Range
  <2>3. HugeFits(c)
    BY <1>1
  <2> QED
    BY <2>1, <2>2, <2>3, GeometryAssumption, LayoutAssumption DEF HugeFits, Frames
<1> QED
  BY <1>2, <1>3

\* What the bootloader asks for.
LEMMA BootMapsHold ==
    ASSUME NEW m \in Machines, NEW q
    PROVE  /\ BootMaps(m) \in Seq(BootRequests)
           /\ q \in Range(BootMaps(m)) <=>
                \/ \E f \in LowFrames .. (LowFrames + m.kernelFrames - 1) : q = MapReq(Kern, f, FALSE, TRUE)
                \/ \E i, c : IsChunk(m, i, c) /\ q = MapReq(HHDM, c, TRUE, IsUsable(m.map[i]))
                \/ \E i, c : /\ IsChunk(m, i, c) /\ q = MapReq(Identity, c, TRUE, TRUE)
                             /\ c > LowFrames /\ IsUsable(m.map[i])
                \/ \E f \in 0 .. (LowFrames - 1) : q = MapReq(Identity, f, FALSE, TRUE)
                \/ \E f \in m.imageFirst .. m.imageLast : q = MapReq(Identity, f, FALSE, TRUE)
<1> DEFINE s == [i \in DOMAIN m.map |-> EntryMaps(m.map[i])]
           A == SmallPages(Kern, LowFrames, LowFrames + m.kernelFrames - 1)
           B == FlattenSeq(s)
           C == SmallPages(Identity, 0, LowFrames - 1)
           D == SmallPages(Identity, m.imageFirst, m.imageLast)
<1>1. /\ LowFrames \in Nat /\ m.kernelFrames \in Nat /\ LowFrames + m.kernelFrames <= MaxFrame + 1
      /\ m.imageFirst \in Nat /\ m.imageLast \in Nat /\ m.imageLast <= MaxFrame /\ MaxFrame \in Nat
  BY GeometryAssumption, LayoutAssumption, MachinesAssumption DEF Frames
<1>2. ASSUME NEW slot \in {Identity, HHDM, Kern}, NEW first \in Nat, NEW last \in Int, last <= MaxFrame
      PROVE  /\ SmallPages(slot, first, last) \in Seq(BootRequests)
             /\ Range(SmallPages(slot, first, last)) = {MapReq(slot, f, FALSE, TRUE) : f \in first .. last}
  <2>1. \A f \in first .. last : f \in Frames
    BY <1>1, <1>2 DEF Frames
  <2>2. \A f \in first .. last : MapReq(slot, f, FALSE, TRUE) \in BootRequests
    BY <2>1, IsBootRequest
  <2>3. {MapReq(slot, f, FALSE, TRUE) : f \in first .. last} \subseteq BootRequests
    BY <2>2
  <2>4. /\ SmallPages(slot, first, last) \in Seq({MapReq(slot, f, FALSE, TRUE) : f \in first .. last})
        /\ Range(SmallPages(slot, first, last)) = {MapReq(slot, f, FALSE, TRUE) : f \in first .. last}
    BY SmallPagesHold
  <2> QED
    BY <2>3, <2>4, SeqMonotonic
<1>3. /\ A \in Seq(BootRequests)
      /\ Range(A) = {MapReq(Kern, f, FALSE, TRUE) : f \in LowFrames .. (LowFrames + m.kernelFrames - 1)}
  <2>1. LowFrames + m.kernelFrames - 1 \in Int /\ LowFrames + m.kernelFrames - 1 <= MaxFrame
    BY <1>1
  <2> QED
    BY <1>1, <1>2, <2>1
<1>4. /\ C \in Seq(BootRequests)
      /\ Range(C) = {MapReq(Identity, f, FALSE, TRUE) : f \in 0 .. (LowFrames - 1)}
  <2>1. LowFrames - 1 \in Int /\ LowFrames - 1 <= MaxFrame /\ 0 \in Nat
    BY <1>1
  <2> QED
    BY <1>2, <2>1
<1>5. /\ D \in Seq(BootRequests)
      /\ Range(D) = {MapReq(Identity, f, FALSE, TRUE) : f \in m.imageFirst .. m.imageLast}
  <2>1. m.imageFirst \in Nat /\ m.imageLast \in Int /\ m.imageLast <= MaxFrame
    BY <1>1
  <2> QED
    BY <1>2, <2>1
<1>6. DOMAIN m.map = 1 .. Len(m.map) /\ Len(m.map) \in Nat
  BY ChunkFacts
<1>7. s \in Seq(Seq(BootRequests))
  <2>1. \A i \in DOMAIN m.map : EntryMaps(m.map[i]) \in Seq(BootRequests)
    BY ChunkFacts, EntryMapsHold
  <2> QED
    BY <1>6, <2>1
<1>8. DOMAIN s = DOMAIN m.map /\ \A i \in DOMAIN m.map : s[i] = EntryMaps(m.map[i])
  OBVIOUS
<1>9. BootMaps(m) = ((A \o B) \o C) \o D
  BY DEF BootMaps
<1> HIDE DEF A, C, D, s
<1>10. B \in Seq(BootRequests) /\ Range(B) = UNION {Range(s[i]) : i \in DOMAIN s}
  BY <1>7, FlattenSeqHolds
<1> HIDE DEF B
<1>11. q \in Range(B) <=> \E i, c : IsChunk(m, i, c) /\ q \in Range(ChunkMaps(m.map[i], c))
  <2>1. q \in Range(B) <=> \E i \in DOMAIN m.map : q \in Range(EntryMaps(m.map[i]))
    BY <1>8, <1>10
  <2>2. ASSUME NEW i \in DOMAIN m.map
        PROVE  q \in Range(EntryMaps(m.map[i])) <=>
                 \E c \in Range(Chunks(m.map[i])) : q \in Range(ChunkMaps(m.map[i], c))
    BY ChunkFacts, EntryMapsHold
  <2> QED
    BY <2>1, <2>2 DEF IsChunk
<1>12. ASSUME NEW i, NEW c, IsChunk(m, i, c)
       PROVE  q \in Range(ChunkMaps(m.map[i], c)) <=>
                \/ q = MapReq(HHDM, c, TRUE, IsUsable(m.map[i]))
                \/ q = MapReq(Identity, c, TRUE, TRUE) /\ c > LowFrames /\ IsUsable(m.map[i])
  <2>1. c \in Nat /\ HugeFits(c)
    BY <1>12, ChunkFacts, LayoutAssumption DEF Frames, IsChunk
  <2> QED
    BY <2>1, ChunkMapsHold
<1>13. /\ A \in Seq(BootRequests) /\ B \in Seq(BootRequests)
       /\ C \in Seq(BootRequests) /\ D \in Seq(BootRequests)
  BY <1>3, <1>4, <1>5, <1>10
<1>15. /\ BootMaps(m) \in Seq(BootRequests)
       /\ Range(BootMaps(m)) = Range(A) \cup Range(B) \cup Range(C) \cup Range(D)
  BY <1>9, <1>13, ConcatFour
<1>16. q \in Range(BootMaps(m)) <=> q \in Range(A) \/ q \in Range(B) \/ q \in Range(C) \/ q \in Range(D)
  BY <1>15
<1>17. q \in Range(B) <=>
         \/ \E i, c : IsChunk(m, i, c) /\ q = MapReq(HHDM, c, TRUE, IsUsable(m.map[i]))
         \/ \E i, c : /\ IsChunk(m, i, c) /\ q = MapReq(Identity, c, TRUE, TRUE)
                      /\ c > LowFrames /\ IsUsable(m.map[i])
  BY <1>11, <1>12, Zenon
<1>18. /\ q \in Range(A) <=>
            \E f \in LowFrames .. (LowFrames + m.kernelFrames - 1) : q = MapReq(Kern, f, FALSE, TRUE)
       /\ q \in Range(C) <=> \E f \in 0 .. (LowFrames - 1) : q = MapReq(Identity, f, FALSE, TRUE)
       /\ q \in Range(D) <=> \E f \in m.imageFirst .. m.imageLast : q = MapReq(Identity, f, FALSE, TRUE)
  BY <1>3, <1>4, <1>5, Zenon
<1> QED
  BY <1>15, <1>16, <1>17, <1>18, Zenon

\* What the kernel takes away.
LEMMA KernelUnmapsHold ==
    ASSUME NEW m \in Machines, NEW w
    PROVE  /\ KernelUnmaps(m) \in Seq(UnmapRequests)
           /\ w \in Range(KernelUnmaps(m)) <=>
                \E i, c : IsChunk(m, i, c) /\ IsUsable(m.map[i]) /\ w = UnmapReq(V(Identity, c))
<1> DEFINE s == [i \in DOMAIN m.map |-> EntryUnmaps(m.map[i])]
<1>1. ASSUME NEW i \in DOMAIN m.map
      PROVE  /\ EntryUnmaps(m.map[i]) \in Seq(UnmapRequests)
             /\ w \in Range(EntryUnmaps(m.map[i])) <=>
                  \E c \in Range(Chunks(m.map[i])) : IsUsable(m.map[i]) /\ w = UnmapReq(V(Identity, c))
  <2> DEFINE e == m.map[i]
             R(c) == UnmapReq(V(Identity, c))
  <2>1. Chunks(e) \in Seq(Nat) /\ \A c \in Range(Chunks(e)) : c \in Frames
    BY ChunkFacts, ChunksHold
  <2>2. EntryUnmaps(e) = IF ~IsUsable(e) THEN << >> ELSE [k \in DOMAIN Chunks(e) |-> R(Chunks(e)[k])]
    BY DEF EntryUnmaps
  <2>3. \A c \in Frames : R(c) \in UnmapRequests
    BY DEF UnmapRequests
  <2> HIDE DEF e, R
  <2>4. /\ DOMAIN Chunks(e) = 1 .. Len(Chunks(e)) /\ Len(Chunks(e)) \in Nat
        /\ \A k \in DOMAIN Chunks(e) : R(Chunks(e)[k]) \in UnmapRequests
    BY <2>1, <2>3 DEF Range
  <2>5. CASE ~IsUsable(e)
    <3>1. << >> \in Seq(UnmapRequests) /\ Range(<< >>) = {}
      BY DEF Range
    <3> QED
      BY <2>2, <2>5, <3>1 DEF e
  <2>6. CASE IsUsable(e)
    <3>1. EntryUnmaps(e) \in Seq(UnmapRequests)
      BY <2>2, <2>4, <2>6
    <3>2. w \in Range(EntryUnmaps(e)) <=> \E c \in Range(Chunks(e)) : w = R(c)
      BY <2>2, <2>6 DEF Range
    <3> QED
      BY <2>6, <3>1, <3>2 DEF e, R
  <2> QED
    BY <2>5, <2>6
<1>2. s \in Seq(Seq(UnmapRequests))
  BY <1>1, ChunkFacts
<1>3. KernelUnmaps(m) = FlattenSeq(s)
  BY DEF KernelUnmaps
<1>4. DOMAIN s = DOMAIN m.map /\ \A i \in DOMAIN m.map : s[i] = EntryUnmaps(m.map[i])
  OBVIOUS
<1> HIDE DEF s
<1>5. KernelUnmaps(m) \in Seq(UnmapRequests) /\ Range(KernelUnmaps(m)) = UNION {Range(s[i]) : i \in DOMAIN s}
  BY <1>2, <1>3, FlattenSeqHolds
<1>6. w \in Range(KernelUnmaps(m)) <=> \E i \in DOMAIN m.map : w \in Range(EntryUnmaps(m.map[i]))
  BY <1>4, <1>5
<1> QED
  BY <1>1, <1>5, <1>6 DEF IsChunk

\* A map of the bootloader.
LEMMA BootRequestFacts ==
    ASSUME NEW m \in Machines, NEW q \in Range(BootMaps(m))
    PROVE  /\ q.kind = "map" /\ q.virt \in Virtual /\ q.virt[1] # Heap
           /\ q.phys \in Frames /\ q.huge \in BOOLEAN
           /\ PageEntry(q) \in Entries
           /\ PageEntry(q).phys = q.phys /\ PageEntry(q).huge = q.huge
<1>1. q \in BootRequests
  <2>1. BootMaps(m) \in Seq(BootRequests)
    BY BootMapsHold
  <2> QED
    BY <2>1 DEF Range
<1>2. PICK slot \in {Identity, HHDM, Kern}, f \in Frames, huge \in BOOLEAN, cached \in BOOLEAN :
        q = MapReq(slot, f, huge, cached) /\ (q.huge => HugeFits(q.phys))
  BY <1>1 DEF BootRequests
<1>3. /\ q.kind = "map" /\ q.virt = V(slot, f) /\ q.phys = f
      /\ q.huge = huge /\ q.cached = cached
  BY <1>2 DEF MapReq
<1>4. slot \in Nat /\ slot # Heap /\ f \in Nat
  BY LayoutAssumption DEF Frames
<1>5. q.virt \in Virtual /\ q.virt[1] = slot
  BY <1>3, <1>4, VIsVirtual
<1> QED
  BY <1>2, <1>3, <1>4, <1>5 DEF PageEntry, Entries

\* The values of a function on a finite set are finitely many.
LEMMA RangeFinite ==
    ASSUME NEW S, IsFiniteSet(S), NEW T, NEW f \in [S -> T], \A y \in T : \E x \in S : f[x] = y
    PROVE  IsFiniteSet(T)
<1>1. f \in Surjection(S, T)
  BY DEF Surjection
<1> QED
  BY <1>1, FS_Surjection

LEMMA NeededFinite ==
    ASSUME NEW m \in Machines
    PROVE  IsFiniteSet(TablesNeeded(m))
<1> DEFINE Q == Range(BootMaps(m))
           A == {<< q.virt[1] >> : q \in Q}
           B == {<< q.virt[1], q.virt[2] >> : q \in Q}
           R == {q \in Q : ~q.huge}
           C == {<< q.virt[1], q.virt[2], q.virt[3] >> : q \in R}
<1>1. IsFiniteSet(Q)
  <2>1. BootMaps(m) \in Seq(BootRequests)
    BY BootMapsHold
  <2>2. BootMaps(m) \in [1 .. Len(BootMaps(m)) -> BootRequests] /\ Len(BootMaps(m)) \in Nat
    BY <2>1
  <2>3. IsFiniteSet(1 .. Len(BootMaps(m)))
    BY <2>2, FS_Interval
  <2>4. BootMaps(m) \in [1 .. Len(BootMaps(m)) -> Q]
        /\ \A y \in Q : \E k \in 1 .. Len(BootMaps(m)) : BootMaps(m)[k] = y
    BY <2>2 DEF Range
  <2> HIDE DEF Q
  <2> QED
    BY <2>2, <2>3, <2>4, RangeFinite
<1>2. IsFiniteSet(R)
  BY <1>1, FS_Subset
<1> HIDE DEF Q, R
<1>3. IsFiniteSet(A)
  <2> DEFINE f == [q \in Q |-> << q.virt[1] >>]
  <2>1. f \in [Q -> A] /\ \A y \in A : \E q \in Q : f[q] = y
    OBVIOUS
  <2> HIDE DEF f, A
  <2> QED
    BY <1>1, <2>1, RangeFinite
<1>4. IsFiniteSet(B)
  <2> DEFINE f == [q \in Q |-> << q.virt[1], q.virt[2] >>]
  <2>1. f \in [Q -> B] /\ \A y \in B : \E q \in Q : f[q] = y
    OBVIOUS
  <2> HIDE DEF f, B
  <2> QED
    BY <1>1, <2>1, RangeFinite
<1>5. IsFiniteSet(C)
  <2> DEFINE f == [q \in R |-> << q.virt[1], q.virt[2], q.virt[3] >>]
  <2>1. f \in [R -> C] /\ \A y \in C : \E q \in R : f[q] = y
    OBVIOUS
  <2> HIDE DEF f, C
  <2> QED
    BY <1>2, <2>1, RangeFinite
<1>6. TablesNeeded(m) = (A \cup B) \cup C
  BY DEF TablesNeeded, Q, R
<1> HIDE DEF A, B, C
<1>7. IsFiniteSet(A \cup B)
  BY <1>3, <1>4, FS_Union
<1> QED
  BY <1>5, <1>6, <1>7, FS_Union

\* Where the indices pi lead to.
Lead(p, r, pi) ==
    IF Len(pi) = 1 THEN Down(p, r, pi[1])
    ELSE IF Len(pi) = 2 THEN Down(p, Down(p, r, pi[1]), pi[2])
    ELSE Down(p, Down(p, Down(p, r, pi[1]), pi[2]), pi[3])

LEMMA LeadIs ==
    ASSUME NEW p, NEW r, NEW v
    PROVE  /\ Lead(p, r, << v[1] >>) = First(p, r, v)
           /\ Lead(p, r, << v[1], v[2] >>) = Directory(p, r, v)
           /\ Lead(p, r, << v[1], v[2], v[3] >>) = Third(p, r, v)
  BY DEF Lead, First, Directory, Third

\* The tables the bootloader has still to build, and frames for all of them.
Missing(p, r, m) == {pi \in TablesNeeded(m) : Lead(p, r, pi) = None}

Room(s, r, m) ==
    /\ IsFiniteSet(s.free)
    /\ Cardinality(Missing(s.pte, r, m)) <= Cardinality(s.free)

\* A table that is needed is on the way to a page that is asked for.
LEMMA NeededIs ==
    ASSUME NEW m, NEW pi \in TablesNeeded(m)
    PROVE  \E q \in Range(BootMaps(m)) :
              \/ pi = << q.virt[1] >>
              \/ pi = << q.virt[1], q.virt[2] >>
              \/ pi = << q.virt[1], q.virt[2], q.virt[3] >>
  BY DEF TablesNeeded

\* What is on the way in p and still is in q is not missing.
LEMMA MissingShrinks ==
    ASSUME NEW m \in Machines, NEW p, NEW q, NEW r,
           \A u \in Virtual :
              /\ First(p, r, u) # None => First(q, r, u) # None
              /\ Directory(p, r, u) # None => Directory(q, r, u) # None
              /\ Third(p, r, u) # None => Third(q, r, u) # None
    PROVE  Missing(q, r, m) \subseteq Missing(p, r, m)
<1> SUFFICES ASSUME NEW pi \in TablesNeeded(m), Lead(p, r, pi) # None
             PROVE  Lead(q, r, pi) # None
  BY DEF Missing
<1>1. PICK req \in Range(BootMaps(m)) :
         \/ pi = << req.virt[1] >>
         \/ pi = << req.virt[1], req.virt[2] >>
         \/ pi = << req.virt[1], req.virt[2], req.virt[3] >>
  BY NeededIs
<1> DEFINE u == req.virt
<1>2. u \in Virtual
  BY BootRequestFacts
<1>3. /\ First(p, r, u) # None => First(q, r, u) # None
      /\ Directory(p, r, u) # None => Directory(q, r, u) # None
      /\ Third(p, r, u) # None => Third(q, r, u) # None
  <2> HIDE DEF u
  <2> QED
    BY <1>2
<1>4. \A o : /\ Lead(o, r, << u[1] >>) = First(o, r, u)
             /\ Lead(o, r, << u[1], u[2] >>) = Directory(o, r, u)
             /\ Lead(o, r, << u[1], u[2], u[3] >>) = Third(o, r, u)
  BY LeadIs
<1>5. \/ pi = << u[1] >>
      \/ pi = << u[1], u[2] >>
      \/ pi = << u[1], u[2], u[3] >>
  BY <1>1
<1> HIDE DEF u
<1> QED
  BY <1>3, <1>4, <1>5

LEMMA RoomStays ==
    ASSUME NEW m \in Machines, NEW s, NEW o, NEW r, Room(s, r, m), o.free = s.free,
           \A u \in Virtual :
              /\ First(s.pte, r, u) # None => First(o.pte, r, u) # None
              /\ Directory(s.pte, r, u) # None => Directory(o.pte, r, u) # None
              /\ Third(s.pte, r, u) # None => Third(o.pte, r, u) # None
    PROVE  Room(o, r, m)
<1>1. Missing(o.pte, r, m) \subseteq Missing(s.pte, r, m)
  BY MissingShrinks
<1>2. IsFiniteSet(Missing(s.pte, r, m))
  BY NeededFinite, FS_Subset DEF Missing
<1>3. /\ IsFiniteSet(Missing(o.pte, r, m))
      /\ Cardinality(Missing(o.pte, r, m)) <= Cardinality(Missing(s.pte, r, m))
  BY <1>1, <1>2, FS_Subset
<1>4. Cardinality(Missing(o.pte, r, m)) \in Nat /\ Cardinality(Missing(s.pte, r, m)) \in Nat
  BY <1>2, <1>3, FS_CardinalityType
<1>5. /\ IsFiniteSet(s.free) /\ Cardinality(Missing(s.pte, r, m)) <= Cardinality(s.free)
      /\ Cardinality(s.free) \in Nat
  BY FS_CardinalityType DEF Room
<1> QED
  BY <1>3, <1>4, <1>5 DEF Room

\* A needed table is linked: the frames suffice, and still do.
LEMMA GetOrAllocBoot ==
    ASSUME NEW m \in Machines, NEW s, NEW r, NEW F, Sound(s, r, F), Room(s, r, m),
           NEW v \in Virtual, NEW t \in Frames, NEW i \in Nat, OnTheWay(s.pte, r, v, t, i),
           NEW pi \in TablesNeeded(m),
           \A q : Grows(s.pte, q, r, v) => Lead(q, r, pi) = Down(q, t, i),
           NEW o, o = GetOrAlloc(s, t, i, 0)
    PROVE  /\ Step(s, o, r, v, F)
           /\ Room(o, r, m)
           /\ o.oom = s.oom
           /\ Lead(o.pte, r, pi) = Down(o.pte, t, i)
           /\ Down(o.pte, t, i) # None
<1>1. IsFiniteSet(s.free) /\ Cardinality(Missing(s.pte, r, m)) <= Cardinality(s.free)
  BY DEF Room
<1>2. IsFiniteSet(Missing(s.pte, r, m)) /\ Cardinality(Missing(s.pte, r, m)) \in Nat
      /\ Cardinality(s.free) \in Nat
  BY <1>1, NeededFinite, FS_Subset, FS_CardinalityType DEF Missing
<1>3. Lead(s.pte, r, pi) = Down(s.pte, t, i)
  BY GrowsNot
<1>4. Down(s.pte, t, i) # None \/ s.free # {}
  <2>1. ASSUME Down(s.pte, t, i) = None, s.free = {} PROVE FALSE
    <3>1. pi \in Missing(s.pte, r, m)
      BY <1>3, <2>1 DEF Missing
    <3>2. Cardinality(Missing(s.pte, r, m)) # 0
      BY <1>2, <3>1, FS_EmptySet
    <3>3. Cardinality(s.free) = 0
      BY <2>1, FS_EmptySet
    <3> QED
      BY <1>1, <1>2, <3>2, <3>3
  <2> QED
    BY <2>1
<1>5. /\ Step(s, o, r, v, F)
      /\ Down(o.pte, t, i) # None
      /\ o.oom = s.oom
      /\ o = s \/ (s.free # {} /\ Down(s.pte, t, i) = None /\ o.free = s.free \ {Min(s.free)}
                          /\ Min(s.free) \in s.free)
  BY <1>4, GetOrAllocLinks
<1>6. Lead(o.pte, r, pi) = Down(o.pte, t, i)
  BY <1>5 DEF Step
<1>7. Room(o, r, m)
  <2>1. CASE o = s
    BY <2>1
  <2>2. CASE o # s
    <3>1. /\ Down(s.pte, t, i) = None /\ o.free = s.free \ {Min(s.free)} /\ Min(s.free) \in s.free
      BY <1>5, <2>2
    <3>2. IsFiniteSet(o.free) /\ Cardinality(o.free) = Cardinality(s.free) - 1
      BY <1>1, <3>1, FS_RemoveElement
    <3>3. pi \in Missing(s.pte, r, m) /\ pi \notin Missing(o.pte, r, m)
      BY <1>3, <1>5, <1>6, <3>1 DEF Missing
    <3>4. Missing(o.pte, r, m) \subseteq Missing(s.pte, r, m)
      <4>1. \A u \in Virtual :
              /\ First(s.pte, r, u) # None => First(o.pte, r, u) # None
              /\ Directory(s.pte, r, u) # None => Directory(o.pte, r, u) # None
              /\ Third(s.pte, r, u) # None => Third(o.pte, r, u) # None
        BY <1>5 DEF Step, Grows
      <4> QED
        BY <4>1, MissingShrinks
    <3>5. Missing(o.pte, r, m) \subseteq Missing(s.pte, r, m) \ {pi}
      BY <3>3, <3>4
    <3>6. IsFiniteSet(Missing(s.pte, r, m) \ {pi})
          /\ Cardinality(Missing(s.pte, r, m) \ {pi}) = Cardinality(Missing(s.pte, r, m)) - 1
      BY <1>2, <3>3, FS_RemoveElement
    <3>7. IsFiniteSet(Missing(o.pte, r, m))
          /\ Cardinality(Missing(o.pte, r, m)) <= Cardinality(Missing(s.pte, r, m) \ {pi})
      BY <3>5, <3>6, FS_Subset
    <3>8. Cardinality(Missing(o.pte, r, m)) \in Nat
      BY <3>7, FS_CardinalityType
    <3> QED
      BY <1>1, <1>2, <3>2, <3>6, <3>7, <3>8 DEF Room
  <2> QED
    BY <2>1, <2>2
<1> QED
  BY <1>5, <1>6, <1>7

LEMMA DirectoryBoot ==
    ASSUME NEW m \in Machines, NEW s, NEW r \in Frames, NEW F, Sound(s, r, F), Room(s, r, m),
           NEW req \in Range(BootMaps(m)), NEW v, v = req.virt,
           NEW o, o = WithDirectory(s, r, v, 0)
    PROVE  /\ Step(s, o, r, v, F)
           /\ Room(o, r, m)
           /\ o.oom = s.oom
           /\ Directory(o.pte, r, v) \in Frames
<1> DEFINE a == GetOrAlloc(s, r, v[1], 0)
           t == Down(a.pte, r, v[1])
<1>1. v \in Virtual
  BY BootRequestFacts
<1>2. v[1] \in Nat /\ v[2] \in Nat
  BY <1>1, VirtualFacts
<1>3. << v[1] >> \in TablesNeeded(m) /\ << v[1], v[2] >> \in TablesNeeded(m)
  BY DEF TablesNeeded
<1>4. o = GetOrAlloc(a, t, v[2], 0)
  BY DEF WithDirectory
<1>5. /\ Step(s, a, r, v, F)
      /\ Room(a, r, m)
      /\ a.oom = s.oom
      /\ t # None
  <2> DEFINE pi == << v[1] >>
  <2>1. OnTheWay(s.pte, r, v, r, v[1])
    BY DEF OnTheWay
  <2>2. \A q : Grows(s.pte, q, r, v) => Lead(q, r, pi) = Down(q, r, v[1])
    BY LeadIs DEF First
  <2>3. a = GetOrAlloc(s, r, v[1], 0)
    OBVIOUS
  <2>4. pi \in TablesNeeded(m)
    BY <1>3
  <2> HIDE DEF a, pi
  <2> QED
    BY <1>1, <1>2, <2>1, <2>2, <2>3, <2>4, GetOrAllocBoot
<1> HIDE DEF a
<1>6. Sound(a, r, F)
  BY <1>5 DEF Step
<1>7. t = First(a.pte, r, v) /\ t \in Frames
  BY <1>2, <1>5, <1>6, DownFacts DEF First, Sound
<1> HIDE DEF t
<1>8. /\ Step(a, o, r, v, F)
      /\ Room(o, r, m)
      /\ o.oom = a.oom
      /\ Lead(o.pte, r, << v[1], v[2] >>) = Down(o.pte, t, v[2])
      /\ Down(o.pte, t, v[2]) # None
  <2> DEFINE pi == << v[1], v[2] >>
  <2>1. OnTheWay(a.pte, r, v, t, v[2])
    BY <1>7 DEF OnTheWay
  <2>2. ASSUME NEW q, Grows(a.pte, q, r, v) PROVE Lead(q, r, pi) = Down(q, t, v[2])
    <3>1. First(q, r, v) = t
      BY <1>1, <1>5, <1>7, <2>2 DEF Grows
    <3>2. Directory(q, r, v) = Down(q, t, v[2])
      BY <3>1 DEF Directory, First
    <3> QED
      BY <3>2, LeadIs
  <2>3. pi \in TablesNeeded(m)
    BY <1>3
  <2> HIDE DEF pi
  <2>4. /\ Step(a, o, r, v, F)
        /\ Room(o, r, m)
        /\ o.oom = a.oom
        /\ Lead(o.pte, r, pi) = Down(o.pte, t, v[2])
        /\ Down(o.pte, t, v[2]) # None
    BY <1>1, <1>2, <1>4, <1>5, <1>6, <1>7, <2>1, <2>2, <2>3, GetOrAllocBoot
  <2> QED
    BY <2>4 DEF pi
<1>9. Directory(o.pte, r, v) # None
  <2>1. Lead(o.pte, r, << v[1], v[2] >>) = Directory(o.pte, r, v)
    BY LeadIs
  <2> QED
    BY <1>8, <2>1
<1>10. Directory(o.pte, r, v) \in Frames
  <2>1. PICK d : Tree(o.pte, r, F \ o.free, d)
    BY <1>8 DEF Step, Sound
  <2>2. IsMemory(o.pte)
    BY <1>8 DEF Step, Sound
  <2> QED
    BY <1>1, <1>9, <2>1, <2>2, WalkFacts
<1>11. Step(s, o, r, v, F)
  BY <1>5, <1>8, StepOn
<1> QED
  BY <1>5, <1>8, <1>10, <1>11

LEMMA TableBoot ==
    ASSUME NEW m \in Machines, NEW s, NEW r \in Frames, NEW F, Sound(s, r, F), Room(s, r, m),
           NEW req \in Range(BootMaps(m)), ~req.huge, NEW v, v = req.virt,
           NEW o, o = WithTable(s, r, v, 0)
    PROVE  /\ Step(s, o, r, v, F)
           /\ Room(o, r, m)
           /\ o.oom = s.oom
           /\ Third(o.pte, r, v) # None
<1> DEFINE a == WithDirectory(s, r, v, 0)
           t == Directory(a.pte, r, v)
           pi == << v[1], v[2], v[3] >>
<1>1. v \in Virtual
  BY BootRequestFacts
<1>2. v[3] \in Nat
  BY <1>1, VirtualFacts
<1>3. pi \in TablesNeeded(m)
  BY DEF TablesNeeded
<1>4. o = GetOrAlloc(a, t, v[3], 0)
  BY DEF WithTable
<1>5. /\ Step(s, a, r, v, F)
      /\ Room(a, r, m)
      /\ a.oom = s.oom
      /\ t \in Frames
  <2>1. a = WithDirectory(s, r, v, 0)
    OBVIOUS
  <2> HIDE DEF a
  <2> QED
    BY <2>1, DirectoryBoot
<1>6. Sound(a, r, F) /\ t = Directory(a.pte, r, v) /\ t # None
  BY <1>5, LayoutAssumption DEF Step, None, Frames
<1> HIDE DEF a, t
<1>7. OnTheWay(a.pte, r, v, t, v[3])
  BY <1>6 DEF OnTheWay
<1>8. ASSUME NEW q, Grows(a.pte, q, r, v) PROVE Lead(q, r, pi) = Down(q, t, v[3])
  <2>1. Directory(q, r, v) = t
    BY <1>1, <1>6, <1>8 DEF Grows
  <2>2. Third(q, r, v) = Down(q, t, v[3])
    BY <2>1 DEF Third
  <2> QED
    BY <2>2, LeadIs
<1> HIDE DEF pi
<1>9. /\ Step(a, o, r, v, F)
      /\ Room(o, r, m)
      /\ o.oom = a.oom
      /\ Lead(o.pte, r, pi) = Down(o.pte, t, v[3])
      /\ Down(o.pte, t, v[3]) # None
  BY <1>1, <1>2, <1>3, <1>4, <1>5, <1>6, <1>7, <1>8, GetOrAllocBoot
<1>10. Third(o.pte, r, v) # None
  BY <1>9, LeadIs DEF pi
<1>11. Step(s, o, r, v, F)
  BY <1>5, <1>9, StepOn
<1> QED
  BY <1>5, <1>9, <1>10, <1>11

\* Every entry of a directory comes from a request of its size.
Known(p, r, m) ==
    \A u \in Virtual : Third(p, r, u) # None =>
        \E q \in Range(BootMaps(m)) : SamePlace(q.virt, u) /\ (q.huge <=> HugeAt(p, r, u))

\* Nothing is mapped in the heap's slot.
HeapEmpty(p, r) == \A u \in Virtual : u[1] = Heap => First(p, r, u) = None

\* Two requests for the same place agree on the size.
LEMMA SizesAreOne ==
    ASSUME NEW m \in Machines, SizesAgree(m),
           NEW a \in Range(BootMaps(m)), NEW b \in Range(BootMaps(m)), SamePlace(a.virt, b.virt)
    PROVE  a.huge = b.huge
<1>1. PICK j \in DOMAIN BootMaps(m) : a = BootMaps(m)[j]
  BY DEF Range
<1>2. PICK k \in DOMAIN BootMaps(m) : b = BootMaps(m)[k]
  BY DEF Range
<1>3. SubSeq(a.virt, 1, 3) = SubSeq(b.virt, 1, 3)
  BY BootRequestFacts, SamePlaceIs
<1> QED
  BY <1>1, <1>2, <1>3 DEF SizesAgree

LEMMA HeapStaysEmpty ==
    ASSUME NEW p, NEW q, NEW r, NEW v, HeapEmpty(p, r), Grows(p, q, r, v), v[1] # Heap
    PROVE  HeapEmpty(q, r)
  BY DEF HeapEmpty, Grows

\* The pages that a map or an unmap of page v is about.
Touched(u, v, huge) == IF huge THEN SamePlace(u, v) ELSE u = v

\* The pages of a request lead to its frames.
Delivered(p, r, req) ==
    \A u \in Virtual : Touched(u, req.virt, req.huge) =>
        /\ Translate(p, r, u) = IF req.huge THEN req.phys + u[4] ELSE req.phys
        /\ HugeAt(p, r, u) <=> req.huge

\* From p to q the pages of a request have come to lead to its frames, wherever
\* they led.
Delivers(p, q, r, req) ==
    /\ Delivered(q, r, req)
    /\ \A u \in Virtual : ~Touched(u, req.virt, req.huge) =>
         /\ Translate(q, r, u) = Translate(p, r, u)
         /\ HugeAt(q, r, u) <=> HugeAt(p, r, u)

\* A map of the bootloader finds the tables it needs, and writes one entry into
\* the table that it is for.
LEMMA BootMapStepSound ==
    ASSUME NEW m \in Machines, SizesAgree(m),
           NEW s, NEW r \in Frames, NEW F, Sound(s, r, F), Room(s, r, m),
           Known(s.pte, r, m), HeapEmpty(s.pte, r),
           NEW req \in Range(BootMaps(m)),
           NEW o, o = BootMap(s, r, req)
    PROVE  /\ Sound(o, r, F)
           /\ Room(o, r, m)
           /\ Known(o.pte, r, m)
           /\ HeapEmpty(o.pte, r)
           /\ Delivers(s.pte, o.pte, r, req)
           /\ o.stray = s.stray
           /\ o.free \subseteq s.free
<1> DEFINE v == req.virt
           e == PageEntry(req)
<1>0. None \notin Frames
  BY LayoutAssumption DEF None, Frames
<1>1. /\ v \in Virtual /\ v[1] # Heap /\ req.huge \in BOOLEAN
      /\ e \in Entries /\ e.phys \in Frames /\ e.huge = req.huge
  BY BootRequestFacts
<1>2. v[3] \in Nat /\ v[4] \in Nat
  BY <1>1, VirtualFacts
<1>5. e.phys = req.phys
  BY BootRequestFacts
<1>3. CASE req.huge
  <2> DEFINE a == WithDirectory(s, r, v, 0)
             t == Directory(a.pte, r, v)
             q == SetEntry(a.pte, t, v[3], e)
  <2>1. o = [a EXCEPT !.pte = q]
    BY <1>3 DEF BootMap
  <2>2. /\ Step(s, a, r, v, F) /\ Room(a, r, m) /\ t \in Frames
    <3>1. a = WithDirectory(s, r, v, 0) /\ v = req.virt
      OBVIOUS
    <3> HIDE DEF a, v
    <3> QED
      BY <3>1, DirectoryBoot
  <2> HIDE DEF a, v, e, q
  <2>3. /\ IsState(a) /\ IsMemory(a.pte) /\ a.free \subseteq F /\ F \subseteq Frames
        /\ a.stray = s.stray /\ a.free \subseteq s.free /\ Grows(s.pte, a.pte, r, v)
    BY <2>2 DEF Step, Sound
  <2>4. PICK d : Tree(a.pte, r, F \ a.free, d)
    BY <2>2 DEF Step, Sound
  <2>5. o = [pte |-> q, free |-> a.free, stray |-> a.stray, oom |-> a.oom]
    BY <2>1, <2>3 DEF IsState
  <2>6. o.pte = q /\ o.free = a.free /\ o.stray = a.stray /\ IsState(o)
    BY <2>5 DEF IsState
  <2> DEFINE p == a.pte
             U == F \ a.free
  <2>7. d[t] = 2
    BY <1>0, <1>1, <2>2, <2>3, <2>4, WalkFacts
  <2>8. q = SetEntry(p, t, v[3], e) /\ IsMemory(p) /\ Tree(p, r, U, d) /\ t = Directory(p, r, v)
    BY <2>3, <2>4 DEF q
  <2>9. U = F \ o.free
    BY <2>6
  <2> HIDE DEF p, U, t
  <2>10. IsMemory(q) /\ Tree(q, r, U, d)
    BY <1>1, <1>2, <1>3, <2>2, <2>7, <2>8, SetTree
  <2>11. PlaceChanged(p, q, r, v, e.phys, TRUE)
    <3>1. Changed(p, q, t, v[3], e.phys, e.huge)
      BY <1>1, <1>2, <2>2, <2>8, SetWord
    <3>2. e.huge = TRUE
      BY <1>1, <1>3
    <3>3. Changed(p, q, t, v[3], e.phys, TRUE)
      BY <3>1, <3>2
    <3> QED
      BY <1>1, <2>2, <2>8, <3>3, DirectoryChanged
  <2>12. ASSUME NEW u \in Virtual
         PROVE  /\ First(q, r, u) = First(p, r, u)
                /\ Directory(q, r, u) = Directory(p, r, u)
                /\ SamePlace(u, v) => Third(q, r, u) = e.phys /\ HugeAt(q, r, u)
                /\ ~SamePlace(u, v) => /\ Third(q, r, u) = Third(p, r, u)
                                       /\ HugeAt(q, r, u) <=> HugeAt(p, r, u)
    BY <2>11 DEF PlaceChanged
  <2>13. Sound(o, r, F)
    BY <2>3, <2>6, <2>9, <2>10 DEF Sound
  <2>14. Room(o, r, m)
    <3>1. \A u \in Virtual :
            /\ First(p, r, u) # None => First(q, r, u) # None
            /\ Directory(p, r, u) # None => Directory(q, r, u) # None
            /\ Third(p, r, u) # None => Third(q, r, u) # None
      BY <1>0, <1>1, <2>12
    <3> QED
      BY <2>2, <2>6, <3>1, RoomStays DEF p
  <2>15. Known(q, r, m)
    <3> SUFFICES ASSUME NEW u \in Virtual, Third(q, r, u) # None
                 PROVE  \E z \in Range(BootMaps(m)) :
                           SamePlace(z.virt, u) /\ (z.huge <=> HugeAt(q, r, u))
      BY DEF Known
    <3>1. CASE SamePlace(u, v)
      <4>1. SamePlace(req.virt, u) /\ HugeAt(q, r, u)
        BY <2>12, <3>1 DEF SamePlace, v
      <4> QED
        BY <1>3, <4>1
    <3>2. CASE ~SamePlace(u, v)
      <4>1. Third(p, r, u) # None /\ (HugeAt(q, r, u) <=> HugeAt(p, r, u))
        BY <2>12, <3>2
      <4>2. /\ Third(s.pte, r, u) # None
            /\ HugeAt(p, r, u) <=> HugeAt(s.pte, r, u)
        BY <2>3, <3>2, <4>1 DEF Grows, SamePlace, p
      <4> QED
        BY <4>1, <4>2 DEF Known
    <3> QED
      BY <3>1, <3>2
  <2>16. HeapEmpty(q, r)
    <3>1. HeapEmpty(p, r)
      BY <1>1, <2>3, HeapStaysEmpty DEF p
    <3> QED
      BY <2>12, <3>1 DEF HeapEmpty
  <2>17. Delivers(s.pte, q, r, req)
    <3>1. ASSUME NEW u \in Virtual
          PROVE  /\ HugeAt(p, r, u) <=> HugeAt(s.pte, r, u)
                 /\ Translate(p, r, u) = Translate(s.pte, r, u)
      BY <2>3 DEF Grows, p
    <3>2. ASSUME NEW u \in Virtual, SamePlace(u, v)
          PROVE  Translate(q, r, u) = req.phys + u[4] /\ HugeAt(q, r, u)
      <4>1. Third(q, r, u) = req.phys /\ HugeAt(q, r, u)
        BY <1>5, <2>12, <3>2
      <4> QED
        BY <4>1, TranslateIs
    <3>3. ASSUME NEW u \in Virtual, ~SamePlace(u, v)
          PROVE  Translate(q, r, u) = Translate(p, r, u) /\ (HugeAt(q, r, u) <=> HugeAt(p, r, u))
      BY <2>11, <3>3 DEF PlaceChanged
    <3> QED
      BY <1>3, <3>1, <3>2, <3>3 DEF Delivers, Delivered, Touched, v
  <2> QED
    BY <2>3, <2>6, <2>13, <2>14, <2>15, <2>16, <2>17
<1>4. CASE ~req.huge
  <2> DEFINE a == WithTable(s, r, v, 0)
             pd == Directory(a.pte, r, v)
             t == Down(a.pte, pd, v[3])
             q == SetEntry(a.pte, t, v[4], e)
  <2>1. o = [a EXCEPT !.pte = q,
                      !.stray = IF IsHuge(a.pte, pd, v[3]) THEN @ \cup {t} ELSE @]
    BY <1>4 DEF BootMap
  <2>2. /\ Step(s, a, r, v, F) /\ Room(a, r, m) /\ Third(a.pte, r, v) # None
    <3>1. a = WithTable(s, r, v, 0) /\ v = req.virt
      OBVIOUS
    <3> HIDE DEF a, v
    <3> QED
      BY <1>4, <3>1, TableBoot
  <2>20. t = Third(a.pte, r, v) /\ (IsHuge(a.pte, pd, v[3]) <=> HugeAt(a.pte, r, v))
    BY DEF Third, HugeAt
  <2> HIDE DEF a, v, e, t, pd, q
  <2>3. /\ IsState(a) /\ IsMemory(a.pte) /\ a.free \subseteq F /\ F \subseteq Frames
        /\ a.stray = s.stray /\ a.free \subseteq s.free /\ Grows(s.pte, a.pte, r, v)
    BY <2>2 DEF Step, Sound
  <2>4. PICK d : Tree(a.pte, r, F \ a.free, d)
    BY <2>2 DEF Step, Sound
  <2> DEFINE p == a.pte
             U == F \ a.free
  <2>5. Known(p, r, m)
    <3> SUFFICES ASSUME NEW u \in Virtual, Third(p, r, u) # None
                 PROVE  \E z \in Range(BootMaps(m)) :
                           SamePlace(z.virt, u) /\ (z.huge <=> HugeAt(p, r, u))
      BY DEF Known
    <3>1. HugeAt(p, r, u) <=> HugeAt(s.pte, r, u)
      BY <2>3 DEF Grows
    <3>2. CASE Third(s.pte, r, u) # None
      BY <3>1, <3>2 DEF Known
    <3>3. CASE Third(s.pte, r, u) = None
      <4>1. SamePlace(req.virt, u)
        BY <2>3, <3>3 DEF Grows, SamePlace, v
      <4>2. ~HugeAt(s.pte, r, u)
        <5>1. PICK f : Tree(s.pte, r, F \ s.free, f)
          BY DEF Sound
        <5>2. IsMemory(s.pte)
          BY DEF Sound
        <5> QED
          BY <3>3, <5>1, <5>2, WalkFacts
      <4> QED
        BY <1>4, <3>1, <4>1, <4>2
    <3> QED
      BY <3>2, <3>3
  <2>6. ~HugeAt(p, r, v)
    <3>1. PICK z \in Range(BootMaps(m)) : SamePlace(z.virt, v) /\ (z.huge <=> HugeAt(p, r, v))
      BY <1>1, <2>2, <2>5 DEF Known
    <3>2. z.huge = req.huge
      BY <3>1, SizesAreOne DEF v
    <3> QED
      BY <1>4, <3>1, <3>2
  <2>7. t \in Frames /\ d[t] = 3
    <3> HIDE DEF U
    <3> QED
      BY <1>1, <2>2, <2>3, <2>4, <2>6, <2>20, WalkFacts
  <2>8. q = SetEntry(p, t, v[4], e) /\ IsMemory(p) /\ Tree(p, r, U, d) /\ t = Third(p, r, v)
    BY <2>3, <2>4, <2>20 DEF q
  <2>9. o = [pte |-> q, free |-> a.free, stray |-> a.stray, oom |-> a.oom]
    <3>1. o = [a EXCEPT !.pte = q, !.stray = @]
      BY <2>1, <2>6, <2>20
    <3> QED
      BY <2>3, <3>1 DEF IsState
  <2>10. o.pte = q /\ o.free = a.free /\ o.stray = a.stray /\ IsState(o)
    BY <2>9 DEF IsState
  <2>11. U = F \ o.free
    BY <2>10
  <2> HIDE DEF p, U
  <2>12. IsMemory(q) /\ Tree(q, r, U, d)
    BY <1>1, <1>2, <2>7, <2>8, SetTree
  <2>13. PageChanged(p, q, r, v, e.phys)
    <3>1. Changed(p, q, t, v[4], e.phys, e.huge)
      BY <1>1, <1>2, <2>7, <2>8, SetWord
    <3> QED
      BY <1>1, <2>6, <2>7, <2>8, <3>1, TableChanged
  <2>14. ASSUME NEW u \in Virtual
         PROVE  /\ First(q, r, u) = First(p, r, u)
                /\ Directory(q, r, u) = Directory(p, r, u)
                /\ Third(q, r, u) = Third(p, r, u)
                /\ HugeAt(q, r, u) <=> HugeAt(p, r, u)
    BY <2>13 DEF PageChanged
  <2>15. Sound(o, r, F)
    BY <2>3, <2>10, <2>11, <2>12 DEF Sound
  <2>16. Room(o, r, m)
    <3>1. \A u \in Virtual :
            /\ First(p, r, u) # None => First(q, r, u) # None
            /\ Directory(p, r, u) # None => Directory(q, r, u) # None
            /\ Third(p, r, u) # None => Third(q, r, u) # None
      BY <2>14
    <3> QED
      BY <2>2, <2>10, <3>1, RoomStays DEF p
  <2>17. Known(q, r, m)
    BY <2>5, <2>14 DEF Known
  <2>18. HeapEmpty(q, r)
    <3>1. HeapEmpty(p, r)
      BY <1>1, <2>3, HeapStaysEmpty DEF p
    <3> QED
      BY <2>14, <3>1 DEF HeapEmpty
  <2>19. Delivers(s.pte, q, r, req)
    <3>1. ASSUME NEW u \in Virtual
          PROVE  /\ HugeAt(p, r, u) <=> HugeAt(s.pte, r, u)
                 /\ Translate(p, r, u) = Translate(s.pte, r, u)
      BY <2>3 DEF Grows, p
    <3>2. ASSUME NEW u \in Virtual
          PROVE  /\ HugeAt(q, r, u) <=> HugeAt(p, r, u)
                 /\ Translate(q, r, u) = IF u = v THEN req.phys ELSE Translate(p, r, u)
      BY <1>5, <2>13 DEF PageChanged
    <3> QED
      BY <1>4, <2>6, <3>1, <3>2 DEF Delivers, Delivered, Touched, v
  <2> QED
    BY <2>3, <2>10, <2>15, <2>16, <2>17, <2>18, <2>19
<1> QED
  BY <1>1, <1>3, <1>4

-------------------------------------------------------------------------------
(***************************************************************************)
(* The maps and unmaps of the kernel                                       *)
(***************************************************************************)

\* A map the kernel is asked for; a huge page starts where one can.
MapRequests ==
    {r \in [kind : {"map"}, virt : Virtual, phys : Frames, huge : BOOLEAN, cached : BOOLEAN] :
        r.huge => r.virt[4] = 0 /\ HugeFits(r.phys)}

\* An unmap the kernel is asked for.
Unmaps == [kind : {"unmap"}, virt : Virtual]

LEMMA TranslateType ==
    ASSUME NEW p, NEW r, NEW U, NEW d, IsMemory(p), Tree(p, r, U, d), NEW v \in Virtual
    PROVE  /\ Translate(p, r, v) \in Frames \cup {None}
           /\ Third(p, r, v) = None => Translate(p, r, v) = None
           /\ HugeAt(p, r, v) => Translate(p, r, v) # None
<1>1. v[4] \in Nat /\ v[4] <= HugeFrames - 1 /\ HugeFrames \in Nat
  BY VirtualFacts, GeometryAssumption
<1>2. /\ Third(p, r, v) \in Frames \cup {None}
      /\ HugeAt(p, r, v) => Third(p, r, v) # None /\ HugeFits(Third(p, r, v))
  BY WalkFacts
<1>3. Translate(p, r, v) =
        IF HugeAt(p, r, v) THEN Third(p, r, v) + v[4] ELSE Down(p, Third(p, r, v), v[4])
  BY TranslateIs
<1>4. CASE HugeAt(p, r, v)
  BY <1>1, <1>2, <1>3, <1>4, LayoutAssumption DEF HugeFits, Frames, None
<1>5. CASE ~HugeAt(p, r, v)
  BY <1>1, <1>2, <1>3, <1>5, DownFacts
<1> QED
  BY <1>4, <1>5

\* Pages in the same place have the same directory entry.
LEMMA PlaceShared ==
    ASSUME NEW p, NEW r, NEW u, NEW v, SamePlace(u, v)
    PROVE  /\ Third(p, r, u) = Third(p, r, v)
           /\ HugeAt(p, r, u) <=> HugeAt(p, r, v)
  BY DEF SamePlace, Third, HugeAt, Directory

\* From p to q the pages of a request have come to lead to its frames.
Adds(p, q, r, req) ==
    \A u \in Virtual :
        /\ Touched(u, req.virt, req.huge) =>
             /\ Translate(p, r, u) = None
             /\ Translate(q, r, u) = IF req.huge THEN req.phys + u[4] ELSE req.phys
        /\ ~Touched(u, req.virt, req.huge) =>
             /\ Translate(q, r, u) = Translate(p, r, u)
             /\ Translate(q, r, u) # None => (HugeAt(q, r, u) <=> HugeAt(p, r, u))

\* From p to q the page or the huge page at v has been removed.
Removes(p, q, r, v) ==
    \A u \in Virtual :
        /\ Touched(u, v, HugeAt(p, r, v)) => Translate(q, r, u) = None
        /\ ~Touched(u, v, HugeAt(p, r, v)) =>
             /\ Translate(q, r, u) = Translate(p, r, u)
             /\ HugeAt(q, r, u) <=> HugeAt(p, r, u)

\* The kernel's map sets an entry that is not there.
LEMMA MapAdds ==
    ASSUME NEW b, NEW r, NEW F, Sound(b, r, F), NEW req \in MapRequests,
           Directory(b.pte, r, req.virt) # None,
           req.huge \/ Third(b.pte, r, req.virt) # None,
           ~SizesClash(b.pte, r, req),
           NEW w, w = Slot(b.pte, r, req), w \notin DOMAIN b.pte,
           NEW q, q = SetEntry(b.pte, w[1], w[2], PageEntry(req)),
           NEW o, IsState(o), o.pte = q, o.free = b.free
    PROVE  Sound(o, r, F) /\ Adds(b.pte, q, r, req)
<1> DEFINE v == req.virt
           e == PageEntry(req)
           p == b.pte
           U == F \ b.free
<1>0. None \notin Frames
  BY LayoutAssumption DEF None, Frames
<1>1. v \in Virtual /\ req.huge \in BOOLEAN /\ req.phys \in Frames /\ req.cached \in BOOLEAN
      /\ (req.huge => HugeFits(req.phys))
  BY DEF MapRequests
<1>2. e \in Entries /\ e.phys = req.phys /\ e.huge = req.huge
  BY <1>1 DEF PageEntry, Entries
<1>3. v[3] \in Nat /\ v[4] \in Nat
  BY <1>1, VirtualFacts
<1>4. PICK d : Tree(p, r, U, d)
  BY DEF Sound
<1>5. IsMemory(p)
  BY DEF Sound
<1>6. w = IF req.huge THEN << Directory(p, r, v), v[3] >> ELSE << Third(p, r, v), v[4] >>
  BY DEF Slot, Third
<1>7. SizesClash(p, r, req) <=> Third(p, r, v) # None /\ ~(HugeAt(p, r, v) <=> req.huge)
  <2>1. Directory(p, r, v) \in Frames \cup {None}
    BY <1>1, <1>4, <1>5, WalkFacts
  <2>2. /\ Present(p, Directory(p, r, v), v[3]) <=> Third(p, r, v) # None
        /\ IsHuge(p, Directory(p, r, v), v[3]) \in BOOLEAN
    BY <1>3, <1>5, <2>1, DownFacts DEF Third
  <2> QED
    BY <1>1, <2>2 DEF SizesClash, HugeAt
<1>8. /\ Directory(p, r, v) # None /\ (req.huge \/ Third(p, r, v) # None) /\ ~SizesClash(p, r, req)
      /\ w \notin DOMAIN p /\ q = SetEntry(p, w[1], w[2], e)
  OBVIOUS
<1> HIDE DEF v, e, p, U
<1>9. \A x \in Frames, j \in Nat : << x, j >> \notin DOMAIN p => Down(p, x, j) = None
  BY DEF Down, Present
<1>10. \A f : IsMemory(q) /\ Tree(q, r, U, f) => Sound(o, r, F)
  BY DEF Sound, U
<1>11. CASE req.huge
  <2> DEFINE t == Directory(p, r, v)
  <2>1. t \in Frames /\ d[t] = 2
    BY <1>1, <1>4, <1>5, <1>8, WalkFacts
  <2>2. << t, v[3] >> \notin DOMAIN p /\ q = SetEntry(p, t, v[3], e)
    BY <1>6, <1>8, <1>11
  <2> HIDE DEF t
  <2>3. Third(p, r, v) = None
    BY <1>3, <1>9, <2>1, <2>2 DEF Third, t
  <2>4. IsMemory(q) /\ Tree(q, r, U, d)
    BY <1>2, <1>3, <1>4, <1>5, <1>11, <2>1, <2>2, SetTree
  <2>5. PlaceChanged(p, q, r, v, req.phys, TRUE)
    <3>1. Changed(p, q, t, v[3], e.phys, e.huge)
      BY <1>2, <1>3, <1>5, <2>1, <2>2, SetWord
    <3>2. e.huge = TRUE
      BY <1>1, <1>2, <1>11
    <3>3. Changed(p, q, t, v[3], req.phys, TRUE)
      BY <1>2, <3>1, <3>2
    <3>4. t = Directory(p, r, v)
      BY DEF t
    <3> QED
      BY <1>1, <1>4, <1>5, <2>1, <3>3, <3>4, DirectoryChanged
  <2>6. ASSUME NEW u \in Virtual, SamePlace(u, v)
        PROVE  Translate(p, r, u) = None /\ Translate(q, r, u) = req.phys + u[4]
    <3>1. Third(p, r, u) = None
      BY <2>3, <2>6, PlaceShared
    <3>2. Third(q, r, u) = req.phys /\ HugeAt(q, r, u)
      BY <2>5, <2>6 DEF PlaceChanged
    <3> QED
      BY <1>4, <1>5, <3>1, <3>2, TranslateIs, TranslateType
  <2>7. ASSUME NEW u \in Virtual, ~SamePlace(u, v)
        PROVE  Translate(q, r, u) = Translate(p, r, u) /\ (HugeAt(q, r, u) <=> HugeAt(p, r, u))
    BY <2>5, <2>7 DEF PlaceChanged
  <2>8. Adds(p, q, r, req)
    BY <1>11, <2>6, <2>7 DEF Adds, Touched, v
  <2> QED
    BY <1>10, <2>4, <2>8 DEF p
<1>12. CASE ~req.huge
  <2> DEFINE t == Third(p, r, v)
  <2>1. t # None /\ ~HugeAt(p, r, v)
    BY <1>7, <1>8, <1>12
  <2>2. t \in Frames /\ d[t] = 3
    BY <1>1, <1>4, <1>5, <2>1, WalkFacts
  <2>3. << t, v[4] >> \notin DOMAIN p /\ q = SetEntry(p, t, v[4], e)
    BY <1>6, <1>8, <1>12
  <2>4. t = Third(p, r, v)
    OBVIOUS
  <2> HIDE DEF t
  <2>5. Translate(p, r, v) = None
    BY <1>3, <1>9, <2>1, <2>2, <2>3, <2>4, TranslateIs
  <2>6. IsMemory(q) /\ Tree(q, r, U, d)
    BY <1>2, <1>3, <1>4, <1>5, <2>2, <2>3, SetTree
  <2>7. PageChanged(p, q, r, v, req.phys)
    <3>1. Changed(p, q, t, v[4], e.phys, e.huge)
      BY <1>2, <1>3, <1>5, <2>2, <2>3, SetWord
    <3>2. e.huge \in BOOLEAN
      BY <1>1, <1>2
    <3>3. PageChanged(p, q, r, v, e.phys)
      BY <1>1, <1>4, <1>5, <2>1, <2>2, <2>4, <3>1, <3>2, TableChanged
    <3> QED
      BY <1>2, <3>3
  <2>8. Adds(p, q, r, req)
    BY <1>12, <2>5, <2>7 DEF Adds, Touched, PageChanged, v
  <2> QED
    BY <1>10, <2>6, <2>8 DEF p
<1> QED
  BY <1>1, <1>11, <1>12

\* The kernel's unmap clears the entry it gets to.
LEMMA UnmapRemoves ==
    ASSUME NEW s, NEW r, NEW F, Sound(s, r, F), NEW v \in Virtual, Third(s.pte, r, v) # None,
           NEW q, q = Unmapped(s.pte, r, v),
           NEW o, IsState(o), o.pte = q, o.free = s.free
    PROVE  Sound(o, r, F) /\ Removes(s.pte, q, r, v)
<1> DEFINE p == s.pte
           U == F \ s.free
<1>0. None \notin Frames
  BY LayoutAssumption DEF None, Frames
<1>1. v[3] \in Nat /\ v[4] \in Nat
  BY VirtualFacts
<1>2. PICK d : Tree(p, r, U, d)
  BY DEF Sound
<1>3. IsMemory(p) /\ Third(p, r, v) # None
  BY DEF Sound
<1>4. q = IF HugeAt(p, r, v) THEN Restrict(p, DOMAIN p \ {<< Directory(p, r, v), v[3] >>})
          ELSE Restrict(p, DOMAIN p \ {<< Third(p, r, v), v[4] >>})
  BY DEF Unmapped, HugeAt, Third
<1> HIDE DEF p, U
<1>5. \A f : IsMemory(q) /\ Tree(q, r, U, f) => Sound(o, r, F)
  BY DEF Sound, U
<1>6. CASE HugeAt(p, r, v)
  <2> DEFINE t == Directory(p, r, v)
             i == v[3]
  <2>1. t \in Frames /\ t = Directory(p, r, v) /\ i = v[3]
    BY <1>2, <1>3, WalkFacts
  <2>2. q = Restrict(p, DOMAIN p \ {<< t, i >>})
    BY <1>4, <1>6
  <2> HIDE DEF t, i
  <2>3. IsMemory(q) /\ Tree(q, r, U, d)
    BY <1>2, <1>3, <2>2, DropTree
  <2>4. Changed(p, q, t, i, None, FALSE)
    BY <1>3, <2>2, DropWord
  <2>5. PlaceChanged(p, q, r, v, None, FALSE)
    BY <1>2, <1>3, <2>1, <2>4, DirectoryChanged
  <2>6. ASSUME NEW u \in Virtual, SamePlace(u, v)
        PROVE  Translate(q, r, u) = None
    <3>1. Third(q, r, u) = None
      BY <2>5, <2>6 DEF PlaceChanged
    <3> QED
      BY <2>3, <3>1, TranslateType
  <2>7. Removes(p, q, r, v)
    BY <1>6, <2>5, <2>6 DEF Removes, Touched, PlaceChanged
  <2> QED
    BY <1>5, <2>3, <2>7 DEF p
<1>7. CASE ~HugeAt(p, r, v)
  <2> DEFINE t == Third(p, r, v)
             i == v[4]
  <2>1. t \in Frames /\ t = Third(p, r, v) /\ i = v[4]
    BY <1>2, <1>3, WalkFacts
  <2>2. q = Restrict(p, DOMAIN p \ {<< t, i >>})
    BY <1>4, <1>7
  <2> HIDE DEF t, i
  <2>3. IsMemory(q) /\ Tree(q, r, U, d)
    BY <1>2, <1>3, <2>2, DropTree
  <2>4. Changed(p, q, t, i, None, FALSE)
    BY <1>3, <2>2, DropWord
  <2>5. PageChanged(p, q, r, v, None)
    BY <1>2, <1>3, <1>7, <2>1, <2>4, TableChanged
  <2>6. Removes(p, q, r, v)
    BY <1>7, <2>5 DEF Removes, Touched, PageChanged
  <2> QED
    BY <1>5, <2>3, <2>6 DEF p
<1> QED
  BY <1>6, <1>7

-------------------------------------------------------------------------------
(***************************************************************************)
(* The inductive invariant                                                 *)
(***************************************************************************)

\* The frames that are free or tables.
Kept == machine.free \ held

Loading ==
    phase = "loader" =>
        /\ pte = machine.garbage /\ cr3 = None /\ free = machine.free
        /\ held = {} /\ todo = << >> /\ tlb = {}

Booting ==
    phase = "booting" =>
        /\ Sound(Tables, cr3, Kept)
        /\ Room(Tables, cr3, machine)
        /\ Known(pte, cr3, machine)
        /\ HeapEmpty(pte, cr3)
        /\ held = {} /\ tlb = {}
        /\ todo \in Seq(Range(BootMaps(machine)))

InKernel == phase \in {"kernel", "halted"}

Running ==
    InKernel =>
        /\ Sound(Tables, cr3, Kept)
        /\ held \subseteq machine.free
        /\ todo \in Seq(MapRequests \cup Unmaps)

\* The processor remembers what the tables say.
Cached ==
    InKernel => \A e \in tlb :
        /\ e.virt \in CachedPages /\ e.phys \in Frames
        /\ Translate(pte, cr3, e.virt) = e.phys
        /\ e.huge <=> HugeAt(pte, cr3, e.virt)

\* No frame the PMM may hand out is behind a caller's page, or about to be.
Unseen ==
    InKernel =>
        /\ \A v \in HeapPages : Translate(pte, cr3, v) \notin free
        /\ \A k \in DOMAIN todo : todo[k].kind = "map" =>
             /\ todo[k].phys \notin free
             /\ todo[k].huge => \A j \in 0 .. HugeFrames - 1 : todo[k].phys + j \notin free

Basics ==
    /\ machine \in Machines
    /\ phase \in {"loader", "booting", "kernel", "halted"}
    /\ stray = {}

IInv == Basics /\ Loading /\ Booting /\ Running /\ Cached /\ Unseen

\* What the bootloader needs of the machines it is started on.
Fit == \A m \in Machines : SizesAgree(m) /\ MemorySuffices(m)

LEMMA TablesIs ==
    /\ Tables.pte = pte /\ Tables.free = free /\ Tables.stray = stray /\ Tables.oom = FALSE
    /\ IsState(Tables)
  BY DEF Tables, IsState

LEMMA TablesNext ==
    /\ Tables'.pte = pte' /\ Tables'.free = free' /\ Tables'.stray = stray'
    /\ IsState(Tables')
<1>1. Tables' = [pte |-> pte', free |-> free', stray |-> stray', oom |-> FALSE]
  BY DEF Tables
<1> QED
  BY <1>1 DEF IsState

\* The tables are as sound as before when only frames have changed hands.
LEMMA SoundMoves ==
    ASSUME NEW s, NEW r, NEW F, Sound(s, r, F), NEW o, IsState(o), o.pte = s.pte,
           NEW G, G \subseteq Frames, o.free \subseteq G, G \ o.free = F \ s.free
    PROVE  Sound(o, r, G)
  BY DEF Sound

LEMMA InitIInv == Init => IInv
<1> SUFFICES ASSUME Init PROVE IInv
  OBVIOUS
<1> QED
  BY DEF Init, IInv, Basics, Loading, Booting, Running, Cached, Unseen, InKernel

\* The PML4 is an empty table in the first frame of the PMM.
LEMMA BootInitStep ==
    ASSUME IInv, Fit, BootInit
    PROVE  IInv'
<1> DEFINE r == Min(free)
           d == [x \in Frames |-> IF x = r THEN 0 ELSE 4]
<1>1. machine \in Machines /\ phase = "loader" /\ free = machine.free /\ held = {} /\ tlb = {}
      /\ pte = machine.garbage /\ stray = {}
  BY DEF IInv, Basics, Loading, BootInit
<1>2. /\ IsFiniteSet(free) /\ Cardinality(TablesNeeded(machine)) < Cardinality(free)
      /\ Cardinality(TablesNeeded(machine)) \in Nat /\ Cardinality(free) \in Nat
  BY <1>1, NeededFinite, FS_CardinalityType DEF Fit, MemorySuffices
<1>3. free # {} /\ free \subseteq Frames
  <2>1. free # {}
    <3>1. Cardinality({}) = 0
      BY FS_EmptySet
    <3> QED
      BY <1>2, <3>1
  <2>2. machine.free \subseteq Frames
    BY <1>1, MachinesAssumption
  <2>3. free = machine.free
    BY <1>1
  <2> QED
    BY <2>1, <2>2, <2>3
<1>4. r \in free /\ r \in Frames
  <2>1. free \in SUBSET Nat
    BY <1>3, LayoutAssumption DEF Frames
  <2>2. Min(free) \in free
    BY <1>3, <2>1, MinIsIn
  <2> QED
    BY <1>3, <2>2
<1>5. /\ phase' = "booting" /\ cr3' = r /\ pte' = ClearTable(pte, r) /\ free' = free \ {r}
      /\ stray' = {} /\ todo' = BootMaps(machine) /\ machine' = machine /\ held' = {} /\ tlb' = {}
  <2>1. cr3' = r /\ stray' = {}
    BY <1>3 DEF BootInit
  <2> QED
    BY <1>1, <2>1 DEF BootInit
<1> HIDE DEF r
<1>6. IsMemory(pte)
  BY <1>1, MachinesAssumption DEF IsMemory
<1>7. /\ IsMemory(pte') /\ \A w : w \in DOMAIN pte' <=> w \in DOMAIN pte /\ w[1] # r
  BY <1>5, <1>6, ClearWords
<1>8. \A x \in Frames, j \in Nat : x = r => Down(pte', x, j) = None
  <2> SUFFICES ASSUME NEW j \in Nat PROVE Down(pte', r, j) = None
    OBVIOUS
  <2>1. << r, j >>[1] = r
    OBVIOUS
  <2> QED
    BY <1>7, <2>1 DEF Down, Present
<1>9. Tree(pte', r, free \ free', d)
  <2>1. \A w \in DOMAIN pte' : d[w[1]] = 4
    <3>1. \A w \in DOMAIN pte' : w[1] \in Frames /\ w[1] # r
      BY <1>7 DEF IsMemory
    <3> QED
      BY <3>1
  <2>2. d \in [Frames -> 0 .. 4] /\ d[r] = 0 /\ \A x \in Frames : x # r => d[x] = 4
    BY <1>4
  <2> HIDE DEF d
  <2>3. free \ free' = {r}
    BY <1>4, <1>5
  <2> QED
    BY <1>4, <2>1, <2>2, <2>3 DEF Tree
<1> HIDE DEF d
<1>10. Sound(Tables', r, Kept')
  <2>1. Kept' = free
    BY <1>1, <1>5 DEF Kept
  <2> QED
    BY <1>3, <1>5, <1>7, <1>9, <2>1, TablesNext DEF Sound
<1>11. Room(Tables', r, machine)
  <2>1. Missing(pte', r, machine) \subseteq TablesNeeded(machine)
    BY DEF Missing
  <2>2. /\ IsFiniteSet(TablesNeeded(machine))
        /\ IsFiniteSet(Missing(pte', r, machine))
        /\ Cardinality(Missing(pte', r, machine)) <= Cardinality(TablesNeeded(machine))
        /\ Cardinality(Missing(pte', r, machine)) \in Nat
    BY <1>1, <2>1, NeededFinite, FS_Subset, FS_CardinalityType
  <2>3. IsFiniteSet(free') /\ Cardinality(free') = Cardinality(free) - 1
    BY <1>2, <1>4, <1>5, FS_RemoveElement
  <2>4. Tables'.pte = pte' /\ Tables'.free = free'
    BY TablesNext
  <2> QED
    BY <1>2, <2>2, <2>3, <2>4 DEF Room
<1>12. \A u \in Virtual : First(pte', r, u) = None /\ Third(pte', r, u) = None
  <2> SUFFICES ASSUME NEW u \in Virtual PROVE First(pte', r, u) = None /\ Third(pte', r, u) = None
    OBVIOUS
  <2>1. First(pte', r, u) = None
    BY <1>4, <1>8, VirtualFacts DEF First
  <2> QED
    BY <1>7, <1>9, <2>1, WalkFacts
<1>13. Known(pte', r, machine) /\ HeapEmpty(pte', r)
  BY <1>12 DEF Known, HeapEmpty
<1>14. BootMaps(machine) \in Seq(Range(BootMaps(machine)))
  <2>1. BootMaps(machine) \in Seq(BootRequests)
    BY <1>1, BootMapsHold
  <2>2. \A k \in 1 .. Len(BootMaps(machine)) : BootMaps(machine)[k] \in Range(BootMaps(machine))
    BY <2>1 DEF Range
  <2> QED
    BY <2>1, <2>2, ElementOfSeq, SeqDef
<1>15. Booting'
  BY <1>5, <1>10, <1>11, <1>13, <1>14 DEF Booting
<1> QED
  BY <1>1, <1>5, <1>15 DEF IInv, Basics, Loading, Running, Cached, Unseen, InKernel

LEMMA BootMapStepStep ==
    ASSUME IInv, Fit, BootMapStep
    PROVE  IInv'
<1> DEFINE o == BootMap(Tables, cr3, Head(todo))
<1>1. /\ machine \in Machines /\ phase = "booting" /\ Sound(Tables, cr3, Kept)
      /\ Room(Tables, cr3, machine) /\ Known(pte, cr3, machine) /\ HeapEmpty(pte, cr3)
      /\ held = {} /\ tlb = {} /\ stray = {} /\ todo \in Seq(Range(BootMaps(machine))) /\ todo # << >>
  BY DEF IInv, Basics, Booting, BootMapStep
<1>2. /\ pte' = o.pte /\ free' = o.free /\ stray' = o.stray /\ todo' = Tail(todo)
      /\ machine' = machine /\ phase' = phase /\ cr3' = cr3 /\ held' = held /\ tlb' = tlb
  BY DEF BootMapStep, Install
<1>3. Head(todo) \in Range(BootMaps(machine)) /\ Tail(todo) \in Seq(Range(BootMaps(machine)))
  BY <1>1, HeadTailProperties
<1>4. cr3 \in Frames
  BY <1>1 DEF Sound, Tree
<1>5. /\ Sound(o, cr3, Kept) /\ Room(o, cr3, machine) /\ Known(o.pte, cr3, machine)
      /\ HeapEmpty(o.pte, cr3) /\ o.stray = Tables.stray
  <2>1. o = BootMap(Tables, cr3, Head(todo)) /\ SizesAgree(machine)
    BY <1>1 DEF Fit
  <2>2. Known(Tables.pte, cr3, machine) /\ HeapEmpty(Tables.pte, cr3)
    BY <1>1, TablesIs
  <2> HIDE DEF o
  <2> QED
    BY <1>1, <1>3, <1>4, <2>1, <2>2, BootMapStepSound
<1> HIDE DEF o
<1>6. Kept' = Kept
  BY <1>2 DEF Kept
<1>7. Sound(Tables', cr3, Kept)
  <2>1. Tables'.pte = o.pte /\ Tables'.free = o.free /\ IsState(Tables')
    BY <1>2, TablesNext
  <2> QED
    BY <1>5, <2>1 DEF Sound
<1>8. Room(Tables', cr3, machine)
  BY <1>2, <1>5, TablesNext DEF Room
<1>9. stray' = {}
  BY <1>1, <1>2, <1>5, TablesIs
<1>10. Booting'
  BY <1>1, <1>2, <1>3, <1>5, <1>6, <1>7, <1>8 DEF Booting
<1> QED
  BY <1>1, <1>2, <1>9, <1>10 DEF IInv, Basics, Loading, Running, Cached, Unseen, InKernel

LEMMA KernelInitStep ==
    ASSUME IInv, KernelInit
    PROVE  IInv'
<1>1. /\ machine \in Machines /\ phase = "booting" /\ Sound(Tables, cr3, Kept)
      /\ HeapEmpty(pte, cr3) /\ held = {} /\ tlb = {} /\ stray = {}
  BY DEF IInv, Basics, Booting, KernelInit
<1>2. /\ phase' = "kernel" /\ todo' = KernelUnmaps(machine)
      /\ machine' = machine /\ pte' = pte /\ cr3' = cr3 /\ free' = free /\ held' = held
      /\ tlb' = tlb /\ stray' = stray
  BY DEF KernelInit
<1>3. Sound(Tables', cr3', Kept')
  BY <1>1, <1>2 DEF Tables, Kept
<1>4. UnmapRequests \subseteq Unmaps
  <2> SUFFICES ASSUME NEW f \in Frames PROVE UnmapReq(V(Identity, f)) \in Unmaps
    BY DEF UnmapRequests
  <2>1. V(Identity, f) \in Virtual
    BY VIsVirtual, LayoutAssumption DEF Frames
  <2> QED
    BY <2>1 DEF UnmapReq, Unmaps
<1>5. todo' \in Seq(UnmapRequests)
  BY <1>1, <1>2, KernelUnmapsHold
<1>6. todo' \in Seq(MapRequests \cup Unmaps)
  BY <1>4, <1>5, SeqMonotonic
<1>7. \A k \in DOMAIN todo' : todo'[k].kind = "unmap"
  <2>1. \A k \in DOMAIN todo' : todo'[k] \in UnmapRequests
    BY <1>5, ElementOfSeq
  <2> QED
    BY <1>4, <2>1 DEF Unmaps
<1>8. \A v \in HeapPages : Translate(pte, cr3, v) \notin free
  <2> SUFFICES ASSUME NEW v \in HeapPages PROVE Translate(pte, cr3, v) = None /\ None \notin free
    OBVIOUS
  <2>1. v \in Virtual /\ v[1] = Heap
    BY CallersAssumption
  <2>2. First(pte, cr3, v) = None
    BY <1>1, <2>1 DEF HeapEmpty
  <2>3. PICK d : Tree(pte, cr3, Kept \ free, d)
    BY <1>1, TablesIs DEF Sound
  <2>4. IsMemory(pte) /\ free \subseteq Frames
    BY <1>1, TablesIs DEF Sound
  <2>5. Third(pte, cr3, v) = None
    BY <2>1, <2>2, <2>3, <2>4, WalkFacts
  <2>6. Translate(pte, cr3, v) = None
    BY <2>1, <2>3, <2>4, <2>5, TranslateType
  <2> QED
    BY <2>4, <2>6, LayoutAssumption DEF None, Frames
<1>9. Running' /\ Cached' /\ Unseen'
  BY <1>1, <1>2, <1>3, <1>6, <1>7, <1>8 DEF Running, Cached, Unseen, InKernel
<1> QED
  BY <1>1, <1>2, <1>9 DEF IInv, Basics, Loading, Booting

-------------------------------------------------------------------------------
(***************************************************************************)
(* The steps of the kernel                                                 *)
(***************************************************************************)

LEMMA KernelFacts ==
    ASSUME IInv, InKernel
    PROVE  /\ machine \in Machines /\ stray = {}
           /\ Sound(Tables, cr3, Kept)
           /\ IsMemory(pte) /\ cr3 \in Frames
           /\ \E d : Tree(pte, cr3, Kept \ free, d)
           /\ free \subseteq Kept /\ Kept \subseteq Frames /\ None \notin free
           /\ held \subseteq machine.free
           /\ todo \in Seq(MapRequests \cup Unmaps)
<1>1. /\ machine \in Machines /\ stray = {} /\ Sound(Tables, cr3, Kept)
      /\ held \subseteq machine.free /\ todo \in Seq(MapRequests \cup Unmaps)
  BY DEF IInv, Basics, Running
<1>2. /\ IsMemory(pte) /\ Kept \subseteq Frames /\ free \subseteq Kept
      /\ \E d : Tree(pte, cr3, Kept \ free, d)
  BY <1>1, TablesIs DEF Sound
<1>3. cr3 \in Frames
  BY <1>2 DEF Tree
<1>4. None \notin Frames
  BY LayoutAssumption DEF None, Frames
<1> QED
  BY <1>1, <1>2, <1>3, <1>4

LEMMA TailIs ==
    ASSUME NEW S, NEW s \in Seq(S), s # << >>
    PROVE  /\ Head(s) \in S /\ Tail(s) \in Seq(S)
           /\ Head(s) = s[1] /\ 1 \in DOMAIN s
           /\ \A k \in DOMAIN Tail(s) : k + 1 \in DOMAIN s /\ Tail(s)[k] = s[k + 1]
           /\ Tail(s) # s
<1>1. Len(s) \in Nat /\ Len(s) > 0 /\ Tail(s) \in Seq(S) /\ Len(Tail(s)) = Len(s) - 1
  BY HeadTailProperties, EmptySeq, LenProperties
<1>2. DOMAIN s = 1 .. Len(s) /\ DOMAIN Tail(s) = 1 .. Len(Tail(s))
  BY <1>1, LenProperties
<1>3. Head(s) \in S /\ \A i \in 1 .. Len(Tail(s)) : Tail(s)[i] = s[i + 1]
  BY HeadTailProperties
<1>4. Head(s) = s[1]
  OBVIOUS
<1>5. \A k \in 1 .. Len(Tail(s)) : k + 1 \in 1 .. Len(s)
  BY <1>1
<1>6. Tail(s) # s
  <2>1. \A n \in Nat : n - 1 # n
    OBVIOUS
  <2> QED
    BY <1>1, <2>1, Zenon
<1>7. 1 \in 1 .. Len(s)
  BY <1>1
<1> QED
  BY <1>1, <1>2, <1>3, <1>4, <1>5, <1>6, <1>7, Zenon

\* A caller's request changes no table.
LEMMA AskStep ==
    ASSUME IInv, phase = "kernel",
           UNCHANGED << machine, phase, pte, cr3, free, held, tlb, stray >>,
           todo' \in Seq(MapRequests \cup Unmaps),
           \A k \in DOMAIN todo' : todo'[k].kind = "map" =>
              /\ todo'[k].phys \notin free
              /\ todo'[k].huge => \A j \in 0 .. HugeFrames - 1 : todo'[k].phys + j \notin free
    PROVE  IInv'
<1>1. InKernel /\ InKernel'
  BY DEF InKernel
<1>2. Basics' /\ Loading' /\ Booting'
  BY DEF IInv, Basics, Loading, Booting
<1>3. Running'
  BY <1>1 DEF IInv, Running, Tables, Kept
<1>4. Cached'
  BY <1>1 DEF IInv, Cached
<1>5. Unseen'
  BY <1>1 DEF IInv, Unseen
<1> QED
  BY <1>2, <1>3, <1>4, <1>5 DEF IInv

\* An unmap that gets to the entry removes what it leads to.
LEMMA UnmapReached ==
    ASSUME IInv, UnmapStep, NEW v, v = Head(todo).virt, Reaches(v)
    PROVE  v \in Virtual /\ Sound(Tables', cr3, Kept) /\ Removes(pte, pte', cr3, v)
<1>1. /\ phase = "kernel" /\ todo # << >> /\ Head(todo).kind = "unmap" /\ free' = free
      /\ pte' = Unmapped(pte, cr3, v)
  BY DEF UnmapStep
<1>2. InKernel
  BY <1>1 DEF InKernel
<1>3. /\ Sound(Tables, cr3, Kept) /\ IsMemory(pte) /\ todo \in Seq(MapRequests \cup Unmaps)
  BY <1>2, KernelFacts
<1>4. Head(todo) \in MapRequests \cup Unmaps
  BY <1>1, <1>3, TailIs
<1>5. v \in Virtual
  BY <1>1, <1>4 DEF MapRequests, Unmaps
<1>6. Third(pte, cr3, v) # None
  <2>1. PICK d : Tree(pte, cr3, Kept \ free, d)
    BY <1>2, KernelFacts
  <2>2. Directory(pte, cr3, v) \in Frames \cup {None} /\ v[3] \in Nat
    BY <1>3, <1>5, <2>1, WalkFacts, VirtualFacts
  <2>3. Present(pte, Directory(pte, cr3, v), v[3])
    BY DEF Reaches
  <2> QED
    BY <1>3, <2>2, <2>3, DownFacts DEF Third
<1>7. Tables.pte = pte /\ Tables.free = free
  BY TablesIs
<1>8. Tables'.pte = pte' /\ Tables'.free = free' /\ IsState(Tables')
  BY TablesNext
<1>9. Third(Tables.pte, cr3, v) # None /\ pte' = Unmapped(Tables.pte, cr3, v)
      /\ Tables'.free = Tables.free
  BY <1>1, <1>6, <1>7, <1>8
<1>10. Sound(Tables', cr3, Kept) /\ Removes(Tables.pte, pte', cr3, v)
  BY <1>3, <1>5, <1>8, <1>9, UnmapRemoves
<1> QED
  BY <1>5, <1>7, <1>10

\* unmap clears the entry and drops what the processor remembers of it.
LEMMA UnmapStepStep ==
    ASSUME IInv, UnmapStep
    PROVE  IInv'
<1> DEFINE v == Head(todo).virt
<1>1. /\ phase = "kernel" /\ phase' = "kernel" /\ todo # << >> /\ Head(todo).kind = "unmap"
      /\ machine' = machine /\ cr3' = cr3 /\ free' = free /\ held' = held /\ stray' = stray
      /\ todo' = Tail(todo)
  BY DEF UnmapStep
<1>2. InKernel /\ InKernel'
  BY <1>1 DEF InKernel
<1>3. /\ machine \in Machines /\ stray = {} /\ Sound(Tables, cr3, Kept)
      /\ IsMemory(pte) /\ cr3 \in Frames /\ None \notin free
      /\ held \subseteq machine.free /\ todo \in Seq(MapRequests \cup Unmaps)
  BY <1>2, KernelFacts
<1>4. /\ Head(todo) \in MapRequests \cup Unmaps /\ todo' \in Seq(MapRequests \cup Unmaps)
      /\ \A k \in DOMAIN todo' : k + 1 \in DOMAIN todo /\ todo'[k] = todo[k + 1]
  BY <1>1, <1>3, TailIs
<1>5. v \in Virtual
  BY <1>1, <1>4 DEF MapRequests, Unmaps
<1>6. Kept' = Kept
  BY <1>1 DEF Kept
<1>7. Basics' /\ Loading' /\ Booting'
  BY <1>1, <1>3 DEF IInv, Basics, Loading, Booting
<1>8. CASE ~Reaches(v)
  <2>1. pte' = pte /\ tlb' = tlb
    BY <1>8 DEF UnmapStep
  <2>2. Running'
    BY <1>1, <1>3, <1>4, <1>6, <2>1 DEF Running, Tables
  <2>3. Cached'
    BY <1>1, <1>2, <2>1 DEF IInv, Cached
  <2>4. Unseen'
    BY <1>1, <1>2, <1>4, <2>1 DEF IInv, Unseen
  <2> QED
    BY <1>7, <2>2, <2>3, <2>4 DEF IInv
<1>9. CASE Reaches(v)
  <2>1. pte' = Unmapped(pte, cr3, v) /\ tlb' = Invlpg(v)
    BY <1>9 DEF UnmapStep
  <2>3. Sound(Tables', cr3, Kept) /\ Removes(pte, pte', cr3, v)
    BY <1>9, UnmapReached
  <2> HIDE DEF v
  <2>4. Running'
    BY <1>1, <1>3, <1>4, <1>6, <2>3 DEF Running
  <2>5. Cached'
    <3> SUFFICES ASSUME NEW e \in tlb'
                 PROVE  /\ e.virt \in CachedPages /\ e.phys \in Frames
                        /\ Translate(pte', cr3, e.virt) = e.phys
                        /\ e.huge <=> HugeAt(pte', cr3, e.virt)
      BY <1>1 DEF Cached
    <3>1. e \in tlb /\ ~Covers(e, v)
      BY <2>1 DEF Invlpg
    <3>2. /\ e.virt \in CachedPages /\ e.phys \in Frames
          /\ Translate(pte, cr3, e.virt) = e.phys
          /\ e.huge <=> HugeAt(pte, cr3, e.virt)
      BY <1>2, <3>1 DEF IInv, Cached
    <3>3. e.virt \in Virtual
      BY <3>2, CallersAssumption
    <3>4. SamePlace(e.virt, v) => ~e.huge /\ e.virt[4] # v[4]
      BY <1>5, <3>1, <3>3, SamePlaceIs DEF Covers
    <3>5. SamePlace(e.virt, v) => (HugeAt(pte, cr3, e.virt) <=> HugeAt(pte, cr3, v))
      BY PlaceShared
    <3>6. e.virt = v => SamePlace(e.virt, v)
      BY DEF SamePlace
    <3>7. ~Touched(e.virt, v, HugeAt(pte, cr3, v))
      BY <3>2, <3>4, <3>5, <3>6 DEF Touched
    <3>8. /\ Translate(pte', cr3, e.virt) = Translate(pte, cr3, e.virt)
          /\ HugeAt(pte', cr3, e.virt) <=> HugeAt(pte, cr3, e.virt)
      BY <2>3, <3>3, <3>7 DEF Removes
    <3> QED
      BY <3>2, <3>8
  <2>6. \A u \in HeapPages : Translate(pte', cr3, u) \notin free
    <3> SUFFICES ASSUME NEW u \in HeapPages PROVE Translate(pte', cr3, u) \notin free
      OBVIOUS
    <3>1. Translate(pte, cr3, u) \notin free /\ u \in Virtual
      BY <1>2, CallersAssumption DEF IInv, Unseen
    <3>2. Translate(pte', cr3, u) = None \/ Translate(pte', cr3, u) = Translate(pte, cr3, u)
      BY <2>3, <3>1 DEF Removes
    <3> QED
      BY <1>3, <3>1, <3>2
  <2>7. Unseen'
    BY <1>1, <1>2, <1>4, <2>6 DEF IInv, Unseen
  <2> QED
    BY <1>7, <2>4, <2>5, <2>7 DEF IInv
<1> QED
  BY <1>8, <1>9

\* The tables that a map of the kernel builds.
LEMMA BuiltFacts ==
    ASSUME IInv, Mapping
    PROVE  /\ Head(todo) \in MapRequests /\ Head(todo).virt \in Virtual
           /\ Step(Tables, Built, cr3, Head(todo).virt, Kept)
           /\ \/ Built.oom = TRUE
              \/ /\ Directory(Built.pte, cr3, Head(todo).virt) # None
                 /\ \/ Head(todo).huge
                    \/ SizesClash(Built.pte, cr3, Head(todo))
                    \/ Third(Built.pte, cr3, Head(todo).virt) # None
<1> DEFINE v == Head(todo).virt
<1>1. InKernel /\ todo # << >> /\ Head(todo).kind = "map"
  BY DEF InKernel, Mapping
<1>2. cr3 \in Frames /\ Sound(Tables, cr3, Kept) /\ todo \in Seq(MapRequests \cup Unmaps)
  BY <1>1, KernelFacts
<1>3. Head(todo) \in MapRequests \cup Unmaps
  BY <1>1, <1>2, TailIs
<1>4. Head(todo) \in MapRequests
  BY <1>1, <1>3 DEF Unmaps
<1>5. v \in Virtual
  BY <1>4 DEF MapRequests
<1>6. Tables.oom = FALSE
  BY TablesIs
<1>7. Built = KernelTables(Tables, cr3, Head(todo))
  BY DEF Built
<1>8. v = Head(todo).virt
  OBVIOUS
<1> HIDE DEF v
<1>9. /\ Step(Tables, Built, cr3, v, Kept)
      /\ \/ Built.oom = TRUE
         \/ /\ Directory(Built.pte, cr3, v) # None
            /\ Head(todo).huge \/ SizesClash(Built.pte, cr3, Head(todo)) \/ Third(Built.pte, cr3, v) # None
  BY <1>2, <1>5, <1>6, <1>7, <1>8, TablesKernel
<1> QED
  BY <1>4, <1>5, <1>8, <1>9

\* A map that sets no entry has changed no translation.
LEMMA GrownStep ==
    ASSUME IInv, InKernel, InKernel', NEW o, NEW v, Step(Tables, o, cr3, v, Kept), Install(o),
           UNCHANGED << machine, cr3, held, tlb >>,
           todo' = todo \/ (todo # << >> /\ todo' = Tail(todo))
    PROVE  IInv'
<1>1. /\ machine \in Machines /\ stray = {} /\ free \subseteq Kept
      /\ held \subseteq machine.free /\ todo \in Seq(MapRequests \cup Unmaps)
  BY KernelFacts
<1>2. /\ pte' = o.pte /\ free' = o.free /\ stray' = o.stray
      /\ Sound(o, cr3, Kept) /\ Grows(pte, o.pte, cr3, v) /\ o.free \subseteq free /\ o.stray = stray
  BY TablesIs DEF Install, Step
<1>3. Kept' = Kept
  BY DEF Kept
<1>4. Sound(Tables', cr3, Kept)
  <2>1. Tables'.pte = o.pte /\ Tables'.free = o.free /\ IsState(Tables')
    BY <1>2, TablesNext
  <2> QED
    BY <1>2, <2>1 DEF Sound
<1>5. /\ todo' \in Seq(MapRequests \cup Unmaps)
      /\ \A k \in DOMAIN todo' : \E j \in DOMAIN todo : todo'[k] = todo[j]
  <2>1. CASE todo' = todo
    BY <1>1, <2>1
  <2>2. CASE todo # << >> /\ todo' = Tail(todo)
    BY <1>1, <2>2, TailIs
  <2> QED
    BY <2>1, <2>2
<1>6. \A u \in Virtual :
        /\ Translate(pte', cr3, u) = Translate(pte, cr3, u)
        /\ HugeAt(pte', cr3, u) <=> HugeAt(pte, cr3, u)
  BY <1>2 DEF Grows
<1>7. Basics' /\ Loading' /\ Booting'
  BY <1>1, <1>2 DEF IInv, Basics, Loading, Booting, InKernel
<1>8. Running'
  BY <1>1, <1>3, <1>4, <1>5 DEF Running
<1>9. Cached'
  <2>1. \A e \in tlb : e.virt \in Virtual
    BY CallersAssumption DEF IInv, Cached
  <2> QED
    BY <1>6, <2>1 DEF IInv, Cached
<1>10. Unseen'
  <2>1. \A u \in HeapPages : Translate(pte', cr3, u) \notin free'
    BY <1>2, <1>6, CallersAssumption DEF IInv, Unseen
  <2>2. \A k \in DOMAIN todo' : todo'[k].kind = "map" =>
          /\ todo'[k].phys \notin free'
          /\ todo'[k].huge => \A j \in 0 .. HugeFrames - 1 : todo'[k].phys + j \notin free'
    BY <1>2, <1>5 DEF IInv, Unseen
  <2> QED
    BY <2>1, <2>2 DEF Unseen
<1> QED
  BY <1>7, <1>8, <1>9, <1>10 DEF IInv

LEMMA MapPanicsStep ==
    ASSUME IInv, MapPanics
    PROVE  IInv'
<1>1. InKernel /\ InKernel' /\ todo' = todo /\ Install(Built) /\ Mapping
      /\ UNCHANGED << machine, cr3, held, tlb >>
  BY DEF InKernel, MapPanics, Mapping
<1> QED
  BY <1>1, BuiltFacts, GrownStep

LEMMA MapFindsStep ==
    ASSUME IInv, MapFinds
    PROVE  IInv'
<1>1. InKernel /\ InKernel' /\ todo # << >> /\ todo' = Tail(todo) /\ Install(Built) /\ Mapping
      /\ UNCHANGED << machine, cr3, held, tlb >>
  BY DEF InKernel, MapFinds, Mapping
<1> QED
  BY <1>1, BuiltFacts, GrownStep

\* The entry that the kernel's map sets adds the pages that were asked for.
LEMMA MapSetsFacts ==
    ASSUME IInv, MapSets
    PROVE  /\ Sound(Tables', cr3, Kept)
           /\ Adds(pte, pte', cr3, Head(todo))
           /\ free' \subseteq free
           /\ stray' = stray
<1> DEFINE req == Head(todo)
           b == Built
           w == TheSlot
<1>1. Mapping /\ ~Panics /\ w \notin DOMAIN b.pte
  BY DEF MapSets
<1>2. req \in MapRequests /\ req.virt \in Virtual /\ Step(Tables, b, cr3, req.virt, Kept)
  BY <1>1, BuiltFacts
<1>3. b.oom # TRUE /\ ~SizesClash(b.pte, cr3, req)
  BY <1>1 DEF Panics
<1>4. Directory(b.pte, cr3, req.virt) # None /\ (req.huge \/ Third(b.pte, cr3, req.virt) # None)
  BY <1>1, <1>3, BuiltFacts
<1>5. /\ Sound(b, cr3, Kept) /\ Grows(pte, b.pte, cr3, req.virt) /\ b.free \subseteq free
      /\ b.stray = stray
  BY <1>2, TablesIs DEF Step
<1>6. /\ pte' = SetEntry(b.pte, w[1], w[2], PageEntry(req)) /\ free' = b.free /\ stray' = b.stray
  <2>1. IsState(b)
    BY <1>5 DEF Sound
  <2>2. Install([b EXCEPT !.pte = SetEntry(@, w[1], w[2], PageEntry(req))])
    BY DEF MapSets
  <2> HIDE DEF b, w, req
  <2> QED
    BY <2>1, <2>2 DEF IsState, Install
<1>7. w = Slot(b.pte, cr3, req)
  BY DEF TheSlot
<1>8. Tables'.pte = pte' /\ Tables'.free = b.free /\ IsState(Tables')
  BY <1>6, TablesNext
<1> HIDE DEF b, w, req
<1>9. Sound(Tables', cr3, Kept) /\ Adds(b.pte, pte', cr3, req)
  BY <1>1, <1>2, <1>3, <1>4, <1>5, <1>6, <1>7, <1>8, MapAdds
<1>10. Adds(pte, pte', cr3, req)
  BY <1>5, <1>9 DEF Adds, Grows
<1> QED
  BY <1>5, <1>6, <1>9, <1>10 DEF req

LEMMA MapSetsStep ==
    ASSUME IInv, MapSets
    PROVE  IInv'
<1> DEFINE req == Head(todo)
<1>1. /\ InKernel /\ InKernel' /\ todo # << >> /\ todo' = Tail(todo) /\ Mapping
      /\ machine' = machine /\ phase' = phase /\ cr3' = cr3 /\ held' = held /\ tlb' = tlb
  BY DEF InKernel, MapSets, Mapping
<1>2. /\ machine \in Machines /\ stray = {} /\ free \subseteq Kept /\ None \notin free
      /\ held \subseteq machine.free /\ todo \in Seq(MapRequests \cup Unmaps)
  BY <1>1, KernelFacts
<1>3. /\ Sound(Tables', cr3, Kept) /\ Adds(pte, pte', cr3, req)
      /\ free' \subseteq free /\ stray' = stray
  BY MapSetsFacts
<1>4. /\ todo' \in Seq(MapRequests \cup Unmaps) /\ req = todo[1] /\ 1 \in DOMAIN todo
      /\ \A k \in DOMAIN todo' : k + 1 \in DOMAIN todo /\ todo'[k] = todo[k + 1]
  BY <1>1, <1>2, TailIs
<1>5. req.kind = "map"
  BY <1>1 DEF Mapping
<1> HIDE DEF req
<1>6. Kept' = Kept
  BY <1>1 DEF Kept
<1>7. Basics' /\ Loading' /\ Booting'
  BY <1>1, <1>2, <1>3 DEF IInv, Basics, Loading, Booting, InKernel
<1>8. Running'
  BY <1>1, <1>2, <1>3, <1>4, <1>6 DEF Running
<1>9. Cached'
  <2> SUFFICES ASSUME NEW e \in tlb
               PROVE  /\ e.virt \in CachedPages /\ e.phys \in Frames
                      /\ Translate(pte', cr3, e.virt) = e.phys
                      /\ e.huge <=> HugeAt(pte', cr3, e.virt)
    BY <1>1 DEF Cached
  <2>1. /\ e.virt \in CachedPages /\ e.phys \in Frames
        /\ Translate(pte, cr3, e.virt) = e.phys
        /\ e.huge <=> HugeAt(pte, cr3, e.virt)
    BY <1>1 DEF IInv, Cached
  <2>2. e.virt \in Virtual /\ Translate(pte, cr3, e.virt) # None
    BY <2>1, CallersAssumption, LayoutAssumption DEF None, Frames
  <2>3. /\ Translate(pte', cr3, e.virt) = Translate(pte, cr3, e.virt)
        /\ HugeAt(pte', cr3, e.virt) <=> HugeAt(pte, cr3, e.virt)
    BY <1>3, <2>2 DEF Adds
  <2> QED
    BY <2>1, <2>3
<1>10. \A u \in HeapPages : Translate(pte', cr3, u) \notin free'
  <2> SUFFICES ASSUME NEW u \in HeapPages PROVE Translate(pte', cr3, u) \notin free'
    OBVIOUS
  <2>1. /\ Translate(pte, cr3, u) \notin free
        /\ req.phys \notin free
        /\ req.huge => \A j \in 0 .. HugeFrames - 1 : req.phys + j \notin free
    BY <1>1, <1>4, <1>5 DEF IInv, Unseen
  <2>2. u \in Virtual /\ u[4] \in 0 .. HugeFrames - 1
    BY CallersAssumption, VirtualFacts
  <2>3. \/ Translate(pte', cr3, u) = Translate(pte, cr3, u)
        \/ Translate(pte', cr3, u) = IF req.huge THEN req.phys + u[4] ELSE req.phys
    BY <1>3, <2>2 DEF Adds
  <2> QED
    BY <1>3, <2>1, <2>2, <2>3
<1>11. Unseen'
  BY <1>1, <1>3, <1>4, <1>10 DEF IInv, Unseen
<1> QED
  BY <1>7, <1>8, <1>9, <1>11 DEF IInv

LEMMA MapMMIOStep ==
    ASSUME IInv, NEW d \in DevicePages, MapMMIO(d[1], d[2])
    PROVE  IInv'
<1> DEFINE n == d[2] - d[1] + 1
           R(k) == MapReq(MMIO, d[1] + k - 1, FALSE, FALSE)
<1>1. /\ phase = "kernel" /\ todo' = [k \in 1 .. n |-> R(k)]
      /\ UNCHANGED << machine, phase, pte, cr3, free, held, tlb, stray >>
  BY DEF MapMMIO, Idle
<1>2. machine \in Machines /\ free \subseteq machine.free
  BY <1>1, KernelFacts DEF InKernel, Kept
<1>3. /\ d[1] \in Frames /\ d[2] \in Frames
      /\ \A f \in machine.free : f < d[1] \/ (f > d[2] /\ f >= d[1] + HugeFrames)
  BY <1>2, CallersAssumption
<1>4. ASSUME NEW k \in 1 .. n
      PROVE  R(k) \in MapRequests /\ R(k).phys \notin free /\ ~R(k).huge
  <2>1. /\ d[1] + k - 1 \in Nat /\ d[1] + k - 1 \in Frames
        /\ d[1] <= d[1] + k - 1 /\ d[1] + k - 1 <= d[2]
    BY <1>3, LayoutAssumption DEF Frames
  <2>2. d[1] + k - 1 \notin free
    <3>1. \A f \in free : f \in Int /\ (f < d[1] \/ f > d[2])
      BY <1>2, <1>3, MachinesAssumption DEF Frames
    <3> QED
      BY <1>3, <2>1, <3>1 DEF Frames
  <2>3. V(MMIO, d[1] + k - 1) \in Virtual
    BY <2>1, VIsVirtual, LayoutAssumption
  <2> QED
    BY <2>1, <2>2, <2>3 DEF MapReq, MapRequests
<1>5. n \in Int
  BY <1>3 DEF Frames
<1> HIDE DEF R, n
<1>6. todo' \in Seq(MapRequests \cup Unmaps)
  <2>1. \A k \in 1 .. n : R(k) \in MapRequests \cup Unmaps
    BY <1>4
  <2> QED
    BY <1>1, <1>5, <2>1
<1>7. \A k \in DOMAIN todo' : k \in 1 .. n /\ todo'[k] = R(k)
  BY <1>1
<1>8. \A k \in DOMAIN todo' : todo'[k].phys \notin free /\ ~todo'[k].huge
  BY <1>4, <1>7
<1> QED
  BY <1>1, <1>6, <1>8, AskStep

LEMMA MapHugeStep ==
    ASSUME IInv, NEW v \in HeapPages, NEW d \in DevicePages,
           v[4] = 0, d[1] % HugeFrames = 0, MapHuge(v, d[1])
    PROVE  IInv'
<1> DEFINE q == [kind |-> "map", virt |-> v, phys |-> d[1], huge |-> TRUE, cached |-> FALSE]
<1>1. /\ phase = "kernel" /\ todo' = << q >>
      /\ UNCHANGED << machine, phase, pte, cr3, free, held, tlb, stray >>
  BY DEF MapHuge, Idle
<1>2. machine \in Machines /\ free \subseteq machine.free
  BY <1>1, KernelFacts DEF InKernel, Kept
<1>3. /\ d[1] \in Frames /\ d[2] \in Frames /\ HugeFits(d[1])
      /\ \A f \in machine.free : f < d[1] \/ (f > d[2] /\ f >= d[1] + HugeFrames)
  BY <1>2, CallersAssumption
<1>4. v \in Virtual
  BY CallersAssumption
<1>5. q \in MapRequests
  BY <1>3, <1>4 DEF MapRequests
<1>6. ASSUME NEW j \in 0 .. HugeFrames - 1
      PROVE  q.phys + j \notin free
  <2>1. \A f \in free : f \in Int /\ (f < d[1] \/ f >= d[1] + HugeFrames)
    BY <1>2, <1>3, MachinesAssumption DEF Frames
  <2> QED
    BY <1>3, <2>1, GeometryAssumption DEF Frames
<1>7. q.phys \notin free
  <2>1. 0 \in 0 .. HugeFrames - 1
    BY GeometryAssumption
  <2>2. q.phys + 0 = q.phys
    BY <1>3 DEF Frames
  <2> QED
    BY <1>6, <2>1, <2>2
<1> HIDE DEF q
<1>8. todo' \in Seq(MapRequests \cup Unmaps)
  BY <1>1, <1>5
<1>9. \A k \in DOMAIN todo' : todo'[k] = q
  BY <1>1
<1> QED
  BY <1>1, <1>6, <1>7, <1>8, <1>9, AskStep

LEMMA UnmapAskStep ==
    ASSUME IInv, NEW v \in HeapPages, Unmap(v)
    PROVE  IInv'
<1>1. /\ phase = "kernel" /\ todo' = << UnmapReq(v) >>
      /\ UNCHANGED << machine, phase, pte, cr3, free, held, tlb, stray >>
  BY DEF Unmap, Idle
<1>2. UnmapReq(v) \in Unmaps /\ UnmapReq(v).kind = "unmap"
  BY CallersAssumption DEF UnmapReq, Unmaps
<1>3. todo' \in Seq(MapRequests \cup Unmaps) /\ \A k \in DOMAIN todo' : todo'[k] = UnmapReq(v)
  BY <1>1, <1>2
<1>4. \A k \in DOMAIN todo' : todo'[k].kind # "map"
  BY <1>2, <1>3
<1> QED
  BY <1>1, <1>3, <1>4, AskStep

\* The frames of a block that is handed out are free no more, and none of them is
\* a table.
LEMMA AllocPagesStep ==
    ASSUME IInv, NEW v \in HeapPages, NEW n \in 1 .. 2, v[4] + n <= HugeFrames, AllocPages(v, n)
    PROVE  IInv'
<1> DEFINE f == Min(Runs(n))
           X == f .. (f + n - 1)
           R(k) == [kind |-> "map", virt |-> [v EXCEPT ![4] = @ + k - 1], phys |-> f + k - 1,
                    huge |-> FALSE, cached |-> TRUE]
<1>1. /\ phase = "kernel" /\ phase' = "kernel" /\ Runs(n) # {} /\ free' = free \ X
      /\ held' = held \cup X /\ todo' = [k \in 1 .. n |-> R(k)]
      /\ machine' = machine /\ pte' = pte /\ cr3' = cr3 /\ tlb' = tlb /\ stray' = stray
  BY DEF AllocPages, Idle
<1>2. InKernel /\ InKernel'
  BY <1>1 DEF InKernel
<1>3. /\ machine \in Machines /\ stray = {} /\ Sound(Tables, cr3, Kept)
      /\ free \subseteq Kept /\ Kept \subseteq Frames /\ held \subseteq machine.free
  BY <1>2, KernelFacts
<1>4. f \in Runs(n) /\ f \in Nat
  <2>1. \A x \in Frames : x \in Nat
    BY LayoutAssumption DEF Frames
  <2>2. Runs(n) \subseteq free
    BY DEF Runs
  <2>3. Runs(n) \in SUBSET Nat
    BY <1>3, <2>1, <2>2
  <2>4. Min(Runs(n)) \in Runs(n)
    BY <1>1, <2>3, MinIsIn
  <2> QED
    BY <2>3, <2>4
<1>5. f \in Nat /\ X \subseteq free /\ \A k \in 1 .. n : f + k - 1 \in X
  <2>1. f \in Nat
    BY <1>4
  <2>2. \A k \in 0 .. n - 1 : f + k \in free
    BY <1>4 DEF Runs
  <2>3. ASSUME NEW x \in X PROVE x \in free
    <3>1. x - f \in 0 .. n - 1 /\ f + (x - f) = x
      BY <2>1
    <3> QED
      BY <2>2, <3>1
  <2>4. \A k \in 1 .. n : f + k - 1 \in X
    BY <2>1
  <2> QED
    BY <2>1, <2>3, <2>4
<1>6. ASSUME NEW k \in 1 .. n
      PROVE  R(k) \in MapRequests /\ R(k).phys \in X /\ ~R(k).huge
  <2>1. v \in Virtual
    BY CallersAssumption
  <2>2. /\ v[1] \in Nat /\ v[2] \in Nat /\ v[3] \in Nat /\ v[4] \in Nat
        /\ v = << v[1], v[2], v[3], v[4] >>
    BY <2>1, VirtualFacts
  <2>3. [v EXCEPT ![4] = @ + k - 1] = << v[1], v[2], v[3], v[4] + k - 1 >>
    <3>1. ASSUME NEW a, NEW b, NEW c, NEW e, NEW g
          PROVE  [<< a, b, c, e >> EXCEPT ![4] = g] = << a, b, c, g >>
      OBVIOUS
    <3>2. [v EXCEPT ![4] = @ + k - 1] = [v EXCEPT ![4] = v[4] + k - 1]
      OBVIOUS
    <3> QED
      BY <2>2, <3>1, <3>2
  <2>4. v[4] + k - 1 \in 0 .. HugeFrames - 1
    BY <2>2, GeometryAssumption
  <2>5. [v EXCEPT ![4] = @ + k - 1] \in Virtual
    BY <2>2, <2>3, <2>4 DEF Virtual
  <2>6. f + k - 1 \in Frames /\ f + k - 1 \in X
    BY <1>3, <1>5
  <2> QED
    BY <2>5, <2>6 DEF MapRequests
<1> HIDE DEF R, X
<1>7. \A k \in DOMAIN todo' : todo'[k].phys \notin free' /\ ~todo'[k].huge
  BY <1>1, <1>6
<1>8. todo' \in Seq(MapRequests \cup Unmaps)
  BY <1>1, <1>6
<1>9. Sound(Tables', cr3, Kept')
  <2>1. Tables'.pte = Tables.pte /\ Tables'.free = free' /\ IsState(Tables') /\ Tables.free = free
    BY <1>1, TablesNext, TablesIs
  <2>2. Kept' \subseteq Frames /\ free' \subseteq Kept' /\ Kept' \ free' = Kept \ free
    BY <1>1, <1>3, <1>5 DEF Kept
  <2>3. Sound(Tables', cr3, Kept')
    BY <1>3, <2>1, <2>2, SoundMoves
  <2> QED
    BY <2>3
<1>10. Basics' /\ Loading' /\ Booting'
  BY <1>1, <1>3 DEF IInv, Basics, Loading, Booting
<1>11. Running'
  BY <1>1, <1>3, <1>5, <1>8, <1>9 DEF Running, Kept
<1>12. Cached'
  BY <1>1, <1>2 DEF IInv, Cached
<1>13. Unseen'
  <2>1. \A u \in HeapPages : Translate(pte, cr3, u) \notin free'
    BY <1>1, <1>2 DEF IInv, Unseen
  <2> QED
    BY <1>1, <1>7, <2>1 DEF Unseen
<1> QED
  BY <1>10, <1>11, <1>12, <1>13 DEF IInv

\* A frame that is given back is behind no page and is no table.
LEMMA FreeFrameStep ==
    ASSUME IInv, NEW f \in held, FreeFrame(f)
    PROVE  IInv'
<1>1. /\ phase = "kernel" /\ phase' = "kernel" /\ todo = << >> /\ todo' = todo
      /\ \A v \in HeapPages : Translate(pte, cr3, v) # f
      /\ free' = free \cup {f} /\ held' = held \ {f}
      /\ machine' = machine /\ pte' = pte /\ cr3' = cr3 /\ tlb' = tlb /\ stray' = stray
  BY DEF FreeFrame, Idle
<1>2. InKernel /\ InKernel'
  BY <1>1 DEF InKernel
<1>3. /\ machine \in Machines /\ stray = {} /\ Sound(Tables, cr3, Kept)
      /\ free \subseteq Kept /\ Kept \subseteq Frames /\ held \subseteq machine.free
      /\ todo \in Seq(MapRequests \cup Unmaps)
  BY <1>2, KernelFacts
<1>4. Sound(Tables', cr3, Kept')
  <2>1. Tables'.pte = Tables.pte /\ Tables'.free = free' /\ IsState(Tables') /\ Tables.free = free
    BY <1>1, TablesNext, TablesIs
  <2>2. machine.free \subseteq Frames
    BY <1>3, MachinesAssumption
  <2>3. Kept' \subseteq Frames /\ free' \subseteq Kept' /\ Kept' \ free' = Kept \ free
    BY <1>1, <1>3, <2>2 DEF Kept
  <2>4. Sound(Tables', cr3, Kept')
    BY <1>3, <2>1, <2>3, SoundMoves
  <2> QED
    BY <2>4
<1>5. Basics' /\ Loading' /\ Booting'
  BY <1>1, <1>3 DEF IInv, Basics, Loading, Booting
<1>6. Running'
  BY <1>1, <1>3, <1>4 DEF Running
<1>7. Cached'
  BY <1>1, <1>2 DEF IInv, Cached
<1>8. Unseen'
  <2>1. \A v \in HeapPages : Translate(pte', cr3', v) \notin free'
    BY <1>1, <1>2 DEF IInv, Unseen
  <2>2. DOMAIN todo' = {}
    BY <1>1
  <2> QED
    BY <2>1, <2>2 DEF Unseen
<1> QED
  BY <1>5, <1>6, <1>7, <1>8 DEF IInv

\* The processor remembers a translation as the tables have it.
LEMMA WalkStep ==
    ASSUME IInv, NEW v \in CachedPages, Walk(v)
    PROVE  IInv'
<1> DEFINE w == [virt |-> v, huge |-> HugeAt(pte, cr3, v), phys |-> Translate(pte, cr3, v)]
<1>1. /\ phase = "kernel" /\ phase' = "kernel" /\ Translate(pte, cr3, v) # None
      /\ tlb' = tlb \cup {w}
      /\ UNCHANGED << machine, pte, cr3, free, held, todo, stray >>
  BY DEF Walk, HugeAt
<1>2. InKernel /\ InKernel'
  BY <1>1 DEF InKernel
<1>3. IsMemory(pte) /\ v \in Virtual
  BY <1>2, KernelFacts, CallersAssumption
<1>4. PICK d : Tree(pte, cr3, Kept \ free, d)
  BY <1>2, KernelFacts
<1>5. Translate(pte, cr3, v) \in Frames
  BY <1>1, <1>3, <1>4, TranslateType
<1>6. Basics' /\ Loading' /\ Booting'
  BY <1>1 DEF IInv, Basics, Loading, Booting
<1>7. Running'
  BY <1>1, <1>2 DEF IInv, Running, Tables, Kept
<1>8. Cached'
  <2>1. w.virt = v /\ w.phys = Translate(pte, cr3, v) /\ (w.huge <=> HugeAt(pte, cr3, v))
    OBVIOUS
  <2> HIDE DEF w
  <2> QED
    BY <1>1, <1>2, <1>5, <2>1 DEF IInv, Cached
<1>9. Unseen'
  BY <1>1, <1>2 DEF IInv, Unseen
<1> QED
  BY <1>6, <1>7, <1>8, <1>9 DEF IInv

LEMMA NextIInv == Fit /\ IInv /\ [Next]_vars => IInv'
<1> SUFFICES ASSUME Fit, IInv, [Next]_vars PROVE IInv'
  OBVIOUS
<1>1. CASE BootInit
  BY <1>1, BootInitStep
<1>2. CASE BootMapStep
  BY <1>2, BootMapStepStep
<1>3. CASE KernelInit
  BY <1>3, KernelInitStep
<1>4. CASE UnmapStep
  BY <1>4, UnmapStepStep
<1>5. CASE MapPanics
  BY <1>5, MapPanicsStep
<1>6. CASE MapFinds
  BY <1>6, MapFindsStep
<1>7. CASE MapSets
  BY <1>7, MapSetsStep
<1>8. CASE \E d \in DevicePages : MapMMIO(d[1], d[2])
  BY <1>8, MapMMIOStep
<1>9. CASE \E v \in HeapPages, n \in 1 .. 2 : v[4] + n <= HugeFrames /\ AllocPages(v, n)
  BY <1>9, AllocPagesStep
<1>10. CASE \E v \in HeapPages, d \in DevicePages :
              v[4] = 0 /\ d[1] % HugeFrames = 0 /\ MapHuge(v, d[1])
  BY <1>10, MapHugeStep
<1>11. CASE \E v \in HeapPages : Unmap(v)
  BY <1>11, UnmapAskStep
<1>12. CASE \E f \in held : FreeFrame(f)
  BY <1>12, FreeFrameStep
<1>13. CASE \E v \in CachedPages : Walk(v)
  BY <1>13, WalkStep
<1>14. CASE UNCHANGED vars
  BY <1>14 DEF vars, IInv, Basics, Loading, Booting, Running, Cached, Unseen, InKernel, Tables, Kept
<1> QED
  BY <1>1, <1>2, <1>3, <1>4, <1>5, <1>6, <1>7, <1>8, <1>9, <1>10, <1>11, <1>12, <1>13, <1>14 DEF Next

LEMMA Invariance ==
    ASSUME Fit
    PROVE  Spec => []IInv
<1>1. IInv /\ [Next]_vars => IInv'
  BY NextIInv
<1> QED
  BY InitIInv, <1>1, PTL DEF Spec

-------------------------------------------------------------------------------
(***************************************************************************)
(* What follows                                                            *)
(***************************************************************************)

LEMMA MemoryFacts ==
    ASSUME IInv
    PROVE  /\ IsMemory(pte) /\ machine.free \subseteq Frames
           /\ free \subseteq machine.free /\ held \subseteq machine.free
           /\ cr3 \in Frames \cup {None}
<1>1. machine \in Machines
  BY DEF IInv, Basics
<1>2. machine.free \subseteq Frames
  BY <1>1, MachinesAssumption
<1>3. CASE phase = "loader"
  <2>1. pte = machine.garbage /\ cr3 = None /\ free = machine.free /\ held = {}
    BY <1>3 DEF IInv, Loading
  <2>2. IsMemory(pte)
    BY <1>1, <2>1, MachinesAssumption DEF IsMemory
  <2> QED
    BY <1>2, <2>1, <2>2
<1>4. CASE phase \in {"booting", "kernel", "halted"}
  <2>1. Sound(Tables, cr3, Kept) /\ held \subseteq machine.free
    BY <1>4 DEF IInv, Booting, Running, InKernel
  <2>2. IsMemory(pte) /\ free \subseteq Kept /\ cr3 \in Frames
    BY <2>1, TablesIs DEF Sound, Tree
  <2> QED
    BY <1>2, <2>1, <2>2 DEF Kept
<1> QED
  BY <1>3, <1>4 DEF IInv, Basics

\* TypeOK of VMM: memory is page-table words and the processor's CR3 is a frame;
\* the bootloader, the kernel and its callers keep to the frames of the PMM.
THEOREM TypeCorrect ==
    ASSUME Fit
    PROVE  Spec => []TypeOK
<1>1. ASSUME IInv PROVE TypeOK
  <2>1. /\ machine \in Machines /\ phase \in {"loader", "booting", "kernel", "halted"}
        /\ stray = {}
    BY <1>1 DEF IInv, Basics
  <2>2. /\ IsMemory(pte) /\ free \subseteq machine.free /\ held \subseteq machine.free
        /\ cr3 \in Frames \cup {None}
    BY <1>1, MemoryFacts
  <2>3. \A w \in DOMAIN pte : w \in Frames \X Nat
                              /\ pte[w] \in [phys : Frames, huge : BOOLEAN, cached : BOOLEAN]
    BY <2>2 DEF IsMemory, Entries
  <2>4. \A k \in DOMAIN todo : todo[k].kind \in {"map", "unmap"}
    <3>1. CASE phase = "loader"
      BY <1>1, <3>1 DEF IInv, Loading
    <3>2. CASE phase = "booting"
      <4>1. todo \in Seq(Range(BootMaps(machine)))
        BY <1>1, <3>2 DEF IInv, Booting
      <4>2. \A k \in DOMAIN todo : todo[k] \in Range(BootMaps(machine))
        BY <4>1, ElementOfSeq
      <4> QED
        BY <2>1, <4>2, BootRequestFacts
    <3>3. CASE InKernel
      <4>1. todo \in Seq(MapRequests \cup Unmaps)
        BY <1>1, <3>3 DEF IInv, Running
      <4>2. \A k \in DOMAIN todo : todo[k] \in MapRequests \cup Unmaps
        BY <4>1, ElementOfSeq
      <4> QED
        BY <4>2 DEF MapRequests, Unmaps
    <3> QED
      BY <2>1, <3>1, <3>2, <3>3 DEF InKernel
  <2>5. \A e \in tlb : e.virt \in CachedPages /\ e.phys \in Frames
    BY <1>1, <2>1 DEF IInv, Loading, Booting, Cached, InKernel
  <2> QED
    BY <2>1, <2>2, <2>3, <2>4, <2>5 DEF TypeOK
<1> QED
  BY Invariance, <1>1, PTL

\* TablesFormATree of VMM: getOrAlloc of both maps links every table to one entry
\* only, in a frame that it took from the PMM and nobody else has.
THEOREM TablesAreATree ==
    ASSUME Fit
    PROVE  Spec => []TablesFormATree
<1>1. ASSUME IInv PROVE TablesFormATree
  <2> SUFFICES ASSUME phase \in {"booting", "kernel", "halted"}
               PROVE  /\ \A a, b \in Links : pte[a].phys = pte[b].phys => a = b
                      /\ cr3 \notin Targets(Links)
                      /\ TableFrames \subseteq machine.free \ (free \cup held)
    BY DEF TablesFormATree
  <2>1. Sound(Tables, cr3, Kept)
    BY <1>1 DEF IInv, Booting, Running, InKernel
  <2>2. PICK d : Tree(pte, cr3, Kept \ free, d)
    BY <2>1, TablesIs DEF Sound
  <2>3. IsMemory(pte)
    BY <1>1, MemoryFacts
  <2>4. \A w \in DOMAIN pte : w[1] \in Frames /\ pte[w].phys \in Frames
    BY <2>3 DEF IsMemory, Entries
  <2>5. ASSUME NEW T \in SUBSET Frames, NEW n \in 0 .. 2, \A t \in T : d[t] = n
        PROVE  /\ \A w \in LinksIn(T) : w \in DOMAIN pte /\ ~pte[w].huge /\ d[w[1]] = n
               /\ Targets(LinksIn(T)) \subseteq Frames
               /\ \A t \in Targets(LinksIn(T)) : d[t] = n + 1
    <3>1. \A w \in LinksIn(T) : w \in DOMAIN pte /\ ~pte[w].huge /\ d[w[1]] = n
      BY <2>5 DEF LinksIn
    <3>2. \A w \in LinksIn(T) : pte[w].phys \in Frames /\ d[pte[w].phys] = n + 1
      BY <2>2, <2>4, <3>1 DEF Tree
    <3>3. \A t \in Targets(LinksIn(T)) : \E w \in LinksIn(T) : t = pte[w].phys
      BY DEF Targets
    <3> QED
      BY <3>1, <3>2, <3>3
  <2> DEFINE top == LinksIn({cr3})
             mid == LinksIn(Targets(top))
             low == LinksIn(Targets(mid))
  <2>6. cr3 \in Frames /\ d[cr3] = 0
    BY <2>2 DEF Tree
  <2>7. /\ \A w \in top : w \in DOMAIN pte /\ ~pte[w].huge /\ d[w[1]] = 0
        /\ Targets(top) \subseteq Frames /\ \A t \in Targets(top) : d[t] = 1
    <3>1. 0 \in 0 .. 2 /\ 0 + 1 = 1 /\ {cr3} \in SUBSET Frames /\ \A t \in {cr3} : d[t] = 0
      BY <2>6
    <3> HIDE DEF top
    <3>2. top = LinksIn({cr3})
      BY DEF top
    <3> QED
      BY <2>5, <3>1, <3>2
  <2>8. /\ \A w \in mid : w \in DOMAIN pte /\ ~pte[w].huge /\ d[w[1]] = 1
        /\ Targets(mid) \subseteq Frames /\ \A t \in Targets(mid) : d[t] = 2
    <3>1. 1 \in 0 .. 2 /\ 1 + 1 = 2
      OBVIOUS
    <3> HIDE DEF top, mid
    <3>2. mid = LinksIn(Targets(top))
      BY DEF mid
    <3> QED
      BY <2>5, <2>7, <3>1, <3>2
  <2>9. /\ \A w \in low : w \in DOMAIN pte /\ ~pte[w].huge /\ d[w[1]] = 2
    <3> HIDE DEF mid
    <3> QED
      BY <2>5, <2>8
  <2>10. Links = top \cup mid \cup low
    BY DEF Links
  <2> HIDE DEF top, mid, low
  <2>11. \A w \in Links : w \in DOMAIN pte /\ ~pte[w].huge /\ d[w[1]] \in 0 .. 2
    BY <2>7, <2>8, <2>9, <2>10
  <2>12. \A w \in Links : pte[w].phys \in Frames /\ d[pte[w].phys] \in 1 .. 3
    BY <2>2, <2>4, <2>11 DEF Tree
  <2>13. \A a, b \in Links : pte[a].phys = pte[b].phys => a = b
    BY <2>2, <2>11 DEF Tree
  <2>14. \A t \in Targets(Links) : t \in Frames /\ d[t] \in 1 .. 3
    BY <2>12 DEF Targets
  <2>15. cr3 \notin Targets(Links)
    BY <2>6, <2>14
  <2>16. \A t \in TableFrames : t \in Frames /\ d[t] < 4
    BY <2>6, <2>14 DEF TableFrames
  <2>17. TableFrames \subseteq Kept \ free
    BY <2>2, <2>16 DEF Tree
  <2> QED
    BY <2>13, <2>15, <2>17 DEF Kept
<1> QED
  BY Invariance, <1>1, PTL

\* TLBCoherent of VMM: the invlpg of unmap drops every translation that the entry
\* it clears has given the processor, and map makes none of them wrong.
THEOREM TLBIsCoherent ==
    ASSUME Fit
    PROVE  Spec => []TLBCoherent
<1>1. ASSUME IInv PROVE TLBCoherent
  BY <1>1 DEF IInv, Basics, Loading, Booting, Cached, InKernel, TLBCoherent
<1> QED
  BY Invariance, <1>1, PTL

\* FreeFramesUnseen of VMM: a frame that callers gave back after unmap, and a frame
\* that PMM::Alloc takes for a table, is behind no page of the heap.
THEOREM FreeFramesAreUnseen ==
    ASSUME Fit
    PROVE  Spec => []FreeFramesUnseen
<1>1. ASSUME IInv PROVE FreeFramesUnseen
  BY <1>1 DEF IInv, Cached, Unseen, InKernel, FreeFramesUnseen
<1> QED
  BY Invariance, <1>1, PTL

\* OnlyTablesAreWritten of VMM: the bootloader's map, which tests neither for a
\* missing frame nor for a huge page, writes entries into tables only.
THEOREM WritesAreToTables ==
    ASSUME Fit
    PROVE  Spec => []OnlyTablesAreWritten
<1>1. IInv => OnlyTablesAreWritten
  BY DEF IInv, Basics, OnlyTablesAreWritten
<1> QED
  BY Invariance, <1>1, PTL

-------------------------------------------------------------------------------
(***************************************************************************)
(* map and unmap do what they are asked for                                *)
(***************************************************************************)

\* A map that has found the page mapped has found it mapped to the right frame.
LEMMA MapFindsDelivers ==
    ASSUME IInv, MapFinds, Asserts
    PROVE  Translate(pte', cr3, Head(todo).virt) = Head(todo).phys
<1> DEFINE req == Head(todo)
           v == Head(todo).virt
           q == Built.pte
           w == TheSlot
<1>1. /\ Mapping /\ ~Panics /\ w \in DOMAIN q /\ pte' = q
  BY DEF MapFinds, Install
<1>2. q[w].phys = req.phys /\ ~SizesClash(q, cr3, req)
  BY <1>1 DEF Panics
<1>3. req \in MapRequests /\ v \in Virtual /\ Sound(Built, cr3, Kept)
  BY <1>1, BuiltFacts DEF Step
<1>4. w = IF req.huge THEN << Directory(q, cr3, v), v[3] >> ELSE << Third(q, cr3, v), v[4] >>
  BY DEF TheSlot, Slot, Third
<1>5. Present(q, Directory(q, cr3, v), v[3]) => (HugeAt(q, cr3, v) <=> req.huge)
  <2>1. HugeAt(q, cr3, v) \in BOOLEAN
    <3>1. IsMemory(q) /\ \E d : Tree(q, cr3, Kept \ Built.free, d)
      BY <1>3 DEF Sound
    <3>2. Directory(q, cr3, v) \in Frames \cup {None} /\ v[3] \in Nat
      <4> HIDE DEF q, v
      <4> QED
        BY <1>3, <3>1, WalkFacts, VirtualFacts
    <3> HIDE DEF q, v
    <3> QED
      BY <3>1, <3>2, DownFacts DEF HugeAt
  <2>2. req.huge \in BOOLEAN
    BY <1>3 DEF MapRequests
  <2>3. Present(q, Directory(q, cr3, v), v[3]) => HugeAt(q, cr3, v) = req.huge
    BY <1>2 DEF SizesClash, HugeAt
  <2> QED
    BY <2>1, <2>2, <2>3
<1>6. req.huge => v[4] = 0 /\ req.phys \in Frames
  BY <1>3 DEF MapRequests
<1> HIDE DEF req, q, w, v
<1>7. CASE req.huge
  <2>1. w = << Directory(q, cr3, v), v[3] >>
    BY <1>4, <1>7
  <2>2. Third(q, cr3, v) = req.phys /\ HugeAt(q, cr3, v)
    BY <1>1, <1>2, <1>5, <1>7, <2>1 DEF Third, Down, Present
  <2>3. Translate(q, cr3, v) = req.phys + 0
    BY <1>6, <1>7, <2>2, TranslateIs
  <2>4. req.phys + 0 = req.phys
    BY <1>6, <1>7 DEF Frames
  <2> QED
    BY <1>1, <2>3, <2>4 DEF v, req
<1>8. CASE ~req.huge
  <2>1. w = << Third(q, cr3, v), v[4] >>
    BY <1>4, <1>8
  <2>2. ~HugeAt(q, cr3, v)
    BY <1>5, <1>8 DEF HugeAt, IsHuge
  <2>3. Down(q, Third(q, cr3, v), v[4]) = req.phys
    BY <1>1, <1>2, <2>1 DEF Down, Present
  <2>4. Translate(q, cr3, v) = req.phys
    BY <2>2, <2>3, TranslateIs
  <2> QED
    BY <1>1, <2>4 DEF v, req
<1> QED
  BY <1>7, <1>8

\* A map that has set the entry has set it for the page that was asked for.
LEMMA MapSetsDelivers ==
    ASSUME IInv, MapSets
    PROVE  Translate(pte', cr3, Head(todo).virt) = Head(todo).phys
<1> DEFINE req == Head(todo)
<1>1. Adds(pte, pte', cr3, req) /\ Mapping
  BY MapSetsFacts DEF MapSets
<1>2. req \in MapRequests
  BY <1>1, BuiltFacts
<1> HIDE DEF req
<1>3. /\ req.virt \in Virtual /\ req.phys \in Frames
      /\ req.huge => req.virt[4] = 0
  BY <1>2 DEF MapRequests
<1>4. Touched(req.virt, req.virt, req.huge)
  BY DEF Touched, SamePlace
<1>5. Translate(pte', cr3, req.virt) = IF req.huge THEN req.phys + req.virt[4] ELSE req.phys
  BY <1>1, <1>3, <1>4 DEF Adds
<1>6. req.phys + 0 = req.phys
  BY <1>3 DEF Frames
<1>7. Translate(pte', cr3, req.virt) = req.phys
  BY <1>3, <1>5, <1>6
<1> QED
  BY <1>7 DEF req

LEMMA MapStepDelivers ==
    ASSUME IInv, Next, Mapping, todo' = Tail(todo), Asserts
    PROVE  Translate(pte', cr3', Head(todo).virt) = Head(todo).phys
<1>1. phase = "kernel" /\ todo # << >> /\ Head(todo).kind = "map" /\ todo' # todo
  <2>1. InKernel
    BY DEF Mapping, InKernel
  <2>2. todo \in Seq(MapRequests \cup Unmaps)
    BY <2>1, KernelFacts
  <2>3. todo # << >>
    BY DEF Mapping
  <2>4. Tail(todo) # todo
    BY <2>2, <2>3, TailIs
  <2> QED
    BY <2>4 DEF Mapping
<1>2. MapFinds \/ MapSets
  <2>1. ~BootInit /\ ~BootMapStep /\ ~KernelInit /\ ~UnmapStep /\ ~MapPanics
    BY <1>1 DEF BootInit, BootMapStep, KernelInit, UnmapStep, MapPanics
  <2>2. \A d \in DevicePages : ~MapMMIO(d[1], d[2])
    BY <1>1 DEF MapMMIO, Idle
  <2>3. \A v \in HeapPages : /\ ~Unmap(v)
                             /\ \A n \in 1 .. 2 : ~AllocPages(v, n)
                             /\ \A d \in DevicePages : ~MapHuge(v, d[1])
    BY <1>1 DEF Unmap, AllocPages, MapHuge, Idle
  <2>4. \A f \in held : ~FreeFrame(f)
    BY <1>1 DEF FreeFrame, Idle
  <2>5. \A v \in CachedPages : ~Walk(v)
    BY <1>1 DEF Walk
  <2> QED
    BY <2>1, <2>2, <2>3, <2>4, <2>5 DEF Next
<1>3. CASE MapFinds
  <2>1. cr3' = cr3
    BY <1>3 DEF MapFinds
  <2> QED
    BY <1>3, <2>1, MapFindsDelivers
<1>4. CASE MapSets
  <2>1. cr3' = cr3
    BY <1>4 DEF MapSets
  <2> QED
    BY <1>4, <2>1, MapSetsDelivers
<1> QED
  BY <1>2, <1>3, <1>4

\* MapDelivers of VMM: when a map of the kernel returns, the page leads to the
\* frame that was asked for; in a build with assertions, for a page that is
\* mapped already too.
THEOREM MapsDeliver ==
    ASSUME Fit, Asserts
    PROVE  Spec => MapDelivers
<1>1. IInv /\ [Next]_vars =>
        [Mapping /\ todo' = Tail(todo) =>
           Translate(pte', cr3', Head(todo).virt) = Head(todo).phys]_vars
  BY MapStepDelivers
<1> QED
  BY Invariance, <1>1, PTL DEF Spec, MapDelivers

-------------------------------------------------------------------------------
(***************************************************************************)
(* Refinement                                                              *)
(***************************************************************************)

Mapped(p, r) == {m \in {<< u, Translate(p, r, u) >> : u \in Pages} : m[2] # None}

Firsts(S) == {m[1] : m \in S}

LEMMA PagesAreVirtual == Pages \subseteq Virtual
<1> SUFFICES ASSUME NEW s \in Slots, NEW f \in Frames PROVE V(s, f) \in Virtual
  BY DEF Pages
<1>1. s \in Nat /\ f \in Nat
  BY LayoutAssumption DEF Slots, Frames
<1> QED
  BY <1>1, VIsVirtual

LEMMA MappedIs ==
    ASSUME NEW p, NEW r
    PROVE  /\ \A m : m \in Mapped(p, r) <=>
                \E u \in Pages : m = << u, Translate(p, r, u) >> /\ Translate(p, r, u) # None
           /\ \A m, n \in Mapped(p, r) : m[1] = n[1] => m = n
<1>1. \A m : m \in Mapped(p, r) <=>
        \E u \in Pages : m = << u, Translate(p, r, u) >> /\ Translate(p, r, u) # None
  BY DEF Mapped
<1> QED
  BY <1>1

\* The pages that lead somewhere in S and not in T.
LEMMA Difference ==
    ASSUME NEW p, NEW q, NEW r
    PROVE  \A u : u \in Firsts(Mapped(p, r) \ Mapped(q, r)) <=>
              /\ u \in Pages /\ Translate(p, r, u) # None
              /\ Translate(q, r, u) # Translate(p, r, u)
<1> SUFFICES ASSUME NEW u
             PROVE  u \in Firsts(Mapped(p, r) \ Mapped(q, r)) <=>
                      /\ u \in Pages /\ Translate(p, r, u) # None
                      /\ Translate(q, r, u) # Translate(p, r, u)
  OBVIOUS
<1>1. ASSUME u \in Firsts(Mapped(p, r) \ Mapped(q, r))
      PROVE  u \in Pages /\ Translate(p, r, u) # None /\ Translate(q, r, u) # Translate(p, r, u)
  <2>1. PICK m \in Mapped(p, r) : m \notin Mapped(q, r) /\ u = m[1]
    BY <1>1 DEF Firsts
  <2>2. PICK x \in Pages : m = << x, Translate(p, r, x) >> /\ Translate(p, r, x) # None
    BY MappedIs
  <2>3. u = x
    BY <2>1, <2>2
  <2>4. Translate(q, r, u) = Translate(p, r, u) => m \in Mapped(q, r)
    BY <2>2, <2>3, MappedIs
  <2> QED
    BY <2>1, <2>2, <2>3, <2>4
<1>2. ASSUME u \in Pages, Translate(p, r, u) # None, Translate(q, r, u) # Translate(p, r, u)
      PROVE  u \in Firsts(Mapped(p, r) \ Mapped(q, r))
  <2> DEFINE m == << u, Translate(p, r, u) >>
  <2>1. m \in Mapped(p, r)
    BY <1>2, MappedIs
  <2>2. m \notin Mapped(q, r)
    <3> SUFFICES ASSUME m \in Mapped(q, r) PROVE FALSE
      OBVIOUS
    <3>1. PICK x \in Pages : m = << x, Translate(q, r, x) >>
      BY MappedIs
    <3>2. u = x /\ Translate(p, r, u) = Translate(q, r, x)
      BY <3>1
    <3> QED
      BY <1>2, <3>2
  <2>3. m[1] = u
    OBVIOUS
  <2> HIDE DEF m
  <2> QED
    BY <2>1, <2>2, <2>3 DEF Firsts
<1> QED
  BY <1>1, <1>2

\* One page, or all the pages of one huge page.
LEMMA OneUnitIs ==
    ASSUME NEW P \in SUBSET Pages, NEW v \in Virtual, NEW huge \in BOOLEAN,
           \A u \in P : Touched(u, v, huge),
           huge => \A u \in Pages : SamePlace(u, v) => u \in P
    PROVE  \A u \in P : P = {u} \/ P = HugePageOf(u)
<1> SUFFICES ASSUME NEW u \in P PROVE P = {u} \/ P = HugePageOf(u)
  OBVIOUS
<1>1. CASE huge
  <2>1. \A x \in P : SamePlace(x, v)
    BY <1>1 DEF Touched
  <2>2. \A x \in Pages : SubSeq(x, 1, 3) = SubSeq(u, 1, 3) <=> SamePlace(x, u)
    BY PagesAreVirtual, SamePlaceIs
  <2>3. \A x : SamePlace(x, u) <=> SamePlace(x, v)
    BY <2>1 DEF SamePlace
  <2>4. P = HugePageOf(u)
    BY <1>1, <2>1, <2>2, <2>3 DEF HugePageOf
  <2> QED
    BY <2>4
<1>2. CASE ~huge
  <2>1. \A x \in P : x = v
    BY <1>2 DEF Touched
  <2> QED
    BY <2>1
<1> QED
  BY <1>1, <1>2

\* The tables start to count at the jump to the kernel.
LEMMA LoadRefines ==
    ASSUME KernelInit
    PROVE  Promise!Load
<1>1. Space = {} /\ Space' = Mapped(pte', cr3')
  BY DEF KernelInit, Space, Mapped
<1>2. \A m, n \in Mapped(pte', cr3') : m[1] = n[1] => m = n
  BY MappedIs
<1>3. Space = {} /\ \A m, n \in Space' : m[1] = n[1] => m = n
  BY <1>1, <1>2
<1> QED
  BY <1>3 DEF Promise!Load, Promise!Functional

LEMMA KernelSpace ==
    ASSUME phase = "kernel", phase' = "kernel", cr3' = cr3
    PROVE  Space = Mapped(pte, cr3) /\ Space' = Mapped(pte', cr3)
  BY DEF Space, Mapped

\* A map that sets an entry adds a page or a huge page, which led nowhere before.
LEMMA AddRefines ==
    ASSUME IInv, MapSets
    PROVE  Promise!Add
<1> DEFINE req == Head(todo)
           S == Mapped(pte, cr3)
           T == Mapped(pte', cr3)
<1>1. Space = S /\ Space' = T /\ Mapping
  BY KernelSpace DEF MapSets, Mapping
<1>2. Adds(pte, pte', cr3, req)
  BY MapSetsFacts
<1>3. req \in MapRequests
  BY <1>1, BuiltFacts
<1> HIDE DEF req
<1>4. req.virt \in Virtual /\ req.phys \in Frames /\ req.huge \in BOOLEAN
  BY <1>3 DEF MapRequests
<1>5. \A u \in Firsts(S \ T) : FALSE
  <2> SUFFICES ASSUME NEW u \in Firsts(S \ T) PROVE FALSE
    OBVIOUS
  <2>1. /\ u \in Pages /\ Translate(pte, cr3, u) # None
        /\ Translate(pte', cr3, u) # Translate(pte, cr3, u)
    BY Difference
  <2> QED
    BY <1>2, <2>1, PagesAreVirtual DEF Adds
<1>6. S \subseteq T
  BY <1>5 DEF Firsts
<1>7. \A u \in Firsts(T \ S) : u \in Pages /\ Touched(u, req.virt, req.huge)
  <2> SUFFICES ASSUME NEW u \in Firsts(T \ S)
               PROVE  u \in Pages /\ Touched(u, req.virt, req.huge)
    OBVIOUS
  <2>1. /\ u \in Pages /\ Translate(pte, cr3, u) # Translate(pte', cr3, u)
    BY Difference
  <2> QED
    BY <1>2, <2>1, PagesAreVirtual DEF Adds
<1>8. req.huge => \A u \in Pages : SamePlace(u, req.virt) => u \in Firsts(T \ S)
  <2> SUFFICES ASSUME req.huge, NEW u \in Pages, SamePlace(u, req.virt)
               PROVE  u \in Firsts(T \ S)
    OBVIOUS
  <2>1. u \in Virtual /\ Touched(u, req.virt, req.huge)
    BY PagesAreVirtual DEF Touched
  <2>2. Translate(pte, cr3, u) = None /\ Translate(pte', cr3, u) = req.phys + u[4]
    BY <1>2, <2>1 DEF Adds
  <2>3. u[4] \in Nat /\ req.phys + u[4] # None
    BY <1>4, <2>1, VirtualFacts, LayoutAssumption DEF None, Frames
  <2> QED
    BY <2>2, <2>3, Difference
<1>9. \A u \in Firsts(T \ S) : Firsts(T \ S) = {u} \/ Firsts(T \ S) = HugePageOf(u)
  <2> DEFINE P == Firsts(T \ S)
  <2>1. /\ P \in SUBSET Pages /\ \A u \in P : Touched(u, req.virt, req.huge)
        /\ req.huge => \A u \in Pages : SamePlace(u, req.virt) => u \in P
    BY <1>7, <1>8
  <2> HIDE DEF P
  <2>2. \A u \in P : P = {u} \/ P = HugePageOf(u)
    BY <1>4, <2>1, OneUnitIs
  <2> QED
    BY <2>2 DEF P
<1>10. \A m \in T \ S : m[1] \notin Firsts(S)
  <2>1. \A m, n \in T : m[1] = n[1] => m = n
    BY MappedIs
  <2> HIDE DEF S, T
  <2> QED
    BY <1>6, <2>1 DEF Firsts
<1> HIDE DEF S, T
<1>11. /\ Space \subseteq Space'
       /\ \A u \in Firsts(Space' \ Space) :
            Firsts(Space' \ Space) = {u} \/ Firsts(Space' \ Space) = HugePageOf(u)
       /\ \A m \in Space' \ Space : m[1] \notin Firsts(Space)
  BY <1>1, <1>6, <1>9, <1>10
<1> QED
  BY <1>11 DEF Promise!Add, Promise!OneUnit, Promise!PagesOf, Firsts

\* An unmap that gets to the entry removes the page or the huge page.
LEMMA RemoveRefines ==
    ASSUME IInv, UnmapStep
    PROVE  Promise!Remove \/ UNCHANGED Space
<1> DEFINE v == Head(todo).virt
           S == Mapped(pte, cr3)
           T == Mapped(pte', cr3)
<1>1. phase = "kernel" /\ phase' = "kernel" /\ cr3' = cr3
  BY DEF UnmapStep
<1>2. Space = S /\ Space' = T
  BY <1>1, KernelSpace
<1>3. CASE pte' = pte
  BY <1>2, <1>3
<1>4. CASE pte' # pte
  <2>1. v \in Virtual /\ Removes(pte, pte', cr3, v) /\ Sound(Tables, cr3, Kept)
    <3>1. Reaches(v)
      BY <1>4 DEF UnmapStep
    <3>2. InKernel
      BY <1>1 DEF InKernel
    <3> QED
      BY <3>1, <3>2, UnmapReached, KernelFacts
  <2>2. IsMemory(pte) /\ \E d : Tree(pte, cr3, Kept \ free, d)
    BY <2>1, TablesIs DEF Sound
  <2> HIDE DEF v
  <2>3. HugeAt(pte, cr3, v) \in BOOLEAN
    <3>1. Directory(pte, cr3, v) \in Frames \cup {None} /\ v[3] \in Nat
      BY <2>1, <2>2, WalkFacts, VirtualFacts
    <3> QED
      BY <2>2, <3>1, DownFacts DEF HugeAt
  <2>4. \A u \in Firsts(T \ S) : FALSE
    <3> SUFFICES ASSUME NEW u \in Firsts(T \ S) PROVE FALSE
      OBVIOUS
    <3>1. /\ u \in Pages /\ Translate(pte', cr3, u) # None
          /\ Translate(pte', cr3, u) # Translate(pte, cr3, u)
      BY Difference
    <3> QED
      BY <2>1, <3>1, PagesAreVirtual DEF Removes
  <2>5. T \subseteq S
    BY <2>4 DEF Firsts
  <2>6. \A u \in Firsts(S \ T) : u \in Pages /\ Touched(u, v, HugeAt(pte, cr3, v))
    <3> SUFFICES ASSUME NEW u \in Firsts(S \ T)
                 PROVE  u \in Pages /\ Touched(u, v, HugeAt(pte, cr3, v))
      OBVIOUS
    <3>1. u \in Pages /\ Translate(pte, cr3, u) # Translate(pte', cr3, u)
      BY Difference
    <3> QED
      BY <2>1, <3>1, PagesAreVirtual DEF Removes
  <2>7. HugeAt(pte, cr3, v) => \A u \in Pages : SamePlace(u, v) => u \in Firsts(S \ T)
    <3> SUFFICES ASSUME HugeAt(pte, cr3, v), NEW u \in Pages, SamePlace(u, v)
                 PROVE  u \in Firsts(S \ T)
      OBVIOUS
    <3>1. u \in Virtual /\ Touched(u, v, HugeAt(pte, cr3, v)) /\ HugeAt(pte, cr3, u)
      BY PagesAreVirtual, PlaceShared DEF Touched
    <3>2. Translate(pte', cr3, u) = None
      BY <2>1, <3>1 DEF Removes
    <3>3. Translate(pte, cr3, u) # None
      BY <2>2, <3>1, TranslateType
    <3> QED
      BY <3>2, <3>3, Difference
  <2>8. \A u \in Firsts(S \ T) : Firsts(S \ T) = {u} \/ Firsts(S \ T) = HugePageOf(u)
    <3> DEFINE P == Firsts(S \ T)
               huge == HugeAt(pte, cr3, v)
    <3>1. /\ P \in SUBSET Pages /\ \A u \in P : Touched(u, v, huge) /\ huge \in BOOLEAN
          /\ huge => \A u \in Pages : SamePlace(u, v) => u \in P
      BY <2>3, <2>6, <2>7
    <3> HIDE DEF P, huge
    <3>2. \A u \in P : P = {u} \/ P = HugePageOf(u)
      BY <2>1, <3>1, OneUnitIs
    <3> QED
      BY <3>2 DEF P
  <2> HIDE DEF S, T
  <2>9. /\ Space' \subseteq Space
        /\ \A u \in Firsts(Space \ Space') :
             Firsts(Space \ Space') = {u} \/ Firsts(Space \ Space') = HugePageOf(u)
    BY <1>2, <2>5, <2>8
  <2>10. Promise!Remove
    BY <2>9 DEF Promise!Remove, Promise!OneUnit, Promise!PagesOf, Firsts
  <2> QED
    BY <2>10
<1> QED
  BY <1>3, <1>4

\* The tables that a map builds lead no page anywhere.
LEMMA GrownRefines ==
    ASSUME IInv, InKernel, InKernel', cr3' = cr3,
           NEW o, NEW v, Step(Tables, o, cr3, v, Kept), pte' = o.pte
    PROVE  UNCHANGED Space
<1>1. Grows(pte, pte', cr3, v)
  BY TablesIs DEF Step
<1>2. \A u \in Pages : Translate(pte', cr3, u) = Translate(pte, cr3, u)
  BY <1>1, PagesAreVirtual DEF Grows
<1>3. Mapped(pte', cr3) = Mapped(pte, cr3)
  BY <1>2 DEF Mapped
<1> QED
  BY <1>3 DEF Space, Mapped, InKernel

LEMMA NextRefines ==
    ASSUME IInv, [Next]_vars
    PROVE  [Promise!Next]_Space
<1>1. CASE BootInit
  BY <1>1 DEF BootInit, Space
<1>2. CASE BootMapStep
  BY <1>2 DEF BootMapStep, Space
<1>3. CASE KernelInit
  BY <1>3, LoadRefines DEF Promise!Next
<1>4. CASE UnmapStep
  BY <1>4, RemoveRefines DEF Promise!Next
<1>5. CASE MapPanics
  <2>1. InKernel /\ InKernel' /\ cr3' = cr3 /\ pte' = Built.pte /\ Mapping
    BY <1>5 DEF MapPanics, Mapping, InKernel, Install
  <2>2. UNCHANGED Space
    BY <2>1, BuiltFacts, GrownRefines
  <2> QED
    BY <2>2
<1>6. CASE MapFinds
  <2>1. InKernel /\ InKernel' /\ cr3' = cr3 /\ pte' = Built.pte /\ Mapping
    BY <1>6 DEF MapFinds, Mapping, InKernel, Install
  <2>2. UNCHANGED Space
    BY <2>1, BuiltFacts, GrownRefines
  <2> QED
    BY <2>2
<1>7. CASE MapSets
  BY <1>7, AddRefines DEF Promise!Next
<1>8. CASE UNCHANGED << phase, pte, cr3 >>
  BY <1>8 DEF Space
<1>9. \/ BootInit \/ BootMapStep \/ KernelInit \/ UnmapStep \/ MapPanics \/ MapFinds \/ MapSets
      \/ UNCHANGED << phase, pte, cr3 >>
  BY DEF Next, vars, MapMMIO, AllocPages, MapHuge, Unmap, FreeFrame, Walk
<1> QED
  BY <1>1, <1>2, <1>3, <1>4, <1>5, <1>6, <1>7, <1>8, <1>9

\* ImplementsAddressSpace of VMM: four levels of tables, built on the way and never
\* taken down, huge pages and small ones, refused and repeated requests implement
\* an address space in which a step adds or removes one page or one huge page.
THEOREM Refinement ==
    ASSUME Fit
    PROVE  Spec => ImplementsAddressSpace
<1>1. Init => Promise!Init
  BY DEF Init, Promise!Init, Space
<1>2. IInv /\ [Next]_vars => [Promise!Next]_Space
  BY NextRefines
<1>3. Spec => Promise!Init /\ [][Promise!Next]_Space
  BY Invariance, <1>1, <1>2, PTL DEF Spec
<1> QED
  BY <1>3 DEF ImplementsAddressSpace, Promise!Spec

\* ChangesAreAsked of VMM: map and unmap change what they are asked to change and
\* nothing else, from the jump to the kernel on.
THEOREM ChangesAsked ==
    ASSUME Fit, Asserts
    PROVE  Spec => ChangesAreAsked
  BY Refinement, MapsDeliver DEF ChangesAreAsked

-------------------------------------------------------------------------------
(***************************************************************************)
(* The kernel moves to the high half                                       *)
(***************************************************************************)

\* Page u is of a request of the bootloader, in its size.
Asked(p, r, u) ==
    \E q \in Range(BootMaps(machine)) :
        Touched(u, q.virt, q.huge) /\ (HugeAt(p, r, u) <=> q.huge)

\* The bootloader has delivered what it has not still to do, and nothing else.
BootDelivers ==
    phase = "booting" =>
        /\ \A q \in Range(BootMaps(machine)) : q \in Range(todo) \/ Delivered(pte, cr3, q)
        /\ \A u \in Virtual : Translate(pte, cr3, u) # None => Asked(pte, cr3, u)

\* What the bootloader has mapped in the high half stays.
HighHalf ==
    InKernel =>
        \A q \in Range(BootMaps(machine)) : q.virt[1] # Identity => Delivered(pte, cr3, q)

\* What the identity map still has is the bootloader's, and the unmaps of the kernel
\* that would have removed it are still to be done.
LowHalf ==
    InKernel =>
        \A u \in Virtual : u[1] = Identity /\ Translate(pte, cr3, u) # None =>
            /\ Asked(pte, cr3, u)
            /\ \A w \in Range(KernelUnmaps(machine)) :
                 w \in Range(todo) \/ ~Touched(u, w.virt, HugeAt(pte, cr3, u))

\* The kernel maps devices and the heap, and unmaps the heap and the identity map.
Directed ==
    InKernel =>
        \A k \in DOMAIN todo :
            todo[k].virt[1] \in IF todo[k].kind = "map" THEN {MMIO, Heap} ELSE {Identity, Heap}

MInv == BootDelivers /\ HighHalf /\ LowHalf /\ Directed

\* The first of a sequence is all that its tail may miss.
LEMMA TailHolds ==
    ASSUME NEW S, NEW s \in Seq(S), s # << >>, NEW x \in Range(s), x # Head(s)
    PROVE  x \in Range(Tail(s))
<1>1. PICK k \in DOMAIN s : s[k] = x
  BY DEF Range
<1>2. /\ Len(s) \in Nat /\ DOMAIN s = 1 .. Len(s) /\ Tail(s) \in Seq(S) /\ Len(Tail(s)) = Len(s) - 1
      /\ \A i \in 1 .. Len(Tail(s)) : Tail(s)[i] = s[i + 1]
  BY HeadTailProperties, LenProperties, EmptySeq
<1>3. DOMAIN Tail(s) = 1 .. Len(Tail(s))
  BY <1>2, LenProperties
<1>4. Head(s) = s[1]
  BY TailIs
<1>5. k # 1
  BY <1>1, <1>4
<1>6. k - 1 \in 1 .. Len(Tail(s)) /\ (k - 1) + 1 = k
  BY <1>2, <1>5
<1>7. Tail(s)[k - 1] = x
  BY <1>1, <1>2, <1>6
<1> QED
  BY <1>3, <1>6, <1>7 DEF Range

\* The slots and the frames of the bootloader's requests.
LEMMA BootRequestIs ==
    ASSUME NEW m \in Machines, NEW q \in Range(BootMaps(m))
    PROVE  /\ q.virt \in Virtual /\ q.phys \in Frames /\ q.huge \in BOOLEAN
           /\ \E slot : q.virt = V(slot, q.phys)
           /\ q.virt[1] # Heap
<1>1. PICK slot \in {Identity, HHDM, Kern}, f \in Frames, huge \in BOOLEAN, cached \in BOOLEAN :
        q = MapReq(slot, f, huge, cached)
  <2>1. BootMaps(m) \in Seq(BootRequests)
    BY BootMapsHold
  <2>2. q \in BootRequests
    BY <2>1 DEF Range
  <2> QED
    BY <2>2 DEF BootRequests
<1>2. q.virt = V(slot, q.phys)
  BY <1>1 DEF MapReq
<1> QED
  BY <1>2, BootRequestFacts

\* The huge pages of the bootloader are chunks of the memory map.
LEMMA HugeIsChunk ==
    ASSUME NEW m \in Machines, NEW q \in Range(BootMaps(m)), q.huge
    PROVE  q.phys = HugeFrames * (q.phys \div HugeFrames)
<1>1. ASSUME NEW slot, NEW f, NEW cached
      PROVE  q # MapReq(slot, f, FALSE, cached)
  <2>1. MapReq(slot, f, FALSE, cached).huge = FALSE
    BY DEF MapReq
  <2> QED
    BY <2>1
<1>2. \/ \E i, c : IsChunk(m, i, c) /\ q = MapReq(HHDM, c, TRUE, IsUsable(m.map[i]))
      \/ \E i, c : IsChunk(m, i, c) /\ q = MapReq(Identity, c, TRUE, TRUE)
  <2>1. /\ ~\E f \in LowFrames .. (LowFrames + m.kernelFrames - 1) : q = MapReq(Kern, f, FALSE, TRUE)
        /\ ~\E f \in 0 .. (LowFrames - 1) : q = MapReq(Identity, f, FALSE, TRUE)
        /\ ~\E f \in m.imageFirst .. m.imageLast : q = MapReq(Identity, f, FALSE, TRUE)
    BY <1>1, Zenon
  <2>2. \/ \E f \in LowFrames .. (LowFrames + m.kernelFrames - 1) : q = MapReq(Kern, f, FALSE, TRUE)
        \/ \E i, c : IsChunk(m, i, c) /\ q = MapReq(HHDM, c, TRUE, IsUsable(m.map[i]))
        \/ \E i, c : IsChunk(m, i, c) /\ q = MapReq(Identity, c, TRUE, TRUE)
                     /\ c > LowFrames /\ IsUsable(m.map[i])
        \/ \E f \in 0 .. (LowFrames - 1) : q = MapReq(Identity, f, FALSE, TRUE)
        \/ \E f \in m.imageFirst .. m.imageLast : q = MapReq(Identity, f, FALSE, TRUE)
    BY BootMapsHold
  <2> QED
    BY <2>1, <2>2
<1>3. PICK i, c, slot, cached : IsChunk(m, i, c) /\ q = MapReq(slot, c, TRUE, cached)
  BY <1>2, Zenon
<1>4. q.phys = c
  BY <1>3 DEF MapReq
<1> QED
  BY <1>3, <1>4, ChunkFacts DEF IsChunk

\* Requests for the same huge page, or the same page, are for the same frames.
LEMMA SamePhys ==
    ASSUME NEW m \in Machines, NEW a \in Range(BootMaps(m)), NEW b \in Range(BootMaps(m)),
           NEW u, Touched(u, a.virt, a.huge), Touched(u, b.virt, b.huge), a.huge = b.huge
    PROVE  a.phys = b.phys
<1>1. PICK s, t : a.virt = V(s, a.phys) /\ b.virt = V(t, b.phys)
  BY BootRequestIs
<1>2. a.phys \in Nat /\ b.phys \in Nat /\ a.huge \in BOOLEAN
  BY BootRequestIs, LayoutAssumption DEF Frames
<1>3. SamePlace(V(s, a.phys), V(t, b.phys))
  BY <1>1 DEF Touched, SamePlace
<1>4. CASE a.huge
  <2>1. /\ a.phys = HugeFrames * (a.phys \div HugeFrames)
        /\ b.phys = HugeFrames * (b.phys \div HugeFrames)
    BY <1>4, HugeIsChunk
  <2>2. a.phys \div HugeFrames = b.phys \div HugeFrames
    BY <1>2, <1>3, VIsOne
  <2> QED
    BY <2>1, <2>2
<1>5. CASE ~a.huge
  <2>1. V(s, a.phys)[4] = V(t, b.phys)[4]
    BY <1>1, <1>5 DEF Touched
  <2> QED
    BY <1>2, <1>3, <2>1, VIsOne
<1> QED
  BY <1>2, <1>4, <1>5

\* The unmaps of the kernel's Init.
LEMMA KernelUnmapIs ==
    ASSUME NEW m \in Machines, NEW w \in Range(KernelUnmaps(m))
    PROVE  w.kind = "unmap" /\ w.virt \in Virtual /\ w.virt[1] = Identity
<1>1. PICK i, c : IsChunk(m, i, c) /\ w = UnmapReq(V(Identity, c))
  BY KernelUnmapsHold
<1>2. c \in Nat
  BY <1>1, ChunkFacts, LayoutAssumption DEF IsChunk, Frames
<1>3. w.kind = "unmap" /\ w.virt = V(Identity, c)
  BY <1>1 DEF UnmapReq
<1> QED
  BY <1>2, <1>3, VIsVirtual, LayoutAssumption

\* A page that a request has been delivered to leads somewhere.
LEMMA DeliveredIs ==
    ASSUME NEW m \in Machines, NEW q \in Range(BootMaps(m)), NEW p, NEW r, Delivered(p, r, q),
           NEW u \in Virtual, Touched(u, q.virt, q.huge)
    PROVE  Translate(p, r, u) # None
<1>1. q.phys \in Nat
  BY BootRequestIs, LayoutAssumption DEF Frames
<1>2. u[4] \in Nat
  BY VirtualFacts
<1> QED
  BY <1>1, <1>2 DEF Delivered, None

\* An empty PML4 translates nothing.
LEMMA BootInitMoves ==
    ASSUME IInv', BootInit
    PROVE  MInv'
<1>1. phase' = "booting" /\ todo' = BootMaps(machine) /\ machine' = machine
      /\ pte' = ClearTable(pte, cr3')
  BY DEF BootInit
<1>2. Sound(Tables', cr3', Kept')
  BY <1>1 DEF IInv, Booting
<1>3. IsMemory(pte') /\ Tables'.pte = pte'
  BY <1>2, TablesNext DEF Sound
<1>4. PICK d : Tree(pte', cr3', Kept' \ Tables'.free, d)
  BY <1>2, <1>3 DEF Sound
<1>5. ASSUME NEW u \in Virtual PROVE Translate(pte', cr3', u) = None
  <2>1. << cr3', u[1] >> \notin DOMAIN pte'
    <3>1. << cr3', u[1] >>[1] = cr3'
      OBVIOUS
    <3> QED
      BY <1>1, <3>1 DEF ClearTable, Restrict
  <2>2. First(pte', cr3', u) = None
    BY <2>1 DEF First, Down, Present
  <2>3. Third(pte', cr3', u) = None
    BY <1>3, <1>4, <2>2, WalkFacts
  <2> QED
    BY <1>3, <1>4, <2>3, TranslateType
<1>6. BootDelivers'
  BY <1>1, <1>5 DEF BootDelivers
<1> QED
  BY <1>1, <1>6 DEF MInv, HighHalf, LowHalf, Directed, InKernel

\* Two requests that are about the same page are delivered together.
LEMMA DeliveredTwice ==
    ASSUME NEW m \in Machines, SizesAgree(m),
           NEW a \in Range(BootMaps(m)), NEW b \in Range(BootMaps(m)),
           NEW p, NEW q, NEW r, Delivered(p, r, a), Delivers(p, q, r, b)
    PROVE  Delivered(q, r, a)
<1> SUFFICES ASSUME NEW u \in Virtual, Touched(u, a.virt, a.huge)
             PROVE  /\ Translate(q, r, u) = IF a.huge THEN a.phys + u[4] ELSE a.phys
                    /\ HugeAt(q, r, u) <=> a.huge
  BY DEF Delivered
<1>1. /\ Translate(p, r, u) = IF a.huge THEN a.phys + u[4] ELSE a.phys
      /\ HugeAt(p, r, u) <=> a.huge
  BY DEF Delivered
<1>2. CASE ~Touched(u, b.virt, b.huge)
  BY <1>1, <1>2 DEF Delivers
<1>3. CASE Touched(u, b.virt, b.huge)
  <2>1. SamePlace(a.virt, b.virt)
    BY <1>3 DEF Touched, SamePlace
  <2>2. a.huge = b.huge
    BY <2>1, SizesAreOne
  <2>3. /\ Translate(q, r, u) = IF b.huge THEN b.phys + u[4] ELSE b.phys
        /\ HugeAt(q, r, u) <=> b.huge
    BY <1>3 DEF Delivers, Delivered
  <2>4. a.phys = b.phys
    BY <1>3, <2>2, SamePhys
  <2> QED
    BY <2>2, <2>3, <2>4
<1> QED
  BY <1>2, <1>3

LEMMA BootMapStepMoves ==
    ASSUME IInv, MInv, Fit, BootMapStep
    PROVE  MInv'
<1> DEFINE o == BootMap(Tables, cr3, Head(todo))
           h == Head(todo)
<1>1. /\ machine \in Machines /\ phase = "booting" /\ Sound(Tables, cr3, Kept)
      /\ Room(Tables, cr3, machine) /\ Known(pte, cr3, machine) /\ HeapEmpty(pte, cr3)
      /\ todo \in Seq(Range(BootMaps(machine))) /\ todo # << >>
  BY DEF IInv, Basics, Booting, BootMapStep
<1>2. /\ pte' = o.pte /\ todo' = Tail(todo) /\ machine' = machine /\ phase' = phase /\ cr3' = cr3
  BY DEF BootMapStep, Install
<1>3. h \in Range(BootMaps(machine))
  BY <1>1, HeadTailProperties
<1>4. cr3 \in Frames /\ SizesAgree(machine)
  BY <1>1 DEF Sound, Tree, Fit
<1>5. Delivers(pte, pte', cr3, h)
  <2>1. o = BootMap(Tables, cr3, h)
    OBVIOUS
  <2>2. Known(Tables.pte, cr3, machine) /\ HeapEmpty(Tables.pte, cr3)
    BY <1>1, TablesIs
  <2> HIDE DEF o, h
  <2>3. Delivers(Tables.pte, o.pte, cr3, h)
    BY <1>1, <1>3, <1>4, <2>1, <2>2, BootMapStepSound
  <2> QED
    BY <1>2, <2>3, TablesIs
<1>6. ASSUME NEW q \in Range(BootMaps(machine)) PROVE q \in Range(todo') \/ Delivered(pte', cr3, q)
  <2>1. CASE q = h
    BY <1>5, <2>1 DEF Delivers
  <2>2. CASE q # h /\ q \in Range(todo)
    BY <1>1, <1>2, <2>2, TailHolds
  <2>3. CASE q \notin Range(todo)
    <3>1. Delivered(pte, cr3, q)
      BY <1>1, <2>3 DEF MInv, BootDelivers
    <3> HIDE DEF h
    <3> QED
      BY <1>1, <1>3, <1>4, <1>5, <3>1, DeliveredTwice
  <2> QED
    BY <2>1, <2>2, <2>3
<1>7. ASSUME NEW u \in Virtual, Translate(pte', cr3, u) # None
      PROVE  \E q \in Range(BootMaps(machine)) :
                Touched(u, q.virt, q.huge) /\ (HugeAt(pte', cr3, u) <=> q.huge)
  <2>1. CASE Touched(u, h.virt, h.huge)
    <3>1. HugeAt(pte', cr3, u) <=> h.huge
      BY <1>5, <2>1 DEF Delivers, Delivered
    <3> QED
      BY <1>3, <2>1, <3>1
  <2>2. CASE ~Touched(u, h.virt, h.huge)
    <3>1. /\ Translate(pte', cr3, u) = Translate(pte, cr3, u)
          /\ HugeAt(pte', cr3, u) <=> HugeAt(pte, cr3, u)
      BY <1>5, <2>2 DEF Delivers
    <3>2. Asked(pte, cr3, u)
      BY <1>1, <1>7, <3>1 DEF MInv, BootDelivers
    <3> QED
      BY <3>1, <3>2 DEF Asked
  <2> QED
    BY <2>1, <2>2
<1> HIDE DEF o, h
<1>8. BootDelivers'
  BY <1>2, <1>6, <1>7 DEF BootDelivers, Asked
<1> QED
  BY <1>1, <1>2, <1>8 DEF MInv, HighHalf, LowHalf, Directed, InKernel

LEMMA KernelInitMoves ==
    ASSUME IInv, MInv, KernelInit
    PROVE  MInv'
<1>1. /\ phase = "booting" /\ todo = << >> /\ phase' = "kernel" /\ todo' = KernelUnmaps(machine)
      /\ machine' = machine /\ pte' = pte /\ cr3' = cr3 /\ machine \in Machines
  BY DEF KernelInit, IInv, Basics
<1>2. \A q \in Range(BootMaps(machine)) : Delivered(pte, cr3, q)
  <2>1. Range(todo) = {}
    BY <1>1 DEF Range
  <2> QED
    BY <1>1, <2>1 DEF MInv, BootDelivers
<1>3. \A u \in Virtual : Translate(pte, cr3, u) # None => Asked(pte, cr3, u)
  BY <1>1 DEF MInv, BootDelivers
<1>4. \A k \in DOMAIN todo' : todo'[k].kind = "unmap" /\ todo'[k].virt[1] = Identity
  <2>1. \A k \in DOMAIN todo' : todo'[k] \in Range(KernelUnmaps(machine))
    BY <1>1 DEF Range
  <2> QED
    BY <1>1, <2>1, KernelUnmapIs
<1>5. HighHalf' /\ BootDelivers'
  BY <1>1, <1>2 DEF HighHalf, BootDelivers
<1>6. LowHalf'
  BY <1>1, <1>3 DEF LowHalf, Asked
<1>7. Directed'
  BY <1>4 DEF Directed
<1> QED
  BY <1>5, <1>6, <1>7 DEF MInv

\* A step that takes no translation away, makes none in the identity map and drops
\* none of the unmaps.
LEMMA KeptMoves ==
    ASSUME IInv, MInv, InKernel, InKernel', machine' = machine, cr3' = cr3,
           \A u \in Virtual :
              /\ Translate(pte, cr3, u) # None =>
                   /\ Translate(pte', cr3, u) = Translate(pte, cr3, u)
                   /\ HugeAt(pte', cr3, u) <=> HugeAt(pte, cr3, u)
              /\ u[1] = Identity /\ Translate(pte', cr3, u) # None => Translate(pte, cr3, u) # None,
           \A w \in Range(KernelUnmaps(machine)) : w \in Range(todo) => w \in Range(todo'),
           Directed'
    PROVE  MInv'
<1>1. machine \in Machines
  BY DEF IInv, Basics
<1>2. phase' # "booting"
  BY DEF InKernel
<1>3. ASSUME NEW q \in Range(BootMaps(machine)), q.virt[1] # Identity
      PROVE  Delivered(pte', cr3, q)
  <2>1. Delivered(pte, cr3, q)
    BY <1>3 DEF MInv, HighHalf
  <2>2. \A u \in Virtual : Touched(u, q.virt, q.huge) => Translate(pte, cr3, u) # None
    BY <1>1, <2>1, DeliveredIs
  <2> QED
    BY <2>1, <2>2 DEF Delivered
<1>4. ASSUME NEW u \in Virtual, u[1] = Identity, Translate(pte', cr3, u) # None
      PROVE  /\ \E q \in Range(BootMaps(machine)) :
                  Touched(u, q.virt, q.huge) /\ (HugeAt(pte', cr3, u) <=> q.huge)
             /\ \A w \in Range(KernelUnmaps(machine)) :
                  w \in Range(todo') \/ ~Touched(u, w.virt, HugeAt(pte', cr3, u))
  <2>1. Translate(pte, cr3, u) # None /\ (HugeAt(pte', cr3, u) <=> HugeAt(pte, cr3, u))
    BY <1>4
  <2>2. /\ Asked(pte, cr3, u)
        /\ \A w \in Range(KernelUnmaps(machine)) :
             w \in Range(todo) \/ ~Touched(u, w.virt, HugeAt(pte, cr3, u))
    BY <1>4, <2>1 DEF MInv, LowHalf
  <2>3. \A v : Touched(u, v, HugeAt(pte', cr3, u)) <=> Touched(u, v, HugeAt(pte, cr3, u))
    BY <2>1 DEF Touched
  <2> QED
    BY <2>1, <2>2, <2>3 DEF Asked
<1>5. BootDelivers' /\ HighHalf'
  BY <1>2, <1>3 DEF BootDelivers, HighHalf
<1>6. LowHalf'
  BY <1>4 DEF LowHalf, Asked
<1> QED
  BY <1>5, <1>6 DEF MInv


\* An unmap removes what its page leads to, whether or not there is anything.
LEMMA UnmapStepRemoves ==
    ASSUME IInv, UnmapStep
    PROVE  Removes(pte, pte', cr3, Head(todo).virt)
<1> DEFINE v == Head(todo).virt
<1>1. CASE Reaches(v)
  BY <1>1, UnmapReached
<1>2. CASE ~Reaches(v)
  <2>1. pte' = pte /\ phase = "kernel"
    BY <1>2 DEF UnmapStep
  <2>2. Third(pte, cr3, v) = None
    BY <1>2 DEF Reaches, Third, Down
  <2>3. IsMemory(pte)
    BY <2>1, KernelFacts DEF InKernel
  <2>4. PICK d : Tree(pte, cr3, Kept \ free, d)
    BY <2>1, KernelFacts DEF InKernel
  <2> HIDE DEF v
  <2>5. ASSUME NEW u \in Virtual, Touched(u, v, HugeAt(pte, cr3, v))
        PROVE  Translate(pte, cr3, u) = None
    <3>1. SamePlace(u, v)
      BY <2>5 DEF Touched, SamePlace
    <3>2. Third(pte, cr3, u) = None
      BY <2>2, <3>1, PlaceShared
    <3> QED
      BY <2>3, <2>4, <3>2, TranslateType
  <2>6. Removes(pte, pte, cr3, v)
    BY <2>5 DEF Removes
  <2> QED
    BY <2>1, <2>6 DEF v
<1> QED
  BY <1>1, <1>2

\* The kernel's operations are done one after the other.
LEMMA TailDirected ==
    ASSUME IInv, MInv, InKernel, todo # << >>, todo' = Tail(todo)
    PROVE  /\ Directed'
           /\ Head(todo).virt[1] \in IF Head(todo).kind = "map" THEN {MMIO, Heap} ELSE {Identity, Heap}
           /\ \A w \in Range(todo) : w # Head(todo) => w \in Range(todo')
<1>1. todo \in Seq(MapRequests \cup Unmaps)
  BY KernelFacts
<1>2. \A k \in DOMAIN todo :
        todo[k].virt[1] \in IF todo[k].kind = "map" THEN {MMIO, Heap} ELSE {Identity, Heap}
  BY DEF MInv, Directed
<1>3. /\ Head(todo) = todo[1] /\ 1 \in DOMAIN todo
      /\ \A k \in DOMAIN todo' : k + 1 \in DOMAIN todo /\ todo'[k] = todo[k + 1]
  BY <1>1, TailIs
<1>4. Directed'
  BY <1>2, <1>3 DEF Directed
<1>5. \A w \in Range(todo) : w # Head(todo) => w \in Range(todo')
  BY <1>1, TailHolds
<1> QED
  BY <1>2, <1>3, <1>4, <1>5

LEMMA UnmapStepMoves ==
    ASSUME IInv, MInv, UnmapStep
    PROVE  MInv'
<1> DEFINE v == Head(todo).virt
<1>1. /\ phase = "kernel" /\ phase' = "kernel" /\ todo # << >> /\ Head(todo).kind = "unmap"
      /\ todo' = Tail(todo) /\ machine' = machine /\ cr3' = cr3
  BY DEF UnmapStep
<1>2. InKernel /\ InKernel'
  BY <1>1 DEF InKernel
<1>3. machine \in Machines
  BY DEF IInv, Basics
<1>4. Removes(pte, pte', cr3, v)
  BY UnmapStepRemoves
<1>5. /\ Directed' /\ v[1] \in {Identity, Heap}
      /\ \A w \in Range(todo) : w # Head(todo) => w \in Range(todo')
  BY <1>1, <1>2, TailDirected
<1>6. \A w : w = Head(todo) => w.virt = v
  OBVIOUS
<1> HIDE DEF v
<1>7. ASSUME NEW q \in Range(BootMaps(machine)), q.virt[1] # Identity
      PROVE  Delivered(pte', cr3, q)
  <2>1. Delivered(pte, cr3, q)
    BY <1>2, <1>7 DEF MInv, HighHalf
  <2>2. q.virt[1] # v[1]
    BY <1>3, <1>5, <1>7, BootRequestIs
  <2>3. ASSUME NEW u, Touched(u, q.virt, q.huge)
        PROVE  ~Touched(u, v, HugeAt(pte, cr3, v))
    <3>1. u[1] = q.virt[1]
      BY <2>3 DEF Touched, SamePlace
    <3> QED
      BY <2>2, <3>1 DEF Touched, SamePlace
  <2> QED
    BY <1>4, <2>1, <2>3 DEF Delivered, Removes
<1>8. ASSUME NEW u \in Virtual, u[1] = Identity, Translate(pte', cr3, u) # None
      PROVE  /\ \E q \in Range(BootMaps(machine)) :
                  Touched(u, q.virt, q.huge) /\ (HugeAt(pte', cr3, u) <=> q.huge)
             /\ \A w \in Range(KernelUnmaps(machine)) :
                  w \in Range(todo') \/ ~Touched(u, w.virt, HugeAt(pte', cr3, u))
  <2>1. /\ ~Touched(u, v, HugeAt(pte, cr3, v))
        /\ Translate(pte', cr3, u) = Translate(pte, cr3, u)
        /\ HugeAt(pte', cr3, u) <=> HugeAt(pte, cr3, u)
    BY <1>4, <1>8 DEF Removes
  <2>2. /\ Asked(pte, cr3, u)
        /\ \A w \in Range(KernelUnmaps(machine)) :
             w \in Range(todo) \/ ~Touched(u, w.virt, HugeAt(pte, cr3, u))
    BY <1>2, <1>8, <2>1 DEF MInv, LowHalf
  <2>3. \A x : Touched(u, x, HugeAt(pte', cr3, u)) <=> Touched(u, x, HugeAt(pte, cr3, u))
    BY <2>1 DEF Touched
  <2>4. ~Touched(u, v, HugeAt(pte, cr3, u))
    <3>1. SamePlace(u, v) => (HugeAt(pte, cr3, u) <=> HugeAt(pte, cr3, v))
      BY PlaceShared
    <3>2. u = v => SamePlace(u, v)
      BY DEF SamePlace
    <3> QED
      BY <2>1, <3>1, <3>2 DEF Touched
  <2>5. ASSUME NEW w \in Range(KernelUnmaps(machine)), w \notin Range(todo')
        PROVE  ~Touched(u, w.virt, HugeAt(pte', cr3, u))
    <3>1. CASE w = Head(todo)
      BY <1>6, <2>3, <2>4, <3>1
    <3>2. CASE w # Head(todo)
      BY <1>5, <2>2, <2>3, <2>5, <3>2
    <3> QED
      BY <3>1, <3>2
  <2> QED
    BY <2>1, <2>2, <2>5 DEF Asked
<1>9. BootDelivers' /\ HighHalf'
  BY <1>1, <1>7 DEF BootDelivers, HighHalf
<1>10. LowHalf'
  BY <1>1, <1>8 DEF LowHalf, Asked
<1> QED
  BY <1>5, <1>9, <1>10 DEF MInv

\* A map takes no unmap's turn.
LEMMA TurnTaken ==
    ASSUME IInv, MInv, Mapping, todo' = Tail(todo)
    PROVE  Directed' /\ \A w \in Range(KernelUnmaps(machine)) : w \in Range(todo) => w \in Range(todo')
<1>1. InKernel /\ todo # << >> /\ Head(todo).kind = "map" /\ machine \in Machines
  BY DEF Mapping, InKernel, IInv, Basics
<1>2. \A w \in Range(KernelUnmaps(machine)) : w # Head(todo)
  BY <1>1, KernelUnmapIs
<1> QED
  BY <1>1, <1>2, TailDirected

\* A map that sets no entry has changed no translation.
LEMMA GrownMoves ==
    ASSUME IInv, MInv, MapPanics \/ MapFinds
    PROVE  MInv'
<1>1. /\ InKernel /\ InKernel' /\ Install(Built) /\ Mapping
      /\ machine' = machine /\ cr3' = cr3
      /\ todo' = todo \/ todo' = Tail(todo)
  BY DEF InKernel, MapPanics, MapFinds, Mapping
<1>2. pte' = Built.pte /\ Grows(pte, Built.pte, cr3, Head(todo).virt)
  BY <1>1, BuiltFacts, TablesIs DEF Install, Step
<1>3. Directed' /\ \A w \in Range(KernelUnmaps(machine)) : w \in Range(todo) => w \in Range(todo')
  <2>1. CASE todo' = todo
    BY <1>1, <2>1 DEF MInv, Directed
  <2>2. CASE todo' = Tail(todo)
    BY <1>1, <2>2, TurnTaken
  <2> QED
    BY <1>1, <2>1, <2>2
<1>4. \A u \in Virtual :
        /\ Translate(pte', cr3, u) = Translate(pte, cr3, u)
        /\ HugeAt(pte', cr3, u) <=> HugeAt(pte, cr3, u)
  BY <1>2 DEF Grows
<1> QED
  BY <1>1, <1>3, <1>4, KeptMoves

LEMMA MapSetsMoves ==
    ASSUME IInv, MInv, MapSets
    PROVE  MInv'
<1> DEFINE req == Head(todo)
<1>1. /\ InKernel /\ InKernel' /\ Mapping /\ machine' = machine /\ cr3' = cr3
      /\ todo' = Tail(todo) /\ todo # << >> /\ req.kind = "map"
  BY DEF InKernel, MapSets, Mapping
<1>2. Adds(pte, pte', cr3, req)
  BY MapSetsFacts
<1>3. req.virt[1] # Identity
  BY <1>1, TailDirected, LayoutAssumption
<1> HIDE DEF req
<1>4. ASSUME NEW u \in Virtual
      PROVE  /\ Translate(pte, cr3, u) # None =>
                  /\ Translate(pte', cr3, u) = Translate(pte, cr3, u)
                  /\ HugeAt(pte', cr3, u) <=> HugeAt(pte, cr3, u)
             /\ u[1] = Identity /\ Translate(pte', cr3, u) # None => Translate(pte, cr3, u) # None
  <2>1. CASE Touched(u, req.virt, req.huge)
    <3>1. Translate(pte, cr3, u) = None /\ u[1] # Identity
      BY <1>2, <1>3, <2>1 DEF Adds, Touched, SamePlace
    <3> QED
      BY <3>1
  <2>2. CASE ~Touched(u, req.virt, req.huge)
    BY <1>2, <2>2 DEF Adds
  <2> QED
    BY <2>1, <2>2
<1> QED
  BY <1>1, <1>4, TurnTaken, KeptMoves

\* Nothing that is asked for is in the identity map.
LEMMA AskMoves ==
    ASSUME IInv, MInv, Idle, phase' = phase, machine' = machine, pte' = pte, cr3' = cr3,
           \A k \in DOMAIN todo' :
             todo'[k].virt[1] \in IF todo'[k].kind = "map" THEN {MMIO, Heap} ELSE {Identity, Heap}
    PROVE  MInv'
<1>1. InKernel /\ InKernel' /\ todo = << >>
  BY DEF Idle, InKernel
<1>2. Directed'
  BY DEF Directed
<1>3. Range(todo) = {}
  BY <1>1 DEF Range
<1> QED
  BY <1>1, <1>2, <1>3, KeptMoves

LEMMA CallersMove ==
    ASSUME IInv, MInv,
           \/ \E d \in DevicePages : MapMMIO(d[1], d[2])
           \/ \E v \in HeapPages, n \in 1 .. 2 : v[4] + n <= HugeFrames /\ AllocPages(v, n)
           \/ \E v \in HeapPages, d \in DevicePages :
                v[4] = 0 /\ d[1] % HugeFrames = 0 /\ MapHuge(v, d[1])
           \/ \E v \in HeapPages : Unmap(v)
    PROVE  MInv'
<1>1. CASE \E d \in DevicePages : MapMMIO(d[1], d[2])
  <2>1. PICK d \in DevicePages : MapMMIO(d[1], d[2])
    BY <1>1
  <2>2. /\ Idle /\ phase' = phase /\ machine' = machine /\ pte' = pte /\ cr3' = cr3
        /\ todo' = [k \in 1 .. (d[2] - d[1] + 1) |-> MapReq(MMIO, d[1] + k - 1, FALSE, FALSE)]
    BY <2>1 DEF MapMMIO
  <2>3. \A f : MapReq(MMIO, f, FALSE, FALSE).kind = "map" /\ MapReq(MMIO, f, FALSE, FALSE).virt[1] = MMIO
    BY DEF MapReq, V
  <2>4. \A k \in DOMAIN todo' : todo'[k].kind = "map" /\ todo'[k].virt[1] = MMIO
    BY <2>2, <2>3
  <2> QED
    BY <2>2, <2>4, AskMoves
<1>2. CASE \E v \in HeapPages, n \in 1 .. 2 : v[4] + n <= HugeFrames /\ AllocPages(v, n)
  <2>1. PICK v \in HeapPages, n \in 1 .. 2 : AllocPages(v, n)
    BY <1>2
  <2> DEFINE f == Min(Runs(n))
             R(k) == [kind |-> "map", virt |-> [v EXCEPT ![4] = @ + k - 1], phys |-> f + k - 1,
                      huge |-> FALSE, cached |-> TRUE]
  <2>2. /\ Idle /\ phase' = phase /\ machine' = machine /\ pte' = pte /\ cr3' = cr3
        /\ todo' = [k \in 1 .. n |-> R(k)]
    BY <2>1 DEF AllocPages
  <2>3. v \in Virtual /\ v[1] = Heap
    BY CallersAssumption
  <2>4. \A k \in 1 .. n : R(k).kind = "map" /\ R(k).virt[1] = Heap
    <3>1. \A x : [v EXCEPT ![4] = x][1] = v[1]
      <4> SUFFICES ASSUME NEW x PROVE [v EXCEPT ![4] = x][1] = v[1]
        OBVIOUS
      <4>1. v = << v[1], v[2], v[3], v[4] >>
        BY <2>3, VirtualFacts
      <4>2. [<< v[1], v[2], v[3], v[4] >> EXCEPT ![4] = x][1] = v[1]
        OBVIOUS
      <4> QED
        BY <4>1, <4>2
    <3> QED
      BY <2>3, <3>1
  <2> HIDE DEF R
  <2>5. \A k \in DOMAIN todo' : todo'[k].kind = "map" /\ todo'[k].virt[1] = Heap
    BY <2>2, <2>4
  <2> QED
    BY <2>2, <2>5, AskMoves
<1>3. CASE \E v \in HeapPages, d \in DevicePages :
             v[4] = 0 /\ d[1] % HugeFrames = 0 /\ MapHuge(v, d[1])
  <2>1. PICK v \in HeapPages, d \in DevicePages : MapHuge(v, d[1])
    BY <1>3
  <2>2. /\ Idle /\ phase' = phase /\ machine' = machine /\ pte' = pte /\ cr3' = cr3
        /\ \A k \in DOMAIN todo' : todo'[k].kind = "map" /\ todo'[k].virt = v
    BY <2>1 DEF MapHuge
  <2>3. v[1] = Heap
    BY CallersAssumption
  <2> QED
    BY <2>2, <2>3, AskMoves
<1>4. CASE \E v \in HeapPages : Unmap(v)
  <2>1. PICK v \in HeapPages : Unmap(v)
    BY <1>4
  <2>2. /\ Idle /\ phase' = phase /\ machine' = machine /\ pte' = pte /\ cr3' = cr3
        /\ todo' = << UnmapReq(v) >>
    BY <2>1 DEF Unmap
  <2>3. UnmapReq(v).kind = "unmap" /\ UnmapReq(v).virt[1] = Heap
    BY CallersAssumption DEF UnmapReq
  <2>4. \A k \in DOMAIN todo' : todo'[k].kind = "unmap" /\ todo'[k].virt[1] = Heap
    BY <2>2, <2>3
  <2> QED
    BY <2>2, <2>4, AskMoves
<1> QED
  BY <1>1, <1>2, <1>3, <1>4

\* Steps that change neither the tables nor what is to be done.
LEMMA StillMoves ==
    ASSUME IInv, MInv, UNCHANGED << machine, phase, pte, cr3, todo >>
    PROVE  MInv'
  BY DEF MInv, BootDelivers, HighHalf, LowHalf, Directed, Asked, InKernel

LEMMA NextMInv ==
    ASSUME Fit, IInv, IInv', MInv, [Next]_vars
    PROVE  MInv'
<1>1. CASE BootInit
  BY <1>1, BootInitMoves
<1>2. CASE BootMapStep
  BY <1>2, BootMapStepMoves
<1>3. CASE KernelInit
  BY <1>3, KernelInitMoves
<1>4. CASE UnmapStep
  BY <1>4, UnmapStepMoves
<1>5. CASE MapPanics \/ MapFinds
  BY <1>5, GrownMoves
<1>6. CASE MapSets
  BY <1>6, MapSetsMoves
<1>7. CASE \/ \E d \in DevicePages : MapMMIO(d[1], d[2])
           \/ \E v \in HeapPages, n \in 1 .. 2 : v[4] + n <= HugeFrames /\ AllocPages(v, n)
           \/ \E v \in HeapPages, d \in DevicePages :
                v[4] = 0 /\ d[1] % HugeFrames = 0 /\ MapHuge(v, d[1])
           \/ \E v \in HeapPages : Unmap(v)
  BY <1>7, CallersMove
<1>8. CASE \/ \E f \in held : FreeFrame(f)
           \/ \E v \in CachedPages : Walk(v)
           \/ UNCHANGED vars
  <2>1. UNCHANGED << machine, phase, pte, cr3, todo >>
    BY <1>8 DEF FreeFrame, Walk, vars
  <2> QED
    BY <2>1, StillMoves
<1> QED
  BY <1>1, <1>2, <1>3, <1>4, <1>5, <1>6, <1>7, <1>8 DEF Next

LEMMA Moving ==
    ASSUME Fit
    PROVE  Spec => []MInv
<1>1. Init => MInv
  BY DEF Init, MInv, BootDelivers, HighHalf, LowHalf, Directed, InKernel
<1>2. IInv /\ IInv' /\ MInv /\ [Next]_vars => MInv'
  BY NextMInv
<1> QED
  BY Invariance, <1>1, <1>2, PTL DEF Spec

\* The image and the memory of the map, in the high half.
LEMMA HighHalfMapped ==
    ASSUME IInv, MInv
    PROVE  KernelStaysMapped
<1> SUFFICES ASSUME InKernel
             PROVE  /\ \A f \in LowFrames .. (LowFrames + machine.kernelFrames - 1) :
                         Translate(pte, cr3, V(Kern, f)) = f
                    /\ \A i \in DOMAIN machine.map :
                         \A f \in machine.map[i].base .. (machine.map[i].base + machine.map[i].length - 1) :
                             Translate(pte, cr3, V(HHDM, f)) = f
  BY DEF KernelStaysMapped, InKernel
<1>1. machine \in Machines
  BY DEF IInv, Basics
<1>2. ASSUME NEW q \in Range(BootMaps(machine)), q.virt[1] # Identity
      PROVE  Delivered(pte, cr3, q)
  BY <1>2 DEF MInv, HighHalf
<1>3. /\ Kern \in Nat /\ HHDM \in Nat /\ Kern # Identity /\ HHDM # Identity /\ LowFrames \in Nat
      /\ machine.kernelFrames \in Nat
  BY <1>1, LayoutAssumption, GeometryAssumption, MachinesAssumption
<1>4. ASSUME NEW f \in LowFrames .. (LowFrames + machine.kernelFrames - 1)
      PROVE  Translate(pte, cr3, V(Kern, f)) = f
  <2> DEFINE q == MapReq(Kern, f, FALSE, TRUE)
  <2>1. q \in Range(BootMaps(machine))
    BY <1>1, BootMapsHold
  <2>2. q.virt = V(Kern, f) /\ q.phys = f /\ q.huge = FALSE
    BY DEF MapReq
  <2>3. f \in Nat
    BY <1>3
  <2>4. V(Kern, f) \in Virtual /\ V(Kern, f)[1] = Kern
    BY <1>3, <2>3, VIsVirtual
  <2> HIDE DEF q
  <2>5. Delivered(pte, cr3, q)
    BY <1>2, <1>3, <2>1, <2>2, <2>4
  <2> QED
    BY <2>2, <2>4, <2>5 DEF Delivered, Touched
<1>5. ASSUME NEW i \in DOMAIN machine.map,
             NEW f \in machine.map[i].base .. (machine.map[i].base + machine.map[i].length - 1)
      PROVE  Translate(pte, cr3, V(HHDM, f)) = f
  <2> DEFINE c == HugeFrames * (f \div HugeFrames)
             q == MapReq(HHDM, c, TRUE, IsUsable(machine.map[i]))
  <2>1. machine.map[i] \in MapEntries
    BY <1>1, ChunkFacts
  <2>2. f \in Nat
    BY <2>1 DEF MapEntries
  <2>3. IsChunk(machine, i, c)
    BY <2>1, ChunksHold DEF IsChunk
  <2>4. /\ c \in Nat /\ f = c + V(HHDM, f)[4] /\ SamePlace(V(HHDM, f), V(HHDM, c))
    BY <2>2, VInHugePage
  <2>5. q.virt = V(HHDM, c) /\ q.phys = c /\ q.huge = TRUE
    BY DEF MapReq
  <2>6. q \in Range(BootMaps(machine))
    BY <1>1, <2>3, BootMapsHold, Zenon
  <2> HIDE DEF c, q
  <2>7. V(HHDM, f) \in Virtual /\ V(HHDM, c)[1] = HHDM
    BY <1>3, <2>2, <2>4, VIsVirtual
  <2>8. Delivered(pte, cr3, q)
    BY <1>2, <1>3, <2>5, <2>6, <2>7
  <2> QED
    BY <2>4, <2>5, <2>7, <2>8 DEF Delivered, Touched
<1> QED
  BY <1>4, <1>5

\* Of the frames that the loader mapped one to one only those of its small pages
\* are left, without page 0: low memory and the loader's image. IdentityMapIsGone
\* of VMM asks for none.
LeftOneToOne ==
    Idle =>
        \A f \in Frames : Translate(pte, cr3, V(Identity, f)) # None =>
            f \in (1 .. LowFrames - 1) \cup (machine.imageFirst .. machine.imageLast)

\* What the kernel's Init leaves of the identity map.
LEMMA LowHalfLeft ==
    ASSUME IInv, MInv, LowMemoryUsable(machine)
    PROVE  LeftOneToOne
<1> SUFFICES ASSUME Idle, NEW f \in Frames, Translate(pte, cr3, V(Identity, f)) # None
             PROVE  f \in (1 .. LowFrames - 1) \cup (machine.imageFirst .. machine.imageLast)
  BY DEF LeftOneToOne
<1> DEFINE u == V(Identity, f)
<1>1. machine \in Machines /\ InKernel /\ todo = << >>
  BY DEF IInv, Basics, Idle, InKernel
<1>2. Identity \in Nat /\ Identity # Kern /\ Identity # HHDM /\ f \in Nat /\ LowFrames \in Nat
  BY LayoutAssumption, GeometryAssumption DEF Frames
<1>3. u \in Virtual /\ u[1] = Identity
  BY <1>2, VIsVirtual
<1>4. Translate(pte, cr3, u) # None
  OBVIOUS
<1> HIDE DEF u
<1>5. /\ Asked(pte, cr3, u)
      /\ \A w \in Range(KernelUnmaps(machine)) : ~Touched(u, w.virt, HugeAt(pte, cr3, u))
  <2>1. Range(todo) = {}
    BY <1>1 DEF Range
  <2> QED
    BY <1>1, <1>3, <1>4, <2>1 DEF MInv, LowHalf
<1>6. ASSUME NEW i, NEW c, IsChunk(machine, i, c), IsUsable(machine.map[i])
      PROVE  ~Touched(u, V(Identity, c), HugeAt(pte, cr3, u))
  <2>1. UnmapReq(V(Identity, c)) \in Range(KernelUnmaps(machine))
    BY <1>1, <1>6, KernelUnmapsHold, Zenon
  <2>2. UnmapReq(V(Identity, c)).virt = V(Identity, c)
    BY DEF UnmapReq
  <2> QED
    BY <1>5, <2>1, <2>2
<1>7. PICK q \in Range(BootMaps(machine)) :
        Touched(u, q.virt, q.huge) /\ (HugeAt(pte, cr3, u) <=> q.huge)
  BY <1>5 DEF Asked
<1>8. q.virt[1] = Identity
  BY <1>3, <1>7 DEF Touched, SamePlace
<1>9. ASSUME NEW slot, NEW g, NEW huge, NEW cached, q = MapReq(slot, g, huge, cached)
      PROVE  q.virt = V(slot, g) /\ q.huge = huge /\ slot = Identity
  <2>1. q.virt = V(slot, g) /\ q.huge = huge
    BY <1>9 DEF MapReq
  <2> QED
    BY <1>8, <2>1 DEF V
<1>10. ASSUME NEW g \in Nat, q = MapReq(Identity, g, FALSE, TRUE)
       PROVE  f = g /\ ~HugeAt(pte, cr3, u)
  <2>1. u = V(Identity, g) /\ ~HugeAt(pte, cr3, u)
    BY <1>7, <1>9, <1>10 DEF Touched
  <2>2. SamePlace(V(Identity, f), V(Identity, g)) /\ V(Identity, f)[4] = V(Identity, g)[4]
    BY <2>1 DEF u, SamePlace
  <2> QED
    BY <1>2, <2>1, <2>2, VIsOne
<1>11. ~\E g \in LowFrames .. (LowFrames + machine.kernelFrames - 1) : q = MapReq(Kern, g, FALSE, TRUE)
  BY <1>2, <1>9
<1>12. ~\E i, c : IsChunk(machine, i, c) /\ q = MapReq(HHDM, c, TRUE, IsUsable(machine.map[i]))
  BY <1>2, <1>9
<1>13. ~\E i, c : IsChunk(machine, i, c) /\ q = MapReq(Identity, c, TRUE, TRUE) /\ IsUsable(machine.map[i])
  <2> SUFFICES ASSUME NEW i, NEW c, IsChunk(machine, i, c), q = MapReq(Identity, c, TRUE, TRUE),
                      IsUsable(machine.map[i])
               PROVE  FALSE
    OBVIOUS
  <2>1. q.virt = V(Identity, c) /\ q.huge = TRUE
    BY <1>9
  <2>2. ~Touched(u, V(Identity, c), HugeAt(pte, cr3, u))
    BY <1>6
  <2> QED
    BY <1>7, <2>1, <2>2 DEF Touched
<1>14. CASE \E g \in 0 .. (LowFrames - 1) : q = MapReq(Identity, g, FALSE, TRUE)
  <2>1. PICK g \in 0 .. (LowFrames - 1) : q = MapReq(Identity, g, FALSE, TRUE)
    BY <1>14
  <2>2. g \in Nat
    BY <1>2
  <2>3. f = g /\ ~HugeAt(pte, cr3, u)
    BY <1>10, <2>1, <2>2
  <2>4. f # 0
    <3>1. PICK i \in DOMAIN machine.map : IsUsable(machine.map[i]) /\ 0 \in Range(Chunks(machine.map[i]))
      BY DEF LowMemoryUsable
    <3>2. ~Touched(u, V(Identity, 0), HugeAt(pte, cr3, u))
      BY <1>6, <3>1 DEF IsChunk
    <3> QED
      BY <2>3, <3>2 DEF Touched, u
  <2> QED
    BY <1>2, <2>3, <2>4
<1>15. CASE \E g \in machine.imageFirst .. machine.imageLast : q = MapReq(Identity, g, FALSE, TRUE)
  <2>1. PICK g \in machine.imageFirst .. machine.imageLast : q = MapReq(Identity, g, FALSE, TRUE)
    BY <1>15
  <2>2. machine.imageFirst \in Nat /\ machine.imageLast \in Nat
    BY <1>1, MachinesAssumption, LayoutAssumption DEF Frames
  <2>3. g \in Nat
    BY <2>2
  <2> QED
    BY <1>10, <2>1, <2>3
<1>16. q \in Range(BootMaps(machine))
  OBVIOUS
<1> HIDE DEF u
<1> QED
  BY <1>1, <1>11, <1>12, <1>13, <1>14, <1>15, <1>16, BootMapsHold, Zenon

\* The huge pages of usable memory, without low memory.
LEMMA UsableUnmapped ==
    ASSUME IInv, MInv, SizesAgree(machine)
    PROVE  UsableMemoryIsUnmapped
<1> SUFFICES ASSUME Idle, NEW i \in DOMAIN machine.map, IsUsable(machine.map[i]),
                    NEW f \in machine.map[i].base .. (machine.map[i].base + machine.map[i].length - 1),
                    LowFrames < HugeStart(f), Translate(pte, cr3, V(Identity, f)) # None
             PROVE  FALSE
  BY DEF UsableMemoryIsUnmapped
<1> DEFINE u == V(Identity, f)
           c == HugeStart(f)
           big == MapReq(Identity, c, TRUE, TRUE)
<1>1. machine \in Machines /\ InKernel /\ todo = << >>
  BY DEF IInv, Basics, Idle, InKernel
<1>2. machine.map[i] \in MapEntries
  BY <1>1, ChunkFacts
<1>3. Identity \in Nat /\ f \in Nat
  BY <1>2, LayoutAssumption DEF MapEntries
<1>4. IsChunk(machine, i, c)
  BY <1>2, ChunksHold DEF IsChunk, HugeStart
<1>5. SamePlace(u, V(Identity, c))
  BY <1>3, VInHugePage DEF HugeStart
<1>6. u \in Virtual /\ u[1] = Identity
  BY <1>3, VIsVirtual
<1>7. Translate(pte, cr3, u) # None /\ c > LowFrames
  BY <1>1, ChunkFacts, <1>4, GeometryAssumption DEF IsChunk, Frames
<1>8. big.virt = V(Identity, c) /\ big.huge = TRUE
  BY DEF MapReq
<1>9. big \in Range(BootMaps(machine))
  BY <1>1, <1>4, <1>7, BootMapsHold, Zenon
<1> HIDE DEF u, c, big
<1>10. /\ Asked(pte, cr3, u)
       /\ \A w \in Range(KernelUnmaps(machine)) : ~Touched(u, w.virt, HugeAt(pte, cr3, u))
  <2>1. Range(todo) = {}
    BY <1>1 DEF Range
  <2> QED
    BY <1>1, <1>6, <1>7, <2>1 DEF MInv, LowHalf
<1>11. ~Touched(u, V(Identity, c), HugeAt(pte, cr3, u))
  <2>1. UnmapReq(V(Identity, c)) \in Range(KernelUnmaps(machine))
    BY <1>1, <1>4, KernelUnmapsHold, Zenon
  <2>2. UnmapReq(V(Identity, c)).virt = V(Identity, c)
    BY DEF UnmapReq
  <2> QED
    BY <1>10, <2>1, <2>2
<1>12. ~HugeAt(pte, cr3, u)
  BY <1>5, <1>11 DEF Touched
<1>13. PICK q \in Range(BootMaps(machine)) :
         Touched(u, q.virt, q.huge) /\ (HugeAt(pte, cr3, u) <=> q.huge)
  BY <1>10 DEF Asked
<1>14. ~q.huge /\ SamePlace(q.virt, big.virt)
  BY <1>5, <1>8, <1>12, <1>13 DEF Touched, SamePlace
<1>15. q.huge = big.huge
  BY <1>1, <1>9, <1>14, SizesAreOne
<1> QED
  BY <1>8, <1>14, <1>15

\* MemoryMovedToHighHalf of VMM: the image and all memory of the map stay where the
\* kernel accesses them from the jump on, and its Init removes the huge pages of
\* usable memory from the identity map.
THEOREM MovesToHighHalf ==
    ASSUME Fit
    PROVE  Spec => []MemoryMovedToHighHalf
<1>1. IInv /\ MInv => MemoryMovedToHighHalf
  <2> SUFFICES ASSUME IInv, MInv PROVE MemoryMovedToHighHalf
    OBVIOUS
  <2>1. SizesAgree(machine)
    BY DEF IInv, Basics, Fit
  <2> QED
    BY <2>1, HighHalfMapped, UsableUnmapped DEF MemoryMovedToHighHalf
<1> QED
  BY Invariance, Moving, <1>1, PTL

\* What Init leaves behind in the code, where IdentityMapIsGone asks for nothing: on
\* machines whose memory at address 0 is usable, at most low memory without page 0
\* and the loader's image.
THEOREM LeavesLowMemory ==
    ASSUME Fit, \A m \in Machines : LowMemoryUsable(m)
    PROVE  Spec => []LeftOneToOne
<1>1. IInv /\ MInv => LeftOneToOne
  <2> SUFFICES ASSUME IInv, MInv PROVE LeftOneToOne
    OBVIOUS
  <2>1. LowMemoryUsable(machine)
    BY DEF IInv, Basics
  <2> QED
    BY <2>1, LowHalfLeft
<1> QED
  BY Invariance, Moving, <1>1, PTL
===============================================================================
