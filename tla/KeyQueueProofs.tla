----------------------------- MODULE KeyQueueProofs -----------------------------
(***************************************************************************)
(* For every size of the ring and whatever the handlers enqueue: the types *)
(* of KeyQueue, that it implements InputQueue, and that escape sequences   *)
(* reach the main loop whole.                                              *)
(***************************************************************************)
EXTENDS KeyQueue, SequenceTheorems, TLAPS

-------------------------------------------------------------------------------
(***************************************************************************)
(* Indices of a ring                                                       *)
(***************************************************************************)

\* Reduction of a number less than one turn off.
LEMMA Modulo ==
    ASSUME NEW n \in Nat \ {0}, NEW a \in Int, 0 - n <= a, a < 2 * n
    PROVE  a % n = IF a < 0 THEN a + n ELSE IF a < n THEN a ELSE a - n
<1> DEFINE q == a \div n
           r == a % n
<1>1. q \in Int /\ r \in 0 .. (n - 1) /\ a = q * n + r
  OBVIOUS
<1> HIDE DEF q, r
<1>2. q \in {-1, 0, 1}
  <2>1. CASE q >= 2
    <3>1. q * n >= 2 * n
      BY <2>1, <1>1
    <3> QED
      BY <3>1, <1>1
  <2>2. CASE q <= -2
    <3>1. q * n <= (-2) * n
      BY <2>2, <1>1
    <3> QED
      BY <3>1, <1>1
  <2> QED
    BY <2>1, <2>2, <1>1
<1>3. (-1) * n = 0 - n /\ 0 * n = 0 /\ 1 * n = n
  OBVIOUS
<1>4. r = IF a < 0 THEN a + n ELSE IF a < n THEN a ELSE a - n
  BY <1>1, <1>2, <1>3
<1> QED
  BY <1>4 DEF r

\* How many characters wait between two indices.
Count(h, t) == IF t >= h THEN t - h ELSE t - h + KeyQueueSize

\* The slot of the k-th of them.
SlotOf(h, k) == IF h + k - 1 < KeyQueueSize THEN h + k - 1 ELSE h + k - 1 - KeyQueueSize

LEMMA SizeFacts ==
    KeyQueueSize \in Nat /\ KeyQueueSize > 1 /\ Slots = 0 .. (KeyQueueSize - 1)
BY QueueAssumption DEF Slots

\* Moving an index on.
LEMMA Next1 ==
    ASSUME NEW i \in Slots
    PROVE  NextSlot(i) \in Slots /\ NextSlot(i) = IF i + 1 < KeyQueueSize THEN i + 1 ELSE 0
<1> DEFINE a == i + 1
           n == KeyQueueSize
<1>1. n \in Nat \ {0} /\ a \in Int /\ 0 - n <= a /\ a < 2 * n /\ 0 <= a /\ a <= n
  BY SizeFacts
<1> HIDE DEF a, n
<1>2. a % n = IF a < 0 THEN a + n ELSE IF a < n THEN a ELSE a - n
  BY <1>1, Modulo
<1>3. a % n = IF a < n THEN a ELSE 0
  BY <1>1, <1>2
<1> QED
  BY <1>1, <1>3, SizeFacts DEF NextSlot, a, n

\* The distance of two indices.
LEMMA Distance ==
    ASSUME NEW h \in Slots, NEW t \in Slots
    PROVE  Count(h, t) \in 0 .. (KeyQueueSize - 1) /\ (t - h) % KeyQueueSize = Count(h, t)
<1> DEFINE a == t - h
           n == KeyQueueSize
<1>1. n \in Nat \ {0} /\ a \in Int /\ 0 - n < a /\ a < n /\ 0 - n <= a /\ a < 2 * n
  BY SizeFacts
<1>2. Count(h, t) = IF a < 0 THEN a + n ELSE a
  BY SizeFacts DEF Count
<1> HIDE DEF a, n
<1>3. a % n = IF a < 0 THEN a + n ELSE IF a < n THEN a ELSE a - n
  BY <1>1, Modulo
<1>4. a % n = Count(h, t) /\ Count(h, t) \in 0 .. (n - 1)
  BY <1>1, <1>2, <1>3
<1> QED
  BY <1>4 DEF a, n

\* The slots from an index on.
LEMMA Place ==
    ASSUME NEW h \in Slots, NEW k \in 1 .. KeyQueueSize
    PROVE  SlotOf(h, k) \in Slots /\ (h + k - 1) % KeyQueueSize = SlotOf(h, k)
<1> DEFINE a == h + k - 1
           n == KeyQueueSize
<1>1. n \in Nat \ {0} /\ a \in Int /\ 0 <= a /\ 0 - n <= a /\ a < 2 * n
  BY SizeFacts
<1>2. SlotOf(h, k) = IF a < n THEN a ELSE a - n
  BY SizeFacts DEF SlotOf
<1> HIDE DEF a, n
<1>3. a % n = IF a < 0 THEN a + n ELSE IF a < n THEN a ELSE a - n
  BY <1>1, Modulo
<1>4. a % n = SlotOf(h, k) /\ SlotOf(h, k) \in 0 .. (n - 1)
  BY <1>1, <1>2, <1>3
<1> QED
  BY <1>4, SizeFacts DEF a, n

-------------------------------------------------------------------------------
(***************************************************************************)
(* What waits                                                              *)
(***************************************************************************)

\* What waits in ring q between indices h and t.
Content(q, h, t) == [k \in 1 .. ((t - h) % KeyQueueSize) |-> q[(h + k - 1) % KeyQueueSize]]

\* It is a sequence, and holds one character less than the ring has slots.
LEMMA ContentSeq ==
    ASSUME NEW S, NEW q \in [Slots -> S], NEW h \in Slots, NEW t \in Slots
    PROVE  /\ Content(q, h, t) \in Seq(S)
           /\ Len(Content(q, h, t)) = Count(h, t)
           /\ \A k \in 1 .. Count(h, t) : Content(q, h, t)[k] = q[SlotOf(h, k)]
<1> DEFINE c == Count(h, t)
           f == [k \in 1 .. c |-> q[SlotOf(h, k)]]
<1>1. c \in Nat /\ c < KeyQueueSize /\ (t - h) % KeyQueueSize = c
  <2>1. c \in 0 .. (KeyQueueSize - 1) /\ (t - h) % KeyQueueSize = c
    BY Distance
  <2> HIDE DEF c
  <2>2. c \in Nat /\ c < KeyQueueSize
    BY <2>1, SizeFacts
  <2> QED
    BY <2>1, <2>2
<1>2. \A k \in 1 .. c : SlotOf(h, k) \in Slots /\ (h + k - 1) % KeyQueueSize = SlotOf(h, k)
  <2> TAKE k \in 1 .. c
  <2>1. k \in 1 .. KeyQueueSize
    BY <1>1, SizeFacts
  <2> QED
    BY <2>1, Place
<1> HIDE DEF c
<1>3. Content(q, h, t) = f
  BY <1>1, <1>2 DEF Content
<1>4. \A k \in 1 .. c : q[SlotOf(h, k)] \in S
  BY <1>2
<1>5. f \in Seq(S) /\ Len(f) = c /\ \A k \in 1 .. c : f[k] = q[SlotOf(h, k)]
  BY <1>1, <1>4
<1> QED
  BY <1>3, <1>5 DEF c

LEMMA ContentItem ==
    ASSUME NEW S, NEW q \in [Slots -> S], NEW h \in Slots, NEW t \in Slots,
           NEW k \in 1 .. Count(h, t)
    PROVE  Content(q, h, t)[k] = q[SlotOf(h, k)]
BY ContentSeq

\* Storing a character behind the tail appends it.
LEMMA StoreAppends ==
    ASSUME NEW S, NEW q \in [Slots -> S], NEW h \in Slots, NEW t \in Slots, NEW c \in S,
           NextSlot(t) # h
    PROVE  /\ Content([q EXCEPT ![t] = c], h, NextSlot(t)) = Append(Content(q, h, t), c)
           /\ Count(h, t) < Capacity
<1> DEFINE q2 == [q EXCEPT ![t] = c]
           n == Count(h, t)
           old == Content(q, h, t)
           t2 == NextSlot(t)
           new == Content(q2, h, t2)
<1>1. q2 \in [Slots -> S]
  OBVIOUS
<1>0. t2 \in Slots /\ t2 = (IF t + 1 < KeyQueueSize THEN t + 1 ELSE 0) /\ t2 # h
  BY Next1
<1> HIDE DEF q2, t2
<1>2. n \in Nat /\ n < Capacity /\ Count(h, t2) = n + 1
  BY <1>0, SizeFacts DEF Count, Capacity
<1>3. SlotOf(h, n + 1) = t
  BY SizeFacts DEF SlotOf, Count
<1>4. \A k \in 1 .. n : SlotOf(h, k) # t /\ SlotOf(h, k) \in Slots
  BY SizeFacts DEF SlotOf, Count
<1>5. old \in Seq(S) /\ Len(old) = n /\ \A k \in 1 .. n : old[k] = q[SlotOf(h, k)]
  BY ContentSeq
<1> HIDE DEF n, old, new
<1>6. new \in Seq(S) /\ Len(new) = n + 1 /\ \A k \in 1 .. n + 1 : new[k] = q2[SlotOf(h, k)]
  <2>1. /\ new \in Seq(S) /\ Len(new) = Count(h, t2)
        /\ \A k \in 1 .. Count(h, t2) : new[k] = q2[SlotOf(h, k)]
    <3>1. t2 \in Slots
      BY <1>0
    <3>2. new \in Seq(S)
      BY <3>1, <1>1, ContentSeq DEF new
    <3>3. Len(new) = Count(h, t2)
      BY <3>1, <1>1, ContentSeq DEF new
    <3>4. \A k \in 1 .. Count(h, t2) : new[k] = q2[SlotOf(h, k)]
      BY <3>1, <1>1, ContentItem DEF new
    <3> QED
      BY <3>2, <3>3, <3>4
  <2> QED
    BY <2>1, <1>2
<1>7. q2[t] = c /\ \A s \in Slots : s # t => q2[s] = q[s]
  BY DEF q2
<1>8. \A k \in 1 .. n : new[k] = old[k]
  BY <1>2, <1>4, <1>5, <1>6, <1>7
<1>9. new[n + 1] = c
  BY <1>2, <1>3, <1>6, <1>7
<1>10. Append(old, c) \in Seq(S) /\ Len(Append(old, c)) = n + 1
       /\ \A k \in 1 .. n + 1 : Append(old, c)[k] = IF k = n + 1 THEN c ELSE old[k]
  BY <1>2, <1>5, AppendProperties
<1>11. new = Append(old, c)
  BY <1>2, <1>6, <1>8, <1>9, <1>10, SeqEqual
<1> QED
  BY <1>11, <1>2 DEF q2, t2, n, old, new

\* Moving the head on takes the oldest character.
LEMMA AdvanceTakes ==
    ASSUME NEW S, NEW q \in [Slots -> S], NEW h \in Slots, NEW t \in Slots, h # t
    PROVE  /\ Content(q, h, t) # << >>
           /\ Content(q, NextSlot(h), t) = Tail(Content(q, h, t))
           /\ Head(Content(q, h, t)) = q[h]
<1> DEFINE n == Count(h, t)
           old == Content(q, h, t)
           h2 == NextSlot(h)
           new == Content(q, h2, t)
<1>1. h2 \in Slots /\ h2 = IF h + 1 < KeyQueueSize THEN h + 1 ELSE 0
  BY Next1
<1> HIDE DEF h2
<1>2. n \in Nat /\ n > 0 /\ Count(h2, t) = n - 1
  BY <1>1, SizeFacts DEF Count
<1>3. SlotOf(h, 1) = h
  BY SizeFacts DEF SlotOf
<1>4. \A k \in 1 .. n - 1 : SlotOf(h2, k) = SlotOf(h, k + 1)
  BY <1>1, SizeFacts DEF SlotOf, Count
<1>5. old \in Seq(S) /\ Len(old) = n /\ \A k \in 1 .. n : old[k] = q[SlotOf(h, k)]
  BY ContentSeq
<1> HIDE DEF n, old, new
<1>6. new \in Seq(S) /\ Len(new) = n - 1
      /\ \A k \in 1 .. n - 1 : new[k] = q[SlotOf(h2, k)]
  <2>1. /\ new \in Seq(S) /\ Len(new) = Count(h2, t)
        /\ \A k \in 1 .. Count(h2, t) : new[k] = q[SlotOf(h2, k)]
    <3>1. h2 \in Slots
      BY <1>1
    <3>2. new \in Seq(S)
      BY <3>1, ContentSeq DEF new
    <3>3. Len(new) = Count(h2, t)
      BY <3>1, ContentSeq DEF new
    <3>4. \A k \in 1 .. Count(h2, t) : new[k] = q[SlotOf(h2, k)]
      BY <3>1, ContentSeq DEF new
    <3> QED
      BY <3>2, <3>3, <3>4
  <2> QED
    BY <2>1, <1>2
<1>7. old # << >>
  BY <1>2, <1>5
<1>8. Tail(old) \in Seq(S) /\ Len(Tail(old)) = n - 1
      /\ \A k \in 1 .. n - 1 : Tail(old)[k] = old[k + 1]
  BY <1>5, <1>7, HeadTailProperties
<1>9. \A k \in 1 .. n - 1 : new[k] = Tail(old)[k]
  BY <1>2, <1>4, <1>5, <1>6, <1>8
<1>10. new = Tail(old)
  BY <1>2, <1>6, <1>8, <1>9, SeqEqual
<1>11. Head(old) = q[h]
  BY <1>2, <1>3, <1>5, <1>7
<1> QED
  BY <1>7, <1>10, <1>11 DEF h2, old, new

-------------------------------------------------------------------------------
(***************************************************************************)
(* Types                                                                   *)
(***************************************************************************)

\* What handlers enqueue is a sequence of items.
LEMMA BurstItems ==
    ASSUME NEW b \in Bursts
    PROVE  b \in Seq(Items) /\ b # << >> /\ Whole(b)
<1> DEFINE R == [char : STRING, arrow : BOOLEAN]
<1>1. b \in Seq(R) /\ b # << >> /\ Whole(b)
  BY QueueAssumption
<1>2. Len(b) \in Nat /\ DOMAIN b = 1 .. Len(b)
  BY <1>1, LenProperties
<1>3. b = SubSeq(b, 1, Len(b))
  BY <1>1, SubSeqFull
<1>4. \A i \in 1 .. Len(b) : b[i] \in Items
  BY <1>2 DEF Items, ToSet
<1>5. SubSeq(b, 1, Len(b)) \in Seq(Items)
  BY <1>2, <1>4, SubSeqProperties
<1> QED
  BY <1>1, <1>3, <1>5

\* The types, and what dequeue knows between its test and its return.
Types ==
    /\ TypeOK
    /\ reader # "test" => ~IsEmpty
    /\ reader = "advance" => got = keyQueue[queueHead]

\* What waits in a state of the right types.
LEMMA WaitingFacts ==
    ASSUME TypeOK
    PROVE  /\ Waiting = Content(keyQueue, queueHead, queueTail)
           /\ Waiting \in Seq(Items)
           /\ Len(Waiting) = Count(queueHead, queueTail)
           /\ Len(Waiting) \in 0 .. Capacity
           /\ IsFull <=> Len(Waiting) = Capacity
<1>1. keyQueue \in [Slots -> Items] /\ queueHead \in Slots /\ queueTail \in Slots
  BY DEF TypeOK
<1>2. Waiting = Content(keyQueue, queueHead, queueTail)
  BY DEF Waiting, Content
<1>3. Waiting \in Seq(Items)
  BY <1>1, <1>2, ContentSeq
<1>4. Len(Waiting) = Count(queueHead, queueTail)
  BY <1>1, <1>2, ContentSeq
<1>5. Count(queueHead, queueTail) \in 0 .. Capacity
  BY <1>1, Distance DEF Capacity
<1>6. NextSlot(queueTail) = IF queueTail + 1 < KeyQueueSize THEN queueTail + 1 ELSE 0
  BY <1>1, Next1
<1>7. IsFull <=> Count(queueHead, queueTail) = Capacity
  BY <1>1, <1>6, SizeFacts DEF IsFull, Count, Capacity
<1> QED
  BY <1>2, <1>3, <1>4, <1>5, <1>7

\* Of an empty ring and of one that is not.
LEMMA EmptyFacts ==
    ASSUME TypeOK
    PROVE  IsEmpty <=> Waiting = << >>
<1>1. queueHead \in Slots /\ queueTail \in Slots
  BY DEF TypeOK
<1>2. Waiting \in Seq(Items) /\ Len(Waiting) = Count(queueHead, queueTail)
  BY WaitingFacts
<1>3. IsEmpty <=> Count(queueHead, queueTail) = 0
  BY <1>1, SizeFacts DEF IsEmpty, Count
<1> QED
  BY <1>2, <1>3, EmptySeq

\* enqueue of a character that fits.
LEMMA StoreStep ==
    ASSUME TypeOK, NEW c \in Items, Store(c), UNCHANGED queueHead
    PROVE  /\ keyQueue' \in [Slots -> Items] /\ queueTail' \in Slots
           /\ Waiting' = Append(Waiting, c)
           /\ Len(Waiting) < Capacity
           /\ \A i \in Slots : i # queueTail => keyQueue'[i] = keyQueue[i]
<1>1. keyQueue \in [Slots -> Items] /\ queueHead \in Slots /\ queueTail \in Slots
  BY DEF TypeOK
<1>2. keyQueue' = [keyQueue EXCEPT ![queueTail] = c] /\ queueTail' = NextSlot(queueTail)
      /\ NextSlot(queueTail) # queueHead /\ queueHead' = queueHead
  BY DEF Store, IsFull
<1>3. NextSlot(queueTail) \in Slots
  BY <1>1, Next1
<1>4. Content(keyQueue', queueHead', queueTail') = Append(Content(keyQueue, queueHead, queueTail), c)
  <2>1. NextSlot(queueTail) # queueHead
    BY <1>2
  <2>2. Content([keyQueue EXCEPT ![queueTail] = c], queueHead, NextSlot(queueTail))
        = Append(Content(keyQueue, queueHead, queueTail), c)
    BY <1>1, <2>1, StoreAppends, Zenon
  <2> QED
    BY <1>2, <2>2
<1>5. Count(queueHead, queueTail) < Capacity
  BY <1>1, <1>2, StoreAppends
<1>6. Waiting' = Content(keyQueue', queueHead', queueTail')
  BY DEF Waiting, Content
<1>7. \A i \in Slots : i # queueTail => keyQueue'[i] = keyQueue[i]
  BY <1>1, <1>2
<1> QED
  BY <1>1, <1>2, <1>3, <1>4, <1>5, <1>6, <1>7, WaitingFacts

LEMMA InitTypes == Init => Types
<1> SUFFICES ASSUME Init PROVE Types
  OBVIOUS
<1> USE DEF Init
<1>1. Nothing \in Items
  BY DEF Items
<1>2. keyQueue \in [Slots -> Items] /\ queueHead \in Slots /\ queueTail \in Slots
  BY <1>1, SizeFacts
<1>3. outcome \in [use : {"none", "print", "escape", "swallow"}, item : Items]
  BY <1>1 DEF NoOutcome
<1>4. pending \in Seq(Items)
  BY EmptySeq
<1> QED
  BY <1>1, <1>2, <1>3, <1>4 DEF Types, TypeOK

LEMMA StepTypes == Types /\ [Next]_vars => Types'
<1> SUFFICES ASSUME Types, [Next]_vars PROVE Types'
  OBVIOUS
<1>0. TypeOK /\ queueHead \in Slots /\ queueTail \in Slots /\ keyQueue \in [Slots -> Items]
  BY DEF Types, TypeOK
<1>1. CASE TestEmpty
  <2>1. AfterChar(Nothing) \in {"poll", "bracket", "direction"}
    BY DEF AfterChar
  <2> QED
    BY <1>1, <2>1 DEF Types, TypeOK, TestEmpty, queueVars, IsEmpty
<1>2. CASE TestSome
  <2>1. NoOutcome \in [use : {"none", "print", "escape", "swallow"}, item : Items]
    BY DEF NoOutcome, Items
  <2> QED
    BY <1>2, <2>1 DEF Types, TypeOK, TestSome, At, queueVars, IsEmpty
<1>3. CASE Read
  <2>1. keyQueue[queueHead] \in Items
    BY <1>0
  <2> QED
    BY <1>3, <2>1 DEF Types, TypeOK, Read, At, queueVars, IsEmpty
<1>4. CASE Advance
  <2>1. AfterChar(got) \in {"poll", "bracket", "direction"}
    BY DEF AfterChar
  <2>2. UseOf(got) \in {"none", "print", "escape", "swallow"}
    BY DEF UseOf, Types, TypeOK
  <2>3. NextSlot(queueHead) \in Slots
    BY <1>0, Next1
  <2>4. Nothing \in Items
    BY DEF Items
  <2>5. outcome' \in [use : {"none", "print", "escape", "swallow"}, item : Items]
    BY <1>4, <2>2 DEF Advance, Types, TypeOK
  <2> QED
    BY <1>4, <2>1, <2>3, <2>4, <2>5 DEF Types, TypeOK, Advance, queueVars
<1>5. CASE Enqueue
  <2>1. pending \in Seq(Items) /\ pending # << >>
    BY <1>5 DEF Enqueue, Types, TypeOK
  <2>2. Head(pending) \in Items /\ Tail(pending) \in Seq(Items)
    BY <2>1, HeadTailProperties
  <2>3. CASE Store(Head(pending))
    <3>1. UNCHANGED <<loopVars, lost>> /\ pending' = Tail(pending)
      BY <1>5, <2>3 DEF Enqueue, Store
    <3>2. keyQueue' \in [Slots -> Items] /\ queueTail' \in Slots
          /\ \A i \in Slots : i # queueTail => keyQueue'[i] = keyQueue[i]
      BY <1>0, <2>2, <2>3, <3>1, StoreStep DEF loopVars
    <3>3. ~IsFull /\ queueTail' = NextSlot(queueTail)
      BY <2>3 DEF Store
    <3>4. reader # "test" => ~IsEmpty'
      BY <3>1, <3>3 DEF loopVars, IsFull, IsEmpty
    <3>5. reader = "advance" => got' = keyQueue'[queueHead']
      BY <1>0, <3>1, <3>2 DEF loopVars, Types, IsEmpty
    <3> QED
      BY <2>2, <3>1, <3>2, <3>4, <3>5 DEF Types, TypeOK, loopVars
  <2>4. CASE Drop
    BY <1>5, <2>2, <2>4 DEF Types, TypeOK, Enqueue, Drop, loopVars, IsEmpty
  <2> QED
    BY <1>5, <2>3, <2>4 DEF Enqueue
<1>6. ASSUME NEW b \in Bursts, Interrupt(b)
      PROVE  Types'
  BY <1>6, BurstItems DEF Types, TypeOK, Interrupt, loopVars, IsEmpty
<1>7. CASE UNCHANGED vars
  BY <1>7 DEF Types, TypeOK, vars, loopVars, queueVars, IsEmpty
<1> QED
  BY <1>1, <1>2, <1>3, <1>4, <1>5, <1>6, <1>7 DEF Next, Loop

THEOREM TypeInvariance == Spec => []Types
BY InitTypes, StepTypes, PTL DEF Spec

\* The indices stay inside the ring for every size of it, and whatever the
\* handlers enqueue between two accesses of dequeue.
THEOREM TypeCorrect == Spec => []TypeOK
BY TypeInvariance, PTL DEF Types

-------------------------------------------------------------------------------
(***************************************************************************)
(* The ring implements a bounded FIFO queue                                *)
(***************************************************************************)

\* The part of p that fits behind w.
Fitting(w, p) == SubSeq(p, 1, IF Len(p) <= Capacity - Len(w) THEN Len(p) ELSE Capacity - Len(w))

LEMMA FittingSeq ==
    ASSUME NEW S, NEW p \in Seq(S), NEW w, Len(w) \in 0 .. Capacity
    PROVE  /\ Fitting(w, p) \in Seq(S)
           /\ Len(Fitting(w, p)) = IF Len(p) <= Capacity - Len(w) THEN Len(p) ELSE Capacity - Len(w)
           /\ \A i \in 1 .. Len(Fitting(w, p)) : Fitting(w, p)[i] = p[i]
<1> DEFINE n == IF Len(p) <= Capacity - Len(w) THEN Len(p) ELSE Capacity - Len(w)
<1>1. Capacity \in Nat
  BY SizeFacts DEF Capacity
<1>2. Len(p) \in Nat
  BY LenProperties
<1>3. n \in Nat /\ n <= Len(p) /\ n \in Int /\ 1 \in Int
  BY <1>1, <1>2
<1>4. Fitting(w, p) = SubSeq(p, 1, n)
  BY DEF Fitting
<1> HIDE DEF n
<1>5. \A i \in 1 .. n : p[i] \in S
  BY <1>2, <1>3, ElementOfSeq
<1>6. SubSeq(p, 1, n) \in Seq(S)
  BY <1>3, <1>5, SubSeqProperties
<1>7. Len(SubSeq(p, 1, n)) = IF 1 <= n THEN n - 1 + 1 ELSE 0
  BY <1>3, <1>5, SubSeqProperties
<1>8. \A i \in 1 .. n - 1 + 1 : SubSeq(p, 1, n)[i] = p[1 + i - 1]
  BY <1>3, <1>5, SubSeqProperties
<1>9. Len(SubSeq(p, 1, n)) = n /\ \A i \in 1 .. n : SubSeq(p, 1, n)[i] = p[i]
  BY <1>3, <1>7, <1>8
<1> QED
  BY <1>4, <1>6, <1>9 DEF n

\* When the next character is stored, what will wait stays the same.
LEMMA FittingStep ==
    ASSUME NEW S, NEW p \in Seq(S), NEW w \in Seq(S), p # << >>, Len(w) < Capacity
    PROVE  Append(w, Head(p)) \o Fitting(Append(w, Head(p)), Tail(p)) = w \o Fitting(w, p)
<1> DEFINE w2 == Append(w, Head(p))
           p2 == Tail(p)
           f == Fitting(w, p)
           f2 == Fitting(w2, p2)
           m == Len(w)
<1>1. Capacity \in Nat /\ m \in Nat /\ m \in 0 .. Capacity /\ m < Capacity
  BY SizeFacts, LenProperties DEF Capacity
<1>2. Len(p) \in Nat \ {0} /\ Head(p) \in S /\ Head(p) = p[1]
  BY EmptySeq, HeadTailProperties
<1>3. p2 \in Seq(S) /\ Len(p2) = Len(p) - 1 /\ \A i \in 1 .. Len(p) - 1 : p2[i] = p[i + 1]
  BY HeadTailProperties
<1>4. w2 \in Seq(S) /\ Len(w2) = m + 1 /\ (\A i \in 1 .. m : w2[i] = w[i]) /\ w2[m + 1] = p[1]
  BY <1>2, AppendProperties
<1>5. Len(w2) \in 0 .. Capacity
  BY <1>1, <1>4
<1>6. f \in Seq(S) /\ \A i \in 1 .. Len(f) : f[i] = p[i]
  BY <1>1, FittingSeq
<1>7. Len(f) = IF Len(p) <= Capacity - m THEN Len(p) ELSE Capacity - m
  BY <1>1, FittingSeq
<1> HIDE DEF w2, p2, f, f2
<1>8. f2 \in Seq(S) /\ \A i \in 1 .. Len(f2) : f2[i] = p2[i]
  BY <1>3, <1>5, FittingSeq DEF f2
<1>9. Len(f2) = IF Len(p2) <= Capacity - Len(w2) THEN Len(p2) ELSE Capacity - Len(w2)
  BY <1>3, <1>5, FittingSeq DEF f2
<1> HIDE DEF m
<1>10. Len(f2) = Len(f) - 1 /\ Len(f) \in Nat \ {0} /\ Len(f) <= Len(p)
  BY <1>1, <1>2, <1>3, <1>4, <1>7, <1>9
<1>11. /\ w2 \o f2 \in Seq(S) /\ Len(w2 \o f2) = Len(w2) + Len(f2)
       /\ \A i \in 1 .. Len(w2) + Len(f2) : (w2 \o f2)[i] = IF i <= Len(w2) THEN w2[i] ELSE f2[i - Len(w2)]
  BY <1>4, <1>8, ConcatProperties
<1>12. /\ w \o f \in Seq(S) /\ Len(w \o f) = m + Len(f)
       /\ \A i \in 1 .. m + Len(f) : (w \o f)[i] = IF i <= m THEN w[i] ELSE f[i - m]
  BY <1>6, ConcatProperties DEF m
<1>13. ASSUME NEW i \in 1 .. m + Len(f)
       PROVE  (w2 \o f2)[i] = (w \o f)[i]
  <2>1. CASE i <= m
    BY <2>1, <1>1, <1>4, <1>10, <1>11, <1>12
  <2>2. CASE i = m + 1
    <3>1. (w2 \o f2)[i] = p[1]
      BY <2>2, <1>1, <1>4, <1>10, <1>11
    <3>2. (w \o f)[i] = f[1]
      BY <2>2, <1>1, <1>10, <1>12
    <3> QED
      BY <3>1, <3>2, <1>6, <1>10
  <2>3. CASE i > m + 1
    <3> DEFINE j == i - m - 1
    <3>1. j \in 1 .. Len(f2) /\ j + 1 \in 1 .. Len(f) /\ j \in 1 .. Len(p) - 1
          /\ i - (m + 1) = j /\ i - m = j + 1 /\ ~(i <= m + 1) /\ ~(i <= m)
      BY <2>3, <1>1, <1>10, <1>2
    <3> HIDE DEF j
    <3>2. (w2 \o f2)[i] = f2[j]
      BY <3>1, <1>1, <1>4, <1>10, <1>11
    <3>3. (w \o f)[i] = f[j + 1]
      BY <3>1, <1>12
    <3>4. f2[j] = p2[j] /\ p2[j] = p[j + 1] /\ f[j + 1] = p[j + 1]
      BY <3>1, <1>3, <1>6, <1>8
    <3> QED
      BY <3>2, <3>3, <3>4
  <2>4. i <= m \/ i = m + 1 \/ i > m + 1
    BY <1>1, <1>10
  <2> QED
    BY <2>1, <2>2, <2>3, <2>4, Zenon
<1>14. Len(w2 \o f2) = Len(w \o f)
  BY <1>1, <1>4, <1>10, <1>11, <1>12
<1>15. w2 \o f2 = w \o f
  BY <1>11, <1>12, <1>13, <1>14, SeqEqual
<1> QED
  BY <1>15 DEF w2, p2, f, f2

\* Init is the empty queue.
LEMMA InitRefines == Types /\ Init => Promise!Init
<1> SUFFICES ASSUME Types, Init PROVE Promise!Init
  OBVIOUS
<1>1. TypeOK /\ IsEmpty /\ pending = << >> /\ lost = FALSE
  BY DEF Types, Init, IsEmpty
<1>2. Waiting = << >> /\ Len(Waiting) = 0
  BY <1>1, EmptyFacts, EmptySeq
<1>3. Capacity \in Nat
  BY SizeFacts DEF Capacity
<1>4. Accepted = << >>
  <2>1. Len(pending) = 0 /\ Len(pending) <= Room
    BY <1>1, <1>2, <1>3 DEF Room
  <2> QED
    BY <1>1, <2>1, SubSeqEmpty DEF Accepted
<1>5. Waiting \o Accepted = << >>
  BY <1>2, <1>4, EmptySeq, ConcatEmptySeq
<1>6. (lost \/ Len(pending) > Room) = FALSE
  BY <1>1, <1>2, <1>3 DEF Room
<1> QED
  BY <1>5, <1>6 DEF Promise!Init

\* Between handlers, what will wait is what waits.
LEMMA NoHandler ==
    TypeOK /\ pending = << >>
    => Waiting \o Accepted = Waiting /\ (lost \/ Len(pending) > Room) = lost
<1> SUFFICES ASSUME TypeOK, pending = << >>
    PROVE  Waiting \o Accepted = Waiting /\ (lost \/ Len(pending) > Room) = lost
  OBVIOUS
<1>1. Waiting \in Seq(Items) /\ Len(Waiting) \in 0 .. Capacity /\ Capacity \in Nat
  BY WaitingFacts, SizeFacts DEF Capacity
<1>2. Len(pending) = 0 /\ Room \in Nat
  BY <1>1 DEF Room
<1>3. Accepted = << >>
  BY <1>2, SubSeqEmpty DEF Accepted
<1>4. (Len(pending) > Room) = FALSE
  BY <1>2
<1>5. lost \in BOOLEAN
  BY DEF TypeOK
<1> QED
  BY <1>1, <1>3, <1>4, <1>5, ConcatEmptySeq

\* Each step is a step of the queue that is promised, or none.
LEMMA StepRefines ==
    ASSUME Types, Types', [Next]_vars
    PROVE  [Promise!Next]_<<Waiting \o Accepted, lost \/ Len(pending) > Room>>
<1> DEFINE was == Waiting \o Accepted
           gone == lost \/ Len(pending) > Room
<1>0. TypeOK /\ TypeOK'
  BY DEF Types
<1>a. Capacity \in Nat /\ Waiting \in Seq(Items) /\ Len(Waiting) \in 0 .. Capacity
      /\ pending \in Seq(Items) /\ lost \in BOOLEAN
  BY <1>0, WaitingFacts, SizeFacts DEF Capacity, TypeOK
<1>1. ASSUME UNCHANGED <<keyQueue, queueTail, queueHead, lost, pending>>
      PROVE  UNCHANGED <<was, gone>>
  BY <1>1 DEF Waiting, Accepted, Room
<1>2. CASE TestEmpty
  BY <1>1, <1>2 DEF TestEmpty, queueVars
<1>3. CASE TestSome
  BY <1>1, <1>3 DEF TestSome, queueVars
<1>4. CASE Read
  BY <1>1, <1>4 DEF Read, queueVars
<1>5. CASE Advance
  <2>1. pending = << >> /\ pending' = << >> /\ UNCHANGED <<keyQueue, queueTail, lost>>
        /\ queueHead' = NextSlot(queueHead) /\ queueHead # queueTail
        /\ keyQueue \in [Slots -> Items] /\ queueHead \in Slots /\ queueTail \in Slots
    BY <1>5 DEF Advance, At, queueVars, Types, IsEmpty, TypeOK
  <2>2. was = Waiting /\ gone = lost
    BY <1>0, <2>1, NoHandler
  <2>3. (Waiting \o Accepted)' = Waiting' /\ (lost \/ Len(pending) > Room)' = lost'
    <3>1. (TypeOK /\ pending = << >>
           => Waiting \o Accepted = Waiting /\ (lost \/ Len(pending) > Room) = lost)'
      BY NoHandler, PTL
    <3> QED
      BY <1>0, <2>1, <3>1
  <2>4. Content(keyQueue, queueHead, queueTail) # << >>
        /\ Content(keyQueue, NextSlot(queueHead), queueTail) = Tail(Content(keyQueue, queueHead, queueTail))
    BY <2>1, AdvanceTakes
  <2>5. Waiting = Content(keyQueue, queueHead, queueTail)
        /\ Waiting' = Content(keyQueue, NextSlot(queueHead), queueTail)
    BY <2>1 DEF Waiting, Content
  <2>6. Promise!Take
    BY <2>1, <2>2, <2>3, <2>4, <2>5 DEF Promise!Take
  <2> QED
    BY <2>6 DEF Promise!Next
<1>6. CASE Enqueue
  <2>1. pending # << >> /\ pending' = Tail(pending) /\ UNCHANGED queueHead
    BY <1>6 DEF Enqueue, loopVars
  <2>2. Head(pending) \in Items /\ Tail(pending) \in Seq(Items) /\ Len(Tail(pending)) = Len(pending) - 1
        /\ Len(pending) \in Nat \ {0}
    BY <1>a, <2>1, HeadTailProperties, EmptySeq
  <2>3. was = Waiting \o Fitting(Waiting, pending)
        /\ was' = Waiting' \o Fitting(Waiting', Tail(pending))
    BY <2>1 DEF Accepted, Room, Fitting
  <2>4. CASE Store(Head(pending))
    <3>1. Waiting' = Append(Waiting, Head(pending)) /\ Len(Waiting) < Capacity /\ lost' = lost
      BY <1>0, <2>1, <2>2, <2>4, StoreStep DEF Store
    <3>2. was' = was
      BY <1>a, <2>1, <2>3, <3>1, FittingStep
    <3>3. Len(Waiting') = Len(Waiting) + 1
      BY <1>a, <2>2, <3>1, AppendProperties
    <3>4. (Len(pending') > Capacity - Len(Waiting')) = (Len(pending) > Capacity - Len(Waiting))
      BY <1>a, <2>1, <2>2, <3>3
    <3>5. gone' = gone
      BY <3>1, <3>4 DEF Room
    <3> QED
      BY <3>2, <3>5
  <2>5. CASE Drop
    <3>1. Waiting' = Waiting /\ lost' = TRUE /\ Len(Waiting) = Capacity
      BY <1>0, <2>1, <2>5, WaitingFacts DEF Drop, Waiting
    <3>2. Room = 0
      BY <1>a, <3>1 DEF Room
    <3>3. Fitting(Waiting, pending) = << >> /\ Fitting(Waiting, Tail(pending)) = << >>
      <4>1. Capacity - Len(Waiting) = 0
        BY <1>a, <3>1
      <4>2. \A p \in Seq(Items) : Fitting(Waiting, p) = << >>
        <5> TAKE p \in Seq(Items)
        <5>1. Len(Waiting) \in 0 .. Capacity /\ Len(p) \in Nat
          BY <1>a, LenProperties
        <5>2. Fitting(Waiting, p) \in Seq(Items)
          BY <5>1, FittingSeq
        <5>3. Len(Fitting(Waiting, p)) = IF Len(p) <= Capacity - Len(Waiting) THEN Len(p)
                                         ELSE Capacity - Len(Waiting)
          BY <5>1, FittingSeq
        <5>4. Len(Fitting(Waiting, p)) = 0
          BY <5>1, <5>3, <4>1
        <5> QED
          BY <5>2, <5>4, EmptySeq
      <4> QED
        BY <1>a, <2>2, <4>2
    <3>4. was' = was
      BY <2>3, <3>1, <3>3
    <3>5. gone = TRUE /\ gone' = TRUE
      BY <2>2, <3>1, <3>2
    <3> QED
      BY <3>4, <3>5
  <2> QED
    BY <1>6, <2>4, <2>5 DEF Enqueue
<1>7. ASSUME NEW b \in Bursts, Interrupt(b)
      PROVE  Promise!Offer(b)
  <2>1. pending = << >> /\ pending' = b /\ UNCHANGED <<keyQueue, queueHead, queueTail, lost>>
    BY <1>7 DEF Interrupt, loopVars
  <2>2. was = Waiting /\ gone = lost
    BY <1>0, <2>1, NoHandler
  <2>3. Waiting' = Waiting
    BY <2>1 DEF Waiting
  <2>4. was' = Waiting \o Fitting(Waiting, b)
    BY <2>1, <2>3 DEF Accepted, Room, Fitting
  <2>5. gone' = (lost \/ Len(b) > Room)
    BY <2>1, <2>3 DEF Room
  <2>6. b \in Seq(Items) /\ Len(b) \in Nat
    BY BurstItems, LenProperties
  <2> DEFINE n == IF Len(b) <= Room THEN Len(b) ELSE Room
  <2>7. n \in 0 .. Len(b) /\ Fitting(Waiting, b) = SubSeq(b, 1, n)
    BY <1>a, <2>6 DEF Fitting, Room
  <2>8. Len(was') = Len(Waiting) + n
    <3>1. Waiting \in Seq(Items) /\ Len(Waiting) \in 0 .. Capacity
      BY <1>a
    <3>2. Fitting(Waiting, b) \in Seq(Items)
      BY <3>1, <2>6, FittingSeq
    <3>3. Len(Fitting(Waiting, b)) = n
      BY <3>1, <2>6, FittingSeq DEF Room
    <3>4. Len(Waiting \o Fitting(Waiting, b)) = Len(Waiting) + Len(Fitting(Waiting, b))
      BY <3>1, <3>2, ConcatProperties
    <3> QED
      BY <2>4, <3>3, <3>4
  <2>9. was' = was \o SubSeq(b, 1, n)
    BY <2>2, <2>4, <2>7
  <2>10. CASE Len(b) <= Room
    <3>1. n = Len(b) /\ (Len(b) > Room) = FALSE
      BY <1>a, <2>6, <2>10 DEF Room
    <3>2. gone' = gone
      BY <2>2, <2>5, <3>1, <1>a
    <3> QED
      BY <2>7, <2>9, <3>1, <3>2 DEF Promise!Offer
  <2>11. CASE ~(Len(b) <= Room)
    <3>1. n < Len(b) /\ n = Room /\ (Len(b) > Room) = TRUE
      BY <1>a, <2>6, <2>11 DEF Room
    <3>2. gone' = TRUE
      BY <2>5, <3>1
    <3>3. Len(was') = Capacity
      BY <1>a, <2>8, <3>1 DEF Room
    <3> QED
      BY <2>7, <2>9, <3>1, <3>2, <3>3 DEF Promise!Offer
  <2> QED
    BY <2>10, <2>11
<1>8. CASE UNCHANGED vars
  BY <1>1, <1>8 DEF vars, queueVars, loopVars
<1> QED
  BY <1>2, <1>3, <1>4, <1>5, <1>6, <1>7, <1>8 DEF Next, Loop, Promise!Next

\* The ring, two indices that wrap and a handler that enqueues between any two
\* accesses of dequeue are a bounded FIFO queue: nothing is reordered, repeated
\* or invented, and what is lost is the end of one handler's burst.
THEOREM QueueKept == Spec => ImplementsInputQueue
<1>1. Spec => []Types
  BY TypeInvariance
<1> QED
  BY <1>1, InitTypes, InitRefines, StepRefines, PTL DEF Spec, ImplementsInputQueue, Promise!Spec

-------------------------------------------------------------------------------
(***************************************************************************)
(* Escape sequences reach the main loop whole                              *)
(***************************************************************************)

\* The provers do not know that a literal is a STRING.
Item == [char : STRING \cup {"NUL", "ESC", "["}, arrow : BOOLEAN]

LEMMA ItemsAreRecords == Items \subseteq Item
<1>1. Nothing \in Item
  BY DEF Nothing, Key, Item
<1>2. ASSUME NEW b \in Bursts, NEW x \in ToSet(b)
      PROVE  x \in Item
  <2>1. b \in Seq([char : STRING, arrow : BOOLEAN])
    BY QueueAssumption
  <2>2. PICK i \in DOMAIN b : x = b[i]
    BY <1>2 DEF ToSet
  <2>3. x \in [char : STRING, arrow : BOOLEAN]
    BY <2>1, <2>2, LenProperties, ElementOfSeq
  <2> QED
    BY <2>3 DEF Item
<1> QED
  BY <1>1, <1>2 DEF Items

LEMMA ArrowItems ==
    /\ << Arrow("ESC") >> \in Seq(Item)
    /\ << Arrow("ESC"), Arrow("[") >> \in Seq(Item)
BY DEF Arrow, Item

\* The condition Whole puts on one position.
WholeAt(s, i) ==
    /\ ~s[i].arrow => s[i].char # "ESC"
    /\ s[i].arrow => s[i].char \in {"ESC", "["} \cup Directions
    /\ s[i] = Arrow("ESC") => i + 1 \in DOMAIN s /\ s[i + 1] = Arrow("[")
    /\ s[i] = Arrow("[") => /\ i - 1 \in DOMAIN s /\ s[i - 1] = Arrow("ESC")
                           /\ i + 1 \in DOMAIN s
                           /\ s[i + 1] \in {Arrow(d) : d \in Directions}
    /\ s[i] \in {Arrow(d) : d \in Directions} => i - 1 \in DOMAIN s /\ s[i - 1] = Arrow("[")

LEMMA WholeByPosition ==
    ASSUME NEW s
    PROVE  Whole(s) <=> \A i \in DOMAIN s : WholeAt(s, i)
BY DEF Whole, WholeAt

\* Whole keys after whole keys are whole keys.
LEMMA WholeConcat ==
    ASSUME NEW s \in Seq(Item), NEW t \in Seq(Item), Whole(s), Whole(t)
    PROVE  Whole(s \o t)
<1> DEFINE u == s \o t
           m == Len(s)
           n == Len(t)
<1>1. m \in Nat /\ n \in Nat /\ DOMAIN s = 1 .. m /\ DOMAIN t = 1 .. n
  BY LenProperties
<1>2. /\ u \in Seq(Item) /\ Len(u) = m + n
      /\ \A i \in 1 .. m + n : u[i] = IF i <= m THEN s[i] ELSE t[i - m]
  BY ConcatProperties
<1>3. DOMAIN u = 1 .. m + n
  BY <1>2, LenProperties
<1> HIDE DEF u, m, n
<1>4. ASSUME NEW i \in 1 .. m PROVE WholeAt(u, i)
  <2>1. WholeAt(s, i)
    BY <1>1, WholeByPosition
  <2>2. u[i] = s[i] /\ i \in Int
    BY <1>1, <1>2
  <2>3. i + 1 \in 1 .. m => i + 1 \in 1 .. m + n /\ u[i + 1] = s[i + 1]
    BY <1>1, <1>2
  <2>4. i - 1 \in 1 .. m => i - 1 \in 1 .. m + n /\ u[i - 1] = s[i - 1]
    BY <1>1, <1>2
  <2> QED
    BY <2>1, <2>2, <2>3, <2>4, <1>1, <1>3 DEF WholeAt
<1>5. ASSUME NEW j \in 1 .. n PROVE WholeAt(u, j + m)
  <2>1. WholeAt(t, j)
    BY <1>1, WholeByPosition
  <2>2. u[j + m] = t[j] /\ j \in Int
    BY <1>1, <1>2
  <2>3. j + 1 \in 1 .. n => j + m + 1 \in 1 .. m + n /\ u[j + m + 1] = t[j + 1]
    BY <1>1, <1>2
  <2>4. j - 1 \in 1 .. n => j + m - 1 \in 1 .. m + n /\ u[j + m - 1] = t[j - 1]
    BY <1>1, <1>2
  <2> QED
    BY <2>1, <2>2, <2>3, <2>4, <1>1, <1>3 DEF WholeAt
<1>6. ASSUME NEW i \in 1 .. m + n PROVE WholeAt(u, i)
  <2>1. CASE i <= m
    BY <2>1, <1>1, <1>4
  <2>2. CASE ~(i <= m)
    <3>1. i - m \in 1 .. n /\ (i - m) + m = i
      BY <2>2, <1>1
    <3> QED
      BY <3>1, <1>5
  <2> QED
    BY <2>1, <2>2
<1> QED
  BY <1>3, <1>6, WholeByPosition DEF u

\* What follows a key in whole keys is whole.
LEMMA WholeCut ==
    ASSUME NEW s \in Seq(Item), NEW t \in Seq(Item), Whole(s \o t), s # << >>,
           s[Len(s)] # Arrow("ESC"), s[Len(s)] # Arrow("[")
    PROVE  Whole(t)
<1> DEFINE u == s \o t
           m == Len(s)
           n == Len(t)
<1>1. m \in Nat \ {0} /\ n \in Nat /\ DOMAIN t = 1 .. n
  BY LenProperties, EmptySeq
<1>2. /\ u \in Seq(Item) /\ Len(u) = m + n
      /\ \A i \in 1 .. m + n : u[i] = IF i <= m THEN s[i] ELSE t[i - m]
  BY ConcatProperties
<1>3. DOMAIN u = 1 .. m + n
  BY <1>2, LenProperties
<1>4. u[m] = s[m] /\ u[m] # Arrow("ESC") /\ u[m] # Arrow("[")
  BY <1>1, <1>2
<1>5. \A i \in 1 .. m + n : WholeAt(u, i)
  BY <1>3, WholeByPosition
<1> HIDE DEF u, m, n
<1>6. ASSUME NEW j \in 1 .. n PROVE WholeAt(t, j)
  <2> DEFINE i == j + m
  <2>0. i \in 1 .. m + n /\ j \in Int /\ i \in Int
    BY <1>1
  <2>1. WholeAt(u, i) /\ u[i] = t[j]
    BY <2>0, <1>1, <1>2, <1>5
  <2>2. i + 1 \in 1 .. m + n => j + 1 \in 1 .. n /\ u[i + 1] = t[j + 1]
    <3> SUFFICES ASSUME i + 1 \in 1 .. m + n
        PROVE  j + 1 \in 1 .. n /\ u[i + 1] = t[j + 1]
      OBVIOUS
    <3>1. j + 1 \in 1 .. n /\ ~(i + 1 <= m) /\ (i + 1) - m = j + 1
      BY <1>1
    <3> HIDE DEF i
    <3> QED
      BY <3>1, <1>2
  <2>3. j # 1 => j - 1 \in 1 .. n /\ u[i - 1] = t[j - 1]
    BY <1>1, <1>2
  <2>4. j = 1 => u[i - 1] # Arrow("ESC") /\ u[i - 1] # Arrow("[")
    BY <1>1, <1>4
  <2> HIDE DEF i
  <2> QED
    BY <2>1, <2>2, <2>3, <2>4, <1>1, <1>3 DEF WholeAt
<1> QED
  BY <1>1, <1>6, WholeByPosition

\* An item goes from the head of one sequence to the end of another.
LEMMA Shift ==
    ASSUME NEW S, NEW s \in Seq(S), NEW t \in Seq(S), t # << >>
    PROVE  Append(s, Head(t)) \o Tail(t) = s \o t
<1> DEFINE h == << Head(t) >>
           r == Tail(t)
<1>1. Head(t) \in S /\ r \in Seq(S) /\ Len(t) \in Nat \ {0}
  BY HeadTailProperties, EmptySeq
<1>2. h \in Seq(S)
  BY <1>1
<1>3. Append(s, Head(t)) = s \o h
  BY <1>1, AppendIsConcat
<1>4. h \o r = t
  <2>1. SubSeq(t, 1, Len(t)) = << t[1] >> \o SubSeq(t, 2, Len(t))
    BY <1>1, SubSeqRecursiveFirst
  <2>2. SubSeq(t, 1, Len(t)) = t /\ SubSeq(t, 2, Len(t)) = r /\ t[1] = Head(t)
    BY SubSeqFull, TailIsSubSeq
  <2> QED
    BY <2>1, <2>2
<1> HIDE DEF h, r
<1>5. (s \o h) \o r = s \o (h \o r)
  BY <1>1, <1>2, ConcatAssociative
<1> QED
  BY <1>3, <1>4, <1>5 DEF r

\* What the caller of getChar holds of an arrow's sequence already.
Before ==
    CASE caller = "poll" -> << >>
      [] caller = "bracket" -> << Arrow("ESC") >>
      [] caller = "direction" -> << Arrow("ESC"), Arrow("[") >>

\* What waits with what it continues and what the handler that runs will add.
Stream == Before \o (Waiting \o pending)

\* As long as nothing was dropped, it is whole.
StreamIsWhole == ~lost => Whole(Stream)

LEMMA BeforeFacts ==
    TypeOK => /\ Before \in Seq(Item)
              /\ caller = "poll" => Before = << >>
              /\ caller = "bracket" => Before = << Arrow("ESC") >>
              /\ caller = "direction" => Before = << Arrow("ESC"), Arrow("[") >>
<1> SUFFICES ASSUME TypeOK
    PROVE /\ Before \in Seq(Item)
          /\ caller = "poll" => Before = << >>
          /\ caller = "bracket" => Before = << Arrow("ESC") >>
          /\ caller = "direction" => Before = << Arrow("ESC"), Arrow("[") >>
  OBVIOUS
<1>2. << >> \in Seq(Item) /\ << Arrow("ESC") >> \in Seq(Item)
      /\ << Arrow("ESC"), Arrow("[") >> \in Seq(Item)
  BY ArrowItems, EmptySeq
<1>3. caller \in {"poll", "bracket", "direction"}
  BY DEF TypeOK
<1> QED
  BY <1>2, <1>3 DEF Before

WholeInv == Types /\ StreamIsWhole /\ SequencesStayWhole

LEMMA InitWhole == Types /\ Init => WholeInv
<1> SUFFICES ASSUME Types, Init PROVE StreamIsWhole /\ SequencesStayWhole
  BY DEF WholeInv
<1>1. TypeOK /\ IsEmpty /\ pending = << >> /\ caller = "poll" /\ outcome = NoOutcome
  BY DEF Types, Init, IsEmpty
<1>2. Waiting = << >> /\ Before = << >>
  BY <1>1, EmptyFacts, BeforeFacts
<1>3. Stream = << >>
  BY <1>1, <1>2, ConcatEmptySeq, EmptySeq DEF Stream
<1>4. DOMAIN << >> = {}
  OBVIOUS
<1>5. Whole(Stream)
  BY <1>3, <1>4, WholeByPosition
<1> QED
  BY <1>1, <1>5 DEF StreamIsWhole, SequencesStayWhole, NoOutcome

\* The character dequeue returns is the one its caller expects.
LEMMA AdvanceStep ==
    ASSUME Types, Types', StreamIsWhole, Advance, ~lost
    PROVE  /\ Whole(Stream')
           /\ outcome'.use = "print" => ~outcome'.item.arrow
           /\ outcome'.use = "escape" => outcome'.item.arrow
           /\ outcome'.use # "swallow"
<1> DEFINE P == Before
           T == Waiting'
           F == Append(P, got)
<1>0. TypeOK /\ TypeOK'
  BY DEF Types
<1>1. /\ pending = << >> /\ pending' = << >> /\ UNCHANGED <<keyQueue, queueTail>>
      /\ queueHead' = NextSlot(queueHead) /\ queueHead # queueTail /\ got = keyQueue[queueHead]
      /\ caller' = AfterChar(got) /\ outcome' = [use |-> UseOf(got), item |-> got]
      /\ keyQueue \in [Slots -> Items] /\ queueHead \in Slots /\ queueTail \in Slots
      /\ got \in Items /\ caller \in {"poll", "bracket", "direction"}
  BY DEF Advance, At, queueVars, Types, IsEmpty, TypeOK
<1>2. /\ Content(keyQueue, queueHead, queueTail) # << >>
      /\ Content(keyQueue, NextSlot(queueHead), queueTail) = Tail(Content(keyQueue, queueHead, queueTail))
      /\ Head(Content(keyQueue, queueHead, queueTail)) = keyQueue[queueHead]
  BY <1>1, AdvanceTakes
<1>3. Waiting # << >> /\ Waiting' = Tail(Waiting) /\ Head(Waiting) = got
  BY <1>1, <1>2 DEF Waiting, Content
<1>4. Waiting \in Seq(Item)
  BY <1>0, WaitingFacts, ItemsAreRecords, SeqMonotonic
<1>5. T \in Seq(Item) /\ got \in Item
  BY <1>3, <1>4, HeadTailProperties
<1>6. P \in Seq(Item)
  BY <1>0, BeforeFacts
<1>7. Stream = F \o T
  BY <1>1, <1>3, <1>4, <1>6, Shift, ConcatEmptySeq DEF Stream
<1>8. Stream' = Before' \o T
  BY <1>1, <1>5, ConcatEmptySeq DEF Stream
<1>9. Whole(F \o T)
  BY <1>7 DEF StreamIsWhole
<1>10. F \in Seq(Item) /\ F # << >> /\ Len(F) = Len(P) + 1 /\ F[Len(F)] = got
       /\ \A i \in 1 .. Len(P) : F[i] = P[i]
  BY <1>5, <1>6, AppendProperties
<1> HIDE DEF F, T, P
<1>11. /\ Len(F) \in Nat \ {0} /\ Len(T) \in Nat /\ DOMAIN (F \o T) = 1 .. Len(F) + Len(T)
       /\ \A i \in 1 .. Len(F) : i \in DOMAIN (F \o T) /\ (F \o T)[i] = F[i]
  <2>1. Len(F) \in Nat \ {0} /\ Len(T) \in Nat
    BY <1>5, <1>10, LenProperties, EmptySeq
  <2>2. /\ F \o T \in Seq(Item) /\ Len(F \o T) = Len(F) + Len(T)
        /\ \A i \in 1 .. Len(F) + Len(T) : (F \o T)[i] = IF i <= Len(F) THEN F[i] ELSE T[i - Len(F)]
    BY <1>5, <1>10, ConcatProperties
  <2>3. DOMAIN (F \o T) = 1 .. Len(F) + Len(T)
    BY <2>2, LenProperties
  <2> QED
    BY <2>1, <2>2, <2>3
<1>12. \A i \in 1 .. Len(F) : WholeAt(F \o T, i)
  BY <1>9, <1>11, WholeByPosition
<1>13. Before' = << >> => (got # Arrow("ESC") /\ got # Arrow("[") => Whole(Stream'))
  BY <1>5, <1>8, <1>9, <1>10, WholeCut, ConcatEmptySeq
<1>14. Before' = F => Whole(Stream')
  BY <1>8, <1>9
<1>15. caller' = "poll" => Before' = << >>
  BY <1>0 DEF Before
<1>16. caller' = "bracket" => Before' = << Arrow("ESC") >>
  BY <1>0 DEF Before
<1>17. caller' = "direction" => Before' = << Arrow("ESC"), Arrow("[") >>
  BY <1>0 DEF Before
<1>18. CASE caller = "poll"
  <2>1. P = << >> /\ Len(F) = 1 /\ F[1] = got
    BY <1>0, <1>6, <1>10, <1>18, BeforeFacts, EmptySeq DEF P
  <2>2. WholeAt(F \o T, 1) /\ (F \o T)[1] = got /\ 1 - 1 \notin DOMAIN (F \o T)
    BY <2>1, <1>11, <1>12
  <2>3. CASE got.char = "ESC"
    <3>1. got.arrow /\ got = Arrow("ESC")
      BY <2>2, <2>3, <1>5 DEF WholeAt, Arrow, Item
    <3>2. caller' = "bracket" /\ UseOf(got) = "escape"
      BY <1>1, <1>18, <2>3 DEF AfterChar, UseOf
    <3>3. Before' = F
      BY <2>1, <3>1, <3>2, <1>16 DEF F
    <3> QED
      BY <1>1, <1>14, <3>1, <3>2, <3>3
  <2>4. CASE got.char # "ESC"
    <3>1. ~got.arrow
      BY <2>2, <2>4, <1>5 DEF WholeAt, Arrow, Item, Directions
    <3>2. caller' = "poll" /\ UseOf(got) = "print"
      BY <1>1, <1>18, <2>4 DEF AfterChar, UseOf
    <3>3. got # Arrow("ESC") /\ got # Arrow("[")
      BY <3>1 DEF Arrow
    <3> QED
      BY <1>1, <1>13, <1>15, <3>1, <3>2, <3>3
  <2> QED
    BY <2>3, <2>4
<1>19. CASE caller = "bracket"
  <2>1. P = << Arrow("ESC") >> /\ Len(F) = 2 /\ F[1] = Arrow("ESC") /\ F[2] = got
    <3>1. P = << Arrow("ESC") >>
      BY <1>0, <1>19, BeforeFacts DEF P
    <3>2. Len(P) = 1 /\ P[1] = Arrow("ESC")
      BY <3>1
    <3> QED
      BY <3>1, <3>2, <1>10
  <2>2. WholeAt(F \o T, 1) /\ (F \o T)[1] = Arrow("ESC") /\ (F \o T)[2] = got
    BY <2>1, <1>11, <1>12
  <2>3. got = Arrow("[")
    BY <2>2 DEF WholeAt
  <2>4. caller' = "direction" /\ UseOf(got) = "escape" /\ got.arrow
    BY <1>1, <1>19, <2>3 DEF AfterChar, UseOf, Arrow
  <2>5. Before' = F
    BY <2>1, <2>3, <2>4, <1>17 DEF F
  <2> QED
    BY <1>1, <1>14, <2>4, <2>5
<1>20. CASE caller = "direction"
  <2>1. P = << Arrow("ESC"), Arrow("[") >> /\ Len(F) = 3 /\ F[2] = Arrow("[") /\ F[3] = got
    <3>1. P = << Arrow("ESC"), Arrow("[") >>
      BY <1>0, <1>20, BeforeFacts DEF P
    <3>2. Len(P) = 2 /\ P[2] = Arrow("[")
      BY <3>1
    <3> QED
      BY <3>1, <3>2, <1>10
  <2>2. WholeAt(F \o T, 2) /\ (F \o T)[2] = Arrow("[") /\ (F \o T)[2 + 1] = got
    BY <2>1, <1>11, <1>12
  <2>3. PICK d \in Directions : got = Arrow(d)
    BY <2>2 DEF WholeAt
  <2>4. caller' = "poll" /\ UseOf(got) = "escape" /\ got.arrow
    BY <1>1, <1>20, <2>3 DEF AfterChar, UseOf, Arrow
  <2>5. got # Arrow("ESC") /\ got # Arrow("[")
    BY <2>3 DEF Arrow, Directions
  <2> QED
    BY <1>1, <1>13, <1>15, <2>4, <2>5
<1> QED
  BY <1>1, <1>18, <1>19, <1>20

LEMMA StepWhole == WholeInv /\ Types' /\ [Next]_vars => WholeInv'
<1> SUFFICES ASSUME WholeInv, Types', [Next]_vars PROVE StreamIsWhole' /\ SequencesStayWhole'
  BY DEF WholeInv
<1>0. TypeOK /\ Types /\ StreamIsWhole /\ SequencesStayWhole
  BY DEF WholeInv, Types
<1>a. Waiting \in Seq(Item) /\ Before \in Seq(Item) /\ pending \in Seq(Item) /\ pending \in Seq(Items)
  BY <1>0, WaitingFacts, BeforeFacts, ItemsAreRecords, SeqMonotonic DEF TypeOK
<1>1. ASSUME UNCHANGED <<keyQueue, queueTail, queueHead, lost, pending, caller>>
      PROVE  StreamIsWhole'
  BY <1>0, <1>1 DEF StreamIsWhole, Stream, Waiting, Before
<1>2. CASE TestEmpty
  <2>1. pending' = << >> /\ caller' = "poll" /\ UNCHANGED <<keyQueue, queueHead, queueTail, lost, outcome>>
        /\ IsEmpty
    BY <1>2 DEF TestEmpty, At, queueVars, AfterChar, Nothing, Key
  <2>2. Waiting' = << >>
    BY <1>0, <2>1, EmptyFacts DEF Waiting
  <2>3. Before' = << >>
    BY <2>1 DEF Before
  <2>4. Stream' = << >>
    BY <2>1, <2>2, <2>3, ConcatEmptySeq, EmptySeq DEF Stream
  <2>5. Whole(<< >>)
    <3>1. DOMAIN << >> = {}
      OBVIOUS
    <3> QED
      BY <3>1, WholeByPosition
  <2> QED
    BY <1>0, <2>1, <2>4, <2>5 DEF StreamIsWhole, SequencesStayWhole
<1>3. CASE TestSome
  BY <1>0, <1>1, <1>3 DEF TestSome, queueVars, SequencesStayWhole, NoOutcome
<1>4. CASE Read
  BY <1>0, <1>1, <1>4 DEF Read, queueVars, SequencesStayWhole
<1>5. CASE Advance
  <2>1. lost' = lost
    BY <1>5 DEF Advance, queueVars
  <2> QED
    BY <1>0, <1>5, <2>1, AdvanceStep DEF StreamIsWhole, SequencesStayWhole
<1>6. CASE Enqueue
  <2>1. pending # << >> /\ pending' = Tail(pending) /\ UNCHANGED <<queueHead, caller, outcome>>
    BY <1>6 DEF Enqueue, loopVars
  <2>2. CASE Store(Head(pending))
    <3>1. Head(pending) \in Items
      BY <1>a, <2>1, HeadTailProperties
    <3>2. Waiting' = Append(Waiting, Head(pending))
      BY <1>0, <2>1, <2>2, <3>1, StoreStep
    <3>3. Waiting' \o pending' = Waiting \o pending
      BY <1>a, <2>1, <3>2, Shift
    <3>4. Stream' = Stream /\ lost' = lost
      BY <2>1, <2>2, <3>3 DEF Stream, Before, Store
    <3> QED
      BY <1>0, <2>1, <3>4 DEF StreamIsWhole, SequencesStayWhole
  <2>3. CASE Drop
    BY <2>3 DEF Drop, StreamIsWhole, SequencesStayWhole
  <2> QED
    BY <1>6, <2>2, <2>3 DEF Enqueue
<1>7. ASSUME NEW b \in Bursts, Interrupt(b)
      PROVE  StreamIsWhole' /\ SequencesStayWhole'
  <2>1. pending = << >> /\ pending' = b /\ UNCHANGED <<keyQueue, queueHead, queueTail, lost, caller, outcome>>
    BY <1>7 DEF Interrupt, loopVars
  <2>2. Waiting' = Waiting /\ Before' = Before
    BY <2>1 DEF Waiting, Before
  <2>3. b \in Seq(Item) /\ Whole(b)
    BY BurstItems, ItemsAreRecords, SeqMonotonic
  <2>4. Stream = Before \o Waiting
    BY <1>a, <2>1, ConcatEmptySeq DEF Stream
  <2>5. Stream' = (Before \o Waiting) \o b
    BY <1>a, <2>1, <2>2, <2>3, ConcatAssociative DEF Stream
  <2>6. Before \o Waiting \in Seq(Item)
    BY <1>a, ConcatProperties
  <2>7. ~lost => Whole(Stream')
    BY <1>0, <2>3, <2>4, <2>5, <2>6, WholeConcat DEF StreamIsWhole
  <2> QED
    BY <1>0, <2>1, <2>7 DEF StreamIsWhole, SequencesStayWhole
<1>8. CASE UNCHANGED vars
  BY <1>0, <1>1, <1>8 DEF vars, queueVars, loopVars, SequencesStayWhole
<1> QED
  BY <1>2, <1>3, <1>4, <1>5, <1>6, <1>7, <1>8 DEF Next, Loop

\* As long as the queue never was full, no part of an arrow's sequence is
\* printed, and readEscape takes no typed key for a part of one, whatever the
\* handlers enqueue between its calls of getChar.
THEOREM SequencesKept == Spec => []SequencesStayWhole
<1>1. Spec => []Types
  BY TypeInvariance
<1>2. WholeInv => SequencesStayWhole
  BY DEF WholeInv
<1> QED
  BY <1>1, <1>2, InitWhole, StepWhole, PTL DEF Spec

===============================================================================
