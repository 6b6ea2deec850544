------------------------------- MODULE KeyQueue -------------------------------
(***************************************************************************)
(* The event queue of src/kernel/keyboard/keyboard.cpp between the         *)
(* interrupt handlers and the main loop of src/kernel/kernel.cpp.  The     *)
(* handlers run behind interrupt gates, one character after the other with *)
(* the main loop standing still; the main loop is interrupted anywhere, so *)
(* each of its accesses to the queue is a step of its own, in source order.*)
(* An item is a character with its origin: the code sees `char' alone, and *)
(* `arrow' (is it part of an arrow's escape sequence?) is history.         *)
(***************************************************************************)
EXTENDS Integers, SequencesExt

CONSTANTS
    KeyQueueSize,   \* KEY_QUEUE_SIZE (64)
    Bursts          \* what one run of a handler may enqueue, in order

VARIABLES
    keyQueue,    \* key_queue
    queueHead,   \* queue_head
    queueTail,   \* queue_tail
    reader,      \* where dequeue is: "test", "read", "advance"
    caller,      \* whose getChar it is: "poll", "bracket", "direction"
    got,         \* the character dequeue has read, until it returns
    outcome,     \* history: what became of the character, until the next one
    lost,        \* history: was a character dropped?
    pending      \* what the handler that runs has still to enqueue

queueVars == <<keyQueue, queueTail, lost, pending>>
loopVars == <<queueHead, reader, caller, got, outcome>>
vars == <<queueVars, loopVars>>

Key(c) == [char |-> c, arrow |-> FALSE]
Arrow(c) == [char |-> c, arrow |-> TRUE]

\* What getChar returns of an empty queue, and every slot's first content.
Nothing == Key("NUL")

\* The escape sequence of an arrow key.
ArrowKey(dir) == << Arrow("ESC"), Arrow("["), Arrow(dir) >>

NoOutcome == [use |-> "none", item |-> Nothing]

Directions == {"A", "B", "C", "D"}

\* A sequence of whole keys: arrows come with all of their three characters, and
\* no key types an escape (scancode_to_ascii has none).
Whole(s) ==
    \A i \in DOMAIN s :
        /\ ~s[i].arrow => s[i].char # "ESC"
        /\ s[i].arrow => s[i].char \in {"ESC", "["} \cup Directions
        /\ s[i] = Arrow("ESC") => i + 1 \in DOMAIN s /\ s[i + 1] = Arrow("[")
        /\ s[i] = Arrow("[") => /\ i - 1 \in DOMAIN s /\ s[i - 1] = Arrow("ESC")
                               /\ i + 1 \in DOMAIN s
                               /\ s[i + 1] \in {Arrow(d) : d \in Directions}
        /\ s[i] \in {Arrow(d) : d \in Directions} => i - 1 \in DOMAIN s /\ s[i - 1] = Arrow("[")

ASSUME QueueAssumption ==
    /\ KeyQueueSize \in Nat \ {0, 1}
    /\ \A b \in Bursts : b \in Seq([char : STRING, arrow : BOOLEAN]) \ {<< >>} /\ Whole(b)

Items == {Nothing} \cup UNION {ToSet(b) : b \in Bursts}

Init ==
    /\ keyQueue = [i \in 0 .. (KeyQueueSize - 1) |-> Nothing]
    /\ queueHead = 0
    /\ queueTail = 0
    /\ reader = "test"
    /\ caller = "poll"
    /\ got = Nothing
    /\ outcome = NoOutcome
    /\ lost = FALSE
    /\ pending = << >>

\* Slip: the index is not reduced.
NextSlotUnreduced(i) == i + 1

NextSlot(i) == (i + 1) % KeyQueueSize

IsFull == NextSlot(queueTail) = queueHead

\* Slip: the index is moved on before the character is stored.
StoreTailFirst(c) ==
    /\ ~IsFull
    /\ queueTail' = NextSlot(queueTail)
    /\ keyQueue' = [keyQueue EXCEPT ![queueTail'] = c]
    /\ UNCHANGED lost

\* enqueue
Store(c) ==
    /\ ~IsFull
    /\ keyQueue' = [keyQueue EXCEPT ![queueTail] = c]
    /\ queueTail' = NextSlot(queueTail)
    /\ UNCHANGED lost

\* enqueue when one slot is left.
Drop ==
    /\ IsFull
    /\ lost' = TRUE
    /\ UNCHANGED <<keyQueue, queueTail>>

\* A keyboard or timer interrupt.
Interrupt(burst) ==
    /\ pending = << >>
    /\ pending' = burst
    /\ UNCHANGED <<keyQueue, queueTail, lost, loopVars>>

\* Its handler enqueues, and is not interrupted.
Enqueue ==
    /\ pending # << >>
    /\ Store(Head(pending)) \/ Drop
    /\ pending' = Tail(pending)
    /\ UNCHANGED loopVars

\* Slip: readEscape is content with the bracket.
AfterCharNoDirection(c) ==
    IF caller = "poll" /\ c.char = "ESC" THEN "bracket" ELSE "poll"

\* Who calls getChar next, given what it has returned: Run calls readEscape
\* after an escape, which calls it once more after a bracket.
AfterChar(c) ==
    IF caller = "poll" /\ c.char = "ESC" THEN "bracket"
    ELSE IF caller = "bracket" /\ c.char = "[" THEN "direction"
    ELSE "poll"

\* What becomes of a character: printed by Run, part of a sequence that
\* readEscape reads, or swallowed by readEscape.
UseOf(c) ==
    CASE caller = "poll" -> IF c.char = "ESC" THEN "escape" ELSE "print"
      [] caller = "bracket" -> IF c.char = "[" THEN "escape" ELSE "swallow"
      [] caller = "direction" -> IF c.char \in Directions THEN "escape" ELSE "swallow"

\* Slip: indices compared as if the ring never wrapped.
IsEmptyUnwrapped == queueHead >= queueTail

IsEmpty == queueHead = queueTail

\* The main loop runs when no handler does.
At(place) == pending = << >> /\ reader = place

\* dequeue finds the queue empty: the caller gets '\0'.
TestEmpty ==
    /\ At("test") /\ IsEmpty
    /\ caller' = AfterChar(Nothing)
    /\ UNCHANGED <<queueVars, queueHead, reader, got, outcome>>

TestSome ==
    /\ At("test") /\ ~IsEmpty
    /\ reader' = "read"
    /\ outcome' = NoOutcome
    /\ UNCHANGED <<queueVars, queueHead, caller, got>>

Read ==
    /\ At("read")
    /\ reader' = "advance"
    /\ got' = keyQueue[queueHead]
    /\ UNCHANGED <<queueVars, queueHead, caller, outcome>>

\* dequeue frees the slot and returns, and its caller goes on.
Advance ==
    /\ At("advance")
    /\ reader' = "test"
    /\ queueHead' = NextSlot(queueHead)
    /\ caller' = AfterChar(got)
    /\ outcome' = [use |-> UseOf(got), item |-> got]
    /\ got' = Nothing
    /\ UNCHANGED queueVars

Loop == TestEmpty \/ TestSome \/ Read \/ Advance

Next == Loop \/ Enqueue \/ \E b \in Bursts : Interrupt(b)

Spec == Init /\ [][Next]_vars

\* Handlers return, and between two of them the main loop gets to run.
FairSpec == Spec /\ WF_vars(Enqueue) /\ SF_vars(Loop)

-------------------------------------------------------------------------------
(***************************************************************************)
(* Properties                                                              *)
(***************************************************************************)

Slots == 0 .. (KeyQueueSize - 1)

TypeOK ==
    /\ keyQueue \in [Slots -> Items]
    /\ queueHead \in Slots
    /\ queueTail \in Slots
    /\ reader \in {"test", "read", "advance"}
    /\ caller \in {"poll", "bracket", "direction"}
    /\ got \in Items
    /\ outcome \in [use : {"none", "print", "escape", "swallow"}, item : Items]
    /\ lost \in BOOLEAN
    /\ pending \in Seq(Items)

\* What waits in the queue, oldest first; a character being read still waits.
Waiting == [k \in 1 .. ((queueTail - queueHead) % KeyQueueSize) |->
               keyQueue[(queueHead + k - 1) % KeyQueueSize]]

\* As long as nothing was dropped, the main loop tells the keys apart: it
\* prints no part of an arrow's sequence, and readEscape takes no typed key for
\* a part of one, although handlers enqueue between its calls of getChar.
SequencesStayWhole ==
    ~lost => /\ outcome.use = "print" => ~outcome.item.arrow
             /\ outcome.use = "escape" => outcome.item.arrow
             /\ outcome.use # "swallow"

\* What will wait when the handler that runs has returned.
Capacity == KeyQueueSize - 1
Room == Capacity - Len(Waiting)
Accepted == SubSeq(pending, 1, IF Len(pending) <= Room THEN Len(pending) ELSE Room)

Promise == INSTANCE InputQueue WITH
    contents <- Waiting \o Accepted,
    lost <- lost \/ Len(pending) > Room

\* The ring, its two indices and the handler's enqueues implement a bounded FIFO queue.
ImplementsInputQueue == Promise!Spec

\* A character does not wait forever: the main loop takes every head there is.
EveryCharIsTaken ==
    \A i \in Slots : (queueHead = i /\ Waiting # << >>) ~> (queueHead # i)

===============================================================================
