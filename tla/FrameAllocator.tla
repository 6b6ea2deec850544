---------------------------- MODULE FrameAllocator ----------------------------
(***************************************************************************)
(* What a page-frame allocator promises its callers, with nothing of how   *)
(* the free frames are recorded or searched for.  A block lent out is a    *)
(* run of frames that were all available; a block taken back gives at      *)
(* least its first frame back.  PMM implements it.                         *)
(***************************************************************************)
EXTENDS Integers

VARIABLES
    avail,   \* the frames nobody holds and a later request may get
    lent     \* the blocks [base, count] callers hold

vars == <<avail, lent>>

Span(b) == b.base .. (b.base + b.count - 1)

Init == avail = {} /\ lent = {}

\* The allocator starts to manage a set of frames.
Open ==
    /\ avail = {} /\ lent = {}
    /\ avail' \in SUBSET Nat
    /\ lent' = {}

Lend(b) ==
    /\ b.count > 0
    /\ Span(b) \subseteq avail
    /\ avail' = avail \ Span(b)
    /\ lent' = lent \cup {b}

\* How many of the block's other frames come back is left open.
TakeBack(b) ==
    /\ lent' = lent \ {b}
    /\ avail \cup {b.base} \subseteq avail'
    /\ avail' \subseteq avail \cup Span(b)

Next ==
    \/ Open
    \/ \E b \in lent' \ lent : Lend(b)
    \/ \E b \in lent \ lent' : TakeBack(b)

Spec == Init /\ [][Next]_vars

===============================================================================
