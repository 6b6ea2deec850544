------------------------------ MODULE InputQueue ------------------------------
(***************************************************************************)
(* What the keyboard's event queue promises the main loop: characters come *)
(* out in the order they went in, none is invented, repeated or replaced,  *)
(* and what one interrupt offers comes in whole, or as the part of it that *)
(* fills the queue.  KeyQueue implements it.                               *)
(***************************************************************************)
EXTENDS Sequences, Naturals

CONSTANTS
    Capacity,
    Bursts      \* what an interrupt may offer

VARIABLES
    contents,   \* the characters waiting, oldest first
    lost        \* has one been lost?

Init == contents = << >> /\ lost = FALSE

\* An interrupt offers some characters; what does not fit is lost.
Offer(burst) ==
    \E n \in 0 .. Len(burst) :
        /\ contents' = contents \o SubSeq(burst, 1, n)
        /\ \/ n = Len(burst) /\ UNCHANGED lost
           \/ n < Len(burst) /\ Len(contents') = Capacity /\ lost' = TRUE

Take ==
    /\ contents # << >>
    /\ contents' = Tail(contents)
    /\ UNCHANGED lost

Next == Take \/ \E b \in Bursts : Offer(b)

Spec == Init /\ [][Next]_<<contents, lost>>

===============================================================================
