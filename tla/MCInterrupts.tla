------------------------------ MODULE MCInterrupts ------------------------------
(***************************************************************************)
(* The interrupt path with bytes of the keyboard and the mouse at any time *)
(* from before pic_remap on, and the timer from pit_init on.               *)
(***************************************************************************)
EXTENDS Interrupts
===============================================================================
