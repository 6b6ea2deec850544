------------------------------ MODULE MCKeyboard ------------------------------
(***************************************************************************)
(* The key A (0x1E), the keypad's 8 (0x48), whose code is that of the Up   *)
(* arrow after 0xE0, Up itself, the keypad's Enter (0x1C after 0xE0), the  *)
(* left Shift and CapsLock.                                                *)
(***************************************************************************)
EXTENDS Keyboard

MCArrows == [c \in {72} |-> 128]

===============================================================================
