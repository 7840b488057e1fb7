----------------------------- MODULE FrameStream ------------------------------
(***************************************************************************)
(* What output_strings_dma promises the LED core, whatever is behind it:   *)
(* the pictures it draws go out in the order drawn, each once and whole;   *)
(* while one is on its way it does not change, and the next does not start *)
(* before the strip shows it.                                              *)
(*                                                                         *)
(* The ESP32 port keeps the promise in one call of its SDK, which returns  *)
(* when all has been sent.  The Pico ports return at once; DmaOutput is    *)
(* checked and proved to keep it.                                          *)
(***************************************************************************)
EXTENDS Integers

CONSTANT NUM_PIXELS

VARIABLES picture,  \* the one to be sent next, counted modulo 3
          line      \* the words that have left the LED core and are not shown

Init == picture = 0 /\ line = <<>>

Send == /\ line = <<>>
        /\ line' = [p \in 1 .. NUM_PIXELS |-> picture]
        /\ picture' = (picture + 1) % 3

\* The strip latches.
Show == /\ line # <<>>
        /\ line' = <<>>
        /\ UNCHANGED picture

Next == Send \/ Show

Spec == Init /\ [][Next]_<<picture, line>>

===============================================================================
