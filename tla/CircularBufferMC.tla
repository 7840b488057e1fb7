--------------------------- MODULE CircularBufferMC ---------------------------
(***************************************************************************)
(* Instances of CircularBuffer for TLC.                                    *)
(***************************************************************************)
EXTENDS CircularBuffer, TLC

CONSTANTS t1, t2, t3

\* As the firmware uses a queue: callbacks add without blocking, the event
\* loop removes and blocks; and a third thread that adds, polls (as the LED
\* core does) and looks.
FirmwareCalls == t1 :> {"try_add"}
              @@ t2 :> {"remove_blocking"}
              @@ t3 :> {"try_add", "try_remove", "try_peek"}

===============================================================================
