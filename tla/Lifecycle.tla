------------------------------ MODULE Lifecycle -------------------------------
(***************************************************************************)
(* What the state manager promises the rest of the firmware, whatever      *)
(* messages arrive and however they interleave:                            *)
(*                                                                         *)
(*   - the controller climbs UNKNOWN, STARTED, INITIALIZED, REGISTERED,    *)
(*     TIME_SYNCED, TEMPO_SYNCED one stage at a time and never goes back,  *)
(*     although the transition matrix would allow TEMPO_SYNCED ->          *)
(*     TIME_SYNCED;                                                        *)
(*   - the periodic requests of a stage run in that stage only, all of     *)
(*     them or (when a timer cannot be allocated) none of them;            *)
(*   - losing power is the only way back, to the very beginning.           *)
(***************************************************************************)
EXTENDS Integers

VARIABLES stage,     \* how far the controller has come, 0 .. 5
          periodic   \* the requests a live timer repeats

Stages == 0 .. 5

\* The requests each stage repeats: hello while registering, and tempo, time
\* and hello refreshes once the tempo is known.
PeriodicRequests(s) ==
  CASE s = 2 -> {"init_hello"}
    [] s = 5 -> {"tempo", "time", "hello"}
    [] OTHER -> {}

Init == stage = 0 /\ periodic = {}

Advance == /\ stage < 5
           /\ stage' = stage + 1
           /\ periodic' \in {{}, PeriodicRequests(stage + 1)}

\* Re-entering the last stage restarts its timers, and may lose them.
Resync == /\ stage = 5
          /\ stage' = 5
          /\ periodic' \in {{}, PeriodicRequests(5)}

PowerLoss == stage' = 0 /\ periodic' = {}

Next == Advance \/ Resync \/ PowerLoss

Spec == Init /\ [][Next]_<<stage, periodic>>

===============================================================================
