\* One life on a Pico: timers may fail, errors are logged; the server sends the
\* tempo registry_init guesses, and two programs that agree in eight bits.
SPECIFICATION Spec

CONSTANTS
  SeqModulus = 65536
  EventQueueSize = 2
  IntercoreQueueSize = 1
  TimeSamples = 1
  Programs = {257}
  Pushed = {1}
  Tempos = {1000000}
  Seqs = {0}
  Broadcasts = {"NEXT_BEAT", "PROGRAM", "INVALID"}
  FatalHalts = FALSE
  DefaultTempo = 1000000
  TimerMayFail = TRUE
  MaxTimeRequests = 1
  MaxBoots = 1

INVARIANTS
  TypeOK
  TimersMatchState
  TransitionsLegal
  LedFollowsRegistry

CHECK_DEADLOCK FALSE
