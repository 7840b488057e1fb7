\* Two lives on an ESP32: a fatal error ends one, answers outlive it.
SPECIFICATION FairSpec

CONSTANTS
  SeqModulus = 65536
  EventQueueSize = 1
  IntercoreQueueSize = 1
  TimeSamples = 1
  Programs = {0}
  Pushed = {}
  Tempos = {1}
  Seqs = {0}
  Broadcasts = {"NEXT_BEAT", "ERROR"}
  FatalHalts = TRUE
  DefaultTempo = 1000000
  TimerMayFail = FALSE
  MaxTimeRequests = 2
  MaxBoots = 2

INVARIANTS
  TempoNeverEarly
  ClockBeforeBeats

PROPERTIES
  GetsRegistered
  GetsTempo
  ImplementsLifecycle

CHECK_DEADLOCK FALSE
