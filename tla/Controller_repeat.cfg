\* Two hello responses.
SPECIFICATION Spec

CONSTANTS
  SeqModulus = 65536
  EventQueueSize = 2
  IntercoreQueueSize = 1
  TimeSamples = 1
  Programs = {0}
  Pushed = {}
  Tempos = {1}
  Seqs = {0}
  Broadcasts = {}
  FatalHalts = TRUE
  DefaultTempo = 0
  TimerMayFail = FALSE
  MaxTimeRequests = 1
  MaxBoots = 1

PROPERTIES
  RepeatedTransitionIgnored

CHECK_DEADLOCK FALSE
