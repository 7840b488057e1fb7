\* One time request, lost.
SPECIFICATION FairSpec

CONSTANTS
  SeqModulus = 65536
  EventQueueSize = 2
  IntercoreQueueSize = 1
  TimeSamples = 1
  Programs = {0}
  Pushed = {}
  Tempos = {1}
  Seqs = {0}
  Broadcasts = {}
  FatalHalts = FALSE
  DefaultTempo = 1000000
  TimerMayFail = FALSE
  MaxTimeRequests = 1
  MaxBoots = 1

PROPERTIES
  GetsTime

CHECK_DEADLOCK FALSE
