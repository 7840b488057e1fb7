\* The server's clock is set, ahead of the controller's and behind it.
CONSTANTS
  TIME_SYNC_SAMPLES = 3
  UINT64_MAX = 1023
  UINT32_MAX = 255
  Flights = {0, 1, 4}
  Holds = {0}
  Instants = {20, 21}
  Offsets <- BothSigns
SPECIFICATION Spec
INVARIANTS
  AccurateWithinDelay
  MajorityDecides
