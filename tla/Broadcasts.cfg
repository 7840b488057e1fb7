\* Six numbers, datagrams overtaken by a later one, one restart.
CONSTANTS
  SeqModulus = 6
  MaxAge = 1
  GapModulus = 4
  MaxFlight = 2
  MaxRestarts = 1
SPECIFICATION FairSpec
INVARIANTS
  FilterKnowsAge
  MissedBeatsAreCounted
PROPERTIES
  BeatsKeepComing
  ProgramSettles
CHECK_DEADLOCK FALSE
