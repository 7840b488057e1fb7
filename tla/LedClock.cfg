\* Two tempos that replace each other and stop (0) at any moment; announcements
\* at any distance.  Times as small as the beat; 2 * EndOfTime does not wrap.
CONSTANTS
  BITS = 3
  UINT64_MAX = 127
  Periods = {0, 8, 11}
  Leads = {5}
  LateBy = {9}
  MaxFrameGap = 3
  MaxCount = 2
  EndOfTime = 14
SPECIFICATION Spec
INVARIANT
  TypeOK
PROPERTIES
  FramesInPhase
  EveryBeatCounted
  FractionIsQuotient
  NoBeatInvented
CHECK_DEADLOCK FALSE
