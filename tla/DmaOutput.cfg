\* The code's FIFO and alarm, in words of 30 us; alarms that may fail.
CONSTANTS
  NUM_PIXELS = 10
  FifoDepth = 8
  AlarmTicks = 13
  LatchTicks = 2
  SelfTests = 2
  SelfTestTicks = 19
  AlarmMayFail = TRUE
SPECIFICATION FairSpec
INVARIANTS
  StripSeesWholeFrames
  OnePermit
PROPERTIES
  NeverDrawsWhatIsRead
  ImplementsStream
  FramesKeepComing
CHECK_DEADLOCK FALSE
