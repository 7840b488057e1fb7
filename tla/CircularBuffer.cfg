\* Three threads on a ring of three slots.
CONSTANTS
  Threads = {t1, t2, t3}
  Calls <- FirmwareCalls
  Capacity = 2
  IndexModulus = 4
  Values = {v1, v2}
  NoValue = NoValue
  Nobody = Nobody
  t1 = t1
  t2 = t2
  t3 = t3
SPECIFICATION FairSpec
INVARIANTS
  TypeOK
  NoLostWakeup
  HolderGoesOn
PROPERTIES
  ImplementsFifo
  QueuedIsTaken
