\* Every port; two timers at a time, both set again.
CONSTANTS
  Ports = {"posix", "posix_freertos", "esp32", "pico", "pico_freertos"}
  Handles = {h1, h2}
  NULL = NULL
  max_retries = 3
  CommandQueue = 2
  MaxAlarms = 4
SPECIFICATION FairSpec
INVARIANTS
  TypeOK
  AlarmOutlivesCallback
  LeaksAreCancelledRequests
PROPERTY
  CancelReturns
CHECK_DEADLOCK FALSE
