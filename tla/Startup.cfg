\* All ports; the code's ten tries, a short poll.
CONSTANTS
  Platforms = {"esp32", "pico", "pico_freertos", "posix"}
  wifi_retries = 10
  max_attempts = 5
SPECIFICATION FairStartup
INVARIANTS
  GivesUpLate
  RequestsKnowTheServer
PROPERTY
  StartupEnds
CHECK_DEADLOCK FALSE
