\* The callback's stores are seen in program order.
CONSTANTS
  Requests = 4
  InOrder = TRUE
SPECIFICATION Spec
INVARIANTS
  TypeOK
  RaceCostsNoMoreThanItGains
PROPERTY
  SamplesNeverGoBack
