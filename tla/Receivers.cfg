SPECIFICATION ReceiversSpec
CONSTANTS
  Sink = {s1, s2}
  Capacity = 1
  MaxForward = 1
  Modulus = 3
  Config <- MCConfig
INVARIANTS
  EverySinkGetsEveryMessage
  OneWorkerPerHost
PROPERTIES
  ClosedReceiversAreQuiet
  EveryHostIsPolled
  RoundsGoOn
  ReceiversCloseEnds
  CloseEnds
CHECK_DEADLOCK FALSE
