\* Four goroutines, two keys, one condition variable: two compute, two wait,
\* and a broadcast for one key wakes those who wait for the other one.
SPECIFICATION Spec
CONSTANTS
  Entry = {e1, e2, e3, e4}
  Nil = Nil
  Thread = {t1, t2, t3, t4}
  NoThread = NoThread
  Key = {k1, k2}
  NoKey = NoKey
  NoValue = NoValue
  Ttl <- OneTtl
  Size <- OneSize
  MaxMemory = 3
  CanPanic = FALSE
  Epoch = 2
  MaxClock = 3
  MaxCalls = 1
INVARIANTS
  SingleComputation
  WaitersAreServed
PROPERTIES
  ImplementsSingleFlight
SYMMETRY Symmetric
