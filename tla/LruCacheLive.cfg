\* Under fair scheduling: nobody waits forever, neither for the mutex nor for
\* the value that another goroutine computes.
SPECIFICATION FairSpec
CONSTANTS
  Entry = {e1, e2, e3}
  Nil = Nil
  Thread = {t1, t2, t3}
  NoThread = NoThread
  Key = {k1}
  NoKey = NoKey
  NoValue = NoValue
  Ttl <- OneTtl
  Size <- OneSize
  MaxMemory = 1
  CanPanic = FALSE
  Epoch = 2
  MaxClock = 3
  MaxCalls = 1
PROPERTY
  EveryCallReturns
