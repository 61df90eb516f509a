SPECIFICATION FairSpec
CONSTANTS
  Entry = {e1, e2}
  Nil = Nil
  Thread = {t1, t2}
  NoThread = NoThread
  Key = {k1}
  NoKey = NoKey
  NoValue = NoValue
  Ttl <- OneTtl
  Size <- OneSize
  MaxMemory = 1
  CanPanic = TRUE
  Epoch = 2
  MaxClock = 3
  MaxCalls = 1
CHECK_DEADLOCK FALSE
PROPERTY
  EveryCallReturns
