\* Two goroutines, two keys, one goroutine can fill the cache while the other
\* evicts: the structures that the operations keep together.
SPECIFICATION Spec
CONSTANTS
  Entry = {e1, e2, e3, e4}
  Nil = Nil
  Thread = {t1, t2}
  NoThread = NoThread
  Key = {k1, k2}
  NoKey = NoKey
  NoValue = NoValue
  Ttl <- SomeTtl
  Size <- SomeSize
  MaxMemory = 3
  CanPanic = TRUE
  Epoch = 2
  MaxClock = 3
  MaxCalls = 2
INVARIANTS
  StructuresAgree
PROPERTIES
  EvictionIsRight
  ImplementsRecencyOrder
SYMMETRY Symmetric
ACTION_CONSTRAINT PanicsUnwatched
