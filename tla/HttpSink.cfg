\* Two callbacks would show a second timer that runs beside the first one.
SPECIFICATION FairSpec
CONSTANTS
  Manager = manager
  Callback = {c1, c2}
  MaxRetries = 2
  MaxWrites = 3
INVARIANTS
  BatchesAreKept
PROPERTIES
  ImplementsOutbox
  SinkSettles
