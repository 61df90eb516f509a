\* A batch of two is filled, or is taken by the timer half filled; two
\* callbacks would show a second timer that runs beside the first one.
SPECIFICATION FairSpec
CONSTANTS
  Manager = manager
  Callback = {c1, c2}
  BatchSize = 2
  MaxWrites = 3
INVARIANTS
  LocksOwned
  BatchesAreRight
PROPERTIES
  ImplementsOutbox
  SinkSettles
