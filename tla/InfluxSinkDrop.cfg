SPECIFICATION Spec
CONSTANTS
  Manager = manager
  Callback = {c1}
  BatchSize = 2
  MaxWrites = 4
CHECK_DEADLOCK FALSE
INVARIANT
  NeverFatal
