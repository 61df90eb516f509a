SPECIFICATION MCSpec
CONSTANTS
  Excluded = {{}, {"power", "temperature", "min_consumed_watts"}, {"consumed_power"}}
  MaxRounds = 3
  MinimumRequiredPoints = 2
  MaxPoints = 12
  DensePoints = 6
  MaxPeaks = 2
  Reports = {1, 2, 9}
  BufferLength = 4
  MaxValues = 6
  MaxWrites = 4
INVARIANTS
  ReadingsAreRight
  ConfigsAreSound
  StatisticsAreSound
  UnitsSurvive
  SchemaAnswersAgree
  ResamplingKeepsOrder
  PeaksAreKept
  MessagesSurvive
  
  AcceptedIsHandedOn
  PhasesAreToldOnce
  LabelledAreCurrent
  FlushesDoNotOverlap
  OtherSinksAreFaithful
CHECK_DEADLOCK FALSE
