SPECIFICATION Spec
CONSTANTS
  Request <- MCRequest
  Message <- MCMessage
  StageLists <- MCStageLists
  ConfigFile <- MCConfigFile
  MaxRules = 2
INVARIANT RemovedRuleIsGone
