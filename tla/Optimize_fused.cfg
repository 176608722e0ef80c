SPECIFICATION Spec
CHECK_DEADLOCK FALSE
CONSTANTS
  Models <- AllModels
  Configs <- SomeConfigs
  MaxApplies = 3
INVARIANTS TypeOK SameMath OnlyAsked
PROPERTY ReportTrue
