SPECIFICATION Spec
CONSTANTS
  MaxTokens = 3
  OdeSteps = 3
  Runs = 2
  Raises = TRUE
INVARIANTS
  TypeOK
  StagesExact
  NothingTwice
  Detached
