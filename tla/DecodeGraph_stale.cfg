SPECIFICATION Spec
CONSTANTS
  i1 = i1
  i2 = i2
  a1 = a1
  a2 = a2
  Inferences = {i1, i2}
  Addrs = {a1, a2}
  Junk = Junk
  PromptLens = {2}
  GenBudget = 4
  FlowTokens = 1
  TurnTokens = 2
  MaxNew = 3
  Margin = 1
  WarmupSteps = 1
  GenAborts = TRUE
  MaxKV = 0
CHECK_DEADLOCK FALSE
INVARIANTS
  NoStaleRead
