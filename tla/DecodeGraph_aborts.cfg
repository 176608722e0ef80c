SPECIFICATION FairSpec
CONSTANTS
  i1 = i1
  i2 = i2
  a1 = a1
  a2 = a2
  Inferences = {i1, i2}
  Addrs = {a1, a2}
  Junk = Junk
  PromptLens = {2, 3}
  GenBudget = 3
  FlowTokens = 1
  TurnTokens = 2
  MaxNew = 2
  Margin = 0
  WarmupSteps = 1
  GenAborts = TRUE
  MaxKV = 0
CHECK_DEADLOCK FALSE
INVARIANTS
  LeakIsConfined
  GraphsLive
PROPERTIES
  GraphsPersist
  EagerUnlessLeaked
  LeakHeals
  CapturesEnd
