SPECIFICATION Spec
CONSTANTS
  i1 = i1
  i2 = i2
  a1 = a1
  a2 = a2
  Inferences = {i1, i2}
  Addrs = {a1, a2}
  Junk = Junk
  PromptLens = {2, 3}
  GenBudget = 3
  FlowTokens = 1
  TurnTokens = 2
  MaxNew = 5
  Margin = 1
  WarmupSteps = 1
  GenAborts = FALSE
  MaxKV = 4
SYMMETRY Symmetry
INVARIANTS
  TypeOK
  NoOverflow
PROPERTIES
  RefinesEager
