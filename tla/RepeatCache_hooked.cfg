SPECIFICATION Spec
CONSTANTS
  i1 = i1
  i2 = i2
  d1 = d1
  d2 = d2
  d3 = d3
  Inferences = {i1, i2}
  Ids = {d1, d2, d3}
  NoId = NoId
  Junk = Junk
  PromptLens = {1, 4}
  FlowTokens = 1
  Hint = 1
  Margin = 2
  NLayers = 2
  Watch = 1
  Setups <- SafeSetups
SYMMETRY Symmetry
INVARIANTS
  TypeOK
  NoOverflow
  ReuseIsConfined
  LayersAgree
PROPERTIES
  RefinesEager
