SPECIFICATION Spec
CONSTANTS
  Blocks = 4
  Deepstack = {1, 2}
  Grids = {g1, g2, g3}
  NoGrid = NoGrid
  RaisesAt = {"consts", "attn", "mlp"}
INVARIANTS
  TypeOK
  EagerInputs
  AllTaps
  ConstsOfGrid
