SPECIFICATION Spec
CONSTANTS
  Closures <- BothClosures
  Setups <- Installs
  WarmupSteps = 2
  MaxSteps = 7
INVARIANTS
  TypeOK
  Schedule
PROPERTY
  CapturesOnce
