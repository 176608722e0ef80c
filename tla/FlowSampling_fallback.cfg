SPECIFICATION Spec
CONSTANTS
  Closures <- BothClosures
  Setups <- FailingCapture
  WarmupSteps = 2
  MaxSteps = 5
INVARIANT
  FallbackSound
