SPECIFICATION FairSpec
CHECK_DEADLOCK FALSE
INVARIANTS
  TypeOK
  BenchmarkUsable
  OutputKept
  StartsOverOnce
  
PROPERTY
  Terminates
