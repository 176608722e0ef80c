SPECIFICATION Spec
CHECK_DEADLOCK FALSE
CONSTANT Launches <- AllLaunches
INVARIANTS
  TypeOK
  Covered
  SameSums
PROPERTY
  NoRace
