SPECIFICATION FairSpec
CONSTANTS
  Instance = {i1, i2, i3}
  Operator = {o1, o2}
  Latest = 5
  MaxFaults = 2
  None = None
INVARIANTS
  TypeOK
  ServesOnCompleteSchema
PROPERTIES
  MigrationsRunOnce
  ComesUp
  BootstrapConverges
