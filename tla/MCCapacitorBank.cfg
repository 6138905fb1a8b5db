\* The bank stops when MaxOps is reached: a bound of the exploration.
CHECK_DEADLOCK FALSE
CONSTANTS
  Kvar = 50
  Stages = 4
  MaxOps = 12
  NoLoad = NoLoad
  MinImport = 162
  Loading <- MCLoading
SPECIFICATION Spec
INVARIANTS
  OpsAccountForStages
PROPERTY
  NeverHunts
