CONSTANTS
  Caller = {c1, c2}
  Content = {x, y}
  Genesis = Genesis
  MaxRecords = 3
  MaxChanges = 2
SYMMETRY Symmetries
CHECK_DEADLOCK FALSE
SPECIFICATION Spec
INVARIANTS
  ValidMeansSerial
  RacesAreDetected
PROPERTIES
  AppendsRepairNothing
  ChangesAreLocated
