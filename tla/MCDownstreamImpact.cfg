CONSTANTS
  NodeId = {1, 2, 3, 4, 5}
  NoNode = NoNode
  Networks <- MCNetworks
  Criticality = {"LOW", "CRITICAL"}
  NoCriticality = NoCriticality
  CriticalityOf <- MCCriticalityOf
SPECIFICATION Spec
INVARIANTS
  ImpactIsSeparation
  LossNeverHelps
