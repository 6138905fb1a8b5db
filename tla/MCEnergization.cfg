CONSTANTS
  NodeId = {1, 2, 3, 4}
  NoNode = NoNode
  NoSource = NoSource
  Networks <- MCNetworks
SPECIFICATION FairSpec
INVARIANTS
  TypeOK
  SearchIsExact
  NeverGuesses
  SupplyIsStable
  PathIsEvidence
  ReasonNamesTheDoubt
PROPERTIES
  Terminates
  Implements
