CONSTANTS
  NodeId = {1, 2, 3, 4, 5, 6, 7}
  NoNode = NoNode
  Networks <- MCNetworks
SPECIFICATION HelpersSpec
INVARIANTS
  RootsAreComponents
  AnswerIsExact
  IslandsAreLvOnly
PROPERTIES
  AlwaysReturns
