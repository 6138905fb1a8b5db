CONSTANTS
  Contents <- MCContents
  Configs <- MCConfigs
  MaxRecords = 2
  NoHash = NoHash
  NoContent = NoContent
  NoVersion = NoVersion
  NoCard = NoCard
SPECIFICATION Spec
INVARIANTS
  SameInputsSameRecord
  FingerprintsTellApart
