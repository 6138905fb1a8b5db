CONSTANTS
  i1 = i1
  i2 = i2
  e1 = e1
  e2 = e2
  v1 = v1
  v2 = v2
  ClaimId = {i1, i2}
  Evidence = {e1, e2}
  Value = {v1, v2}
  NoValue = NoValue
  NoText = NoText
  NoReport = NoReport
  Claims <- MCClaims
  Drafts <- MCDrafts
  Packets <- MCPackets
  MaxClaims = 3
SPECIFICATION Spec
INVARIANTS
  NothingUngroundedLeaves
  WhatLeavesViolatedIsARefusal
  AuthorityLimits
  RefusalAlwaysPasses
PROPERTIES
  GatingAgainChangesNothing
  EveryRemovalIsRecorded
