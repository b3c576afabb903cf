SPECIFICATION Spec
CONSTANTS
  None = None
  Texts <- MCTexts
  Trim <- MCTrim
  Lower <- MCLower
  Blank = ""
  Long = {"long"}
  Spaced = {"two words"}
  Bare = {"bare"}
  TrustGrantIdOf <- MCTrustGrantIdOf
  GrantSeriesIdOf <- MCGrantSeriesIdOf
  ExpressionOf <- MCExpressionOf
  MaxResourceTypes = 2
  MaxAudienceEntries = 2
  MaxSelectors = 2
  MaxSelectorValues = 3
  MaxExpressions = 2
  MaxOperations = 2
  RecordVersion = 1
  NewArguments <- MCNewArguments
  Lineages <- MCLineages
  AudienceScopes <- MCAudiences
  TimeWindows <- MCTimeWindows
  Revocations <- MCRevocations
  IssuerPrincipals <- MCPrincipals
  Profiles <- MCProfiles
  OnTheWay <- MCOnTheWay
  InStorage <- MCInStorage
  MaxChanges = 2
  TransitionIdOf <- MCTransitionIdOf
  TransitionSeriesIdOf <- MCGrantSeriesIdOf
  RawTransitions <- MCRawTransitions
  Keys <- MCKeys
  AcceptedAt = {0, 1}
  VerifiedAt = 0
  TransitionChanges <- MCTransitionChanges
  MaxAlterations = 1
  Predicates = {"equals", "contains"}
  Plain = {"n", "a"}
  MaxExpression = 8
  Starts <- MCStarts
  TypedBound = 5
INVARIANTS
  ShapesHold
  SignedIsWhatIsRead
  WhatIsHeldLoads
  StorageKeepsTheSigner
  TransferIsAgreed
  RecordsAreWellFormed
  ExpressionsReadBack
CHECK_DEADLOCK FALSE
