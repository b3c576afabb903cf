SPECIFICATION Spec
CONSTANTS
  None = None  A = A  B = B  principal = principal  k1 = k1
  MaxU64 = 1
  NonRevokedTtl = 1
  MaxStale = 2
  Skew = 1
  Horizon = 3
  Documents <- AllDocuments
  Sources <- BothSources
  Keys <- MCKeys
  Postures = {"Online", "Offline"}
  Operations <- MCOperations
INVARIANTS
  BoundedRevocationLag
  StoredRecordsLoad
  VerifiedMeansUsable
  TypeOK
