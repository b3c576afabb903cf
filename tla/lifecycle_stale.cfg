SPECIFICATION Spec
CONSTANTS
  None = None  A = A  B = B  principal = principal  k1 = k1
  MaxU64 = 1
  NonRevokedTtl = 3
  MaxStale = 1
  Skew = 0
  Horizon = 3
  Documents <- RevocableDocuments
  Sources <- MirrorOnly
  Keys <- MCKeys
  Postures = {"Online"}
  Operations <- MCOperations
INVARIANT ActiveStatusWithinMaxStale
