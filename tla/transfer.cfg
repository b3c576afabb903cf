SPECIFICATION Spec
CONSTANTS
  None = None  O = O  A = A  B = B
  id1 = id1  id2 = id2  id3 = id3  id4 = id4  s1 = s1
  type1 = type1  ns = ns  x = x  y = y
  Authorities = {O, A, B}
  TransitionIds = {id1, id2, id3, id4}
  SeriesIds = {s1}
  Times = {0, 1, 2, 3, 4, 5}
  Transitions <- MCTransitions
  Documents <- MCDocuments
  MaxChainLength = 3
  Origin = O
  KeyActive <- MCKeyActive
  Horizon = 3
  MaxSkew = 1
  MaxSigned = 3
  MaxUnfaithful = 2
CHECK_DEADLOCK FALSE
INVARIANTS
  VerifyingChainsAgree
  SettledTransferVerifies
  OwnersConsented
PROPERTIES
  ProofsEndure
