SPECIFICATION Spec
CONSTANTS
  None = None  O = O  A = A  B = B
  id1 = id1  id2 = id2  id3 = id3  id4 = id4  s1 = s1  s2 = s2
  type1 = type1  ns = ns  actor = actor  x = x  y = y
  Authorities = {O, A, B}
  TransitionIds = {id1, id2, id3, id4}
  SeriesIds = {s1, s2}
  Times = {0, 1, 2}
  Transitions <- MCTransitions
  Documents <- MCDocuments
  Chains <- MCChains
  MaxChainLength = 3
CHECK_DEADLOCK FALSE
INVARIANTS
  CursorIsEndOfLinkedPrefix
  AcceptsExactlyLinkedChains
  OwnerWasGivenItsScope
  ErrorNamesFirstBreak
  ScopeIsRefusedForAResource
