SPECIFICATION Spec
CONSTANTS
  None = None  O = O  other = other  aud1 = aud1  aud2 = aud2  ns = ns  actor = actor
  x = x  y = y  type1 = type1  type2 = type2  custom = custom
  MaxU64 = 3
  Times = {0, 1, 2, 3}
  Grants <- MCGrants
  Requests <- MCRequests
  Selectors <- MCSelectors
  Contexts <- MCContexts
  Operations <- MCNames
CHECK_DEADLOCK FALSE
INVARIANTS
  DenyIsSubtractive
  PermissionHasNoGaps
  RevocationOnlyTakesAway
  AddedContextIsOnlyDenied
