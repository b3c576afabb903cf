SPECIFICATION MCSpec
CONSTANTS
  None = None  i1 = i1  i2 = i2  i3 = i3  g1 = g1  g2 = g2  t1 = t1  tpl = tpl
  res = res  p1 = p1  p1r = p1r  p2 = p2  p0 = p0  k1 = k1  k2 = k2  k0 = k0
  a1 = a1  ctx = ctx
  Intents = {i1, i2, i3}
  Grants <- MCGrants
  ResourceTypes = {t1}
  Templates = {tpl}
  Resources = {res}
  Principals <- MCPrincipals
  EmptyPrincipal = p0
  StableKey <- MCStableKey
  Actors = {a1}
  Contexts = {ctx}
  MaxTotal <- MCMaxTotal
  MaxPerUser <- MCMaxPerUser
  GenerationBound = 1
  MaxU64 = 3
  AuditBound = 1
  Workloads = {"actors"}
  Requests <- MCRequests
SYMMETRY IntentSymmetry
INVARIANTS
  CommittedActorIsKnown
