SPECIFICATION Spec
CONSTANTS
  Texts <- MCTexts
  Trim <- MCTrim
  Lower <- MCLower
  Blank = ""
  Long = {"long"}
  Spaced = {"two words"}
  Bare = {"bare"}
  None = None
  MaxDiscoveryKeys = 2
  MaxEndpoints = 1
  RawDocuments <- MCRawDocuments
  RawDelegated <- MCRawDelegated
  Proofs <- MCProofs
  Grants = {"g1", "g2"}
  Chains <- MCChains
  MaxDocuments = 2
  MaxDelegated = 2
  MaxProofs = 1
  MaxChains = 1
  MaxChainLength = 2
INVARIANTS
  WithinLimits
  OrderIsImmaterial
  OnlyLiveKeysAreFound
  FindsTheSigningKey
PROPERTIES
  AnswersStand
