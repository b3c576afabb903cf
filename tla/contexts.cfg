SPECIFICATION Spec
CONSTANTS
  Texts <- MCTexts
  Trim <- MCTrim
  Lower <- MCLower
  Blank = ""
  Long = {"much too long"}
  Spaced = {"two words"}
  Bare = {}
  Kinds <- MCKinds
  Values <- MCValues
  Authority = "https://x"
  MaxKinds = 3
  MaxValues = 2
  LinearScan = 1
  InsertBound = 4
  Selectors <- MCSelectors
INVARIANTS
  IndexIsExact
  ReadsWhatWasInserted
  KeyIgnoresOrder
  MatchesLikeRules
CHECK_DEADLOCK FALSE
