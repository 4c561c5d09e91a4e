CONSTANTS
  small = small
  medium = medium
  large = large
  Langs = {small, medium, large}
  Tokens <- MCTokens
  None = None
  Growth = 10
  MinCut = 5
  MaxTokens = 10
  MaxCCalls = 4
  NExams = 1
  TestEvery = 2
  NEditions = 2
  MaxCrashes = 1
SPECIFICATION Spec
INVARIANTS TypeOK PaidOnce DecisionStands Admitted
PROPERTIES SeedsKept QuarantineHolds
