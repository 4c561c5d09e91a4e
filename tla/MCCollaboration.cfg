CONSTANTS
  Suggestions = {s1}
  Questions = {}
  Lookups = {}
  Clicks = {k1, k2}
  Answers = {}
  None = None
  Limit = 1
  MaxCrashes = 1
  MaxExpiries = 1
  MaxArchives = 1
SPECIFICATION Spec
INVARIANTS TypeOK NothingLostOrRevived DeliveredOnce
PROPERTIES DecisionStands RepliesNotWasted
SYMMETRY Symmetry
