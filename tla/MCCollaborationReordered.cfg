CONSTANTS
  Suggestions = {s1, s2}
  Questions = {}
  Lookups = {}
  Clicks = {k1}
  Answers = {}
  None = None
  Limit = 1
  MaxCrashes = 0
  MaxExpiries = 0
  MaxArchives = 0
SPECIFICATION Spec
INVARIANTS ModerationApplied
