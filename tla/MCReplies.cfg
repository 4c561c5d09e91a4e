CONSTANTS
  Suggestions = {s1, s2}
  Questions = {q1}
  Lookups = {r1, r2}
  Clicks = {k1}
  Answers = {yes}
  None = None
  Limit = 1
  MaxCrashes = 0
  MaxExpiries = 0
  MaxArchives = 0
SPECIFICATION EndlessSpec
PROPERTIES ResearchArrives OnlyEarlierKindsDelay
