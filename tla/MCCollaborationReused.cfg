CONSTANTS
  Suggestions = {}
  Questions = {q1}
  Lookups = {}
  Clicks = {k1}
  Answers = {yes}
  None = None
  Limit = 1
  MaxCrashes = 0
  MaxExpiries = 0
  MaxArchives = 1
SPECIFICATION Spec
INVARIANTS AnswersItsQuestion
