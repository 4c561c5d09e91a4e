\* An old and a new commit of main, two refreshes at a time.
CONSTANTS
  None = None
  Slots = {s1, s2}
  MaxTurn = 2
  MaxNotes = 1
  MaxCommits = 2
  TestEvery = 1
  HeadLag = 0
SPECIFICATION FairReading
INVARIANTS TypeOK
PROPERTIES NeverOlder TraceOfView CatchesUp
