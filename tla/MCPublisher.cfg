CONSTANTS
  None = None
  TestEvery = 2
  MaxTurn = 4
  MaxNotes = 1
  MaxRun = 1
  MaxFaults = 2
SPECIFICATION FairSpec
INVARIANTS TypeOK
PROPERTIES ImplementsPublicRecord TurnsPublished
