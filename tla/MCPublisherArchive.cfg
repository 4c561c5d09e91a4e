CONSTANTS
  None = None
  TestEvery = 2
  MaxTurn = 2
  MaxNotes = 0
  MaxRun = 1
  MaxFaults = 0
SPECIFICATION FairSpec
PROPERTIES NewRunGoesOn
