\* Two notices, one human input, an archive, two crashes: every interrupted
\* commit and archive, with a second crash inside its recovery; the timer starts
\* the runner again and again.
CONSTANTS
  Texts = {a, b}
  Inputs = {i}
  None = None
  TestEvery = 2
  MaxTurn = 2
  MaxRun = 1
  MaxPosts = 2
  MaxCrashes = 2
SPECIFICATION FairSpec
INVARIANTS TypeOK FilesAgree RunsApart ImportedOnce
PROPERTIES ImplementsAtomicTurns ArchiveKept RecoveryEnds
