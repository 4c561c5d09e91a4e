CONSTANTS
  old1 = old1
  old2 = old2
  NRules = 2
  NNotes = 1
  NPriority = 0
  LegacyKeys = {old1, old2}
  LegacyItem <- MCLegacyItem
  LegacyText <- MCLegacyText
  Book0 <- MCBook0
  None = None
  MaxAttempts = 2
  PerDay = 1
  MaxCrashes = 1
SPECIFICATION FairSpec
INVARIANTS TypeOK PublicOnce ConfirmedIsPublic
PROPERTIES NotesSettle
