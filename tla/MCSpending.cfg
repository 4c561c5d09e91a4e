CONSTANTS
  Ids = {"cheap", "dear"}
  Price <- MCPrice
  Reserves = {1, 3}
  Charges = {0, 2}
  Limit = 6
  Cap = 2
  None = None
  MaxAttempts = 5
  MaxPast = 4
SPECIFICATION Spec
INVARIANTS TypeOK WithinLimit CountedOnce StartSucceeds
