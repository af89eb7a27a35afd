SPECIFICATION BudgetSpec
CONSTANTS
  Spenders = {a1, a2}
  a1 = a1
  a2 = a2
  Unset = Unset
  Day = 2
  LengthOf <- MCLengthOf
  Limits = {3, 4}
  Draws = {2, 3}
  Rates <- MCRates
  DailyLimit = 4
  AssetCap = 5
  MaxTime = 3
  MaxEntries = 2
  MaxEdits = 1
SYMMETRY SpendersAreAlike
INVARIANTS
  OverspendingIsStale
  DailyLimitsHold
  ChecksAgree
CHECK_DEADLOCK FALSE
