SPECIFICATION BatchSpec
CONSTANTS
  MinBaseFee = 2
  MaxTotalFee = 8
  MaxOperations = 3
  PositionalIds <- MCPositionalIds
  Trim <- MCTrim
  Unset = Unset
  OpSpecs <- MCOpSpecs
  Accounts = {"S"}
  Fees = {7, 9}
  MemoFields = {"text", "id"}
  MaxBuilds = 2
INVARIANTS CacheIsFresh CycleMeansNoOrder ReorderedIsValid
CHECK_DEADLOCK FALSE
