SPECIFICATION Spec
CONSTANTS
  MinBaseFee = 100
  MaxTotalFee = 1000
  MaxOperations = 5
  BusyFee = 1000
  CongestedFee = 5000
  OpLists <- MCOpLists
  Bids <- MCBids
  Memos <- MCMemos
  Received <- MCReceived
  Stats <- MCStats
  Buffers = {0, 10, 30}
INVARIANTS BuiltIsAccepted BumpOutbids AdviceCoversMinimum
CHECK_DEADLOCK FALSE
