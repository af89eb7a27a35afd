SPECIFICATION FairSpec
CONSTANTS
  direct = direct
  gated = gated
  retrying = retrying
  broken = broken
  garbled = garbled
  first = first
  second = second
  Blank = Blank
  Unset = Unset
  Calls = {direct, gated, retrying, broken}
  Envelopes = {first, second, garbled}
  Paths <- MCPaths
  Env <- MCEnv
  Now <- MCNow
  Body <- MCBody
  PolicySet <- MCPolicySet
  MaxSequenceRetries = 5
  RequiredConfirmations = 0
  FirstHour = 22
  LastHour = 26
PROPERTIES
  KeepsPromise
  BroadcastsWithinHours
  EveryCallResolves
CHECK_DEADLOCK FALSE
