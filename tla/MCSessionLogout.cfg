SPECIFICATION Spec
CONSTANTS
  Requests = {r1, lo}
  Logouts = {lo}
  Flows = {f1, f2}
  NoFlow = NoFlow
  Exchanges = {}
  Overrides = {}
  MaxAttempts = 1
  MaxTokens = 2
INVARIANT LogoutClears
CHECK_DEADLOCK FALSE
