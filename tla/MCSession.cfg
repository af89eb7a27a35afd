SPECIFICATION FairSpec
CONSTANTS
  Requests = {r1, lo}
  Logouts = {lo}
  Flows = {f1, f2}
  NoFlow = NoFlow
  Exchanges = {x1}
  Overrides = {1}
  MaxAttempts = 2
  MaxTokens = 2
INVARIANTS SingleFlight SendsBounded SessionMatchesHttp
PROPERTIES RetiredNeverSent NotSentExpired EveryCallEnds
CHECK_DEADLOCK FALSE
