SPECIFICATION Spec
CONSTANTS
  first = first
  second = second
  Calls = {first, second}
  Kinds <- MCKinds
  Answers <- MCAnswers
  ConfigRetry <- MCConfigRetry
  RetryMiddlewares <- MCRetryMiddlewares
  Unset = Unset
  None = None
SYMMETRY Symmetry
INVARIANTS AppliedOnce ErrorIsOwn
PROPERTY NoForeignSignOut
CHECK_DEADLOCK FALSE
