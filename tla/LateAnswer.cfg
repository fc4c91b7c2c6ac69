\* One handler request times out and its answer is read afterwards.
SPECIFICATION Spec
CONSTANTS
  Symbols = {s1}
  Authenticated = FALSE
  Bootstraps = FALSE
  MaxAttempts = NoLimit
  NoLimit = NoLimit
  OverflowAt = 1024
  MaxReqId = 2
  MaxInbox = 2
  MaxTries = 0
INVARIANT LateAnswerIsHarmless
