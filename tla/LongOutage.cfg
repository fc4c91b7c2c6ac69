\* An outage longer than 1024 reconnects, with the default multiplier of 2.0.
SPECIFICATION Spec
CONSTANTS
  Symbols = {s1}
  Authenticated = FALSE
  Bootstraps = FALSE
  MaxAttempts = NoLimit
  NoLimit = NoLimit
  OverflowAt = 1024
  MaxReqId = 0
  MaxInbox = 0
  MaxTries = 0
INVARIANT RetriesForever
