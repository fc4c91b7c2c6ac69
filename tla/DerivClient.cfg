\* The client with two symbols, one-time passwords and a bootstrap, over
\* connections that may be lost at any moment.
SPECIFICATION Spec
CONSTANTS
  Symbols = {s1, s2}
  Authenticated = TRUE
  Bootstraps = TRUE
  MaxAttempts = 2
  NoLimit = NoLimit
  OverflowAt = 1024
  MaxReqId = 10
  MaxInbox = 3
  MaxTries = 3
INVARIANTS TypeOK SubscribedWhileListening GivesUpOnlyAfterTrying FreshPasswordPerConnection
PROPERTIES StreamStartsClean StreamingResumes
