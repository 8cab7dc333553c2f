\* The service restarts behind a proxy that answers for it.
SPECIFICATION FairSpec
CONSTANTS
  s1 = s1
  w1 = w1
  w2 = w2
  l1 = l1
  l2 = l2
  Sessions <- OneSession
  NoSession = NoSession
  Workers <- OneWorker
  Loads <- OneLoad
  FirstLoad = l1
  Closing = Closing
  Proxied = TRUE
  MaxVersion = 1
  MaxOutages = 1
PROPERTY ReconnectsUntilBack
CHECK_DEADLOCK FALSE
