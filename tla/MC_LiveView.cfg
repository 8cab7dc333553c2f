\* The live page; liveness is checked, so no symmetry.
SPECIFICATION FairSpec
CONSTANTS
  s1 = s1
  w1 = w1
  w2 = w2
  l1 = l1
  l2 = l2
  Sessions <- OneSession
  NoSession = NoSession
  Workers <- TwoWorkers
  Loads <- TwoLoads
  FirstLoad = l1
  Closing = Closing
  Proxied = TRUE
  MaxVersion = 2
  MaxOutages = 1
INVARIANTS
  TypeOK
  ViewIsCommitted
PROPERTIES
  Converges
  StreamComesBack
CHECK_DEADLOCK FALSE
