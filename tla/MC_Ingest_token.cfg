\* One session arrives under two tokens.
SPECIFICATION Spec
CONSTANTS
  s1 = s1
  s2 = s2
  t1 = t1
  t2 = t2
  Sessions = {s1, s2}
  NoSession = NoSession
  Events <- MCEvents
  Workers = {w1, w2}
  Rebuilder = Rebuilder
  Tokens = {t1, t2}
  NoToken = NoToken
  Malformed = Malformed
  Batches <- MCBatches
  MaxBatch = 3
  Rank <- Backwards
  Serialised = TRUE
  MaxPosts = 2
  MaxRebuilds = 0
  NoRow = NoRow
  Unwritten = Unwritten
INVARIANT TokenIsFirst
CHECK_DEADLOCK FALSE
SYMMETRY Threads
