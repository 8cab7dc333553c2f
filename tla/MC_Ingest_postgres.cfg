\* PostgreSQL at its default isolation, two batches of one session at once.
SPECIFICATION Spec
CONSTANTS
  s1 = s1
  s2 = s2
  t1 = t1
  t2 = t2
  Sessions = {s1, s2}
  NoSession = NoSession
  Events <- MCEvents
  Workers = {w1, w2}
  Rebuilder = Rebuilder
  Tokens = {t1, t2}
  NoToken = NoToken
  Malformed = Malformed
  Batches <- MCBatches
  MaxBatch = 3
  Rank <- Backwards
  Serialised = FALSE
  MaxPosts = 3
  MaxRebuilds = 0
  NoRow = NoRow
  Unwritten = Unwritten
INVARIANT ProjectionCurrent
CHECK_DEADLOCK FALSE
SYMMETRY Threads
