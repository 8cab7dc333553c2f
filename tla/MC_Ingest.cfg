\* SQLite: two server threads and a rebuild.  The system stops when no more
\* batches arrive, so that is no deadlock.
SPECIFICATION Spec
CONSTANTS
  s1 = s1
  s2 = s2
  t1 = t1
  t2 = t2
  Sessions = {s1, s2}
  NoSession = NoSession
  Events <- MCEvents
  Workers = {w1, w2}
  Rebuilder = Rebuilder
  Tokens = {t1, t2}
  NoToken = NoToken
  Malformed = Malformed
  Batches <- MCBatches
  MaxBatch = 3
  Rank <- Backwards
  Serialised = TRUE
  MaxPosts = 3
  MaxRebuilds = 1
  NoRow = NoRow
  Unwritten = Unwritten
INVARIANTS
  TypeOK
  ProjectionCurrent
  CompleteMeansAll
  AcknowledgedDurable
  StoredOnce
  AnnouncedAreStored
  LinkSound
PROPERTY LinkStays
CHECK_DEADLOCK FALSE
SYMMETRY Threads
