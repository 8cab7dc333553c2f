\* The broadcaster; liveness is checked, so no symmetry.  Nothing has to
\* happen once every stream has ended.
SPECIFICATION FairSpec
CONSTANTS
  x = x
  y = y
  p = p
  Streams <- MCStreams
  Publishers <- MCPublishers
  Closer = Closer
  QueueSize = 1
  MaxDeltas = 2
  Dropped = Dropped
  Closing = Closing
INVARIANTS
  TypeOK
  MemoryBounded
  NothingLost
  LossIsTold
PROPERTIES
  ShutdownDrains
  ImplementsFeed
CHECK_DEADLOCK FALSE
