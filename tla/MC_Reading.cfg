CONSTANTS
  s1 = s1
  s2 = s2
  s3 = s3
  t1 = t1
  t2 = t2
  none = none
  NoCursor = NoCursor
  Forged = Forged
  Nothing = Nothing
  Unfiltered = Unfiltered
  Sessions = {s1, s2, s3}
  Rank <- MCRank
  Name <- MCName
  Collection <- MCCollection
  Events <- MCEvents
  Claims <- MCClaims
  NoClaims <- MCNoClaims
  Posts <- MCPosts
  Imports <- MCImports
  Filters <- MCFilters
  Limits = {0, 5}
  MaxBatch = 3
  MaxLimit = 2
  Chunk = 2

SPECIFICATION Spec

INVARIANTS
  TypeOK
  NoneSkipped
  EventsPagedWhole
  DownloadWhole
  ExportRestores
  LabelsKept

CHECK_DEADLOCK FALSE
