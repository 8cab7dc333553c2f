CONSTANTS
  a = a
  b = b
  c = c
  d = d
  NoSession = NoSession
  NoRow = NoRow
  p1 = p1
  p2 = p2
  p3 = p3
  p4 = p4
  Pages = {p1, p2, p3, p4}
  Sessions = {a, b, c, d}
  Histories <- MCHistories
  Length <- MCLength
  Finishing = {b, d}
  Abandoning = {a}
  Begin <- MCBegin
  Rank <- MCRank
  Workshop <- MCWorkshop
  Value <- MCValue
  SilentLimit = 4
  Day = 2
  Week = 4
  NoTime = NoTime
  Presets <- MCPresets
  DefaultPreset = "30"
  DayLimit = 3
  PaletteSize = 2
  SparkDays = 2
  Views <- MCViews
  Questions <- MCQuestions
  PageList <- MCPageList
  Sent <- MCSent
  Inventory <- MCInventory
  User <- MCUser
  Directives = {d1, d2, d3}
  NoInventory = NoInventory
  Nobody = Nobody
  NoValues = NoValues
  d1 = d1
  d2 = d2
  d3 = d3
  Instance <- MCInstance
  NameRank <- MCNameRank

SPECIFICATION Spec

INVARIANTS
  TypeOK
  JourneysAreChains
  OnlyOvertakenLeftOut
  GroupsAddUp
  TrendsAddUp
  InProgressExplained
  ChainAgrees
  FunnelAddsUp
  CollectionAddsUp
  CommonOrderFound
  ReportsAgree
  LearnersAgree

CHECK_DEADLOCK FALSE
