SPECIFICATION BoundarySpec
CONSTANTS
  Connection = {c1, c2}
  OverIPv6 = {c2}
  MAX_CONCURRENT_REQUESTS = 1
  MAX_REQUESTS_PER_MINUTE = 2
  Minute = 2
  LastTick = 2
  Process = {"p1", "p2"}
  Path = {"in", "out", "keys"}
  Commands <- SomeCommands
  Placeable <- SomePlaceable
  MaxPlacements = 1
INVARIANTS
  HttpTypeOK
  GateCountsHandlers
  NoUnreadBodyKept
  LessThanTwiceTheRate
  CommandTypeOK
  PublishedWhole
  ExitTellsPublication
  ExportsAreVerified
  BatchVerdict
PROPERTIES
  ReadBodyKeepsConnection
  LimitedOnlyAtLimit
  NothingReplaced
  GateReopens
  UnreadBodyEnds
CHECK_DEADLOCK FALSE
