CONSTANTS
  s1 = s1  s2 = s2  dune = dune  heat = heat  imax = imax  plain = plain  c1 = c1  c2 = c2
  DayLength = 6
  TimeZones <- MCZones
  UTC <- MCUTC
  Shows = {s1, s2}
  Films = {dune, heat}
  Formats = {imax, plain}
  Words = {"sand", "cops", "big", "laser"}
  Says <- MCSays
  Code <- MCCode
  Label <- MCLabel
  Given <- MCGiven
  Wants <- MCWants
  Ranges <- MCRanges
  Windows <- MCWindows
  Statuses = {403, 405, 503}
  MaxNow = 8
  SITEMAP_TTL = 2
  Clients = {c1, c2}
  None = None
SPECIFICATION Spec
INVARIANTS FoundOnce NothingMissed DriftCostsOneShow SlotsAreReadBack DirectoryIsOfToday
CHECK_DEADLOCK FALSE
