CONSTANTS
  w1 = w1  w2 = w2  dinner = dinner  lunch = lunch  all = all  booked = booked  resy = resy
  Ids = {w1}
  Labels = {dinner, lunch}
  Types = {all, booked}
  ProviderNames = {resy}
  None = None
  Keep = Keep
  MaxCalls = 3
  MaxMoves = 5
SPECIFICATION Spec
INVARIANTS TypeOK PagesFollowTheLastAsked ListCatchesUp
PROPERTIES NoResurrection TogglesKeepLabel
CHECK_DEADLOCK FALSE
