CONSTANTS
  c1 = c1  c2 = c2
  Callers <- TwoCallers
  OldKey = old  NewKey = new  NoKey = none
  CredsKey = new
  Faults = {"scrape", "revoke", "restart", "handover"}
SPECIFICATION KeySpec
INVARIANTS ScrapedOnce
CHECK_DEADLOCK FALSE
