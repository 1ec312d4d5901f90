CONSTANTS
  c1 = c1  resy = resy  club = club
  Callers <- OneCaller
  Providers <- TwoProviders
  Headless = {resy}
  Faults = {"error", "challenge", "vault", "revoke", "crash"}
  MaxWarnings = 2
SPECIFICATION FairSpec
INVARIANTS AnnouncedOnce
PROPERTIES PausedUntilHandover NoLoginWhilePaused RevokedLoginRecovers
CHECK_DEADLOCK FALSE
