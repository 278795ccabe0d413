SPECIFICATION FairSpec
CONSTANTS
  Fetcher = {p1, p2}
  RedisUser = {p1, p2}
  None = None
  Body = {g, x}
  Good = {g}
  Parts = 2
  Tolerant = FALSE
  MaxFaults = 4
INVARIANTS TypeOK SettledIsWhole RedisTornByPromotion
PROPERTIES TornHeals
