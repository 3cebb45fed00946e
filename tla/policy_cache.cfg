SPECIFICATION FairSpec
CONSTANTS
  Agents = {a1}
  Ids = {p1, p2}
  Evaluators = {e1, e2}
  TTL = 2
  MaxFill = 1
  MaxChanges = 2
INVARIANTS StalenessIsBounded DefaultDenyIsFresh FailClosed
PROPERTIES CacheConverges
