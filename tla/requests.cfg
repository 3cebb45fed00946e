SPECIFICATION MCFairSpec
CONSTANTS
  Requests = {r1, r2}
  ErrCap = 1
  Older = 2
  Asked = {0, 1, 2}
INVARIANTS TypeOK AuditTellsTheOutcome OnlyAllowedRequestsRun
INVARIANTS PagingSkipsNothing
PROPERTIES SignalStops AuditGoroutinesEnd
