CONSTANTS
  Jobs = {o, s, m}
  Retained = {s, m}
  Malformed = {m}
  Workers = {w1, w2}
  Tokens = {t1, t2, t3}
  NoToken = NoToken
  NoClaim = NoClaim
  Idle = Idle
  MaxAttempts = 2
  RetryDelay <- MCRetryDelay
  ContentionDelay = 1
  Limit = 1
  Window = 3
  Lease = 1
  Retention = 0
  MaxStale = 1
SYMMETRY MCSymmetry
SPECIFICATION MCSpec
INVARIANTS TypeOK LeaseAgreement NoEarlyFailure ContentionRefundIsExact RetainedSurvives
PROPERTIES OnlyTheHolderReports LeaseIsRespected LapsedRetainedLeaseIsDead
