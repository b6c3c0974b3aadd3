CONSTANTS
  Jobs = {o, s, m}
  Retained = {s, m}
  Malformed = {m}
  Workers = {w1}
  Tokens = {t1, t2}
  NoToken = NoToken
  NoClaim = NoClaim
  Idle = Idle
  MaxAttempts = 2
  RetryDelay <- MCRetryDelay
  ContentionDelay = 1
  Limit = 1
  Window = 3
  Lease = 2
  Retention = 0
  MaxStale = 1
SPECIFICATION MCLiveSpec
PROPERTIES OrdinaryJobsSettle StorageJobsSucceed KeepsPromise
