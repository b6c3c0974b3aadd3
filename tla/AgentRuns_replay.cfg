CONSTANTS
  Runs = {r1}
  Workers = {w1, w2}
  OwnerOf <- MCOwnerOf
  MaxAttempts = 2
  Global = 2
  PerUser = 1
  MaxFaults = 1
  Nobody = Nobody
  Lost = Lost
  Idle = Idle
  NoClaim = NoClaim
SPECIFICATION MCLiveSpec
PROPERTY NoReplayAfterSideEffects
CHECK_DEADLOCK FALSE
