CONSTANTS
  Runs = {r1, r2}
  Workers = {w1, w2}
  OwnerOf <- MCOwnerOf
  MaxAttempts = 2
  Global = 2
  PerUser = 1
  MaxFaults = 2
  Nobody = Nobody
  Lost = Lost
  Idle = Idle
  NoClaim = NoClaim
SPECIFICATION MCLiveSpec
INVARIANTS TypeOK EndedRunHoldsNothing
PROPERTIES QuarantineIsKept NoReplayOfKnownSideEffects RunsEnd
CHECK_DEADLOCK FALSE
