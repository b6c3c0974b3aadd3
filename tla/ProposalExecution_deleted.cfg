SPECIFICATION Spec
CONSTANTS
  call1 = call1
  call2 = call2
  call3 = call3
  Appliers <- MCAppliers
  MaxRevision = 2
INVARIANT
  RecoveryFindsItsProposal
CHECK_DEADLOCK FALSE
