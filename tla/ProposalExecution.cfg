SPECIFICATION LiveSpec
CONSTANTS
  call1 = call1
  call2 = call2
  call3 = call3
  Appliers <- MCAppliers
  MaxRevision = 4
INVARIANTS
  NoChangeWithoutApproval
  ChangedAtMostOnce
  OutcomeIsHonest
  LedgerAgrees
PROPERTIES
  OutcomeIsFinal
  ImplementsApprovedChange
  ProposalSettles
CHECK_DEADLOCK FALSE
