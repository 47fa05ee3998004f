\* Every reply, every plan, and inverses that keep the connector contract.
CONSTANTS
    Plans <- AllPlans
    Replies <- AllReplies
    MaxRetries = 1
    MaxRemediations = 0
    InverseReplies = {"undone", "failed", "lost"}
SPECIFICATION FairSpec
INVARIANTS
  LedgerMatchesWorld
  RollbackCleans
  NoIrreversibleAfterDegraded
PROPERTIES
  ImplementsSaga
  Terminates
CHECK_DEADLOCK FALSE
