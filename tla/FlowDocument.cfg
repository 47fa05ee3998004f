CONSTANTS
    Plans <- TwoPlans
    Replies <- AllReplies
    MaxRetries = 1
    MaxRemediations = 1
    InverseReplies = {"undone", "failed", "lost", "refused"}
SPECIFICATION DocSpec
INVARIANTS
  OkRunKeepsEverything
  LedgersAgree
  CompensationCleans
CHECK_DEADLOCK FALSE
