CONSTANTS
    Flows <- AllFlows
    Answers <- AllAnswers
    UndoAnswers <- AllUndoAnswers
    Rollbacks = {"stepwise", "whole", "unproved"}
    MaxDrift = 2
SPECIFICATION Spec
INVARIANTS
  CleanReturn
  RestoredReturn
PROPERTIES
  ImplementsSaga
CHECK_DEADLOCK FALSE
