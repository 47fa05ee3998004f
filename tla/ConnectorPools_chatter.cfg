\* A handler that prints shifts the answers of its worker.
SPECIFICATION Spec
CONSTANTS
  t1 = t1
  t2 = t2
  cli = cli
  handler = handler
  NoWorker = NoWorker
  Callers <- MCCallers
  Connectors <- MCConnectors
  Handler <- handler
  MaxWorkers = 3
  MaxCalls = 2
  MaxPrints = 1
INVARIANTS
  OwnAnswer
CHECK_DEADLOCK FALSE
