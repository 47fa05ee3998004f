\* Two threads with two calls each, a command line connector and the handlers.
SPECIFICATION FairSpec
CONSTANTS
  t1 = t1
  t2 = t2
  cli = cli
  handler = handler
  NoWorker = NoWorker
  Callers <- MCCallers
  Connectors <- MCConnectors
  Handler <- handler
  MaxWorkers = 3
  MaxCalls = 2
  MaxPrints = 1
INVARIANTS
  OwnAnswerIfQuiet
  FailureHasCause
PROPERTIES
  CallsReturn
CHECK_DEADLOCK FALSE
