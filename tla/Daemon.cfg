\* Two daemons and three calls, one of them the shutdown.
SPECIFICATION FairDaemonSpec
CONSTANTS
  d1 = d1
  d2 = d2
  c1 = c1
  c2 = c2
  c3 = c3
  Nobody = Nobody
  Daemons <- MCDaemons
  Clients <- MCClients
  Asks <- MCAsks
INVARIANTS
  EndHasCause
  FoundAtPath
PROPERTIES
  CallsEnd
CHECK_DEADLOCK FALSE
