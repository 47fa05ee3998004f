\* Either client, a ring and a queue that overflow, and one drop.
SPECIFICATION FairSpec
CONSTANTS
    p1 = p1
    p2 = p2
    Publishers = {p1, p2}
    Run = p1
    Buffer = 2
    QueueSize = 1
    WireSize = 1
    MaxEvents = 3
    MaxConns = 2
INVARIANTS
  AtMostOnce
  RunInOrder
  NothingElseMissed
PROPERTIES
  ReturnsUnlessLost
CHECK_DEADLOCK FALSE
