\* A named run beside two unnamed ones, every kind of command, and a cancel.
SPECIFICATION FairSpec
CONSTANTS
    r1 = r1
    r2 = r2
    r3 = r3
    n1 = n1
    Requests = {r1, r2, r3}
    Cancellers = {k1}
    Names = {n1}
    Anonymous = Anonymous
    NoRun = NoRun
    NameOf <- OneNamed
    CommandOf <- EveryCommand
    MaxSeq = 1
INVARIANTS
  NoStaleControl
  CancelTakesEffect
PROPERTIES
  RunsEnd
CHECK_DEADLOCK FALSE
