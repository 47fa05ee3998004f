\* Two PDFs, the second of which may change; one sync overwrites and is repeated once;
\* one upload at a time runs on though nobody waits any more; two names for a file.
SPECIFICATION FairSpec
CONSTANTS
  chat = chat
  api = api
  Syncs <- MCSyncs
  Overwrites <- MCOverwrites
  NFiles = 2
  Changing = {2}
  MaxVersion = 1
  MaxLate = 1
  MaxCopies = 1
  Repeated <- MCRepeated
INVARIANTS
  OkMeansCopied
  FailsForAReason
PROPERTIES
  NothingReplacedUnasked
  SyncsEnd
CHECK_DEADLOCK FALSE
