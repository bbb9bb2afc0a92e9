CONSTANTS
  Relays = {r1, r2, r3, r4}
  NoRelay = norelay
  Concurrency = 2
SPECIFICATION FairSpec
CHECK_DEADLOCK FALSE
INVARIANTS
  NoConnLeak
  NotFoundIsHonest
  NoSendOnClosed
PROPERTIES
  ScanEnds
