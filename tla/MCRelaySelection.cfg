CONSTANTS
  Relays = {r1, r2, r3}
  NoRelay = NoRelay
  Delays = {1, 2, 3, 9}
  TCPTimeout = 1
  MaxRetries = 2
  MinRelays = 2
  TCPTopN = 2
  TCPConcurrency = 2
  Latencies = {1, 3}
  N = 2
  MaxConcurrent = 2
  Probes = 2
  EarlyLatency = 1
  MinTested = 2
SPECIFICATION FairSpec
CHECK_DEADLOCK FALSE
INVARIANTS
  FastestKept
  EnoughOrExhausted
  EarlyStopSucceeds
  SelectionIsHonest
PROPERTIES
  SelectionEnds
