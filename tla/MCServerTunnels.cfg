CONSTANTS
  Tunnels = {t1, t2}
  Streams = {s1, s2}
  Nobody = nobody
  Limit = 1
SPECIFICATION FairSpec
CHECK_DEADLOCK FALSE
INVARIANTS
  SlotsAccounted
  CallbacksPaired
PROPERTIES
  ShutdownCompletes
  LostTunnelEnds
