CONSTANTS
  Handlers = {h1, h2}
  Maint = maint
  Sessions = {s1, s2}
  Nil = nil
  NoProc = noproc
SPECIFICATION FairSpec
CHECK_DEADLOCK FALSE
INVARIANTS
  SingleLiveSession
PROPERTIES
  OnlyFailedOpenDropsLiveSession
  RefinesSingleTunnel
  CancelTerminates
  TunnelRestored
  HandlerServed
