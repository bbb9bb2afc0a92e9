CONSTANTS
  Strategies = {sys, dns}
  Endpoints = 2
  Deadline = 6
  Cap = 4
SPECIFICATION DiscoveryFairSpec
CHECK_DEADLOCK FALSE
INVARIANTS
  FailureIsHonest
  InsecureOnlyAsLastResort
PROPERTIES
  DiscoveryEnds
