CONSTANTS
  Relays = {r1, r2}
  NoRelay = norelay
  Sockets = {s1, s2}
  NoSocket = nosocket
  MaxAttempts = 3
  MaxTroubles = 4
  MaxMoves = 2
SPECIFICATION HealingSpec
CHECK_DEADLOCK FALSE
INVARIANTS
  FixedRelayKept
  NoConnLeak
PROPERTIES
  FallbackFinds
  EstablishReturns
