CONSTANTS
  Runs = {r1, r2, r3}
  Stops = {s1, s2}
  NoCall = NoCall
  Given = Given
  NoListener = NoListener
SPECIFICATION LifecycleFairSpec
CHECK_DEADLOCK FALSE
INVARIANTS
  UndisturbedRunServes
PROPERTIES
  StopEndsRun
