\* Four experts share three slots, searched by four threads.  The model stops when
\* the tick reaches its bound, hence no deadlock check.
CONSTANTS
  Experts = {e1, e2, e3, e4}
  NumSlots = 3
  Threads = 4
  TickModulus = 8
  MaxTick = 4
  MaxIds = 3
  EMPTY = EMPTY
SPECIFICATION Spec
CHECK_DEADLOCK FALSE
SYMMETRY Symmetry
INVARIANTS
  TypeOK
  TablesInverse
  RoutedAreResident
  ResidentHaveTheirWeights
PROPERTIES
  EvictsLeastRecentlyUsed
