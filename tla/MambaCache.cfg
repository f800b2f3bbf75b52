\* Two sequences on one or two slots, two hashes of which one is on the device
\* and the other on the CPU.
CONSTANTS
  Seqs = {s1, s2}
  Layers = 1
  InitBatch = 1
  MaxSlots = 2
  Values = {v}
  Zero = Zero
  NoSlot = NoSlot
  Hashes = {h1, h2}
  Snapshots <- EverySnapshot
  Capacities = {1}
  Spilling = {TRUE}
  Multiplier = 1
  EvictPercent = 10
  None = None
SPECIFICATION CacheSpec
SYMMETRY Symmetry
PROPERTIES
  ImplementsRecurrentStates
