\* Four hashes; a device tier of at most two and a CPU tier of twice as many, which
\* makes room for two (of two) or three (of four) at once; capacities that change; builds with and without
\* the CPU tier.
CONSTANTS
  Hashes = {h1, h2, h3, h4}
  Snapshots = {x, y}
  Capacities = {0, 1, 2}
  Spilling = {TRUE, FALSE}
  Multiplier = 2
  EvictPercent = 60
  None = None
SPECIFICATION HSpec
SYMMETRY Symmetry
INVARIANTS
  PrefixTypeOK
  QueuesListTiers
  TiersDisjoint
  DeviceWithinCapacity
  CpuWithinCapacityPlusOne
  MakeRoomSucceeds
  QueuesInOrderOfUse
  DeviceHoldsTheNewest
  MarksAreStored
PROPERTIES
  PreservedLeaveDeviceLast
  PreservedLeaveCpuLast
  MarksOutliveOnlyFailedCaptures
  ImplementsSnapshotStore
