\* Three sequences compete for one slot that can grow to two or three; one layer, so
\* a conv and a recurrent buffer.
CONSTANTS
  Seqs = {s1, s2, s3}
  Layers = 1
  InitBatch = 1
  MaxSlots = 3
  Values = {v1, v2}
  Zero = Zero
  NoSlot = NoSlot
SPECIFICATION Spec
SYMMETRY Symmetry
INVARIANTS
  TypeOK
  SlotsExclusive
  FreeSlotsZero
  SlotsInsideBuffers
PROPERTIES
  LeakedUntilResetAll
  PartialGrowthIsFinal
  ImplementsSequenceStates
