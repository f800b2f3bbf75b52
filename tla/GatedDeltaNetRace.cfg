\* As SequenceKernels.cfg, with threads of a block that are not in step.
CONSTANTS
  Slots = {s1, s2}
  KernelSize = 3
  NumKHeads = 2
  NumVHeads = 4
  MaxTokens = 4
  MaxChunk = 3
  MaxRows = 2
  LockStep = FALSE
  Pad = Pad
  Nothing = Nothing
  NoRow = NoRow
  Refused = Refused
  Window = 3
  Layers <- LayersDef
  IndexTopk = 2
  SerialWork = 4
  SortRows = 2
  Remembered = 1
  SharedRows = 2
  FromPosRows = 3
  MaxLen = 16
  LongestChunk = 12
SPECIFICATION Spec
SYMMETRY SlotSymmetry
INVARIANT StatesFollowTheirSequences
CHECK_DEADLOCK FALSE
