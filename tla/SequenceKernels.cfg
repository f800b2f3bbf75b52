\* Two slots of a gated-delta-net layer, or one sequence of a DeepSeek V4 layer whose
\* ring wraps and whose blocks overlap or not.  The models stop when their tokens are
\* served, hence no deadlock check.
CONSTANTS
  Slots = {s1, s2}
  KernelSize = 3
  NumKHeads = 2
  NumVHeads = 4
  MaxTokens = 4
  MaxChunk = 3
  MaxRows = 2
  LockStep = TRUE
  Pad = Pad
  Nothing = Nothing
  NoRow = NoRow
  Refused = Refused
  Window = 3
  Layers <- LayersDef
  IndexTopk = 2
  SerialWork = 4
  SortRows = 2
  Remembered = 1
  SharedRows = 2
  FromPosRows = 3
  MaxLen = 16
  LongestChunk = 12
SPECIFICATION Spec
SYMMETRY SlotSymmetry
INVARIANTS
  StatesFollowTheirSequences
  OutputsSeeTheirSequence
  RowsCoverTheirTokens
  AttendsExactlyItsContext
CHECK_DEADLOCK FALSE
