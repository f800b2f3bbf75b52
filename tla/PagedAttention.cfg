\* Two sequences of up to three tokens in blocks of two, one block on the CPU; every
\* build.  The model stops when all sequences are done, hence no deadlock check.
CONSTANTS
  Seqs = {s1, s2}
  Garbage = Garbage
  Idle = Idle
  Failed = Failed
  BlockSize = 2
  NumBlocks = 4
  NumCpuBlocks = 1
  MaxLen = 3
  MaxLayers = 2
  TqLayers = 2
  FeatureSets <- Builds
  ClearWidths = {1}
  Windows = {0, 1}
  WorkspaceSeqs = 2
  SplitKThreshold = 3
  TokensPerSplit = 2
  NumSplits = 3
  MetalThreshold = 3
  MetalTokensPerSplit = 2
  DirectPrefillMin = 2
  PartitionSize = 2
  KvScaleUpdateIteration = 1
  MaxScale = 2
  EarlierLayers = {1}
SPECIFICATION Spec
INVARIANT TypeOK
PROPERTIES
  ReadsOwnContext
  ContextsUntouched
SYMMETRY Symmetry
CONSTRAINT OneChoice
CHECK_DEADLOCK FALSE
