\* A sequence beside a free block that is cleared, with elements of one or two bytes.
CONSTANTS
  Seqs = {s1, s2}
  Garbage = Garbage
  Idle = Idle
  Failed = Failed
  BlockSize = 2
  NumBlocks = 2
  NumCpuBlocks = 0
  MaxLen = 3
  MaxLayers = 1
  TqLayers = 1
  FeatureSets <- Conventionals
  ClearWidths = {1, 2}
  Windows = {0}
  WorkspaceSeqs = 1
  SplitKThreshold = 3
  TokensPerSplit = 2
  NumSplits = 3
  MetalThreshold = 3
  MetalTokensPerSplit = 2
  DirectPrefillMin = 2
  PartitionSize = 2
  KvScaleUpdateIteration = 2
  MaxScale = 1
  EarlierLayers = {0}
SPECIFICATION Spec
PROPERTY ContextsUntouched
CHECK_DEADLOCK FALSE
