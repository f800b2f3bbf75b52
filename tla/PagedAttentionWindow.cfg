\* One sequence longer than the window, a build in which calls may be served by
\* FlashInfer or by the native kernels.
CONSTANTS
  Seqs = {s1}
  Garbage = Garbage
  Idle = Idle
  Failed = Failed
  BlockSize = 2
  NumBlocks = 3
  NumCpuBlocks = 0
  MaxLen = 3
  MaxLayers = 1
  TqLayers = 1
  FeatureSets <- FlashInferBuild
  ClearWidths = {}
  Windows = {2}
  WorkspaceSeqs = 1
  SplitKThreshold = 3
  TokensPerSplit = 2
  NumSplits = 3
  MetalThreshold = 3
  MetalTokensPerSplit = 2
  DirectPrefillMin = 2
  PartitionSize = 2
  KvScaleUpdateIteration = 2
  MaxScale = 1
  EarlierLayers = {0}
SPECIFICATION Spec
PROPERTY AttendsWindowOnce
CHECK_DEADLOCK FALSE
