\* A growing and an exact pool, both split by domain, with two separately sized
\* parts; requests for two devices.  A behaviour uses two cells of one of the pools.
CONSTANTS
  ExactKinds = {"mla"}
  GrowingKinds = {"nvfp4"}
  SharedKinds = {}
  Devices = {g0, g1}
  Parts = {p1, p2}
  MaxSize = 1
  MaxBuffers = 2
  MaxScopes = 2
  Empty = Empty
SPECIFICATION Spec
SYMMETRY Symmetry
CONSTRAINT TwoCellsUsed
INVARIANTS
  TypeOK
  InnermostScopeRoutes
  CapturesNeverAlias
PROPERTIES
  DroppedOnlyForLargerOwnRequest
  WarmedUpIsFinal
