SPECIFICATION Spec
CONSTANTS
  HeapFlag = 40
  HeapSize = 680
  SizeMod = 8192
  Requests = {0, 1, 65, 150, 8128}
  Foreign = {8000}
INVARIANTS
  Tiled
  FreeListSound
  PayloadHoldsRequest
  StaleDetected
  StatsExact
PROPERTIES
  LiveHeadersStable
  ImplementsHeapSpec
