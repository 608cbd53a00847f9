CONSTANTS
  HeapFlag = 40
  HeapSize = 680
  SizeMod = 8192
  Requests = {1, 150, 8150}
  Foreign = {8000}
SPECIFICATION Spec
INVARIANT LargerThanHeapRefused
