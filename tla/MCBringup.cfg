SPECIFICATION FairSpec
CONSTANTS
  RingSize = 2
  MAX_BATCH = 2
  FifoDepth = 4
  RxDepth = 1
  MaxTyped = 4
  MaxTypedWriting = 1
  DUMP = 4
  ROW = 2
  MaxFile = 7
  MaxReceive = 2
  MaxGot = 2
  Script <- MCScript
INVARIANTS
  TypeOK
  WireFaithful
  InputFaithful
  EveryInterruptHasHandler
  PowerSafe
  DumpShowsLastFile
PROPERTIES
  OutputDrains
  ReaderWakes
