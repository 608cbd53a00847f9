CONSTANTS
  Atom = 4
  OutElem = 2
  Group = 8
  RowAlign = 2
  Bank = 128
  Banks = 6
  TileCap = 8
  GrainBits = 4
  Block = 16
  MaxTiles = 3
  Programs <- MCPrograms
  Mark = "_"
  Vocab <- MCVocab
  Merges <- MCMerges
  KernelCases <- MCKernelCases
  One = 16
  ProbOne = 255
  LutOne = 255
  sigmoid_lut <- MCSigmoidLut
  exp_lut <- MCExpLut
  Layers = 2
  KvHeads = 2
  QueryPerKv = 2
  MaxSeq = 5
  MaxIds = 3
  MaxTokens = 2
  RecentCap = 2
  Eos = 4
  Prompts <- MCPrompts
  TensorTables <- MCTensorTables
  LogitRows <- MCLogitRows
  Models <- MCModels
  MaxOps = 5
  Input <- MCInput
  Classes = 2
  na = 2
  Anchors <- MCAnchors
  Strides <- MCStrides
  DetectData <- MCDetectData
  Sigmoid <- MCSigmoid
  Unit = 16
  Conf = 4
  Iou = 6
  MaxBoxes = 4
  Pad <- MCPad
  Orig <- MCOrig
  InvScale = 24
SPECIFICATION WorkloadSpec
INVARIANTS
  WorkloadTypeOK
  ResultExact
  EngineTakesEveryTask
  TilesPartitionTheOutput
  EngineReadsWhatWasCleaned
  RefusesOnlyWhatCannotFit
  KernelsExact
  EncodeIsBpe
  AttentionSeesTheStory
  DetectionsSound
