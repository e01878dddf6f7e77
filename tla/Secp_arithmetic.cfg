CONSTANTS
  P = 103
  MaxMagnitude = 32
  MulMagnitude = 8
  Curve = 5
  Beta = 46
  GeOperands <- MCGes
  GejOperands <- MCGejs
  Scales = {1, 5}
  MaxOperations = 3
  N = 97
  ScalarBits = 7
  HalfBits = 4
  Lambda = 61
  MinusB1 = 8
  MinusB2 = 94
  G1 = 32
  G2 = 84
  SplitShift = 10
  Generator <- MCGenerator
  WindowA = 3
  WindowG = 4
  GroupSize = 2
  Factors = {0, 2, 13, 96}
  Terms <- MCTerms
  ScratchSizes <- MCScratchSizes
  InUse = {0, 8}
  GScalars <- MCGScalars
  Alignment = 4
  SizeOf <- MCSizeOf
  PippengerThreshold = 4
  MaxBucketWindow = 12
  MaxBatch = 5
  SizeMax = 100000
INIT Init
NEXT Next
CHECK_DEADLOCK FALSE
INVARIANTS
  LimbsHold StandsForPoint ProductIsRight SumIsRight
PROPERTY HoldsElement
