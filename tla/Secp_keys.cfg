CONSTANTS
  P = 103
  MaxMagnitude = 32
  MulMagnitude = 8
  Curve = 5
  Beta = 46
  N = 97
  ScalarBits = 7
  HalfBits = 4
  Lambda = 61
  MinusB1 = 8
  MinusB2 = 94
  G1 = 32
  G2 = 84
  SplitShift = 10
  Generator <- MCGenerator
  WindowA = 3
  WindowG = 4
  CombBlocks = 2
  CombTeeth = 2
  CombSpacing = 2
  Challenge <- MCChallenge
  Nonce <- MCNonce
  NonceEcdsa <- MCNonceEcdsa
  Hash <- MCHash
  Secrets = {0, 10, 50, 97}
  Tweaks = {0, 10, 87, 100}
  Digests = {0, 17}
  Seeds <- MCSeeds
  MaxTweaks = 2
  SecretKeys = {0, 1, 2, 50, 96, 97}
  Contents = {0, 1}
  Randoms = {0, 1}
  Forgeries <- MCForgeries
  OtherKeys = {2, 3, 105}
INIT Init
NEXT Next
CHECK_DEADLOCK FALSE
INVARIANTS SidesAgree PairFollows EcdsaHolds VerdictIsRight
