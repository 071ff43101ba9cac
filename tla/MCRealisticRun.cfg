SPECIFICATION Spec
CONSTANTS
  SeqMod = 6
  ReplayWindow = 2
  Scheme = "Packet"
  Base = 0
  N = 2
  EpochStartTs = 0
  FramePeriod = 1
  TsMod = 8
  K = 2
  SeekCap = 3
  PacketsPerFrame = 2
  Ppf = 2
  MaxPackets = 7
  NumPackets = 7
  NsPerSecond = 2
  Fps = 1
  Paths <- TwoPaths
  BaseDelay <- TwoDelays
  Jitter <- TwoJitters
  Loss <- TwoLosses
INVARIANTS
  DisplacementExact
  LedgersAgree
  KeyingLossIsLateness
  CatchupIsGap
  SizedReceiverLosesNothing
  AuthFailsOnlyFarBehind
  DerivedOncePerGeneration
