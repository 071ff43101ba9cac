SPECIFICATION Spec
CONSTANTS
  SeqMod = 6
  ReplayWindow = 2
  Scheme = "EveryN"
  Base = 0
  N = 2
  EpochStartTs = 0
  FramePeriod = 1
  TsMod = 1
  K = 1
  SeekCap = 1
  PacketsPerFrame = 1
  MaxPackets = 3
  T0 = 1
  TInt = 1
  D = 2
  NChain = 4
  DT = 1
  GMax = 2
  MacAlg = "HmacSha256"
  Skew = 1
  MaxTime = 4
  MaxForeign = 1
INVARIANTS
  SourceAuthentic
  TrustedIsGenuine
  GenuineNeverForged
  DrawersAwaitNextKeys
