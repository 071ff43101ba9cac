SPECIFICATION Spec
CONSTANTS
  SeqMod = 6
  ReplayWindow = 2
  Scheme = "EpochOnly"
  Base = 0
  N = 1
  EpochStartTs = 0
  FramePeriod = 1
  TsMod = 1
  K = 1
  SeekCap = 1
  PacketsPerFrame = 1
  MaxPackets = 8
  T0 = 1
  TInt = 1
  D = 2
  NChain = 4
  DT = 1
  GMax = 2
  MacAlg = "GmacAes128"
  Skew = 1
  MaxTime = 4
  MaxForeign = 0
INVARIANTS
  EveryPacketAccounted
  EntriesAtSealedIndex
  DisclosuresAccepted
