SPECIFICATION Spec
CONSTANTS
  SeqMod = 10
  ReplayWindow = 4
  Scheme = "Frame"
  Base = 0
  N = 1
  EpochStartTs = 7
  FramePeriod = 2
  TsMod = 11
  K = 2
  SeekCap = 3
  PacketsPerFrame = 2
  MaxPackets = 11
INVARIANTS
  SealedUnderTrueGeneration
  NoFalseDrop
