SPECIFICATION Spec
CONSTANTS
  SeqMod = 8
  ReplayWindow = 3
  Scheme = "EveryN"
  Base = 0
  N = 2
  EpochStartTs = 0
  FramePeriod = 1
  TsMod = 1
  K = 2
  SeekCap = 3
  PacketsPerFrame = 1
  MaxPackets = 11
INVARIANTS
  StateFromDelivered
  DeliveredOnce
  NoFalseDrop
