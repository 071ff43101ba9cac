SPECIFICATION RxSpec
CONSTANTS
  SeqMod = 8
  ReplayWindow = 2
  Scheme = "Packet"
  Base = 1
  N = 1
  EpochStartTs = 0
  FramePeriod = 1
  TsMod = 1
  K = 3
  SeekCap = 3
  MaxIndex = 13
  MaxKey = 12
  Wire <- MCWire
INVARIANTS
  RingHoldsWindow
  ForwardSecrecy
  CipherMatchesInstalled
  EstimatorsAgree
PROPERTIES
  NoKeyReturns
  RejectedIsInert
  ImplementsKeyWindow
