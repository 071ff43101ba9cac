SPECIFICATION MediaSpec
CONSTANTS
  c1 = c1
  s1 = s1
  s2 = s2
  r1 = r1
  Creators = {c1}
  Senders = {s1}
  Receivers = {r1}
  Identity <- MCIdentity
  Ssrc <- MCSsrc
  NumSenders = 1
  NumReceivers = 1
  MaxCrashes = 0
  Packets = 3
  MaxCopies = 2
  SeqMod = 8
  ReplayWindow = 2
PROPERTY SecondCopySkipped
CHECK_DEADLOCK FALSE
