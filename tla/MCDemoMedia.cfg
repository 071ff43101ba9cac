SPECIFICATION MediaSpec
CONSTANTS
  c1 = c1
  s1 = s1
  s2 = s2
  r1 = r1
  Creators = {c1}
  Senders = {s1, s2}
  Receivers = {r1}
  Identity <- MCIdentity
  Ssrc <- MCSsrc
  NumSenders = 2
  NumReceivers = 1
  MaxCrashes = 1
  Packets = 2
  MaxCopies = 2
  SeqMod = 8
  ReplayWindow = 2
INVARIANTS PlayedOnce CompleteMeansEverything
PROPERTIES OnlyForeignPanics CreatorFinishes ReceiversStop EveryoneFinishes
CHECK_DEADLOCK FALSE
