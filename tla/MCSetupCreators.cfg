SPECIFICATION Spec
CONSTANTS
  c1 = c1
  c2 = c2
  s1 = s1
  r1 = r1
  r2 = r2
  Creators = {c1, c2}
  Senders = {s1}
  Receivers = {r1, r2}
  Identity <- SharedIdentity
  Ssrc <- UniqueSsrc
  NumSenders = 1
  NumReceivers = 0
  MaxCrashes = 1
INVARIANTS NoAssertionFails KeyPackageOnce MembersShareTheGroup EveryPeerIsWelcomed
PROPERTY AddedPeersJoin
CHECK_DEADLOCK FALSE
