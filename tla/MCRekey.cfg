SPECIFICATION Spec
CONSTANTS
  m1 = m1
  m2 = m2
  m3 = m3
  Members = {m1, m2, m3}
  Ssrc <- MCSsrc
  MaxEpoch = 3
INVARIANTS PanicMeansFork NobodyIsStranded
PROPERTY EveryoneFollows
CHECK_DEADLOCK FALSE
