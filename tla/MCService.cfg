CONSTANTS
  m1 = m1  m2 = m2  m3 = m3
  Events = {m1, m2, m3}
  Adders = {m1, m2, m3}
  Audited = {m1, m2, m3}
  Faulty = {m1}
  Kind <- MCKind
  Subject <- MCSubject
  Weight <- MCWeight
  MaxItems = 2
  MaxSize = 5
  MaxPending = 2
  PendingLimit = 2
  MaxFailed = 1
SPECIFICATION ServiceFairSpec
INVARIANTS Conserved SubjectOrder DropsOldest NoLostKick OrderlyExit
PROPERTIES EveryMessageAnswered SignalEnds
CHECK_DEADLOCK FALSE
