CONSTANTS
  p1 = p1  e1 = e1  e2 = e2
  Prefixes <- MCPrefixes
  Exps <- MCExps
  Absent = Absent
  NoRecord = NoRecord
  MaxEpoch = 2
  MaxSeq = 2
  QueueDepth = 1
  PerRead = 2
  BadSnapshots = TRUE
SPECIFICATION FairSpec
INVARIANTS Faithful
PROPERTIES NoRegress EventuallyCurrent NoSnapshotStorm
