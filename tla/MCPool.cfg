CONSTANTS
  t1 = t1  t2 = t2  t3 = t3  t4 = t4
  Tasks = {t1, t2, t3}
  Submitters = {s1, s2}
  Workers = {w1}
  Sweeper = sweeper
  Closer = closer
  NoTask = NoTask
  Depth = 2
  Deadline <- MCDeadline
  Reserve = 1
  MinBudget = 1
  MaxAge = 2
SPECIFICATION FairSpec
INVARIANTS ExactlyOnce NoLostWakeup QueueBounded CountersAgree
PROPERTIES NoOvertaking ImplementsResponder EveryTaskAnswered CloseReturns
CHECK_DEADLOCK FALSE
