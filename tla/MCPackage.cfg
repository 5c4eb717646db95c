CONSTANTS
  Width <- MCWidth
  Exps = {0, 2}
  Times = {1, 2}
  Absent = Absent
  Objects <- MCObjects
  Cut <- MCCut
SPECIFICATION PackageSpec
INVARIANTS UnpackIsExact AllOrNothing SummaryOfContent ContainsIsCoverage
CHECK_DEADLOCK FALSE
