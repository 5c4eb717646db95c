CONSTANTS
  l1 = l1  as1 = as1  v1 = v1  v2 = v2  c1 = c1
  Statics = {l1, as1}
  Asns = {as1}
  Lives = {v1, v2}
  Countries = {c1}
  NoCountry = NoCountry
  Sets <- MCSets
  Cases <- MCCases
SPECIFICATION Spec
INVARIANTS VerdictExplained SideRowsFire OutcomesAgree AddressWritesSurvive ErrorsAskNothing
CHECK_DEADLOCK FALSE
