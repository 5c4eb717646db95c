CONSTANTS
  l1 = l1  as1 = as1  v1 = v1  v2 = v2  c1 = c1
  Statics = {l1, as1}
  Asns = {as1}
  Lives = {v1, v2}
  Countries = {c1}
  NoCountry = NoCountry
  Sets <- MCSets
  Cases <- MCVerdictCases
SPECIFICATION Spec
INVARIANT LoadingCannotClose
CHECK_DEADLOCK FALSE
