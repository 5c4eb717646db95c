SPECIFICATION Spec
CONSTANTS
    W4 = 2
    D = 4
    Mark = 1
    MaxLines = 3
    Lines <- MCLines
INVARIANTS ContainsIsUnion Canonical PrefixIsInterval
CHECK_DEADLOCK FALSE
