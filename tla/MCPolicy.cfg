CONSTANTS
  Nil = Nil
  Bases <- MCBases
  AskValues <- MCAskValues
  RowValues <- MCRowValues
  EndValues <- MCEndValues
  MatchValues <- MCMatchValues
  GroupValues <- MCGroupValues
  SetNames = {"S", " ", "t"}
  MaxEdits = 2
SPECIFICATION Spec
INVARIANTS RuleAndOutcomeAgree ActionsWellFormed SnapshotResolves CheckAgreesWithLoad
CHECK_DEADLOCK FALSE
