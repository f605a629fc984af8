SPECIFICATION Spec
CONSTANT
  Applications <- AsconApplications
INVARIANTS
  LastSelectionWins
CHECK_DEADLOCK FALSE
