SPECIFICATION Spec
CONSTANT
  Applications <- SoundApplications
INVARIANTS
  TypeOK
  BoundsAgree
  ConfigTakesEffect
  LastSelectionWins
  
CHECK_DEADLOCK FALSE
