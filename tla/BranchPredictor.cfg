SPECIFICATION Spec
CONSTANTS
  Configs <- MCConfigs
  Branches <- MCBranches
  MaxBranches = 5
INVARIANTS
  TypeOK
  PredictionsFollowTrace
  StatisticsRight
  Trained
