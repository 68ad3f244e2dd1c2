SPECIFICATION FairSpec
CONSTANTS
  Cols = 4
  Visible = 2
  Hidden = 5
  SpawnX = 0
  Bags = {{"I", "O"}, {"J"}, {"L"}, {"S"}, {"T"}, {"Z"}}
  MaxGarbage = 2
  MaxInputs = 2
  MaxRequests = 1
  HoleCols = {1}
  Patient = TRUE
INVARIANTS CopyAgrees BoardSound
PROPERTY AnimationEnds
CHECK_DEADLOCK FALSE
