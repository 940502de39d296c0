SPECIFICATION ProjectListSpec
CONSTANTS
  Project <- Projects
  Listed <- OneList
  XslPage = {2}
  Bounds <- EitherIsBusy
  Options <- OnAndOff
INVARIANTS
  AnimationIsRed
  TrayIconIsThere
  SlotsAreApart
  AllVisited
PROPERTIES
  CheckEnds
  EyesSettle
  PopupsAreShown
CHECK_DEADLOCK FALSE
