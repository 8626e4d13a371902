\* The history against its abstract specification when the bounds change:
\* UpdateMinMaxLocation reverses the deque and later pruning keeps stale
\* observations.
CONSTANTS
  Unset = Unset
  NaN = NaN
  PosInf = PosInf
  NegInf = NegInf
  Q <- MC_Q
  MinMotionToReframe = 4
  MinMotionToReframeUpper = Unset
  MinMotionToReframeLower = Unset
  ReframeWindow = 2
  FilteringTimeWindow = 1
  UpdateRateSeconds = 2
  MaxUpdateRate = 4
  MeanPeriodUpdateRate = 2
  MaxVelocity = 4
  InitMinLocation = 0
  InitMaxLocation = 4
  InitPixelsPerDegree = 1
  Positions = {0, 2, 4}
  Timestamps = {0, 1, 2, 3, 4}
  SetStatePositions = {}
  PixelsPerDegreeInputs = {0}
  LocationInputs <- MC_LocationInputs
SPECIFICATION Spec
VIEW SolverView
PROPERTY HistoryRefinesWindow
