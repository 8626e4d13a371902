\* Core run.  Symmetric threshold of 1 degree, reframe window of 0.5
\* degree, one pixel per degree, bounds [0, 4], observations at 0, 2, 4
\* at any time up to 8; SetState outside the bounds, ClearHistory, and
\* rejected calls.  Bounds and scale changes are in the _reconfig run.
CONSTANTS
  Unset = Unset
  NaN = NaN
  PosInf = PosInf
  NegInf = NegInf
  Q <- MC_Q
  MinMotionToReframe = 4
  MinMotionToReframeUpper = Unset
  MinMotionToReframeLower = Unset
  ReframeWindow = 2
  FilteringTimeWindow = 1
  UpdateRateSeconds = 2
  MaxUpdateRate = 4
  MeanPeriodUpdateRate = 2
  MaxVelocity = 4
  InitMinLocation = 0
  InitMaxLocation = 4
  InitPixelsPerDegree = 1
  Positions = {0, 2, 4}
  Timestamps = {0, 1, 2, 3, 4, 5, 6, 7, 8}
  SetStatePositions = {5}
  PixelsPerDegreeInputs = {0}
  LocationInputs = {}
SPECIFICATION Spec
VIEW SolverView
INVARIANT TypeOK
PROPERTY TargetBetweenCameraAndMedian
PROPERTY PredictionMatchesObservation
PROPERTY HistoryRefinesWindow
PROPERTY MeanPeriodSetByObservation
