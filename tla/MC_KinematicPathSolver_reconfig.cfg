\* Reconfiguration run.  Asymmetric thresholds (1 degree up, 2 degrees
\* down), pixels_per_degree changed to 2, bounds changed to [0, 2] and
\* back to [0, 4], time up to 4.
CONSTANTS
  Unset = Unset
  NaN = NaN
  PosInf = PosInf
  NegInf = NegInf
  Q <- MC_Q
  MinMotionToReframe = Unset
  MinMotionToReframeUpper = 4
  MinMotionToReframeLower = 8
  ReframeWindow = 2
  FilteringTimeWindow = 1
  UpdateRateSeconds = 2
  MaxUpdateRate = 4
  MeanPeriodUpdateRate = 2
  MaxVelocity = 4
  InitMinLocation = 0
  InitMaxLocation = 4
  InitPixelsPerDegree = 1
  Positions = {0, 2, 4}
  Timestamps = {0, 1, 2, 3, 4}
  SetStatePositions = {5}
  PixelsPerDegreeInputs = {0, 2}
  LocationInputs <- MC_LocationInputs
SPECIFICATION Spec
VIEW SolverView
PROPERTY TargetBetweenCameraAndMedian
PROPERTY PredictionMatchesObservation
