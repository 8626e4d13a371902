\* Spec 8 (deadband idempotence) against the code: the velocity left when
\* the camera settles keeps moving it.
CONSTANTS
  Unset = Unset
  NaN = NaN
  PosInf = PosInf
  NegInf = NegInf
  Q <- MC_Q
  MinMotionToReframe = 4
  MinMotionToReframeUpper = Unset
  MinMotionToReframeLower = Unset
  ReframeWindow = 2
  FilteringTimeWindow = 1
  UpdateRateSeconds = 2
  MaxUpdateRate = 4
  MeanPeriodUpdateRate = 2
  MaxVelocity = 4
  InitMinLocation = 0
  InitMaxLocation = 4
  InitPixelsPerDegree = 1
  Positions = {0, 2, 4}
  Timestamps = {0, 1, 2, 3, 4, 5, 6, 7, 8}
  SetStatePositions = {5}
  PixelsPerDegreeInputs = {0}
  LocationInputs = {}
SPECIFICATION Spec
VIEW SolverView
PROPERTY SettledCameraStaysPut
