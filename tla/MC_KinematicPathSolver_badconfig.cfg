\* Invalid configuration: reframe_window (1.5 degrees) above
\* min_motion_to_reframe (1 degree).  The first AddObservation writes the
\* state and then returns InvalidConfiguration.
CONSTANTS
  Unset = Unset
  NaN = NaN
  PosInf = PosInf
  NegInf = NegInf
  Q <- MC_Q
  MinMotionToReframe = 4
  MinMotionToReframeUpper = Unset
  MinMotionToReframeLower = Unset
  ReframeWindow = 6
  FilteringTimeWindow = 1
  UpdateRateSeconds = 2
  MaxUpdateRate = 4
  MeanPeriodUpdateRate = 2
  MaxVelocity = 4
  InitMinLocation = 0
  InitMaxLocation = 4
  InitPixelsPerDegree = 1
  Positions = {0, 2, 4}
  Timestamps = {0, 1, 2}
  SetStatePositions = {5}
  PixelsPerDegreeInputs = {0}
  LocationInputs = {}
SPECIFICATION Spec
VIEW SolverView
PROPERTY RejectedCallChangesNothing
