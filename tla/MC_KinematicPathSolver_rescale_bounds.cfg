\* Spec 3 says the position and the target stay within the bounds after every update;
\* UpdateMinMaxLocation to [2, 6] scales both about 0, not about the bounds.
\* SetState, the documented exception, is given no inputs.
CONSTANTS
  Unset = Unset
  NaN = NaN
  PosInf = PosInf
  NegInf = NegInf
  Q <- MC_Q
  MinMotionToReframe = 4
  MinMotionToReframeUpper = Unset
  MinMotionToReframeLower = Unset
  ReframeWindow = 2
  FilteringTimeWindow = 1
  UpdateRateSeconds = 2
  MaxUpdateRate = 4
  MeanPeriodUpdateRate = 2
  MaxVelocity = 4
  InitMinLocation = 0
  InitMaxLocation = 4
  InitPixelsPerDegree = 1
  Positions = {0, 2, 4}
  Timestamps = {0, 1, 2}
  SetStatePositions = {}
  PixelsPerDegreeInputs = {0}
  LocationInputs <- MC_OffsetLocationInputs
SPECIFICATION Spec
VIEW SolverView
INVARIANT StateWithinBounds
