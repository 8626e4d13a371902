\* Spec 8: a rescale to the bounds the solver already has is a no-op.
\* The bounds are first collapsed to [0, 0] (an extent the code accepts);
\* the same call again divides 0 by 0.  One observation time, so the
\* history never holds two entries for the reversal to reorder.
CONSTANTS
  Unset = Unset
  NaN = NaN
  PosInf = PosInf
  NegInf = NegInf
  Q <- MC_Q
  MinMotionToReframe = 4
  MinMotionToReframeUpper = Unset
  MinMotionToReframeLower = Unset
  ReframeWindow = 2
  FilteringTimeWindow = 1
  UpdateRateSeconds = 2
  MaxUpdateRate = 4
  MeanPeriodUpdateRate = 2
  MaxVelocity = 4
  InitMinLocation = 0
  InitMaxLocation = 4
  InitPixelsPerDegree = 1
  Positions = {0, 2, 4}
  Timestamps = {0}
  SetStatePositions = {}
  PixelsPerDegreeInputs = {0}
  LocationInputs <- MC_ZeroExtentInputs
SPECIFICATION Spec
VIEW SolverView
PROPERTY RescaleToSameBoundsIsNoOp
