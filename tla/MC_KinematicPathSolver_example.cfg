\* The worked example of spec.md: bounds [0, 1000], 10 pixels per degree,
\* min_motion_to_reframe 5 degrees, reframe_window 2 degrees, a filtering
\* window of 1 s, update_rate_seconds 0.5, max_update_rate 1,
\* mean_period_update_rate 0.5, max_velocity 100 degrees/s; observations
\* 500 at 0 s and 600 at 0.5 s.  A tick is 0.5 s, so the window is 2 ticks,
\* update_rate_seconds 1 tick and max_velocity 50 degrees per tick.
CONSTANTS
  Unset = Unset
  NaN = NaN
  PosInf = PosInf
  NegInf = NegInf
  Q <- MC_Q
  MinMotionToReframe = 20
  MinMotionToReframeUpper = Unset
  MinMotionToReframeLower = Unset
  ReframeWindow = 8
  FilteringTimeWindow = 2
  UpdateRateSeconds = 1
  MaxUpdateRate = 4
  MeanPeriodUpdateRate = 2
  MaxVelocity = 200
  InitMinLocation = 0
  InitMaxLocation = 1000
  InitPixelsPerDegree = 10
  Positions = {500, 600}
  Timestamps = {0, 1}
  SetStatePositions = {}
  PixelsPerDegreeInputs = {10}
  LocationInputs = {}
SPECIFICATION Spec
VIEW SolverView
PROPERTY RetargetIsRateLimited
