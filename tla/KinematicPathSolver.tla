------------------------- MODULE KinematicPathSolver -------------------------
(***************************************************************************)
(* KinematicPathSolver (autoflip/quality/kinematic_path_solver.cc): a one- *)
(* axis camera filter.  Each public method is one action; the Status it    *)
(* returns is recorded in status, and the method name in call.             *)
(*                                                                         *)
(* Units.  Positions and bounds are integer pixels.  Time is counted in    *)
(* ticks: the code's division of microseconds by 1e6 only converts units,  *)
(* so options given in seconds are given here in ticks.  Every double of   *)
(* the code (current_position_px_, target_position_px_, velocity, period,  *)
(* thresholds, rates) is an integer count of 1/Q of its unit, rounded      *)
(* toward zero when stored (FixedPoint).  Comparisons of delta_degs        *)
(* = delta_px / pixels_per_degree with thresholds in degrees are made      *)
(* exactly, as delta_px against threshold * pixels_per_degree.             *)
(* pixels_per_degree is taken from a set of positive integers.             *)
(***************************************************************************)
EXTENDS Integers, Sequences, FiniteSets, SequencesExt, FixedPoint, Median

CONSTANTS
  Q,                          (* sub-units per pixel, degree, tick         *)
  Unset,                      (* an option that is not set                 *)
  MinMotionToReframe,         (* degrees * Q, or Unset                     *)
  MinMotionToReframeUpper,    (* degrees * Q, or Unset                     *)
  MinMotionToReframeLower,    (* degrees * Q, or Unset                     *)
  ReframeWindow,              (* degrees * Q                               *)
  FilteringTimeWindow,        (* ticks                                     *)
  UpdateRateSeconds,          (* ticks                                     *)
  MaxUpdateRate,              (* fraction * Q                              *)
  MeanPeriodUpdateRate,       (* fraction * Q                              *)
  MaxVelocity,                (* degrees per tick * Q                      *)
  InitMinLocation, InitMaxLocation, InitPixelsPerDegree,  (* constructor  *)
  Positions,                  (* inputs of AddObservation                  *)
  Timestamps,                 (* inputs of AddObservation, UpdatePrediction*)
  SetStatePositions,          (* inputs of SetState                        *)
  PixelsPerDegreeInputs,      (* inputs of UpdatePixelsPerDegree           *)
  LocationInputs,             (* <<min, max>> inputs of UpdateMinMaxLocation *)
  NaN, PosInf, NegInf         (* the doubles that are not finite numbers   *)

ASSUME Q \in Nat \ {0}
ASSUME UpdateRateSeconds \in Nat \ {0}
ASSUME InitPixelsPerDegree \in Nat \ {0} /\ PixelsPerDegreeInputs \subseteq Nat
(* Neither the constructor nor UpdateMinMaxLocation checks that the      *)
(* bounds have a positive extent.                                          *)
ASSUME InitMinLocation <= InitMaxLocation
ASSUME \A b \in LocationInputs : b[1] <= b[2]
ASSUME Timestamps \subseteq Nat

VARIABLES
  initialized,            (* initialized_                                  *)
  current_position,       (* current_position_px_ * Q                      *)
  target_position,        (* target_position_px_ * Q                       *)
  current_velocity,       (* current_velocity_deg_per_s_ * Q               *)
  motion_state,           (* motion_state_                                 *)
  mean_delta_t,           (* mean_delta_t_ * Q, negative while unset       *)
  raw_positions_at_time,  (* deque of [time, position], newest first       *)
  current_time,           (* current_time_                                 *)
  min_location, max_location, pixels_per_degree,
  call,                   (* the method the last step ran                  *)
  status,                 (* the Status it returned                        *)
  gate                    (* the branch of the motion gate it took         *)

solver == <<initialized, current_position, target_position, current_velocity,
            motion_state, mean_delta_t, raw_positions_at_time, current_time,
            min_location, max_location, pixels_per_degree>>
vars == <<solver, call, status, gate>>

Calls == {"none", "AddObservation", "UpdatePrediction", "SetState",
          "UpdatePixelsPerDegree", "UpdateMinMaxLocation", "ClearHistory"}
Statuses == {"ok", "InvalidConfiguration", "NonMonotonicTime",
             "NotInitialized", "InvalidScale"}
Gates == {"none", "hold", "settle", "up", "down"}

Has(option) == option # Unset

-----------------------------------------------------------------------------
(* The RET_CHECKs AddObservation makes after it has initialized the state. *)
ValidOptions ==
  /\ pixels_per_degree > 0
  /\ UpdateRateSeconds >= 0
  /\ FilteringTimeWindow >= 0
  /\ MeanPeriodUpdateRate >= 0
  /\ Has(MinMotionToReframe)
       # (Has(MinMotionToReframeUpper) /\ Has(MinMotionToReframeLower))
  /\ IF Has(MinMotionToReframe)
       THEN MinMotionToReframe >= ReframeWindow
       ELSE /\ MinMotionToReframeUpper >= ReframeWindow
            /\ MinMotionToReframeLower >= ReframeWindow

(* IsMotionTooSmall, on delta_px = delta_degs * pixels_per_degree.         *)
IsMotionTooSmall(delta_px) ==
  IF Has(MinMotionToReframe)
    THEN AbsVal(delta_px) < MinMotionToReframe * pixels_per_degree
  ELSE IF delta_px > 0
    THEN delta_px < MinMotionToReframeUpper * pixels_per_degree
  ELSE AbsVal(delta_px) < MinMotionToReframeLower * pixels_per_degree

(* Faulty variant of Prune that also drops an observation exactly         *)
(* FilteringTimeWindow old (<= for <).                                     *)
RECURSIVE PruneInclusive(_, _)
PruneInclusive(history, time_us) ==
  IF Len(history) > 1 /\ Last(history).time <= time_us - FilteringTimeWindow
    THEN PruneInclusive(Front(history), time_us)
    ELSE history

(* The while loop that drops from the back every observation older than   *)
(* FilteringTimeWindow before time_us, keeping at least one.               *)
RECURSIVE Prune(_, _)
Prune(history, time_us) ==
  IF Len(history) > 1 /\ Last(history).time < time_us - FilteringTimeWindow
    THEN Prune(Front(history), time_us)
    ELSE history

(* Faulty variant of MotionGate that adds the reframe window on the way   *)
(* up instead of subtracting it.                                           *)
MotionGateOvershoot(filtered_position) ==
  LET delta == filtered_position * Q - current_position
      up    == filtered_position * Q + pixels_per_degree * ReframeWindow
      down  == filtered_position * Q + pixels_per_degree * ReframeWindow
  IN  IF IsMotionTooSmall(delta) /\ ~motion_state
        THEN [branch |-> "hold", delta |-> 0,
              target |-> target_position, motion |-> FALSE]
      ELSE IF AbsVal(delta) < ReframeWindow * pixels_per_degree /\ motion_state
        THEN [branch |-> "settle", delta |-> 0,
              target |-> target_position, motion |-> FALSE]
      ELSE IF delta > 0
        THEN [branch |-> "up", delta |-> up - current_position,
              target |-> up, motion |-> TRUE]
      ELSE [branch |-> "down", delta |-> down - current_position,
            target |-> down, motion |-> TRUE]

(* The motion gate of AddObservation: which branch is taken, the delta    *)
(* (pixels * Q) used for the velocity, the target and the motion state.    *)
MotionGate(filtered_position) ==
  LET delta == filtered_position * Q - current_position
      up    == filtered_position * Q - pixels_per_degree * ReframeWindow
      down  == filtered_position * Q + pixels_per_degree * ReframeWindow
  IN  IF IsMotionTooSmall(delta) /\ ~motion_state
        THEN [branch |-> "hold", delta |-> 0,
              target |-> target_position, motion |-> FALSE]
      ELSE IF AbsVal(delta) < ReframeWindow * pixels_per_degree /\ motion_state
        THEN [branch |-> "settle", delta |-> 0,
              target |-> target_position, motion |-> FALSE]
      ELSE IF delta > 0
        THEN [branch |-> "up", delta |-> up - current_position,
              target |-> up, motion |-> TRUE]
      ELSE [branch |-> "down", delta |-> down - current_position,
            target |-> down, motion |-> TRUE]

(* Faulty variant of PredictedMotionState whose first test omits         *)
(* !motion_state_.                                                         *)
PredictedMotionStateIgnoringMotion(position, time_us) ==
  LET copy  == Prune(<<[time |-> time_us, position |-> position]>>
                       \o raw_positions_at_time, time_us)
      delta == Median(copy) * Q - current_position
  IN  IF IsMotionTooSmall(delta) THEN FALSE
      ELSE IF AbsVal(delta) < ReframeWindow * pixels_per_degree /\ motion_state
        THEN FALSE
      ELSE TRUE

(* PredictMotionState's answer, for an initialized solver: the same gate  *)
(* applied to a pruned copy of the history with the observation added.    *)
PredictedMotionState(position, time_us) ==
  LET copy  == Prune(<<[time |-> time_us, position |-> position]>>
                       \o raw_positions_at_time, time_us)
      delta == Median(copy) * Q - current_position
  IN  IF IsMotionTooSmall(delta) /\ ~motion_state THEN FALSE
      ELSE IF AbsVal(delta) < ReframeWindow * pixels_per_degree /\ motion_state
        THEN FALSE
      ELSE TRUE

(* GetState and GetTargetPosition: the rounded pixel position, or the     *)
(* error of the RET_CHECK on initialized_.                                 *)
GetState ==
  IF initialized THEN [status |-> "ok", position |-> RoundHalfAway(current_position, Q)]
  ELSE [status |-> "NotInitialized", position |-> 0]

GetTargetPosition ==
  IF initialized THEN [status |-> "ok", position |-> RoundHalfAway(target_position, Q)]
  ELSE [status |-> "NotInitialized", position |-> 0]

(* The body of UpdatePrediction after its time check: one integration     *)
(* step of length mean_period, clamped to the bounds.                      *)
Integrate(position, velocity, mean_period, motion) ==
  LET update_position == position
                          + Trunc(velocity * mean_period * pixels_per_degree, Q)
  IN  IF update_position < min_location * Q
        THEN [position |-> min_location * Q, velocity |-> 0, motion |-> FALSE]
      ELSE IF update_position > max_location * Q
        THEN [position |-> max_location * Q, velocity |-> 0, motion |-> FALSE]
      ELSE [position |-> update_position, velocity |-> velocity,
            motion |-> motion]

(* Faulty variant of MeanPeriod that blends the sentinel -1 into the      *)
(* first period instead of seeding it.                                      *)
MeanPeriodNoSentinel(delta_t) ==
  Trunc(mean_delta_t * (Q - MeanPeriodUpdateRate)
          + delta_t * Q * MeanPeriodUpdateRate, Q)

(* mean_delta_t_ after an observation delta_t ticks after the last one:   *)
(* seeded with delta_t while it holds the sentinel, then smoothed by       *)
(* mean_period_update_rate.                                                 *)
MeanPeriod(delta_t) ==
  IF mean_delta_t < 0 THEN delta_t * Q
  ELSE Trunc(mean_delta_t * (Q - MeanPeriodUpdateRate)
               + delta_t * Q * MeanPeriodUpdateRate, Q)

(* Faulty variant of LimitVelocity that limits only positive velocities.  *)
LimitVelocityOneSided(updated_velocity) ==
  IF updated_velocity > 0 THEN Min({updated_velocity, MaxVelocity})
  ELSE updated_velocity

(* The limit of the blended velocity to +-max_velocity.                    *)
LimitVelocity(updated_velocity) ==
  IF updated_velocity > 0 THEN Min({updated_velocity, MaxVelocity})
  ELSE Max({updated_velocity, -MaxVelocity})

-----------------------------------------------------------------------------
Init ==
  /\ initialized = FALSE
  \* The numeric members are not read before the first observation sets
  \* them; 0 stands for whatever they hold.
  /\ current_position = 0
  /\ target_position = 0
  /\ current_velocity = 0
  /\ motion_state = FALSE
  /\ mean_delta_t = 0
  /\ raw_positions_at_time = <<>>
  /\ current_time = 0
  /\ min_location = InitMinLocation
  /\ max_location = InitMaxLocation
  /\ pixels_per_degree = InitPixelsPerDegree
  /\ call = "none"
  /\ status = "ok"
  /\ gate = "none"

(* AddObservation, first call: seed the state, then check the options.    *)
(* The checks come after the writes, so a bad configuration returns an    *)
(* error from an already initialized solver.                               *)
AddObservationFirst(position, time_us) ==
  /\ ~initialized
  /\ current_position' = Q * (IF position < min_location THEN min_location
                              ELSE IF position > max_location THEN max_location
                              ELSE position)
  /\ target_position' = Q * position
  /\ motion_state' = FALSE
  /\ mean_delta_t' = -Q
  /\ raw_positions_at_time' =
       <<[time |-> time_us, position |-> position]>> \o raw_positions_at_time
  /\ current_time' = time_us
  /\ initialized' = TRUE
  /\ current_velocity' = 0
  /\ status' = IF ValidOptions THEN "ok" ELSE "InvalidConfiguration"
  /\ gate' = "none"
  /\ UNCHANGED <<min_location, max_location, pixels_per_degree>>

(* AddObservation with a time not after current_time_: rejected.          *)
AddObservationOutOfOrder(position, time_us) ==
  /\ initialized
  /\ ~(current_time < time_us)
  /\ status' = "NonMonotonicTime"
  /\ gate' = "none"
  /\ UNCHANGED solver

(* AddObservation: record, prune, filter, gate, update the period and the *)
(* velocity, then UpdatePrediction(time_us).                               *)
AddObservationAccepted(position, time_us) ==
  LET history  == Prune(<<[time |-> time_us, position |-> position]>>
                          \o raw_positions_at_time, time_us)
      g        == MotionGate(Median(history))
      delta_t  == time_us - current_time
      mean     == MeanPeriod(delta_t)
      observed_velocity == Trunc(g.delta, pixels_per_degree * delta_t)
      update_rate == Min({mean \div UpdateRateSeconds, MaxUpdateRate})
      updated_velocity == Trunc(current_velocity * (Q - update_rate)
                                  + observed_velocity * update_rate, Q)
      velocity == LimitVelocity(updated_velocity)
      next     == Integrate(current_position, velocity, mean, g.motion)
  IN  /\ initialized
      /\ current_time < time_us
      /\ raw_positions_at_time' = history
      /\ target_position' = g.target
      /\ mean_delta_t' = mean
      /\ current_position' = next.position
      /\ current_velocity' = next.velocity
      /\ motion_state' = next.motion
      /\ current_time' = time_us
      /\ status' = "ok"
      /\ gate' = g.branch
      /\ UNCHANGED <<initialized, min_location, max_location, pixels_per_degree>>

AddObservation(position, time_us) ==
  /\ call' = "AddObservation"
  /\ \/ AddObservationFirst(position, time_us)
     \/ AddObservationOutOfOrder(position, time_us)
     \/ AddObservationAccepted(position, time_us)

(* UpdatePrediction(time_us) on an initialized solver.  (Before the first *)
(* observation it integrates members that AddObservation overwrites.)     *)
UpdatePrediction(time_us) ==
  LET next == Integrate(current_position, current_velocity, mean_delta_t,
                        motion_state)
  IN  /\ initialized
      /\ call' = "UpdatePrediction"
      /\ gate' = "none"
      /\ \/ /\ current_time < time_us
            /\ current_position' = next.position
            /\ current_velocity' = next.velocity
            /\ motion_state' = next.motion
            /\ current_time' = time_us
            /\ status' = "ok"
            /\ UNCHANGED <<initialized, target_position, mean_delta_t,
                           raw_positions_at_time, min_location, max_location,
                           pixels_per_degree>>
         \/ /\ ~(current_time < time_us)
            /\ status' = "NonMonotonicTime"
            /\ UNCHANGED solver

(* SetState overwrites the position without clamping it.                  *)
SetState(position) ==
  /\ call' = "SetState"
  /\ gate' = "none"
  /\ \/ /\ initialized
        /\ current_position' = position * Q
        /\ status' = "ok"
        /\ UNCHANGED <<initialized, target_position, current_velocity,
                       motion_state, mean_delta_t, raw_positions_at_time,
                       current_time, min_location, max_location,
                       pixels_per_degree>>
     \/ /\ ~initialized
        /\ status' = "NotInitialized"
        /\ UNCHANGED solver

UpdatePixelsPerDegree(value) ==
  /\ call' = "UpdatePixelsPerDegree"
  /\ gate' = "none"
  /\ \/ /\ value > 0
        /\ pixels_per_degree' = value
        /\ status' = "ok"
        /\ UNCHANGED <<initialized, current_position, target_position,
                       current_velocity, motion_state, mean_delta_t,
                       raw_positions_at_time, current_time, min_location,
                       max_location>>
     \/ /\ ~(value > 0)
        /\ status' = "InvalidScale"
        /\ UNCHANGED solver

(* x * scale_change for a scale_change that is +inf (updated distance > 0) *)
(* or NaN (0 / 0), by the sign of x * updated_distance: 0 * inf and any   *)
(* product with NaN are NaN.                                                *)
NonFiniteProduct(v) ==
  IF v > 0 THEN PosInf ELSE IF v < 0 THEN NegInf ELSE NaN

(* The int a non-finite double is converted to: the conversion is        *)
(* undefined; x86-64 (cvttsd2si) gives INT_MIN, arm64 (fcvtzs) saturates   *)
(* and gives 0 for NaN.                                                    *)
INT_MIN == -2147483647 - 1
INT_MAX == 2147483647

IntOfNonFinite(v) ==
  CASE v = NaN    -> {INT_MIN, 0}
    [] v = PosInf -> {INT_MIN, INT_MAX}
    [] v = NegInf -> {INT_MIN}

(* UpdateMinMaxLocation scales positions by the ratio of the extents.     *)
(* The history is rebuilt by push_front of each entry taken front to back, *)
(* which leaves it in the reverse order.                                   *)
UpdateMinMaxLocation(new_min, new_max) ==
  LET updated_distance == new_max - new_min
      prior_distance   == max_location - min_location
      \* scale_change = updated / prior is +inf or NaN when prior is 0.
      Scale(x)         == IF prior_distance # 0
                            THEN Trunc(x * updated_distance, prior_distance)
                            ELSE NonFiniteProduct(x * updated_distance)
      WithPositions(p) == [i \in DOMAIN raw_positions_at_time |->
                             [time |-> raw_positions_at_time[i].time,
                              position |-> p[i]]]
      \* The history holds ints: the scaled double is converted back.
      scaled ==
        IF prior_distance # 0
        THEN {WithPositions([i \in DOMAIN raw_positions_at_time |->
                               Scale(raw_positions_at_time[i].position)])}
        ELSE {WithPositions(p) :
                p \in { p \in [DOMAIN raw_positions_at_time -> {INT_MIN, 0, INT_MAX}] :
                        \A i \in DOMAIN p :
                          p[i] \in IntOfNonFinite(
                                     Scale(raw_positions_at_time[i].position)) }}
  IN  /\ call' = "UpdateMinMaxLocation"
      /\ gate' = "none"
      /\ \/ /\ initialized
            /\ current_position' = Scale(current_position)
            /\ target_position' = Scale(target_position)
            /\ max_location' = new_max
            /\ min_location' = new_min
            /\ \E h \in scaled : raw_positions_at_time' = Reverse(h)
            /\ status' = "ok"
            /\ UNCHANGED <<initialized, current_velocity, motion_state,
                           mean_delta_t, current_time, pixels_per_degree>>
         \/ /\ ~initialized
            /\ status' = "NotInitialized"
            /\ UNCHANGED solver

ClearHistory ==
  /\ call' = "ClearHistory"
  /\ gate' = "none"
  /\ raw_positions_at_time' = <<>>
  /\ status' = "ok"
  /\ UNCHANGED <<initialized, current_position, target_position,
                 current_velocity, motion_state, mean_delta_t, current_time,
                 min_location, max_location, pixels_per_degree>>

Next ==
  \/ \E p \in Positions, t \in Timestamps : AddObservation(p, t)
  \/ \E t \in Timestamps : UpdatePrediction(t)
  \/ \E p \in SetStatePositions : SetState(p)
  \/ \E v \in PixelsPerDegreeInputs : UpdatePixelsPerDegree(v)
  \/ \E b \in LocationInputs : UpdateMinMaxLocation(b[1], b[2])
  \/ ClearHistory

Spec == Init /\ [][Next]_vars

=============================================================================
