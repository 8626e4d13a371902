------------------------ MODULE MC_KinematicPathSolver ------------------------
(***************************************************************************)
(* Model-checking harness of KinematicPathSolver: the option values and   *)
(* input sets of the runs, and the properties they check.                  *)
(***************************************************************************)
EXTENDS KinematicPathSolver, TLC

(* Options are in 1/Q units; Q = 4 lets a rate of 0.5 or a velocity of    *)
(* 0.25 degree per tick be represented.                                    *)
MC_Q == 4

(* One bounds change to half the extent and one back to the original.     *)
MC_LocationInputs == {<<0, 2>>, <<0, 4>>}

(* A bounds change whose lower bound is not 0.                             *)
MC_OffsetLocationInputs == {<<2, 6>>}

(* A bounds change to an extent of zero.                                  *)
MC_ZeroExtentInputs == {<<0, 0>>}

(* The extent ratios new/prior that UpdateMinMaxLocation can apply.      *)
RescaleRatios ==
  { <<b[2] - b[1], c[2] - c[1]>> :
      b \in LocationInputs,
      c \in LocationInputs \cup {<<InitMinLocation, InitMaxLocation>>} }

(* Abstract history: the set of retained observations.                     *)
History == INSTANCE ObservationWindow
             WITH window <- Range(raw_positions_at_time)

(* States are told apart by the solver's members only: call, status and  *)
(* gate describe the step that led to a state and are read by the         *)
(* properties only in their primed form.                                   *)
SolverView == solver

-----------------------------------------------------------------------------
TypeOK ==
  /\ initialized \in BOOLEAN
  /\ motion_state \in BOOLEAN
  /\ {current_position, target_position, mean_delta_t} \subseteq Int
  /\ current_velocity \in -MaxVelocity..MaxVelocity
  /\ current_time \in Timestamps
  /\ \A i \in DOMAIN raw_positions_at_time :
       /\ raw_positions_at_time[i].time \in Timestamps
       /\ raw_positions_at_time[i].position \in Int
  /\ pixels_per_degree \in Nat \ {0}
  /\ min_location <= max_location
  /\ call \in Calls /\ status \in Statuses /\ gate \in Gates

(* When AddObservation starts or continues a motion, the new target lies  *)
(* between the camera and the filtered observation: the retarget by one   *)
(* reframe window undershoots the median and never points away from it    *)
(* (the branches delta_degs > 0 / else of AddObservation, which rely on   *)
(* reframe_window <= min_motion_to_reframe).                               *)
TargetBetweenCameraAndMedian ==
  [][ gate' \in {"up", "down"}
      => Between(target_position', current_position,
                 Median(raw_positions_at_time') * Q) ]_vars

(* PredictMotionState(p, t) called just before a successful                *)
(* AddObservation(p, t) answers whether that call moves the camera toward  *)
(* a new target (its branch "up" or "down").                               *)
PredictionMatchesObservation ==
  [][ /\ initialized
      /\ call' = "AddObservation"
      /\ status' = "ok"
      => PredictedMotionState(Head(raw_positions_at_time').position,
                              Head(raw_positions_at_time').time)
         = (gate' \in {"up", "down"}) ]_vars

(* The history holds exactly the observations added since the last        *)
(* ClearHistory that are within filtering_time_window_us of the newest,   *)
(* with positions rescaled by every bounds change since they were added.  *)
HistoryRefinesWindow == History!Spec

(* Every accepted observation leaves a positive mean period: the sentinel *)
(* -1 set by the first AddObservation is replaced, never blended, and a    *)
(* smoothed period never again reads as unset, so UpdatePrediction never   *)
(* integrates the velocity over a zero or negative period (mean_delta_t_  *)
(* in AddObservation and UpdatePrediction).                                 *)
MeanPeriodSetByObservation ==
  [][ initialized /\ call' = "AddObservation" /\ status' = "ok"
      => mean_delta_t' > 0 ]_vars

-----------------------------------------------------------------------------
(* Properties the spec states and the code does not satisfy.              *)

(* Spec 7: a call that returns an error (NonMonotonicTime,               *)
(* NotInitialized, InvalidScale, InvalidConfiguration) has not changed     *)
(* the solver.  The first AddObservation under options that fail its       *)
(* checks (kinematic_path_solver.cc AddObservation, lines 70-85) writes    *)
(* the state before it returns InvalidConfiguration.                       *)
RejectedCallChangesNothing ==
  [][ status' # "ok" => UNCHANGED solver ]_vars

(* Spec 3: min_location <= current_position <= max_location and          *)
(* min_location <= target_position <= max_location after every update     *)
(* (SetState, the documented exception, is given no inputs here).          *)
StateWithinBounds ==
  initialized =>
    /\ Between(current_position, min_location * Q, max_location * Q)
    /\ Between(target_position, min_location * Q, max_location * Q)

(* Spec 9 (the worked example: "subsequent getState() returns a value     *)
(* strictly between 500 and 580 (rate-limited, not jumping straight to     *)
(* 580)"): an observation that retargets the camera (branch "up" or "down" *)
(* of AddObservation) moves it strictly toward the new target without      *)
(* reaching or passing it, as GetState and GetTargetPosition report them.   *)
(* UpdatePrediction integrates the velocity, which was computed over        *)
(* delta_t, for mean_delta_t_.                                              *)
RetargetIsRateLimited ==
  [][ gate' \in {"up", "down"}
      => /\ GetState'.position # GetTargetPosition'.position
         /\ Between(GetState'.position, GetState.position,
                    GetTargetPosition'.position) ]_vars

(* Spec 8 (rescale invariance): UpdateMinMaxLocation to the bounds the    *)
(* solver already has applies the scale factor 1 and leaves the position   *)
(* and the target where they are.  With bounds of zero extent the code     *)
(* computes scale_change = 0 / 0.                                          *)
RescaleToSameBoundsIsNoOp ==
  [][ /\ call' = "UpdateMinMaxLocation" /\ status' = "ok"
      /\ min_location' = min_location /\ max_location' = max_location
      => UNCHANGED <<current_position, target_position>> ]_vars

(* Spec 8 (deadband idempotence): once the camera is settled, an          *)
(* observation whose motion is too small to reframe (the first branch of   *)
(* the gate in AddObservation) does not move it.                           *)
SettledCameraStaysPut ==
  [][ /\ call' = "AddObservation" /\ status' = "ok"
      /\ initialized /\ ~motion_state /\ gate' = "hold"
      => current_position' = current_position ]_vars


=============================================================================
