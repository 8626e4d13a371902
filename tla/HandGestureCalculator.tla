------------------------ MODULE HandGestureCalculator ------------------------
(***************************************************************************)
(* HandGestureCalculator::Process (calculators/util/                       *)
(* hand_gesture_calculator.cc): one frame in, one gesture string out.      *)
(*                                                                         *)
(* A frame is abstracted to what the code branches on: the PRESENCE flag,  *)
(* whether the NORM_RECT is narrower or lower than 0.01, the number of     *)
(* landmarks, and for each finger whether its two outer landmarks lie      *)
(* beyond its base landmark (x for the thumb, y for the other fingers).    *)
(* A landmark read past the end of the list is undefined behaviour; the    *)
(* comparisons it feeds take any value, as the frame's finger fields do.   *)
(***************************************************************************)
EXTENDS Integers, FiniteSets

Fingers == 1..5   (* thumb, first, second, third, fourth *)

(* The string of three em dashes the code emits when there is no         *)
(* gesture (TLA+ strings are ASCII).                                        *)
NoGesture == "---"

(* Landmark indices read for each finger: base, middle joint, tip.        *)
FingerLandmarks == <<<<2, 3, 4>>, <<6, 7, 8>>, <<10, 11, 12>>,
                    <<14, 15, 16>>, <<18, 19, 20>>>>

Frames(LandmarkCounts) ==
  [presence : BOOLEAN, narrow : BOOLEAN, low : BOOLEAN,
   landmark_size : LandmarkCounts,
   joint_beyond : [Fingers -> BOOLEAN], tip_beyond : [Fingers -> BOOLEAN]]

(* A finger is open when both of its outer landmarks lie beyond its base. *)
FingerIsOpen(frame, f) == frame.joint_beyond[f] /\ frame.tip_beyond[f]

(* The gesture of a hand from its open fingers (the if / else if chain).   *)
Gesture(open) ==
  IF open = {2, 3} THEN "angle"
  ELSE IF open = {2, 5} THEN "move"
  ELSE IF open = {} THEN "grab"
  ELSE NoGesture

(* Process: the packet it emits (or the error it returns) and the         *)
(* landmark indices it reads.                                              *)
Process(frame) ==
  IF ~frame.presence
    THEN [status |-> "ok", gesture |-> NoGesture, reads |-> {}]
  ELSE IF frame.narrow \/ frame.low
    THEN [status |-> "ok", gesture |-> NoGesture, reads |-> {}]
  ELSE IF ~(frame.landmark_size > 0)
    THEN [status |-> "EmptyLandmarks", gesture |-> "none", reads |-> {}]
  ELSE [status  |-> "ok",
        gesture |-> Gesture({f \in Fingers : FingerIsOpen(frame, f)}),
        reads   |-> {FingerLandmarks[f][i] : f \in Fingers, i \in 1..3}]

=============================================================================
