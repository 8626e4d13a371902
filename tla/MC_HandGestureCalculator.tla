-------------------- MODULE MC_HandGestureCalculator --------------------
(***************************************************************************)
(* Every frame HandGestureCalculator::Process can be given, one per       *)
(* initial state; the frame does not change.                               *)
(***************************************************************************)
EXTENDS HandGestureCalculator

CONSTANT LandmarkCounts

VARIABLE frame

Init == frame \in Frames(LandmarkCounts)
Next == UNCHANGED frame
Spec == Init /\ [][Next]_frame

(* Process checks only that the landmark list is not empty                 *)
(* (RET_CHECK_GT(landmark_size, 0), "Input landmark vector is empty.")     *)
(* before it reads landmarks 2 to 20: every landmark it reads exists.      *)
ReadsWithinLandmarkList ==
  \A i \in Process(frame).reads : i < frame.landmark_size

=============================================================================
