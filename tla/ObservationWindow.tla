-------------------------- MODULE ObservationWindow --------------------------
(***************************************************************************)
(* What the solver's observation history promises (spec 3, 4.1, 4.5): the  *)
(* set of observations it holds is exactly those added since the last      *)
(* ClearHistory whose time lies within FilteringTimeWindow of the newest   *)
(* one; a change of bounds rescales their positions and keeps their times. *)
(* The detailed solver is checked to implement this (MC_KinematicPathSolver *)
(* maps window to the set of entries of raw_positions_at_time).            *)
(***************************************************************************)
EXTENDS Integers, FixedPoint

CONSTANTS
  FilteringTimeWindow,  (* ticks                                           *)
  Timestamps,           (* times an observation may carry                  *)
  Positions,            (* positions an observation may carry              *)
  RescaleRatios         (* <<new extent, old extent>> of a bounds change   *)

VARIABLE window

Init == window = {}

(* A new observation, later than every retained one, is added and every   *)
(* observation older than FilteringTimeWindow before it is forgotten.     *)
Observe(t, p) ==
  /\ \A o \in window : o.time < t
  /\ window' = { o \in window \cup {[time |-> t, position |-> p]} :
                   o.time >= t - FilteringTimeWindow }

Clear == window' = {}

(* Positions are scaled by num / den and truncated to integers.           *)
Rescale(num, den) ==
  window' = { [time |-> o.time, position |-> Trunc(o.position * num, den)] :
                o \in window }

Next ==
  \/ \E t \in Timestamps, p \in Positions : Observe(t, p)
  \/ Clear
  \/ \E r \in RescaleRatios : Rescale(r[1], r[2])

Spec == Init /\ [][Next]_window

=============================================================================
