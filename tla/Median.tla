------------------------------- MODULE Median -------------------------------
(***************************************************************************)
(* The median filter of kinematic_path_solver.cc (anonymous-namespace      *)
(* Median): the positions of the retained observations are copied and      *)
(* std::nth_element puts at index n = size / 2 the element that would be   *)
(* there if the copy were sorted ascending.  For an even number of         *)
(* positions that is the upper of the two middle ones.                     *)
(***************************************************************************)
EXTENDS Integers, Sequences, FiniteSets

(* The value at 0-based index n of the ascending order of s: at most n     *)
(* elements are smaller, and more than n are smaller or equal.             *)
NthElement(s, n) ==
  CHOOSE v \in {s[i] : i \in DOMAIN s} :
    /\ Cardinality({i \in DOMAIN s : s[i] < v}) <= n
    /\ n < Cardinality({i \in DOMAIN s : s[i] <= v})

(* Median(positions_raw): positions_raw is a sequence of observations      *)
(* [time, position]; only the positions are ordered.                       *)
Median(positions_raw) ==
  LET positions == [i \in DOMAIN positions_raw |-> positions_raw[i].position]
  IN  NthElement(positions, Len(positions) \div 2)

=============================================================================
