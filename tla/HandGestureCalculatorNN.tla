----------------------- MODULE HandGestureCalculatorNN -----------------------
(***************************************************************************)
(* HandGestureCalculatorNN::Process (calculators/util/                     *)
(* hand_gesture_calculator_nn.cc): the same early returns as the           *)
(* heuristic calculator, then every landmark's x, y, z is written to the   *)
(* interpreter's input tensor, the network is invoked and the gesture is   *)
(* the name of the first maximal of its four scores.  The network itself   *)
(* is abstracted to the scores it returns, taken from ScoreValues.  The    *)
(* interpreter, built once by the constructor, keeps its input tensor      *)
(* between calls: the state is what that tensor holds.                     *)
(***************************************************************************)
EXTENDS Integers, Sequences

CONSTANT InputLandmarks  \* landmarks the model's input tensor holds (size / 3)

ASSUME InputLandmarks \in Nat \ {0}

VARIABLES
  written,      \* tensor landmarks any Process call has written so far
  last_invoke   \* what the last Invoke read: see InvokeInput

Min2(a, b) == IF a < b THEN a ELSE b
Max2(a, b) == IF a < b THEN b ELSE a

(* The string of three em dashes the code emits when there is no         *)
(* gesture (TLA+ strings are ASCII).                                        *)
NoGesture == "---"

(* id_to_gesture_name, set in the constructor.                             *)
IdToGestureName == <<"no_gesture", "move", "angle", "grab">>

(* std::max_element: the scan keeps the first index whose score is        *)
(* greater than every score before it.  1-based.                           *)
ArgMax(scores) ==
  LET RECURSIVE Scan(_, _)
      Scan(i, best) ==
        IF i > Len(scores) THEN best
        ELSE Scan(i + 1, IF scores[i] > scores[best] THEN i ELSE best)
  IN  Scan(2, 1)

(* The floats the loop over the landmark list writes, 3 per landmark       *)
(* through input_data_ptr, with no comparison to the tensor's size.        *)
LandmarkWrites(landmark_size) == 3 * landmark_size

(* Process: the packet it emits (or the error it returns) and the number  *)
(* of floats it writes into the input tensor.                              *)
Process(frame) ==
  IF ~frame.presence
    THEN [status |-> "ok", gesture |-> NoGesture, written |-> 0]
  ELSE IF frame.narrow \/ frame.low
    THEN [status |-> "ok", gesture |-> NoGesture, written |-> 0]
  ELSE IF ~(frame.landmark_size > 0)
    THEN [status |-> "EmptyLandmarks", gesture |-> "none", written |-> 0]
  ELSE [status  |-> "ok",
        gesture |-> IdToGestureName[ArgMax(frame.scores)],
        written |-> LandmarkWrites(frame.landmark_size)]

-----------------------------------------------------------------------------
(* The input the interpreter is invoked on after n landmarks are written: *)
(* how many tensor landmarks this frame wrote, whether the rest still holds *)
(* an earlier frame's values or was never written, and how many floats     *)
(* were written past the end of the tensor.                                 *)
InvokeInput(floats) ==
  LET n == Min2(floats \div 3, InputLandmarks)
  IN  [fresh   |-> n,
       stale   |-> n < Min2(written, InputLandmarks),
       unset   |-> Max2(n, written) < InputLandmarks,
       overrun |-> Max2(floats - 3 * InputLandmarks, 0)]

(* The constructor: AllocateTensors leaves the input tensor unwritten.     *)
Init ==
  /\ written = 0
  /\ last_invoke = [fresh |-> 0, stale |-> FALSE, unset |-> TRUE, overrun |-> 0]

(* One Process call: the early returns leave the tensor alone; otherwise  *)
(* the landmarks are written and Invoke runs on the tensor as it is then.  *)
ProcessFrame(frame) ==
  LET r == Process(frame)
  IN  IF r.written > 0
      THEN /\ last_invoke' = InvokeInput(r.written)
           /\ written' = Max2(written, r.written \div 3)
      ELSE UNCHANGED <<written, last_invoke>>

=============================================================================
