---------------------------- MODULE FrameExchange ----------------------------
(***************************************************************************)
(* What the hand-tracking client promises the ZeroMQ server it talks to:  *)
(* one request per captured frame, numbered 0, 1, 2, ... in order, each    *)
(* sent only after the reply to the previous one was taken, and at most    *)
(* one final "EOQ" after which nothing is sent.  A request is abstracted   *)
(* to its kind and frame number.                                           *)
(***************************************************************************)
EXTENDS Naturals, Sequences

VARIABLES
  requests,   \* every request sent, in order
  answered    \* how many of them the client has taken a reply to

vars == <<requests, answered>>

Finished == \E i \in DOMAIN requests : requests[i].kind = "EOQ"

Init == requests = <<>> /\ answered = 0

(* The next frame's request, once the last one is answered.                *)
Request ==
  /\ answered = Len(requests) /\ ~Finished
  /\ requests' = Append(requests, [kind |-> "frame", frame |-> Len(requests)])
  /\ UNCHANGED answered

(* The client takes the reply to its outstanding frame request.            *)
Answer ==
  /\ answered < Len(requests) /\ ~Finished
  /\ answered' = answered + 1
  /\ UNCHANGED requests

(* The end of the stream, once the last request is answered.               *)
Finish ==
  /\ answered = Len(requests) /\ ~Finished
  /\ requests' = Append(requests, [kind |-> "EOQ", frame |-> 0])
  /\ UNCHANGED answered

Next == Request \/ Answer \/ Finish

Spec == Init /\ [][Next]_vars

=============================================================================
