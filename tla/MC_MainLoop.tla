---------------------------- MODULE MC_MainLoop ----------------------------
(***************************************************************************)
(* Model-checking harness of MainLoop: the properties of RunMPPGraph's    *)
(* exchange with the graph and the ZeroMQ server.                          *)
(***************************************************************************)
EXTENDS MainLoop, SequencesExt, TLC

TypeOK ==
  /\ pc \in {"init", "setup", "capture", "push", "poll", "send", "display", "recv",
             "eoq", "close", "exit", "done", "aborted"}
  /\ frames_left \in 0..MaxFrames
  /\ frame_num \in 0..MaxFrames
  /\ grab_frames \in BOOLEAN /\ save_video \in BOOLEAN
  /\ writer_open \in BOOLEAN
  /\ global_handedness \in [1..MaxHands -> {"Left", "Right", "unkwown", "uknown"}]
  /\ ss \in Seq(Gestures)
  /\ polled \in 1..Len(Streams)
  /\ req_state \in {"send", "recv"}
  /\ graph_state \in {"running", "failed"}
  /\ graph_frame \in {"none", "pending", "emitted"}
  /\ graph_out \in Outputs
  /\ serving \in BOOLEAN /\ server_up \in BOOLEAN /\ crashes \in 0..MaxCrashes
  /\ status \in {"ok", "error"}

(* The reference for a frame's gesture lines: the gestures of the frame's *)
(* hands labelled Right, when both its handedness and its hand_gestures   *)
(* packets are non-empty.                                                  *)
RightHandGestures(out) ==
  IF out.handedness /\ out.hand_gestures
  THEN LET right == SelectSeq(out.hands, LAMBDA h : h.label = "Right")
       IN [k \in 1..Len(right) |-> right[k].gesture]
  ELSE <<>>

Sent == received \o to_server

(* The client's side of the exchange seen as the abstract FrameExchange:  *)
(* a request is outstanding while the REQ socket waits in recv.            *)
Exchange == INSTANCE FrameExchange
              WITH requests <- [i \in DOMAIN Sent |->
                                  [kind |-> Sent[i].kind, frame |-> Sent[i].frame]],
                   answered <- Len(Sent) - (IF req_state = "recv" THEN 1 ELSE 0)

(* RunMPPGraph implements FrameExchange: it sends the frames numbered     *)
(* 0, 1, 2, ... in order with no gap or repeat (frame_num is incremented   *)
(* once per reply), each after the reply to the previous one, and nothing *)
(* after "EOQ", whatever the graph and the server do.                      *)
ExchangeRefinesFrameExchange == Exchange!Spec

(* The gesture lines sent for a frame are exactly the gestures of that    *)
(* frame's hands labelled Right: labels of an earlier frame are never      *)
(* used (global_handedness is reset per frame).                            *)
GestureLinesMatchRightHands ==
  [][ pc = "send" /\ pc' = "display"
      => Last(to_server').gestures = RightHandGestures(graph_out) ]_vars

(* RunMPPGraph eventually returns: the loop ends with the video or an     *)
(* error, every request is answered, and the EOQ is delivered.             *)
RunMPPGraphReturns == <>(pc = "done")

(* RunMPPGraph returns in every behaviour where no server crash loses a   *)
(* request or a reply: a crash of an idle server only delays the next     *)
(* request or the EOQ the context's linger waits for.                      *)
ReturnsUnlessRequestLost == [](~lost) => RunMPPGraphReturns

(* Every exit after a frame was sent tells the server the stream ended   *)
(* (the "Finish the communication" send of EOQ).                           *)
ExitAnnouncedToServer ==
  pc = "done" /\ received # <<>> => Last(received).kind = "EOQ"

=============================================================================
