------------------------------ MODULE MainLoop ------------------------------
(***************************************************************************)
(* RunMPPGraph of hand_tracking_cpu_main.cc: the frame loop that pushes   *)
(* camera frames into the MediaPipe graph, blocks on six output pollers,   *)
(* sends one line of text per frame on a ZeroMQ REQ socket, waits for the  *)
(* reply and finally sends "EOQ".  The graph and the ZeroMQ server are the *)
(* environment: the graph may fail at any time, the server may crash and   *)
(* restart, losing the request it holds and the reply it has not          *)
(* delivered.  Message text is abstracted to the frame number and the      *)
(* gesture lines; landmark and rect lines are only polled.                 *)
(***************************************************************************)
EXTENDS Naturals, Sequences

CONSTANTS MaxFrames,   \* frames in the input video (capture >> returns empty after)
          MaxCrashes,  \* server crashes the environment may make
          Gestures     \* gesture names the hand_gestures stream may carry

ASSUME MaxFrames \in Nat /\ MaxCrashes \in Nat

(* The pollers in the order the loop calls Next on them.                   *)
Streams == <<"output_video", "handedness", "landmarks", "scaled_landmarks",
             "hand_gestures", "multi_hand_rects">>
HandednessStream == 2
GesturesStream == 5

(* global_handedness has two entries: at most two hands are reported.     *)
MaxHands == 2

(* The hands of one frame, as the graph lists them in both the handedness *)
(* and the hand_gestures streams.                                          *)
Hands == UNION { [1..n -> [label : {"Left", "Right"}, gesture : Gestures]] :
                   n \in 0..MaxHands }

(* A frame's outputs: its hands and whether the handedness and the         *)
(* hand_gestures packets are non-empty.                                    *)
Outputs == [hands : Hands, handedness : BOOLEAN, hand_gestures : BOOLEAN]

(* The text of a message, abstracted to its kind, the frame number and   *)
(* the gesture lines.                                                       *)
Frame(n, lines) == [kind |-> "frame", frame |-> n, gestures |-> lines]
EOQ == [kind |-> "EOQ", frame |-> 0, gestures |-> <<>>]

VARIABLES
  pc,                \* where RunMPPGraph is
  frames_left,       \* frames capture >> still returns
  frame_num,
  grab_frames,
  save_video,        \* the output_video_path flag is set
  writer_open,       \* writer.isOpened()
  global_handedness,
  ss,                \* gesture lines written to the frame's stringstream
  polled,            \* the next poller of the frame
  req_state,         \* the REQ socket's state: "send" or "recv"
  graph_state,       \* "running" or "failed"
  graph_frame,       \* "none", "pending" (pushed, not processed), "emitted"
  graph_out,         \* the outputs of the last processed frame
  to_server,         \* messages queued on the socket, not yet received
  serving,           \* the server holds a request it has not answered
  server_up,
  to_client,         \* replies on their way to the socket
  crashes,
  lost,              \* a crash lost a request or a reply
  received,          \* every message the server received, in order
  status             \* the absl::Status RunMPPGraph returns

client == <<pc, frames_left, frame_num, grab_frames, save_video, writer_open,
            global_handedness, ss, polled, req_state, status>>
env == <<graph_state, graph_frame, graph_out, to_server, serving, server_up,
         to_client, crashes, lost, received>>
vars == <<client, env>>

-----------------------------------------------------------------------------
(* global_handedness is declared inside the loop, after the output_video  *)
(* packet is read, so each frame starts from unknown labels.               *)
StaleHandedness == global_handedness
FreshHandedness == <<"unkwown", "uknown">>

(* socket.send: a REQ socket accepts a send only after the previous reply *)
(* was received; otherwise cppzmq throws zmq::error_t (EFSM), which        *)
(* nothing catches.                                                         *)
SocketSend(msg, next) ==
  IF req_state = "send"
  THEN /\ to_server' = Append(to_server, msg)
       /\ req_state' = "recv"
       /\ pc' = next
  ELSE /\ pc' = "aborted"
       /\ UNCHANGED <<to_server, req_state>>

(* InitializeAndRunMPPGraph: reading the graph config file and            *)
(* graph->Initialize may fail, and the error is returned to main before    *)
(* RunMPPGraph runs.  (ParseTextProtoOrDie on the repository's own config  *)
(* is taken to succeed.)                                                    *)
InitializeGraph ==
  /\ pc = "init"
  /\ \/ pc' = "setup" /\ UNCHANGED status
     \/ pc' = "done" /\ status' = "error"
  /\ UNCHANGED <<frames_left, frame_num, grab_frames, save_video, writer_open,
                 global_handedness, ss, polled, req_state, env>>

(* Capture, poller and StartRun failures return before the socket exists. *)
Setup ==
  /\ pc = "setup"
  /\ \/ pc' = "capture" /\ UNCHANGED status
     \/ pc' = "done" /\ status' = "error"
  /\ UNCHANGED <<frames_left, frame_num, grab_frames, save_video, writer_open,
                 global_handedness, ss, polled, req_state, env>>

CaptureNoEndOfVideo ==
  /\ pc = "capture"
  /\ pc' = "push" /\ frames_left' = frames_left - 1
  /\ UNCHANGED <<frame_num, grab_frames, save_video, writer_open,
                 global_handedness, ss, polled, req_state, status, env>>

(* capture >> camera_frame_raw; an empty frame ends the video.             *)
Capture ==
  /\ pc = "capture"
  /\ IF frames_left = 0
     THEN pc' = "eoq" /\ UNCHANGED frames_left
     ELSE pc' = "push" /\ frames_left' = frames_left - 1
  /\ UNCHANGED <<frame_num, grab_frames, save_video, writer_open,
                 global_handedness, ss, polled, req_state, status, env>>

(* AddPacketToInputStream fails once the graph has failed.                 *)
Push ==
  /\ pc = "push"
  /\ IF graph_state = "failed"
     THEN /\ pc' = "exit" /\ status' = "error"
          /\ UNCHANGED <<graph_frame, polled>>
     ELSE /\ pc' = "poll" /\ polled' = 1 /\ graph_frame' = "pending"
          /\ UNCHANGED status
  /\ UNCHANGED <<frames_left, frame_num, grab_frames, save_video, writer_open,
                 global_handedness, ss, req_state, graph_state, graph_out,
                 to_server, serving, server_up, to_client, crashes, lost, received>>

(* The new global_handedness after the handedness packet: the label of   *)
(* hand i for i < min(handedness.size(), global_handedness.size()).        *)
ReadHandedness(out) ==
  IF out.handedness
  THEN [k \in 1..MaxHands |->
          IF k <= Len(out.hands) THEN out.hands[k].label
                                 ELSE global_handedness[k]]
  ELSE global_handedness

(* The gesture lines the hand_gestures packet adds to ss: the gesture of  *)
(* every hand i < min(hand_gestures.size(), 2) that global_handedness      *)
(* labels "Right".                                                         *)
GestureLines(out) ==
  IF out.hand_gestures
  THEN LET right == SelectSeq([j \in 1..Len(out.hands) |-> j],
                              LAMBDA j : global_handedness[j] = "Right")
       IN [k \in 1..Len(right) |-> out.hands[right[k]].gesture]
  ELSE <<>>

(* The successor of the last poller.                                        *)
AfterPolls == "send"

(* Where a poller that returns false leaves the loop.                      *)
OnPollerClosedRetry == "poll"
OnPollerClosed == "eoq"

(* poller.Next(&packet) on Streams[polled]: it returns the frame's queued *)
(* packet, or false once the graph has failed with nothing queued, which   *)
(* breaks out of the loop.                                                 *)
Poll ==
  /\ pc = "poll"
  /\ \/ /\ graph_frame = "emitted"
        /\ global_handedness' =
             CASE polled = 1 -> FreshHandedness
               [] polled = HandednessStream -> ReadHandedness(graph_out)
               [] OTHER -> global_handedness
        /\ ss' = CASE polled = 1 -> <<>>
                   [] polled = GesturesStream -> ss \o GestureLines(graph_out)
                   [] OTHER -> ss
        /\ IF polled = Len(Streams)
           THEN pc' = AfterPolls /\ UNCHANGED polled
           ELSE polled' = polled + 1 /\ UNCHANGED pc
     \/ /\ graph_frame # "emitted"
        /\ graph_state = "failed"
        /\ pc' = OnPollerClosed
        /\ UNCHANGED <<global_handedness, ss, polled>>
  /\ UNCHANGED <<frames_left, frame_num, grab_frames, save_video, writer_open,
                 req_state, status, env>>

(* ss.str() sent on the socket.                                            *)
Send ==
  /\ pc = "send"
  /\ SocketSend(Frame(frame_num, ss), "display")
  /\ UNCHANGED <<frames_left, frame_num, grab_frames, save_video, writer_open,
                 global_handedness, ss, polled, status, graph_state,
                 graph_frame, graph_out, serving, server_up, to_client, crashes, lost, received>>

Display ==
  /\ pc = "display"
  /\ \/ /\ save_video /\ writer_open
        /\ pc' = "recv" /\ UNCHANGED <<writer_open, grab_frames, status>>
     \/ /\ save_video /\ ~writer_open
        /\ \/ pc' = "recv" /\ writer_open' = TRUE /\ UNCHANGED status
           \/ pc' = "exit" /\ status' = "error" /\ UNCHANGED writer_open
        /\ UNCHANGED grab_frames
     \/ /\ ~save_video
        /\ pc' = "recv"
        /\ grab_frames' \in {grab_frames, FALSE}
        /\ UNCHANGED <<writer_open, status>>
  /\ UNCHANGED <<frames_left, frame_num, save_video, global_handedness, ss,
                 polled, req_state, env>>

(* socket.recv blocks until a reply arrives; frame_num += 1, and the loop *)
(* ends here when a key was pressed.                                       *)
RecvNoIncrement ==
  /\ pc = "recv"
  /\ IF req_state = "recv"
     THEN /\ to_client # <<>>
          /\ to_client' = Tail(to_client)
          /\ req_state' = "send"
          /\ pc' = IF grab_frames THEN "capture" ELSE "eoq"
     ELSE pc' = "aborted" /\ UNCHANGED <<to_client, req_state>>
  /\ UNCHANGED <<frames_left, frame_num, grab_frames, save_video, writer_open,
                 global_handedness, ss, polled, status, graph_state,
                 graph_frame, graph_out, to_server, serving, server_up, crashes, lost, received>>

Recv ==
  /\ pc = "recv"
  /\ IF req_state = "recv"
     THEN /\ to_client # <<>>
          /\ to_client' = Tail(to_client)
          /\ req_state' = "send"
          /\ frame_num' = frame_num + 1
          /\ pc' = IF grab_frames THEN "capture" ELSE "eoq"
     ELSE /\ pc' = "aborted"
          /\ UNCHANGED <<to_client, req_state, frame_num>>
  /\ UNCHANGED <<frames_left, grab_frames, save_video, writer_open,
                 global_handedness, ss, polled, status, graph_state,
                 graph_frame, graph_out, to_server, serving, server_up, crashes, lost, received>>

(* socket.send(zmq::str_buffer("EOQ")) after the loop.                     *)
SendEOQ ==
  /\ pc = "eoq"
  /\ SocketSend(EOQ, "close")
  /\ UNCHANGED <<frames_left, frame_num, grab_frames, save_video, writer_open,
                 global_handedness, ss, polled, status, graph_state,
                 graph_frame, graph_out, serving, server_up, to_client, crashes, lost, received>>

(* socket.close(), writer.release(), CloseInputStream and WaitUntilDone:  *)
(* the status is the graph's.                                              *)
Close ==
  /\ pc = "close"
  /\ pc' = "exit"
  /\ status' = IF graph_state = "failed" THEN "error" ELSE "ok"
  /\ writer_open' = FALSE
  /\ UNCHANGED <<frames_left, frame_num, grab_frames, save_video,
                 global_handedness, ss, polled, req_state, env>>

(* Leaving RunMPPGraph destroys the zmq::context_t; zmq_ctx_term blocks   *)
(* until the closed socket's queued messages are delivered (the default   *)
(* ZMQ_LINGER is infinite).                                                *)
Exit ==
  /\ pc = "exit"
  /\ to_server = <<>>
  /\ pc' = "done"
  /\ UNCHANGED <<frames_left, frame_num, grab_frames, save_video, writer_open,
                 global_handedness, ss, polled, req_state, status, env>>

(* RunMPPGraph has returned, or the process was terminated by an uncaught *)
(* exception.                                                              *)
Terminated == pc \in {"done", "aborted"} /\ UNCHANGED vars

-----------------------------------------------------------------------------
(* Environment: the graph's threads and the server process.               *)

(* The graph computes the pushed frame's packets on every stream.          *)
GraphProcess ==
  /\ graph_frame = "pending" /\ graph_state = "running"
  /\ graph_frame' = "emitted"
  /\ graph_out' \in Outputs
  /\ UNCHANGED <<client, graph_state, to_server, serving, server_up, to_client,
                 crashes, lost, received>>

(* A calculator returns an error; the graph stops.                        *)
GraphFail ==
  /\ graph_state = "running"
  /\ graph_state' = "failed"
  /\ UNCHANGED <<client, graph_frame, graph_out, to_server, serving, server_up,
                 to_client, crashes, lost, received>>

ServerReceive ==
  /\ server_up /\ ~serving /\ to_server # <<>>
  /\ serving' = TRUE
  /\ to_server' = Tail(to_server)
  /\ received' = Append(received, Head(to_server))
  /\ UNCHANGED <<client, graph_state, graph_frame, graph_out, server_up, to_client,
                 crashes, lost>>

ServerReply ==
  /\ server_up /\ serving
  /\ serving' = FALSE
  /\ to_client' = Append(to_client, "reply")
  /\ UNCHANGED <<client, graph_state, graph_frame, graph_out, to_server, server_up,
                 crashes, lost, received>>

(* The server dies with the request it holds and its undelivered replies. *)
ServerCrash ==
  /\ server_up /\ crashes < MaxCrashes
  /\ server_up' = FALSE /\ serving' = FALSE /\ to_client' = <<>>
  /\ crashes' = crashes + 1
  /\ lost' = (lost \/ serving \/ to_client # <<>>)
  /\ UNCHANGED <<client, graph_state, graph_frame, graph_out, to_server, received>>

ServerRestart ==
  /\ ~server_up
  /\ server_up' = TRUE
  /\ UNCHANGED <<client, graph_state, graph_frame, graph_out, to_server, serving,
                 to_client, crashes, lost, received>>

-----------------------------------------------------------------------------
Init ==
  /\ pc = "init"
  /\ frames_left = MaxFrames
  /\ frame_num = 0
  /\ grab_frames = TRUE
  /\ save_video \in BOOLEAN
  /\ writer_open = FALSE
  /\ global_handedness = <<"unkwown", "uknown">>
  /\ ss = <<>>
  /\ polled = 1
  /\ req_state = "send"
  /\ status = "ok"
  /\ graph_state = "running"
  /\ graph_frame = "none"
  /\ graph_out = [hands |-> <<>>, handedness |-> FALSE, hand_gestures |-> FALSE]
  /\ to_server = <<>> /\ serving = FALSE /\ server_up = TRUE
  /\ to_client = <<>> /\ crashes = 0 /\ lost = FALSE /\ received = <<>>

Client ==
  InitializeGraph \/ Setup \/ Capture \/ Push \/ Poll \/ Send \/ Display \/ Recv \/ SendEOQ
    \/ Close \/ Exit

Environment ==
  GraphProcess \/ GraphFail \/ ServerReceive \/ ServerReply \/ ServerCrash
    \/ ServerRestart

Next == Client \/ Environment \/ Terminated

(* The loop is one thread, the graph runs its own threads and the server  *)
(* is a process of its own: each keeps taking the steps it can take.       *)
(* Nothing forces a graph failure, a server crash or a key press.          *)
Fairness ==
  /\ WF_vars(Client)
  /\ WF_vars(GraphProcess)
  /\ WF_vars(ServerReceive) /\ WF_vars(ServerReply) /\ WF_vars(ServerRestart)

Spec == Init /\ [][Next]_vars /\ Fairness

=============================================================================
