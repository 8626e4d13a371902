\* Three video frames, two gesture names, one server crash and restart;
\* both the window and the save-to-file mode.  A crash that loses the
\* request leaves the client blocked in socket.recv for good (see the
\* main_loop_server_crash run), a real stop, so deadlock is not checked;
\* ReturnsUnlessRequestLost covers every other way of getting stuck.
CONSTANTS
  MaxFrames = 3
  MaxCrashes = 1
  Gestures = {g1, g2}
SPECIFICATION Spec
INVARIANT TypeOK
 
PROPERTY ExchangeRefinesFrameExchange
PROPERTY GestureLinesMatchRightHands
PROPERTY ReturnsUnlessRequestLost
CHECK_DEADLOCK FALSE
