\* One frame and one server crash.  A client blocked in socket.recv forever
\* is a state with no step, so deadlock is not reported separately: the
\* liveness property is what fails.
CONSTANTS
  MaxFrames = 1
  MaxCrashes = 1
  Gestures = {g1}
SPECIFICATION Spec
PROPERTY RunMPPGraphReturns
CHECK_DEADLOCK FALSE
