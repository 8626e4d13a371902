\* One frame, a reliable server; both the window and the save-to-file mode.
CONSTANTS
  MaxFrames = 1
  MaxCrashes = 0
  Gestures = {g1}
SPECIFICATION Spec
INVARIANT ExitAnnouncedToServer
