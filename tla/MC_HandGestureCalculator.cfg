\* A landmark list of one element passes the emptiness check.
CONSTANTS
  LandmarkCounts = {0, 1, 21}
SPECIFICATION Spec
INVARIANT ReadsWithinLandmarkList
