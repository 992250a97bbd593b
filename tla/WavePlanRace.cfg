SPECIFICATION Spec
CONSTANTS
  Plans = {1}
  Reqs = {r1, r2}
  None = None
SYMMETRY WaveSymmetry
CHECK_DEADLOCK FALSE
INVARIANTS CompletedIsPermanent
