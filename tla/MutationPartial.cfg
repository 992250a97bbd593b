SPECIFICATION Spec
CONSTANTS
  Cmds = {c1}
  Edits = {e1, e2}
  None = None
  MaxIOErrors = 1
  MaxCrashes = 0
SYMMETRY MutationSymmetry
CHECK_DEADLOCK FALSE
INVARIANTS NoPartialMigration
