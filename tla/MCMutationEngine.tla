-------------------------- MODULE MCMutationEngine --------------------------
EXTENDS MutationEngine, TLC

\* Commands are interchangeable, and so are the administrator's edits.
MutationSymmetry == Permutations(Cmds) \cup Permutations(Edits)
=============================================================================
