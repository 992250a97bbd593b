------------------------- MODULE MCCommandDelivery --------------------------
(* Instances of CommandDelivery for TLC.                                   *)
EXTENDS CommandDelivery, TLC

\* Migration commands are interchangeable, and so are sessions.
DeliverySymmetry == Permutations(MigCmds) \cup Permutations(Sessions)
=============================================================================
