--------------------------- MODULE MCScanControl ----------------------------
(* Instances of ScanControl for TLC: the cfg files choose the verbs.       *)
EXTENDS ScanControl
=============================================================================
