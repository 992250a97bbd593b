----------------------------- MODULE MCEventHub -----------------------------
(***************************************************************************)
(* The hub with one dashboard and one handler that broadcasts.             *)
(***************************************************************************)
EXTENDS EventHub

MCOneTenant == [c \in Conns |-> "a"]
=============================================================================
