----------------------------- MODULE MCWavePlan -----------------------------
(* Instances of WavePlan, with the graph of its table, for TLC.            *)
EXTENDS WaveGraph, TLC

\* Requests are interchangeable; plans are not, they have an order.
WaveSymmetry == Permutations(Reqs)
=============================================================================
